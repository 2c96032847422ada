------------------------------ MODULE ChatTurns ------------------------------
(***************************************************************************)
(* One conversation and the HTTP requests that act on it.                  *)
(*                                                                         *)
(* Two services write the same message log: ChatService (send, retry,      *)
(* create, delete, undo: backend/app/services/chat.py) commits a user      *)
(* message with a pending assistant message, calls the provider outside    *)
(* any transaction and later resolves the pending row; ChatTurnsService    *)
(* (submit_turn: backend/app/services/chat_turns.py) does the whole turn,  *)
(* the search worker's call included, in one transaction that holds the    *)
(* conversation's row lock.  Owners never share a conversation, so one     *)
(* conversation of one owner is the whole story of a row; requests of a    *)
(* stranger find no row and change nothing.                                *)
(*                                                                         *)
(* A message is the entry of the log at its sequence_no: every insert runs *)
(* under the row lock and takes max + 1.  Content is abstracted away; what *)
(* remains of metadata is the search state submit_turn's retry reads.      *)
(***************************************************************************)
EXTENDS Naturals, Sequences

CONSTANTS
    Requests,    \* request handlers that may run at the same time
    ClientIds,   \* client_message_id values
    NoClient,    \* client_message_id IS NULL (assistant rows, /turns rows)
    MaxSeq,      \* bound: messages in the log
    Faults       \* may a handler die without reaching its except clause?

ASSUME NoClientAssumption == NoClient \notin ClientIds
ASSUME MaxSeqAssumption == MaxSeq \in Nat
ASSUME FaultsAssumption == Faults \in BOOLEAN

VARIABLES
    conv,        \* the conversations row: its deleted_at, and whether it exists
    msgs,        \* the committed messages, in sequence_no order
    req          \* what each request handler is doing

vars == <<conv, msgs, req>>

Statuses == {"pending", "completed", "failed"}
SearchTags == {"none", "retryable", "final"}  \* metadata.search.state, by class
Message == [role: {"user", "assistant"}, status: Statuses,
            cid: ClientIds \cup {NoClient}, search: SearchTags,
            retried: BOOLEAN]                 \* retried: history only

(***************************************************************************)
(* A handler is idle; or has committed its pending turn and is "calling"   *)
(* the provider; or has executed the UPDATE that resolves the turn and     *)
(* still has to touch the conversation and commit ("resolved").  A         *)
(* submit_turn handler holds the conversation's row lock while it waits    *)
(* for the row lock of its retry target ("waiting") and while the search   *)
(* worker runs ("searching").                                              *)
(***************************************************************************)
Request == [pc: {"idle", "calling", "resolved", "waiting", "searching"},
            seq: Nat,                  \* the assistant message, 0 for none
            ctx: SUBSET Nat,           \* messages handed to the provider
            status: Statuses,          \* uncommitted result
            search: SearchTags]

Idle == [pc |-> "idle", seq |-> 0, ctx |-> {}, status |-> "pending",
         search |-> "none"]

TypeOK ==
    /\ conv \in {"absent", "active", "deleted", "expired"}
    /\ msgs \in Seq(Message)
    /\ req \in [Requests -> Request]

-----------------------------------------------------------------------------
UserMessage(c) == [role |-> "user", status |-> "completed", cid |-> c,
                   search |-> "none", retried |-> FALSE]
ReplySwapped(st, tag) ==      \* mutant: state and status change places
    [role |-> "assistant", status |-> tag, cid |-> NoClient, search |-> st,
     retried |-> FALSE]
Reply(st, tag) == [role |-> "assistant", status |-> st, cid |-> NoClient,
                   search |-> tag, retried |-> FALSE]

WithTurn(c, reply) == Append(Append(msgs, UserMessage(c)), reply)
Room == Len(msgs) + 2 <= MaxSeq

(* Row locks that outlive a step.  Every other transaction of the two      *)
(* services takes the conversation's row lock and commits in one step.     *)
ConvLocked == \E q \in Requests : req[q].pc \in {"waiting", "searching"}
MsgLocked(s) ==
    \E q \in Requests : req[q].pc \in {"resolved", "searching"} /\ req[q].seq = s

Pending(i) ==
    i \in DOMAIN msgs /\ msgs[i].role = "assistant" /\ msgs[i].status = "pending"
Accepted(c) == \E i \in DOMAIN msgs : msgs[i].cid = c
InFlight(r) == req[r].pc \in {"calling", "resolved"}

ContextOfWholeLog(m, through) ==      \* mutant: no through_sequence_no
    {i \in DOMAIN m : m[i].status = "completed"}
ProviderContext(m, through) == {i \in 1..through : m[i].status = "completed"}

(* The pending turn is committed and the handler goes on to the provider.  *)
StartTurn(r, m, s) ==
    /\ msgs' = m
    /\ req' = [req EXCEPT ![r] =
                 [Idle EXCEPT !.pc = "calling", !.seq = s,
                              !.ctx = ProviderContext(m, s - 1)]]

Init ==
    /\ conv = "absent"
    /\ msgs = <<>>
    /\ req = [r \in Requests |-> Idle]

-----------------------------------------------------------------------------
(* ChatService *)

CreateConversation(r) ==
    /\ req[r].pc = "idle"
    /\ conv = "absent" /\ ~ConvLocked
    /\ conv' = "active"
    /\ UNCHANGED <<msgs, req>>

CreateWithMessage(r, c) ==
    /\ req[r].pc = "idle"
    /\ conv = "absent" /\ ~ConvLocked /\ Room
    /\ conv' = "active"
    /\ StartTurn(r, WithTurn(c, Reply("pending", "none")), Len(msgs) + 2)

SendDespitePending(r, c) ==     \* mutant: no get_pending_assistant
    /\ req[r].pc = "idle"
    /\ conv = "active" /\ ~ConvLocked /\ Room
    /\ ~Accepted(c)
    /\ StartTurn(r, WithTurn(c, Reply("pending", "none")), Len(msgs) + 2)
    /\ UNCHANGED conv

SendToDeleted(r, c) ==          \* mutant: lock_owned ignores deleted_at
    /\ req[r].pc = "idle"
    /\ conv # "absent" /\ ~ConvLocked /\ Room
    /\ ~Accepted(c)
    /\ \A i \in DOMAIN msgs : ~Pending(i)
    /\ StartTurn(r, WithTurn(c, Reply("pending", "none")), Len(msgs) + 2)
    /\ UNCHANGED conv

(* Refused while any assistant row is pending (409); a client id already   *)
(* in the log is answered from the log (both leave everything as it is).   *)
Send(r, c) ==
    /\ req[r].pc = "idle"
    /\ conv = "active" /\ ~ConvLocked /\ Room
    /\ ~Accepted(c)
    /\ \A i \in DOMAIN msgs : ~Pending(i)
    /\ StartTurn(r, WithTurn(c, Reply("pending", "none")), Len(msgs) + 2)
    /\ UNCHANGED conv

RetryUnlessCompleted(r, c) ==   \* mutant: no TurnInProgressError
    /\ req[r].pc = "idle"
    /\ conv = "active" /\ ~ConvLocked
    /\ \E i \in DOMAIN msgs :
         /\ msgs[i].cid = c
         /\ i + 1 \in DOMAIN msgs
         /\ msgs[i + 1].status # "completed"
         /\ StartTurn(r, [msgs EXCEPT ![i + 1] =
                            [Reply("pending", "none") EXCEPT !.retried = TRUE]],
                      i + 1)
    /\ UNCHANGED conv

RetryUnlessPending(r, c) ==     \* mutant: a completed turn is taken up again
    /\ req[r].pc = "idle"
    /\ conv = "active" /\ ~ConvLocked
    /\ \E i \in DOMAIN msgs :
         /\ msgs[i].cid = c
         /\ i + 1 \in DOMAIN msgs
         /\ msgs[i + 1].status # "pending"
         /\ StartTurn(r, [msgs EXCEPT ![i + 1] =
                            [Reply("pending", "none") EXCEPT !.retried = TRUE]],
                      i + 1)
    /\ UNCHANGED conv

(* The only assistant row it looks at is the one paired with the message.  *)
Retry(r, c) ==
    /\ req[r].pc = "idle"
    /\ conv = "active" /\ ~ConvLocked
    /\ \E i \in DOMAIN msgs :
         /\ msgs[i].cid = c
         /\ i + 1 \in DOMAIN msgs
         /\ msgs[i + 1].role = "assistant"
         /\ msgs[i + 1].status = "failed"
         /\ StartTurn(r, [msgs EXCEPT ![i + 1] =
                            [Reply("pending", "none") EXCEPT !.retried = TRUE]],
                      i + 1)
    /\ UNCHANGED conv

(* The provider answered (the coordinator's search, if it ran one, left a  *)
(* search state), or raised ChatProviderError: the UPDATE by message id,   *)
(* whatever the row's status, is executed but not committed.               *)
Resolve(r, st, tag) ==
    /\ req[r].pc = "calling"
    /\ ~MsgLocked(req[r].seq)
    /\ st = "failed" => tag = "none"
    /\ req' = [req EXCEPT ![r].pc = "resolved", ![r].status = st,
                          ![r].search = tag]
    /\ UNCHANGED <<conv, msgs>>

CommitNewestTurn(r) ==          \* mutant: the newest row, not the row by id
    /\ req[r].pc = "resolved"
    /\ ~ConvLocked
    /\ msgs' = [msgs EXCEPT ![Len(msgs)] = Reply(req[r].status, req[r].search)]
    /\ req' = [req EXCEPT ![r] = Idle]
    /\ UNCHANGED conv

CommitWhileActive(r) ==         \* mutant: touches undeleted conversations only
    /\ req[r].pc = "resolved"
    /\ ~ConvLocked /\ conv = "active"
    /\ msgs' = [msgs EXCEPT ![req[r].seq] =
                  [Reply(req[r].status, req[r].search) EXCEPT
                     !.retried = msgs[req[r].seq].retried]]
    /\ req' = [req EXCEPT ![r] = Idle]
    /\ UNCHANGED conv

(* touch_conversation gets the conversation's row lock, and the commit.    *)
CommitTurn(r) ==
    /\ req[r].pc = "resolved"
    /\ ~ConvLocked
    /\ msgs' = [msgs EXCEPT ![req[r].seq] =
                  [Reply(req[r].status, req[r].search) EXCEPT
                     !.retried = msgs[req[r].seq].retried]]
    /\ req' = [req EXCEPT ![r] = Idle]
    /\ UNCHANGED conv

(* Any other exception, or the end of the process: the except clause that  *)
(* marks the turn failed is not reached and an open transaction is undone. *)
Abandon(r) ==
    /\ Faults
    /\ req[r].pc # "idle"
    /\ req' = [req EXCEPT ![r] = Idle]
    /\ UNCHANGED <<conv, msgs>>

Delete ==
    /\ conv = "active" /\ ~ConvLocked
    /\ conv' = "deleted"
    /\ UNCHANGED <<msgs, req>>

UndoDelete ==
    /\ conv = "deleted" /\ ~ConvLocked
    /\ conv' = "active"
    /\ UNCHANGED <<msgs, req>>

UndoWindowCloses ==      \* UNDO_DELETE_WINDOW_SECONDS have passed
    /\ conv = "deleted"
    /\ conv' = "expired"
    /\ UNCHANGED <<msgs, req>>

-----------------------------------------------------------------------------
(* ChatTurnsService.submit_turn *)

Submittable == conv \in {"absent", "active"} /\ ~ConvLocked

(* A turn that needs no worker: blocked by the guardrail or direct_chat    *)
(* (no search state), search denied ("final") or unavailable ("retryable").*)
SubmitWithoutWorker(r, tag) ==
    /\ req[r].pc = "idle"
    /\ Submittable /\ Room
    /\ conv' = "active"
    /\ msgs' = WithTurn(NoClient, Reply("completed", tag))
    /\ UNCHANGED req

SubmitSearch(r) ==
    /\ req[r].pc = "idle"
    /\ Submittable /\ Room
    /\ req' = [req EXCEPT ![r].pc = "searching"]
    /\ UNCHANGED <<conv, msgs>>

(* retry_of_message_id may name any message: it is locked, then judged.    *)
SubmitRetry(r, s) ==
    /\ req[r].pc = "idle"
    /\ conv = "active" /\ ~ConvLocked
    /\ req' = [req EXCEPT ![r].pc = "waiting", ![r].seq = s]
    /\ UNCHANGED <<conv, msgs>>

Retryable(s) ==
    /\ msgs[s].role = "assistant"
    /\ msgs[s].search = "retryable"
    /\ s - 1 \in DOMAIN msgs
    /\ msgs[s - 1].role = "user"

RefusedWithoutRollback(r) ==    \* mutant: the refusal leaves the transaction open
    /\ req[r].pc = "waiting"
    /\ ~MsgLocked(req[r].seq)
    /\ ~Retryable(req[r].seq)
    /\ UNCHANGED vars

RetryRefused(r) ==
    /\ req[r].pc = "waiting"
    /\ ~MsgLocked(req[r].seq)
    /\ ~Retryable(req[r].seq)
    /\ req' = [req EXCEPT ![r] = Idle]
    /\ UNCHANGED <<conv, msgs>>

RetryWithoutWorker(r, tag) ==
    /\ req[r].pc = "waiting"
    /\ ~MsgLocked(req[r].seq)
    /\ Retryable(req[r].seq)
    /\ msgs' = [msgs EXCEPT ![req[r].seq].search = tag]
    /\ req' = [req EXCEPT ![r] = Idle]
    /\ UNCHANGED conv

RetrySearch(r) ==
    /\ req[r].pc = "waiting"
    /\ ~MsgLocked(req[r].seq)
    /\ Retryable(req[r].seq)
    /\ req' = [req EXCEPT ![r].pc = "searching"]
    /\ UNCHANGED <<conv, msgs>>

SubmitCommit(r, tag) ==
    /\ req[r].pc = "searching"
    /\ tag # "none"
    /\ conv' = IF conv = "absent" THEN "active" ELSE conv
    /\ msgs' = IF req[r].seq = 0
                 THEN WithTurn(NoClient, Reply("completed", tag))
                 ELSE [msgs EXCEPT ![req[r].seq].search = tag]
    /\ req' = [req EXCEPT ![r] = Idle]

KeepPromptOfFailedSearch(r) ==  \* mutant: the user message is committed first
    /\ req[r].pc = "searching"
    /\ conv' = "active"
    /\ msgs' = Append(msgs, UserMessage(NoClient))
    /\ req' = [req EXCEPT ![r] = Idle]

(* The worker raised: rollback, nothing of the turn remains.               *)
SubmitRollback(r) ==
    /\ req[r].pc = "searching"
    /\ req' = [req EXCEPT ![r] = Idle]
    /\ UNCHANGED <<conv, msgs>>

(* PostgreSQL: r holds the message row and wants the conversation row, q   *)
(* holds the conversation row and wants the message row; one is the victim.*)
DeadlockVictim(r, q, v) ==
    /\ req[r].pc = "resolved"
    /\ req[q].pc = "waiting" /\ req[q].seq = req[r].seq
    /\ v \in {r, q}
    /\ req' = [req EXCEPT ![v] = Idle]
    /\ UNCHANGED <<conv, msgs>>

-----------------------------------------------------------------------------
ClientStep(r) ==
    \/ CreateConversation(r)
    \/ \E c \in ClientIds : CreateWithMessage(r, c) \/ Send(r, c) \/ Retry(r, c)
    \/ \E tag \in SearchTags : SubmitWithoutWorker(r, tag)
    \/ SubmitSearch(r)
    \/ \E s \in DOMAIN msgs : SubmitRetry(r, s)

ProviderReturns(r) ==
    \E st \in {"completed", "failed"}, tag \in SearchTags : Resolve(r, st, tag)

WorkerReturns(r) ==
    SubmitRollback(r) \/ \E tag \in SearchTags : SubmitCommit(r, tag)

RetryLocked(r) ==
    \/ RetryRefused(r)
    \/ RetrySearch(r)
    \/ \E tag \in SearchTags : RetryWithoutWorker(r, tag)

DeadlockDetected(r) ==
    \E q \in Requests : \E v \in {r, q} : DeadlockVictim(r, q, v)

Next ==
    \/ \E r \in Requests :
         \/ ClientStep(r)
         \/ ProviderReturns(r)
         \/ CommitTurn(r)
         \/ WorkerReturns(r)
         \/ RetryLocked(r)
         \/ DeadlockDetected(r)
         \/ Abandon(r)
    \/ Delete
    \/ UndoDelete
    \/ UndoWindowCloses

Spec == Init /\ [][Next]_vars

(***************************************************************************)
(* Provider and search calls are bounded by timeouts, and PostgreSQL       *)
(* detects a deadlock after deadlock_timeout: weak fairness.  A row lock   *)
(* is granted in the order of the queue on the tuple, so a waiter is not   *)
(* overtaken for ever by later ones: strong fairness for the two steps     *)
(* that wait for a lock.  Clients are never obliged to act.                *)
(***************************************************************************)
Fairness ==
    \A r \in Requests :
        /\ WF_vars(ProviderReturns(r))
        /\ WF_vars(WorkerReturns(r))
        /\ WF_vars(DeadlockDetected(r))
        /\ SF_vars(CommitTurn(r))
        /\ SF_vars(RetryLocked(r))

FairSpec == Spec /\ Fairness
-----------------------------------------------------------------------------
(* PROPERTIES *)

(* complete_assistant_message and fail_assistant_message write by message  *)
(* id and never look at the status they overwrite.  What makes that sound: *)
(* a request on its way to that write is the only one for its message, and *)
(* the message is still pending.                                           *)
OneWriterPerTurn ==
    \A r \in Requests : InFlight(r) =>
        /\ Pending(req[r].seq)
        /\ \A q \in Requests :
              InFlight(q) /\ req[q].seq = req[r].seq => q = r

(* Two services and a retry that looks up "sequence_no + 1" rely on it:    *)
(* the log is a sequence of completed user messages, each followed by its  *)
(* assistant message.                                                      *)
TurnsArePaired ==
    /\ Len(msgs) % 2 = 0
    /\ \A i \in DOMAIN msgs :
         IF i % 2 = 1 THEN msgs[i].role = "user" /\ msgs[i].status = "completed"
                      ELSE msgs[i].role = "assistant" /\ msgs[i].cid = NoClient

(* Idempotency: a client_message_id is accepted into the log at most once, *)
(* however sends, retries and deletions of the conversation interleave.    *)
UniqueClientMessages ==
    \A i, j \in DOMAIN msgs :
        msgs[i].cid = msgs[j].cid /\ msgs[i].cid # NoClient => i = j

(* The two together: the shape of the log and the idempotency of sends.    *)
LogIsWellFormed == TurnsArePaired /\ UniqueClientMessages

(* The coordinator routes on the last message it is given.  It is the      *)
(* user message of the turn being answered, also when an old turn is       *)
(* retried below newer ones, and everything before it is still completed.  *)
PromptIsOwnUserMessage ==
    \A r \in Requests : InFlight(r) =>
        /\ req[r].seq - 1 \in req[r].ctx
        /\ \A i \in req[r].ctx :
              i \in 1..(req[r].seq - 1) /\ msgs[i].status = "completed"

(* What is left of "one in-flight turn": two turns are pending at the same *)
(* time only if at least one of them is a retry.                           *)
FirstAttemptsNeverOverlap ==
    \A i, j \in DOMAIN msgs :
        i # j /\ Pending(i) /\ Pending(j) => msgs[i].retried \/ msgs[j].retried

(* History is append-only, and a completed message is never pending or     *)
(* failed again, whichever service touches it.                             *)
HistoryIsFinal ==
    [][\A i \in DOMAIN msgs :
         /\ i \in DOMAIN msgs'
         /\ msgs'[i].cid = msgs[i].cid
         /\ msgs[i].status = "completed" => msgs'[i].status = "completed"]_vars

(* A deleted conversation takes no new message and no new provider call,   *)
(* not even from a search turn that was running when it was deleted; after *)
(* the undo window it never comes back.                                    *)
NothingReachesDeleted ==
    /\ Len(msgs') = Len(msgs)
    /\ \A r \in Requests : req'[r].pc = "calling" => req[r].pc = "calling"
    /\ conv = "expired" => conv' = "expired"
DeletedIsClosed ==
    [][(conv = "deleted" \/ conv = "expired") => NothingReachesDeleted]_vars

(* What the owner is promised (TurnLedger), client message by message, is  *)
(* what the two services and their locks do to the log.                    *)
TurnOf(c) ==
    IF Accepted(c)
      THEN msgs[(CHOOSE i \in DOMAIN msgs : msgs[i].cid = c) + 1].status
      ELSE "none"
Closed ==
    CASE conv = "deleted" -> "yes"
      [] conv = "expired" -> "forever"
      [] OTHER -> "no"
Ledger == INSTANCE TurnLedger WITH
            Turns <- ClientIds, turn <- [c \in ClientIds |-> TurnOf(c)],
            closed <- Closed
ImplementsLedger == Ledger!Spec

Orphan(i) == Pending(i) /\ \A r \in Requests : ~(InFlight(r) /\ req[r].seq = i)

(* Every pending turn is resolved or its request has died: lock waits end, *)
(* whatever search turns and retries queue up on the same rows.            *)
TurnSettles ==
    \A i \in 1..MaxSeq :
        Pending(i) ~> (~Pending(i) \/ Orphan(i))

(* No submit_turn keeps the conversation locked for ever.                  *)
LockReleased == ConvLocked ~> ~ConvLocked

(* D-12 of phase 2, "A conversation permits only one in-flight assistant   *)
(* turn at a time": retry_message never looks for another pending turn.    *)
OneInFlightTurn ==
    \A i, j \in DOMAIN msgs : Pending(i) /\ Pending(j) => i = j

(* A persisted pending row ends completed or failed, with no fault but a   *)
(* deadlock PostgreSQL breaks: _complete_turn and submit_turn take the     *)
(* message's and the conversation's row lock in opposite orders.           *)
PendingTurnResolves ==
    \A i \in 1..MaxSeq : Pending(i) ~> ~Pending(i)
=============================================================================
