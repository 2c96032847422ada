--------------------------- MODULE PythonExecutions ---------------------------
(***************************************************************************)
(* The Python tool: one conversation's executions, the session snapshot    *)
(* and artifacts they leave (backend/app/services/python_sessions.py), and *)
(* the supervisor that runs them (sandbox/server.py).                      *)
(*                                                                         *)
(* A request here is a handler between the commit of its pending turn and  *)
(* the answer of its coordinator (ChatTurns: "calling"); several may be    *)
(* there at once, because a retry does not look for other pending turns.   *)
(* Its transactions: sweep the expired data and ask the planner; record    *)
(* the execution as queued; as running; then, after the supervisor's       *)
(* answer, sweep again, store snapshot and artifacts, record the outcome.  *)
(* A sweep unlinks files at once, outside any transaction; it deletes the  *)
(* session row with its transaction, which keeps the row locked.           *)
(*                                                                         *)
(* One capability is signed for each execution, so its jti is the          *)
(* execution's index.  Snapshots are named by the execution that left them.*)
(***************************************************************************)
EXTENDS Naturals, Sequences

CONSTANTS
    Requests,    \* request handlers that may run at the same time
    Ttl,         \* python_session_ttl_seconds
    MaxRuns,     \* bound: executions recorded
    MaxTime,     \* bound: the clock
    Faults       \* may handlers die, answers get lost, the supervisor restart?

ASSUME TtlAssumption == Ttl \in Nat
ASSUME BoundsAssumption == MaxRuns \in Nat /\ MaxTime \in Nat
ASSUME FaultsAssumption == Faults \in BOOLEAN

VARIABLES
    now,
    session,     \* the python_session_states row of the conversation
    artifact,    \* python_artifact_records, and whether the file is there
    exec,        \* the Python rows of tool_executions
    consumed,    \* _CONSUMED_CAPABILITY_JTIS, in the supervisor's memory
    req

vars == <<now, session, artifact, exec, consumed, req>>

Accepted == {"succeeded", "limit_reached"}
Outcomes == Accepted \cup {"policy_error", "infra_failure"}
Open == {"queued", "running"}

(* row: the row's identity, the execution that inserted it.                *)
NoSession == [row |-> 0, by |-> 0, expires |-> 0]
Session == [row: Nat, by: Nat, expires: Nat]
Artifact == [by: Nat, expires: Nat, payload: BOOLEAN]

(* ran and forgot (a restart lost the execution's jti) are history only.   *)
Execution == [status: Open \cup Outcomes \cup {"denied"},
              ran: Nat, forgot: BOOLEAN]

Request == [pc: {"idle", "sweeping", "planning", "queued", "running",
                 "answered", "persisting", "blocked", "storing"},
            exec: Nat,
            tries: 0..2,
            outcome: Outcomes \cup {"none", "refused"},
            sweeps: BOOLEAN,             \* has deleted the row, uncommitted
            at: Nat,                     \* the clock value it goes by
            row: Nat]                    \* the row FOR UPDATE waits for or got

Idle == [pc |-> "idle", exec |-> 0, tries |-> 0, outcome |-> "none",
         sweeps |-> FALSE, at |-> 0, row |-> 0]

TypeOK ==
    /\ now \in Nat
    /\ session \in Session
    /\ artifact \in Seq(Artifact)
    /\ exec \in Seq(Execution)
    /\ consumed \subseteq DOMAIN exec
    /\ req \in [Requests -> Request]

-----------------------------------------------------------------------------
Exists == session # NoSession
Expired(x, at) == x.expires <= at

Swept ==
    [a \in DOMAIN artifact |->
        [artifact[a] EXCEPT !.payload = @ /\ ~Expired(artifact[a], now)]]

Holds(q) == req[q].sweeps \/ (req[q].pc = "storing" /\ req[q].row # 0)
LockedFor(r) == \E q \in Requests \ {r} : Holds(q)

Committed(r) == IF req[r].sweeps THEN NoSession ELSE session

Room == Len(exec) < MaxRuns
Record(status) ==
    exec' = Append(exec, [status |-> status, ran |-> 0, forgot |-> FALSE])
Ends(r) == req' = [req EXCEPT ![r] = Idle]

Init ==
    /\ now = 0
    /\ session = NoSession
    /\ artifact = <<>>
    /\ exec = <<>>
    /\ consumed = {}
    /\ req = [r \in Requests |-> Idle]

-----------------------------------------------------------------------------
(* cleanup_expired_data, before planning and before persisting *)

Unlink(r) ==
    /\ req[r].pc \in {"idle", "answered"}
    /\ artifact' = Swept
    /\ req' = [req EXCEPT ![r].pc = "sweeping", ![r].at = now]
    /\ UNCHANGED <<now, session, exec, consumed>>

(* The DELETE waits for the row it wants to delete.                        *)
Deletes(r) == Exists /\ Expired(session, req[r].at)
DeleteReady(r) == req[r].pc = "sweeping" /\ (Deletes(r) => ~LockedFor(r))

Plan(r) ==
    /\ DeleteReady(r)
    /\ req[r].exec = 0
    /\ req' = [req EXCEPT ![r].pc = "planning", ![r].sweeps = Deletes(r)]
    /\ UNCHANGED <<now, session, artifact, exec, consumed>>

(* The prompt or the missing scope rules Python out before the sweep, the  *)
(* planner after it; either way the denial is committed.                   *)
Deny(r) ==
    /\ req[r].pc \in {"idle", "planning"} /\ Room
    /\ Record("denied")
    /\ session' = Committed(r)
    /\ Ends(r)
    /\ UNCHANGED <<now, artifact, consumed>>

(* ChatProviderError: the turn is marked failed, and that commits.         *)
PlannerFails(r) ==
    /\ req[r].pc = "planning"
    /\ session' = Committed(r)
    /\ Ends(r)
    /\ UNCHANGED <<now, artifact, exec, consumed>>

Queue(r) ==
    /\ req[r].pc = "planning" /\ Room
    /\ Record("queued")
    /\ session' = Committed(r)
    /\ req' = [req EXCEPT ![r] = [Idle EXCEPT !.pc = "queued",
                                              !.exec = Len(exec) + 1]]
    /\ UNCHANGED <<now, artifact, consumed>>

Launch(r) ==
    /\ req[r].pc = "queued"
    /\ exec' = [exec EXCEPT ![req[r].exec].status = "running"]
    /\ req' = [req EXCEPT ![r].pc = "running", ![r].tries = 1]
    /\ UNCHANGED <<now, session, artifact, consumed>>

-----------------------------------------------------------------------------
(* The supervisor, as PythonClient.execute drives it *)

FreshUnlessClosed(r) ==           \* mutant: jtis are not remembered
    exec[req[r].exec].status \in Open
Fresh(r) == req[r].exec \notin consumed

Admits(r) ==
    /\ req[r].pc = "running" /\ Fresh(r)
    /\ consumed' = consumed \cup {req[r].exec}

Ran(r) == exec' = [exec EXCEPT ![req[r].exec].ran = @ + 1]

Answered(r, outcome) ==
    req' = [req EXCEPT ![r].pc = "answered", ![r].outcome = outcome]

RunsCode(r, outcome) ==
    /\ Admits(r)
    /\ Ran(r)
    /\ Answered(r, outcome)
    /\ UNCHANGED <<now, session, artifact>>

(* docker create fails or a docker command times out, or the container     *)
(* left no result: retryable, once, though the code may have run.          *)
StartFails(r) ==
    /\ Admits(r)
    /\ Ran(r) \/ UNCHANGED exec
    /\ \/ req[r].tries = 1 /\ req' = [req EXCEPT ![r].tries = 2]
       \/ req[r].tries = 2 /\ Answered(r, "infra_failure")
    /\ UNCHANGED <<now, session, artifact>>

(* 403, which the client does not tell from any other failure.             *)
Refused(r) ==
    /\ req[r].pc = "running" /\ ~Fresh(r)
    /\ Answered(r, "refused")
    /\ UNCHANGED <<now, session, artifact, exec, consumed>>

(* No answer, or 500: the call did not arrive, or the container was lost,  *)
(* or the code ran and only the answer is missing.  Not retried.           *)
Unanswered(r) ==
    /\ Faults
    /\ req[r].pc = "running"
    /\ \/ UNCHANGED <<exec, consumed>>
       \/ Admits(r) /\ (Ran(r) \/ UNCHANGED exec)
    /\ Answered(r, "infra_failure")
    /\ UNCHANGED <<now, session, artifact>>

SupervisorRestarts ==
    /\ Faults
    /\ consumed # {}
    /\ consumed' = {}
    /\ exec' = [e \in DOMAIN exec |->
                  [exec[e] EXCEPT !.forgot = @ \/ e \in consumed]]
    /\ UNCHANGED <<now, session, artifact, req>>

-----------------------------------------------------------------------------
(* persist_execution_response and the outcome *)

RecordedAsIs(r) ==                \* mutant: a status no code path knows
    req[r].outcome
Recorded(r) == IF req[r].outcome = "refused" THEN "infra_failure"
                                             ELSE req[r].outcome

(* Nothing to keep: sweep, record, commit.                                 *)
FinishNewest(r) ==                \* mutant: the newest row is updated
    /\ DeleteReady(r)
    /\ req[r].exec # 0 /\ req[r].outcome \notin Accepted
    /\ session' = IF Deletes(r) THEN NoSession ELSE session
    /\ exec' = [exec EXCEPT ![Len(exec)].status = Recorded(r)]
    /\ Ends(r)
    /\ UNCHANGED <<now, artifact, consumed>>

Finish(r) ==
    /\ DeleteReady(r)
    /\ req[r].exec # 0 /\ req[r].outcome \notin Accepted
    /\ session' = IF Deletes(r) THEN NoSession ELSE session
    /\ exec' = [exec EXCEPT ![req[r].exec].status = Recorded(r)]
    /\ Ends(r)
    /\ UNCHANGED <<now, artifact, consumed>>

(* The sweep is over; all expiry dates are computed from the clock now.    *)
Persist(r) ==
    /\ DeleteReady(r)
    /\ req[r].exec # 0 /\ req[r].outcome \in Accepted
    /\ req' = [req EXCEPT ![r].pc = "persisting", ![r].at = now,
                          ![r].sweeps = Deletes(r)]
    /\ UNCHANGED <<now, session, artifact, exec, consumed>>

(* SELECT ... FOR UPDATE finds the row, or none: its own DELETE hides it.  *)
LockRow(r) ==
    /\ req[r].pc = "persisting"
    /\ ~LockedFor(r)
    /\ req' = [req EXCEPT ![r].pc = "storing",
                          ![r].row = IF req[r].sweeps THEN 0 ELSE session.row]
    /\ UNCHANGED <<now, session, artifact, exec, consumed>>

(* ... or it waits for a row that another transaction has deleted.         *)
Blocks(r) ==
    /\ req[r].pc = "persisting"
    /\ \E q \in Requests \ {r} : req[q].sweeps
    /\ req' = [req EXCEPT ![r].pc = "blocked", ![r].row = session.row]
    /\ UNCHANGED <<now, session, artifact, exec, consumed>>

(* If that committed, the statement returns no row, even when a new row    *)
(* has been inserted meanwhile.                                            *)
UnblocksOnlyToRow(r) ==           \* mutant: waits until its row is back
    /\ req[r].pc = "blocked"
    /\ ~LockedFor(r)
    /\ session.row = req[r].row
    /\ req' = [req EXCEPT ![r].pc = "storing"]
    /\ UNCHANGED <<now, session, artifact, exec, consumed>>

Unblocks(r) ==
    /\ req[r].pc = "blocked"
    /\ ~LockedFor(r)
    /\ req' = [req EXCEPT ![r].pc = "storing",
                          ![r].row = IF session.row = @ THEN @ ELSE 0]
    /\ UNCHANGED <<now, session, artifact, exec, consumed>>

(* Two first runs: the second INSERT meets uq_..._conversation_id, and the *)
(* exception leaves the execution "running".                               *)
Conflicts(r) == req[r].row = 0 /\ ~req[r].sweeps /\ Exists

StoreConflict(r) ==
    /\ req[r].pc = "storing"
    /\ Conflicts(r)
    /\ Ends(r)
    /\ UNCHANGED <<now, session, artifact, exec, consumed>>

Extended(at, expires) ==
    [a \in DOMAIN artifact |->
        IF Expired(artifact[a], at) THEN artifact[a]
        ELSE [artifact[a] EXCEPT !.expires = expires]]

(* new: does the run return an artifact?                                   *)
Keeps(r, new) ==
    LET e == req[r].exec
        expires == req[r].at + Ttl
    IN  /\ session' = [row |-> IF req[r].row = 0 THEN e ELSE req[r].row,
                       by |-> e, expires |-> expires]
        /\ artifact' = Extended(req[r].at, expires) \o
             (IF new THEN <<[by |-> e, expires |-> expires, payload |-> TRUE]>>
                     ELSE <<>>)

StoreUnrecorded(r, new) ==        \* mutant: commits before the outcome
    /\ req[r].pc = "storing"
    /\ ~Conflicts(r)
    /\ Keeps(r, new)
    /\ req' = [req EXCEPT ![r].pc = "answered", ![r].sweeps = FALSE,
                          ![r].row = 0, ![r].outcome = "infra_failure"]
    /\ UNCHANGED <<now, exec, consumed>>

Store(r, new) ==
    /\ req[r].pc = "storing"
    /\ ~Conflicts(r)
    /\ Keeps(r, new)
    /\ exec' = [exec EXCEPT ![req[r].exec].status = Recorded(r)]
    /\ Ends(r)
    /\ UNCHANGED <<now, consumed>>

(* The process dies or the client goes away: the open transaction is undone.*)
Abandon(r) ==
    /\ Faults
    /\ req[r].pc # "idle"
    /\ Ends(r)
    /\ UNCHANGED <<now, session, artifact, exec, consumed>>

(* Sweeps as well, but never commits: only the unlinked files stay.        *)
Download ==
    /\ artifact # Swept
    /\ artifact' = Swept
    /\ UNCHANGED <<now, session, exec, consumed, req>>

Tick ==
    /\ now < MaxTime
    /\ now' = now + 1
    /\ UNCHANGED <<session, artifact, exec, consumed, req>>

-----------------------------------------------------------------------------
Planned(r) == Deny(r) \/ PlannerFails(r) \/ Queue(r)

SupervisorAnswers(r) ==
    \/ \E outcome \in Accepted \cup {"policy_error"} : RunsCode(r, outcome)
    \/ StartFails(r)
    \/ Refused(r)
    \/ Unanswered(r)

AfterSweep(r) == Plan(r) \/ Persist(r) \/ Finish(r)
GetsRow(r) == LockRow(r) \/ Unblocks(r)
Stores(r) == StoreConflict(r) \/ \E new \in BOOLEAN : Store(r, new)

Next ==
    \/ \E r \in Requests :
         \/ Unlink(r)
         \/ AfterSweep(r)
         \/ Planned(r)
         \/ Launch(r)
         \/ SupervisorAnswers(r)
         \/ GetsRow(r)
         \/ Blocks(r)
         \/ Stores(r)
         \/ Abandon(r)
    \/ SupervisorRestarts
    \/ Download
    \/ Tick

Spec == Init /\ [][Next]_vars

(***************************************************************************)
(* The planner's and the supervisor's calls have timeouts: weak fairness.  *)
(* A waiter for a row lock is queued, so it is not overtaken for ever:     *)
(* strong fairness.  Nobody is obliged to start a turn.                    *)
(***************************************************************************)
Fairness ==
    \A r \in Requests :
        /\ WF_vars(req[r].pc = "planning" /\ Planned(r))
        /\ WF_vars(Launch(r))
        /\ WF_vars(SupervisorAnswers(r))
        /\ WF_vars(req[r].pc = "answered" /\ Unlink(r))
        /\ SF_vars(AfterSweep(r))
        /\ SF_vars(GetsRow(r))
        /\ WF_vars(Stores(r))

FairSpec == Spec /\ Fairness
-----------------------------------------------------------------------------
(* PROPERTIES *)

(* D-17: whatever runs overlap and however their clocks and their commits  *)
(* are ordered, an artifact that may still be downloaded expires together  *)
(* with the snapshot, never later.                                         *)
SharedWindow ==
    \A a \in DOMAIN artifact :
        ~Expired(artifact[a], now) =>
            Exists /\ artifact[a].expires = session.expires

(* The code of an execution runs at most once: the retry of a start that   *)
(* only looked failed does not run it again, unless the supervisor has     *)
(* restarted between the two calls and lost the jti.                       *)
AtMostOneRun == \A e \in DOMAIN exec : exec[e].ran <= 1 \/ exec[e].forgot

(* What is kept of a run is backed by the evidence: a snapshot or artifact *)
(* in the database belongs to an execution recorded as accepted that ran,  *)
(* even if the handler died or lost a race for the row.                    *)
KeptIsAccepted ==
    LET Backed(e) == exec[e].status \in Accepted /\ exec[e].ran > 0
    IN  /\ Exists => Backed(session.by)
        /\ \A a \in DOMAIN artifact : Backed(artifact[a].by)

(* The two together: what is kept was accepted, and goes as one.           *)
KeptTogether == KeptIsAccepted /\ SharedWindow

(* An outcome in the evidence is final: neither a retry nor a handler that *)
(* was overtaken rewrites it.                                              *)
OutcomeIsFinal ==
    [][\A e \in DOMAIN exec :
         exec[e].status \notin Open => exec'[e].status = exec[e].status]_vars

Unsettled(e) == e \in DOMAIN exec /\ exec[e].status \in Open
Owned(e) == \E r \in Requests : req[r].exec = e

(* No execution stays open under a handler that is alive: every wait for   *)
(* the session row ends, whichever sweeps and stores are queued.           *)
ExecutionSettles ==
    \A e \in 1..MaxRuns : Unsettled(e) ~> ~(Unsettled(e) /\ Owned(e))

(* D-07 of phase 4, "The system retries once only for worker-start         *)
(* failures": the second call carries the capability that the first has    *)
(* used up.                                                                *)
RetryIsAdmitted ==
    \A r \in Requests : req[r].tries = 2 => req[r].outcome # "refused"

(* D-17, "The file payload is deleted on expiry": an artifact that has not *)
(* expired can be downloaded.  The store that extends it goes by a clock   *)
(* read before the sweep that unlinked it.                                 *)
PayloadUntilExpiry ==
    \A a \in DOMAIN artifact :
        ~Expired(artifact[a], now) => artifact[a].payload
=============================================================================
