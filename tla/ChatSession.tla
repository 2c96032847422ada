----------------------------- MODULE ChatSession -----------------------------
(***************************************************************************)
(* ChatSessionController (chat-session.ts) under ChatShell.tsx: one         *)
(* conversation with a direct and a search mode, retries in place, and a    *)
(* page that is told of a new snapshot only when a call has ended.          *)
(***************************************************************************)
EXTENDS Integers, Sequences, FiniteSets

CONSTANTS Requests,         \* requests that can be under way at a time
          MaxTyped, MaxSent, MaxLost    \* bounds

SessionConstants == {MaxTyped, MaxSent, MaxLost} \subseteq Nat

VARIABLES
    model,      \* the controller: turns, draft, mode, isPending
    context,    \* retryContext: the turns that can be retried
    view,       \* the snapshot that is rendered
    rows,       \* the turns the server has stored, by id
    request,    \* what waits for an answer
    typed, sent, lost,
    asked,      \* for each user turn, what was submitted
    unheard     \* rows whose last answer did not arrive

sessionVars == <<model, context, view, rows, request, typed, sent, lost, asked, unheard>>

Modes == {"direct", "search"}
States == {"direct", "final", "retryable"}
Outcomes(mode) == IF mode = "direct" THEN {"direct"} ELSE {"final", "retryable"}

Local(n) == <<"local", n>>
Stored(n) == <<"stored", n>>
UserTurn(text, mode, n) == [side |-> "user", id |-> Local(n), text |-> text, mode |-> mode, state |-> "direct"]
AssistantTurn(id, mode, state) == [side |-> "assistant", id |-> id, text |-> 0, mode |-> mode, state |-> state]
TransportFailure(id, mode) == AssistantTurn(id, mode, "retryable")

NoRequest == [at |-> "idle", text |-> 0, mode |-> "direct", of |-> <<"none", 0>>, slot |-> 0, ok |-> FALSE,
              id |-> 0, state |-> "direct"]

Init ==
    /\ model = [turns |-> <<>>, draft |-> 0, mode |-> "direct", pending |-> FALSE]
    /\ view = model
    /\ context = {} /\ rows = <<>> /\ asked = <<>> /\ unheard = {}
    /\ request = [r \in Requests |-> NoRequest]
    /\ typed = 0 /\ sent = 0 /\ lost = 0

-----------------------------------------------------------------------------
(* The controller's methods, called from the page. *)

SetDraft ==
    /\ ~view.pending /\ typed < MaxTyped
    /\ typed' = typed + 1
    /\ model' = [model EXCEPT !.draft = typed + 1] /\ view' = model'
    /\ UNCHANGED <<context, rows, request, sent, lost, asked, unheard>>

SetMode(mode) ==
    /\ ~view.pending /\ mode # view.mode
    /\ model' = IF model.pending THEN model ELSE [model EXCEPT !.mode = mode]
    /\ view' = model'
    /\ UNCHANGED <<context, rows, request, typed, sent, lost, asked, unheard>>

\* A suggestion of a search answer goes into the composer, pending or not.
PrefillSuggestion ==
    /\ typed < MaxTyped
    /\ \E i \in DOMAIN view.turns : view.turns[i].side = "assistant" /\ view.turns[i].state = "final"
    /\ typed' = typed + 1
    /\ model' = [model EXCEPT !.mode = "search", !.draft = typed + 1] /\ view' = model'
    /\ UNCHANGED <<context, rows, request, sent, lost, asked, unheard>>

MaySubmit == model.draft # 0 /\ ~model.pending

SubmitTurn(r) ==
    /\ request[r] = NoRequest /\ ~view.pending /\ MaySubmit /\ sent < MaxSent
    /\ sent' = sent + 1
    /\ asked' = Append(asked, model.draft)
    /\ request' = [request EXCEPT ![r] = [NoRequest EXCEPT !.at = "sent", !.text = sent + 1, !.mode = model.mode]]
    /\ model' = [model EXCEPT !.turns = Append(@, UserTurn(sent + 1, model.mode, sent + 1)), !.draft = 0,
                              !.pending = TRUE]
    /\ UNCHANGED <<context, view, rows, typed, lost, unheard>>

RetryOf(id) == id

RetryTurn(r) ==
    /\ request[r] = NoRequest /\ ~model.pending /\ sent < MaxSent
    /\ \E i \in DOMAIN view.turns, c \in context :
         LET turn == view.turns[i] IN
         /\ turn.side = "assistant" /\ turn.state = "retryable" /\ c.id = turn.id
         /\ \E slot \in DOMAIN model.turns :
              /\ model.turns[slot].side = "assistant" /\ model.turns[slot].id = turn.id
              /\ model.turns[slot].state = "retryable"
              /\ request' = [request EXCEPT ![r] = [NoRequest EXCEPT !.at = "sent", !.text = c.text, !.mode = c.mode,
                                                      !.of = RetryOf(turn.id), !.slot = slot]]
    /\ sent' = sent + 1 /\ asked' = Append(asked, 0)
    /\ model' = [model EXCEPT !.pending = TRUE]
    /\ UNCHANGED <<context, view, rows, typed, lost, unheard>>

-----------------------------------------------------------------------------
(* The server, and what is lost on the way (services/chat_turns.py). *)

Answers(r, id, state) ==
    request' = [request EXCEPT ![r].at = "answered", ![r].ok = TRUE, ![r].id = id, ![r].state = state]
Refuses(r) == request' = [request EXCEPT ![r].at = "answered", ![r].ok = FALSE]

\* A local id is no id of a message, and only a retryable search is retried.
Accepts(r) ==
    LET q == request[r] IN
    /\ q.at = "sent"
    /\ IF q.of[1] = "none"
       THEN \E state \in Outcomes(q.mode) :
              /\ rows' = Append(rows, [text |-> q.text, state |-> state])
              /\ Answers(r, Len(rows) + 1, state)
       ELSE IF q.of[1] = "local" \/ rows[q.of[2]].state # "retryable"
       THEN Refuses(r) /\ UNCHANGED rows
       ELSE \E state \in Outcomes("search") :
              /\ rows' = [rows EXCEPT ![q.of[2]].state = state]
              /\ Answers(r, q.of[2], state)
    /\ UNCHANGED <<model, context, view, typed, sent, lost, asked, unheard>>

\* Rolled back by the server, or an answer that never arrives.
Fails(r) ==
    /\ request[r].at = "sent" \/ (request[r].at = "answered" /\ request[r].ok)
    /\ lost < MaxLost /\ lost' = lost + 1
    /\ Refuses(r)
    /\ unheard' = IF request[r].at = "answered" THEN unheard \cup {request[r].id} ELSE unheard
    /\ UNCHANGED <<model, context, view, rows, typed, sent, asked>>

-----------------------------------------------------------------------------
(* The rest of submitTurn and retryTurn; then the page gets the snapshot.   *)

Ended(r) == request' = [request EXCEPT ![r] = NoRequest]
Remembers(id, q) == context' = {c \in context : c.id # id} \cup {[id |-> id, text |-> q.text, mode |-> q.mode]}

TurnAnswered(r) ==
    LET q == request[r] IN
    /\ q.at = "answered" /\ q.ok /\ q.slot = 0
    /\ Ended(r) /\ Remembers(Stored(q.id), q)
    /\ model' = [model EXCEPT !.turns = Append(@, AssistantTurn(Stored(q.id), q.mode, q.state)), !.pending = FALSE]
    /\ view' = model'
    /\ UNCHANGED <<rows, typed, sent, lost, asked, unheard>>

\* A search leaves a failed turn with a local id; a direct prompt goes back
\* into the composer, in place of what was written there meanwhile.
TurnFailed(r) ==
    LET q == request[r]
        id == Local(sent)
    IN  /\ q.at = "answered" /\ ~q.ok /\ q.slot = 0
        /\ Ended(r)
        /\ IF q.mode = "search"
           THEN /\ Remembers(id, q)
                /\ model' = [model EXCEPT !.turns = Append(@, TransportFailure(id, q.mode)), !.pending = FALSE]
           ELSE /\ model' = [model EXCEPT !.turns = SubSeq(@, 1, Len(@) - 1), !.draft = asked[q.text],
                                          !.pending = FALSE]
                /\ UNCHANGED context
        /\ view' = model'
        /\ UNCHANGED <<rows, typed, sent, lost, asked, unheard>>

InPlace(q, turn) == [model.turns EXCEPT ![q.slot] = turn]

RetryAnswered(r) ==
    LET q == request[r]
        id == model.turns[q.slot].id
    IN  /\ q.at = "answered" /\ q.slot # 0
        /\ Ended(r)
        /\ model' = [model EXCEPT !.pending = FALSE,
                        !.turns = InPlace(q, IF q.ok THEN AssistantTurn(id, q.mode, q.state)
                                             ELSE TransportFailure(id, q.mode))]
        /\ view' = model'
        /\ UNCHANGED <<context, rows, typed, sent, lost, asked, unheard>>

Next ==
    \/ SetDraft
    \/ PrefillSuggestion
    \/ \E mode \in Modes : SetMode(mode)
    \/ \E r \in Requests : \/ SubmitTurn(r) \/ RetryTurn(r) \/ Accepts(r) \/ Fails(r)
                           \/ TurnAnswered(r) \/ TurnFailed(r) \/ RetryAnswered(r)

Spec == Init /\ [][Next]_sessionVars

-----------------------------------------------------------------------------
(* Properties. *)

Quiet == \A r \in Requests : request[r] = NoRequest

TypeOK ==
    /\ \A m \in {model, view} : /\ m.draft \in 0..MaxTyped /\ m.mode \in Modes /\ m.pending \in BOOLEAN
                                /\ \A i \in DOMAIN m.turns : m.turns[i].state \in States
    /\ \A i \in DOMAIN rows : rows[i].text \in 1..MaxSent /\ rows[i].state \in States
    /\ Len(asked) = sent /\ typed \in 0..MaxTyped /\ sent \in 0..MaxSent /\ lost \in 0..MaxLost
    /\ unheard \subseteq DOMAIN rows

(* What was written once is stored once, however often it was sent or      *)
(* retried, unless the page never heard that it was stored.                 *)
StoredOnce ==
    \A i, j \in DOMAIN rows :
        asked[rows[i].text] = asked[rows[j].text] => i = j \/ unheard \cap {i, j} # {}

(* A reply stands below the prompt it was stored with, in its stored state  *)
(* when nothing is under way and its last answer arrived.                   *)
ShownAsStored ==
    \A i \in DOMAIN model.turns :
        LET turn == model.turns[i] IN
        turn.side = "assistant" /\ turn.id[1] = "stored" =>
            /\ i > 1 /\ model.turns[i - 1].side = "user" /\ model.turns[i - 1].text = rows[turn.id[2]].text
            /\ Quiet /\ turn.id[2] \notin unheard => turn.state = rows[turn.id[2]].state
=============================================================================
