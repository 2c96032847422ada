----------------------------- MODULE ChatClient -----------------------------
(***************************************************************************)
(* The browser's chat workspace (ChatWorkspace.tsx) before a server that    *)
(* keeps conversations and runs turns.  Each handler is asynchronous: it    *)
(* works with the state of the render it was called in, and applies what    *)
(* the server answers whenever the answer comes.                            *)
(***************************************************************************)
EXTENDS Integers, Sequences, FiniteSets

CONSTANTS Convs,        \* conversation ids
          Existing,     \* those the user has when the page opens
          Slots,        \* requests that can be in flight at a time
          PageSize,     \* conversations in one page of the list
          MaxPrompts, MaxAsks, MaxFaults,   \* bounds
          None

ClientConstants ==
    /\ Existing \subseteq Convs /\ IsFiniteSet(Convs) /\ None \notin Convs
    /\ {PageSize, MaxPrompts, MaxAsks, MaxFaults} \subseteq Nat /\ PageSize > 0

VARIABLES
    store,      \* the server's conversations
    shown,      \* activeConversation
    listed,     \* conversations in the sidebar
    cursor,     \* nextCursor: the age of the last row, 0 for null
    draft,      \* the prompt in the composer, 0 when empty
    sending, retrying, deleting, undoing, loadingMore,
    toast,      \* deletedConversationId
    timers,     \* timeouts that will close the toast
    calls,      \* requests in flight with the closures that wait for them
    typed, asks, faults,
    chosen,     \* the conversation the user wants to see
    last,       \* the last conversation whose deletion was answered
    excuses     \* what excuses a property

pageVars == <<shown, listed, cursor, draft, sending, retrying, deleting, undoing, loadingMore, toast, timers>>
clientVars == <<store, pageVars, calls, typed, asks, faults, chosen, last, excuses>>

Turn == [key : 1..MaxAsks, prompt : 1..MaxPrompts, status : {"pending", "completed", "failed"}]
NoThread == [id |-> None, turns |-> <<>>]
Thread(c) == [id |-> c, turns |-> store[c].turns]

NoReply == [out |-> "none", thread |-> NoThread, rows |-> {}, cursor |-> 0, first |-> None]
NoCall == [kind |-> "none", at |-> "idle", conv |-> None, key |-> 0, prompt |-> 0, seen |-> NoThread,
           owner |-> "none", place |-> None, reply |-> NoReply]
Call(kind, c) == [NoCall EXCEPT !.kind = kind, !.at = "sent", !.conv = c, !.seen = shown]

Init ==
    /\ \E age \in [Existing -> 1..Cardinality(Existing)] :
         /\ \A c, d \in Existing : c # d => age[c] # age[d]
         /\ store = [c \in Convs |-> IF c \in Existing
                        THEN [stage |-> "active", age |-> age[c], turns |-> <<>>]
                        ELSE [stage |-> "absent", age |-> 0, turns |-> <<>>]]
    /\ shown = NoThread /\ listed = {} /\ cursor = 0 /\ draft = 0
    /\ sending = FALSE /\ retrying = 0 /\ deleting = None /\ undoing = FALSE /\ loadingMore = FALSE
    /\ toast = None /\ timers = {}
    /\ \E s \in Slots : calls = [[t \in Slots |-> NoCall] EXCEPT ![s] = Call("load", None)]
    /\ typed = 0 /\ asks = 0 /\ faults = 0 /\ chosen = None /\ last = None /\ excuses = {}

-----------------------------------------------------------------------------
(* What the user does. *)

Pending == \E i \in DOMAIN shown.turns : shown.turns[i].status = "pending"
Busy(kinds) == \E s \in Slots : calls[s].kind \in kinds
Navigates == {"select", "submit", "retry", "relist", "reload"}
Lists == {"load", "more", "submit", "retry", "relist", "reload"}

Asks(s, call) ==
    /\ calls[s] = NoCall /\ asks < MaxAsks
    /\ calls' = [calls EXCEPT ![s] = call] /\ asks' = asks + 1
Excuse(e, when) == excuses' = IF when THEN excuses \cup {e} ELSE excuses
Server == <<store, faults>>

Types ==
    /\ ~Pending /\ ~sending /\ draft = 0 /\ typed < MaxPrompts
    /\ typed' = typed + 1 /\ draft' = typed + 1
    /\ UNCHANGED <<Server, shown, listed, cursor, sending, retrying, deleting, undoing, loadingMore, toast,
                   timers, calls, asks, chosen, last, excuses>>

HasDraft == draft # 0       \* mutant: neither pending nor sending is looked at

CanSubmit == draft # 0 /\ ~Pending /\ ~sending

\* A new client message id, and the turn is shown as pending at once.
Submit(s) ==
    LET turn == [key |-> asks + 1, prompt |-> draft, status |-> "pending"]
    IN  /\ CanSubmit
        /\ Asks(s, [Call("submit", shown.id) EXCEPT !.key = asks + 1, !.prompt = draft, !.owner = "submit"])
        /\ sending' = TRUE
        /\ shown' = IF shown = NoThread THEN shown ELSE [shown EXCEPT !.turns = Append(@, turn)]
        /\ Excuse("overtaken", Busy(Navigates))
        /\ UNCHANGED <<Server, listed, cursor, draft, retrying, deleting, undoing, loadingMore, toast, timers,
                       typed, chosen, last>>

\* Every failed turn is shown as pending: each has a correlation id.
Retry(s) ==
    \E i \in DOMAIN shown.turns :
        LET key == shown.turns[i].key IN
        /\ shown.turns[i].status = "failed" /\ retrying = 0
        /\ Asks(s, [Call("retry", shown.id) EXCEPT !.key = key, !.owner = "retry"])
        /\ retrying' = key
        /\ shown' = [shown EXCEPT !.turns = [j \in DOMAIN shown.turns |->
                        IF shown.turns[j].status = "failed" THEN [shown.turns[j] EXCEPT !.status = "pending"]
                        ELSE shown.turns[j]]]
        /\ Excuse("overtaken", Busy(Navigates))
        /\ UNCHANGED <<Server, listed, cursor, draft, sending, deleting, undoing, loadingMore, toast, timers,
                       typed, chosen, last>>

SelectConversation(s, c) ==
    /\ c \in listed
    /\ Asks(s, Call("select", c))
    /\ chosen' = c
    /\ Excuse("overtaken", Busy(Navigates))
    /\ UNCHANGED <<Server, pageVars, typed, last>>

StartNewChat ==
    /\ shown # NoThread
    /\ shown' = NoThread /\ draft' = 0 /\ chosen' = None
    /\ Excuse("overtaken", Busy(Navigates))
    /\ UNCHANGED <<Server, listed, cursor, sending, retrying, deleting, undoing, loadingMore, toast, timers,
                   calls, typed, asks, last>>

LoadMore(s) ==
    /\ cursor # 0 /\ ~loadingMore
    /\ Asks(s, [Call("more", None) EXCEPT !.key = cursor])
    /\ loadingMore' = TRUE
    /\ UNCHANGED <<Server, shown, listed, cursor, draft, sending, retrying, deleting, undoing, toast, timers,
                   typed, chosen, last, excuses>>

DeleteVisible(s, c) ==
    /\ c \in listed /\ deleting # c
    /\ Asks(s, Call("delete", c))
    /\ deleting' = c
    /\ UNCHANGED <<Server, shown, listed, cursor, draft, sending, retrying, undoing, loadingMore, toast, timers,
                   typed, chosen, last, excuses>>

UndoDeleted(s) ==
    /\ toast # None /\ ~undoing
    /\ Asks(s, Call("undo", toast))
    /\ undoing' = TRUE
    /\ UNCHANGED <<Server, shown, listed, cursor, draft, sending, retrying, deleting, loadingMore, toast, timers,
                   typed, chosen, last, excuses>>

\* The parent rendered: onSessionExpired is new, so the list is loaded again.
Rerenders(s) ==
    LET kept == [t \in Slots |-> IF calls[t].kind = "load" THEN NoCall ELSE calls[t]]
    IN  /\ kept[s] = NoCall /\ asks < MaxAsks
        /\ calls' = [kept EXCEPT ![s] = Call("load", None)] /\ asks' = asks + 1
        /\ UNCHANGED <<Server, pageVars, typed, chosen, last, excuses>>

TimerFires(c) ==
    /\ c \in timers /\ store[c].stage # "deleted"
    /\ timers' = timers \ {c} /\ toast' = None
    /\ UNCHANGED <<Server, shown, listed, cursor, draft, sending, retrying, deleting, undoing, loadingMore,
                   calls, typed, asks, chosen, last, excuses>>

-----------------------------------------------------------------------------
(* What the server does with a request (services/chat.py). *)

Active == {c \in Convs : store[c].stage = "active"}
Now == 1 + CHOOSE m \in {store[c].age : c \in Convs} : \A c \in Convs : store[c].age <= m
Below(n) == {c \in Active : n = 0 \/ store[c].age < n}
Newer(c, cs) == {d \in cs : store[d].age > store[c].age}

\* The rows below the cursor, the newest first, and whether there are more.
Page(n) ==
    LET rows == {c \in Below(n) : Cardinality(Newer(c, Below(n))) < PageSize}
        oldest == {c \in rows : Newer(c, rows) = rows \ {c}}
        newest == {c \in rows : Newer(c, rows) = {}}
    IN  [NoReply EXCEPT !.out = "ok", !.rows = rows,
            !.cursor = IF rows = Below(n) THEN 0 ELSE store[CHOOSE c \in oldest : TRUE].age,
            !.first = IF rows = {} THEN None ELSE CHOOSE c \in newest : TRUE]

Replies(s, reply) == calls' = [calls EXCEPT ![s].at = "answered", ![s].reply = reply]
Error == [NoReply EXCEPT !.out = "error"]
Detail(c) == IF store[c].stage = "active" THEN [NoReply EXCEPT !.out = "ok", !.thread = Thread(c)] ELSE Error
Rest == <<pageVars, typed, asks, chosen, last>>

ServesRead(s) ==
    LET call == calls[s] IN
    /\ call.at = "sent"
    /\ \/ call.kind \in {"load", "relist"} /\ Replies(s, Page(0))
       \/ call.kind = "more" /\ Replies(s, Page(call.key))
       \/ call.kind \in {"select", "reload"} /\ Replies(s, Detail(call.conv))
    /\ UNCHANGED <<Rest, store, faults, excuses>>

ServesDelete(s) ==
    LET c == calls[s].conv IN
    /\ calls[s].at = "sent" /\ calls[s].kind = "delete"
    /\ IF store[c].stage = "active"
       THEN /\ store' = [store EXCEPT ![c].stage = "deleted"]
            /\ Replies(s, [NoReply EXCEPT !.out = "ok"])
            /\ excuses' = excuses \cup (IF Busy(Lists) THEN {"listing"} ELSE {})
                                  \cup (IF Busy(Navigates) THEN {"overtaken"} ELSE {})
       ELSE Replies(s, Error) /\ UNCHANGED <<store, excuses>>
    /\ UNCHANGED <<Rest, faults>>

ServesUndo(s) ==
    LET c == calls[s].conv IN
    /\ calls[s].at = "sent" /\ calls[s].kind = "undo"
    /\ IF store[c].stage = "deleted"
       THEN /\ store' = [store EXCEPT ![c].stage = "active", ![c].age = Now]
            /\ Replies(s, [NoReply EXCEPT !.out = "ok"])
       ELSE Replies(s, Error) /\ UNCHANGED store
    /\ Excuse("overtaken", Busy({"submit", "relist"}))     \* it becomes the newest row
    /\ UNCHANGED <<Rest, faults>>

\* A turn is stored as pending, with its conversation if there is none yet.
AcceptsSubmit(s) ==
    LET call == calls[s]
        turn == [key |-> call.key, prompt |-> call.prompt, status |-> "pending"]
    IN  /\ call.at = "sent" /\ call.kind = "submit"
        /\ \E c \in IF call.conv = None THEN {d \in Convs : store[d].stage = "absent"} ELSE {call.conv} :
             IF \/ call.conv # None /\ store[c].stage # "active"
                \/ \E i \in DOMAIN store[c].turns : store[c].turns[i].status = "pending"
             THEN Replies(s, Error) /\ UNCHANGED store
             ELSE /\ store' = [store EXCEPT ![c] = [stage |-> "active", age |-> Now, turns |-> Append(@.turns, turn)]]
                  /\ calls' = [calls EXCEPT ![s].at = "working", ![s].place = c]
        /\ UNCHANGED <<Rest, faults, excuses>>

AcceptsRetry(s) ==
    LET call == calls[s]
        c == call.conv
        at == {i \in DOMAIN store[c].turns : store[c].turns[i].key = call.key}
        status == IF at = {} THEN "none" ELSE store[c].turns[CHOOSE i \in at : TRUE].status
    IN  /\ call.at = "sent" /\ call.kind = "retry"
        /\ IF store[c].stage = "active" /\ status = "failed"
           THEN /\ store' = [store EXCEPT ![c].age = Now, ![c].turns[CHOOSE i \in at : TRUE].status = "pending"]
                /\ calls' = [calls EXCEPT ![s].at = "working", ![s].place = c]
           ELSE /\ Replies(s, IF status = "completed" THEN Detail(c) ELSE Error)
                /\ UNCHANGED store
        /\ UNCHANGED <<Rest, faults, excuses>>

\* The turn is resolved, and then the conversation is read for the answer.
Resolves(s) ==
    LET call == calls[s]
        c == call.place
    IN  /\ call.at = "working"
        /\ \E i \in DOMAIN store[c].turns, st \in {"completed", "failed"} :
             /\ store[c].turns[i].key = call.key
             /\ store' = [store EXCEPT ![c].age = Now, ![c].turns[i].status = st]
             /\ Replies(s, IF st = "failed" THEN [NoReply EXCEPT !.out = "failed"]
                           ELSE IF store[c].stage = "active"
                           THEN [NoReply EXCEPT !.out = "ok", !.thread = [id |-> c, turns |-> store'[c].turns]]
                           ELSE Error)
        /\ Excuse("unanswered", store[c].stage # "active")
        /\ UNCHANGED <<Rest, faults>>

\* The request or its answer is lost, or the server fails for another reason.
Fails(s) ==
    /\ calls[s].at \in {"sent", "working", "answered"} /\ calls[s].reply # Error /\ faults < MaxFaults
    /\ faults' = faults + 1
    /\ Replies(s, Error)
    /\ excuses' = excuses \cup
         (IF calls[s].kind \in {"submit", "retry"} /\ calls[s].at # "sent" THEN {"unanswered"} ELSE {}) \cup
         (IF calls[s].at = "working" THEN {"adrift"} ELSE {}) \cup
         (IF calls[s].kind \in {"reload", "relist"} THEN {"unread"} ELSE {}) \cup
         (IF calls[s].kind \in {"delete", "undo"} /\ calls[s].at = "answered" THEN {"unsaid"} ELSE {})
    /\ UNCHANGED <<Rest, store>>

\* A turn whose request was given up is resolved, or never is.
Settles(c, st) ==
    /\ \E i \in DOMAIN store[c].turns :
         /\ store[c].turns[i].status = "pending"
         /\ \A s \in Slots : calls[s].at = "working" => calls[s].key # store[c].turns[i].key
         /\ store' = [store EXCEPT ![c].age = Now, ![c].turns[i].status = st]
    /\ UNCHANGED <<Rest, faults, calls, excuses>>

UndoWindowCloses(c) ==
    /\ store[c].stage = "deleted" /\ ~\E s \in Slots : calls[s].kind = "undo" /\ calls[s].at = "answered"
    /\ store' = [store EXCEPT ![c].stage = "expired"]
    /\ UNCHANGED <<Rest, faults, calls, excuses>>

-----------------------------------------------------------------------------
(* What the handlers do with an answer. *)

Ended(s) == [calls EXCEPT ![s] = NoCall]
Done(s) == calls' = Ended(s)
Then(s, kind, c) == calls' = [calls EXCEPT ![s] = [Call(kind, c) EXCEPT !.owner = calls[s].owner,
                                                      !.place = calls[s].place, !.key = calls[s].key]]
Got(s, kind, out) == calls[s].at = "answered" /\ calls[s].kind = kind /\ calls[s].reply.out \in out
Screen == <<listed, cursor, deleting, loadingMore, toast, timers, undoing>>
Quietly == <<Server, typed, asks>>

\* finally: only the flag of the handler that ends.
Clears(owner) ==
    /\ sending' = IF owner = "submit" THEN FALSE ELSE sending
    /\ retrying' = IF owner = "retry" THEN 0 ELSE retrying

LoadAnswered(s) ==
    LET r == calls[s].reply IN
    /\ Got(s, "load", {"ok", "error"}) /\ Done(s)
    /\ IF r.out = "ok" THEN listed' = r.rows /\ cursor' = r.cursor ELSE UNCHANGED <<listed, cursor>>
    /\ UNCHANGED <<Quietly, shown, draft, sending, retrying, deleting, undoing, loadingMore, toast, timers,
                   chosen, last, excuses>>

MoreAnswered(s) ==
    LET r == calls[s].reply IN
    /\ Got(s, "more", {"ok", "error"}) /\ Done(s)
    /\ loadingMore' = FALSE
    /\ IF r.out = "ok" THEN listed' = listed \cup r.rows /\ cursor' = r.cursor ELSE UNCHANGED <<listed, cursor>>
    /\ UNCHANGED <<Quietly, shown, draft, sending, retrying, deleting, undoing, toast, timers, chosen, last, excuses>>

SelectAnswered(s) ==
    LET r == calls[s].reply IN
    /\ Got(s, "select", {"ok", "error"}) /\ Done(s)
    /\ shown' = IF r.out = "ok" THEN r.thread ELSE shown
    /\ chosen' = shown'.id
    /\ UNCHANGED <<Quietly, Screen, draft, sending, retrying, last, excuses>>

TurnAnswered(s) ==
    LET r == calls[s].reply
        owner == calls[s].owner
    IN  /\ \E kind \in {"submit", "retry"} : Got(s, kind, {"ok"})
        /\ Done(s) /\ Clears(owner)
        /\ shown' = r.thread /\ listed' = listed \cup {r.thread.id}
        /\ draft' = IF owner = "submit" THEN 0 ELSE draft
        /\ chosen' = IF owner = "submit" /\ calls[s].conv = None THEN r.thread.id ELSE chosen
        /\ UNCHANGED <<Quietly, cursor, deleting, undoing, loadingMore, toast, timers, last, excuses>>

\* provider_failed: what was stored is shown; without an id, the newest row.
TurnFailed(s) ==
    /\ \/ Got(s, "submit", {"failed"}) /\ draft' = 0
       \/ Got(s, "retry", {"failed", "error"}) /\ UNCHANGED draft
    /\ Then(s, IF calls[s].conv = None THEN "relist" ELSE "reload", calls[s].conv)
    /\ UNCHANGED <<Quietly, Screen, shown, sending, retrying, chosen, last, excuses>>

AsShown(s) == shown         \* mutant: the optimistic messages stay

PreviousConversation(s) == calls[s].seen

SubmitRefused(s) ==
    /\ Got(s, "submit", {"error"}) /\ Done(s) /\ Clears("submit")
    /\ shown' = PreviousConversation(s)
    /\ UNCHANGED <<Quietly, Screen, draft, chosen, last, excuses>>

\* Mutant: the rows of the render, not those of the answer.
LatestListed(s) == IF listed = {} THEN calls[s].reply.first ELSE CHOOSE c \in listed : Newer(c, listed) = {}

Latest(s) == calls[s].reply.first

RelistAnswered(s) ==
    LET r == calls[s].reply IN
    /\ Got(s, "relist", {"ok"})
    /\ listed' = r.rows /\ cursor' = r.cursor
    /\ IF Latest(s) = None THEN Done(s) /\ Clears(calls[s].owner)
       ELSE Then(s, "reload", Latest(s)) /\ UNCHANGED <<sending, retrying>>
    /\ UNCHANGED <<Quietly, shown, draft, deleting, undoing, loadingMore, toast, timers, chosen, last, excuses>>

ReloadAnswered(s) ==
    LET r == calls[s].reply IN
    /\ Got(s, "reload", {"ok"}) /\ Done(s) /\ Clears(calls[s].owner)
    /\ shown' = r.thread /\ listed' = listed \cup {r.thread.id}
    /\ chosen' = IF chosen = None THEN calls[s].place ELSE chosen
    /\ UNCHANGED <<Quietly, cursor, draft, deleting, undoing, loadingMore, toast, timers, last, excuses>>

ReloadFailed(s) ==
    /\ \E kind \in {"relist", "reload"} : Got(s, kind, {"error"})
    /\ Done(s) /\ Clears(calls[s].owner)
    /\ excuses' = excuses \cup {"unread"}
    /\ UNCHANGED <<Quietly, Screen, shown, draft, chosen, last>>

Restarted(c) == {c}                     \* clearUndoTimer, then setTimeout

Closed(s) == IF calls[s].seen.id = calls[s].conv THEN NoThread ELSE shown

\* The open conversation is the one of the render that asked for the deletion.
DeleteAnswered(s) ==
    LET c == calls[s].conv
        open == calls[s].seen.id = c
    IN  /\ Got(s, "delete", {"ok", "error"}) /\ Done(s)
        /\ deleting' = None
        /\ IF calls[s].reply.out = "ok"
           THEN /\ listed' = listed \ {c}
                /\ shown' = Closed(s)
                /\ chosen' = IF open THEN None ELSE chosen
                /\ toast' = c /\ timers' = Restarted(c) /\ last' = c
                /\ excuses' = excuses \cup (IF Busy({"undo"}) THEN {"undoing"} ELSE {})
                                      \cup (IF open # (shown.id = c) \/ Busy(Navigates) THEN {"overtaken"} ELSE {})
           ELSE UNCHANGED <<listed, shown, chosen, toast, timers, last, excuses>>
        /\ UNCHANGED <<Quietly, cursor, draft, sending, retrying, undoing, loadingMore>>

UndoAnswered(s) ==
    LET c == calls[s].conv IN
    /\ Got(s, "undo", {"ok", "error"}) /\ Done(s)
    /\ undoing' = FALSE
    /\ IF calls[s].reply.out = "ok"
       THEN listed' = listed \cup {c} /\ toast' = None /\ timers' = {}
       ELSE UNCHANGED <<listed, toast, timers>>
    /\ UNCHANGED <<Quietly, shown, cursor, draft, sending, retrying, deleting, loadingMore, chosen, last, excuses>>

UserStep ==
    \/ Types
    \/ StartNewChat
    \/ \E s \in Slots : Submit(s) \/ Retry(s) \/ LoadMore(s) \/ UndoDeleted(s) \/ Rerenders(s)
                        \/ \E c \in Convs : SelectConversation(s, c) \/ DeleteVisible(s, c)
ServerStep ==
    \/ \E s \in Slots : \/ ServesRead(s) \/ ServesDelete(s) \/ ServesUndo(s) \/ AcceptsSubmit(s)
                        \/ AcceptsRetry(s) \/ Resolves(s) \/ Fails(s)
    \/ \E c \in Convs : UndoWindowCloses(c) \/ \E st \in {"completed", "failed"} : Settles(c, st)
HandlerStep ==
    \E s \in Slots : \/ LoadAnswered(s) \/ MoreAnswered(s) \/ SelectAnswered(s) \/ TurnAnswered(s)
                     \/ TurnFailed(s) \/ SubmitRefused(s) \/ RelistAnswered(s) \/ ReloadAnswered(s)
                     \/ ReloadFailed(s) \/ DeleteAnswered(s) \/ UndoAnswered(s)

Next == UserStep \/ ServerStep \/ HandlerStep \/ \E c \in Convs : TimerFires(c)

Spec == Init /\ [][Next]_clientVars

-----------------------------------------------------------------------------
(* Properties. *)

Quiet == \A s \in Slots : calls[s] = NoCall

TypeOK ==
    /\ \A c \in Convs : /\ store[c].stage \in {"absent", "active", "deleted", "expired"}
                        /\ store[c].age \in Nat /\ store[c].turns \in Seq(Turn)
    /\ shown.id \in Convs \cup {None} /\ shown.turns \in Seq(Turn)
    /\ listed \subseteq Convs /\ cursor \in Nat /\ draft \in 0..MaxPrompts
    /\ {sending, undoing, loadingMore} \subseteq BOOLEAN /\ retrying \in 0..MaxAsks
    /\ {deleting, toast, chosen, last} \subseteq Convs \cup {None}
    /\ timers \subseteq Convs
    /\ typed \in 0..MaxPrompts /\ asks \in 0..MaxAsks /\ faults \in 0..MaxFaults
    /\ excuses \subseteq {"overtaken", "unanswered", "adrift", "unread", "listing", "undoing", "unsaid"}

(* What the user wrote once is stored once, although each submission has a  *)
(* new client message id, unless a stored turn was never answered for.      *)
SendsOnce ==
    \A p \in 1..typed : excuses \cap {"unanswered"} = {} =>
        Cardinality({x \in Convs \X (1..MaxAsks) :
                       /\ x[2] \in DOMAIN store[x[1]].turns
                       /\ store[x[1]].turns[x[2]].prompt = p}) <= 1

(* When nothing is in flight, a turn shown as pending is pending on the     *)
(* server: otherwise the composer stays locked for nothing.                 *)
PendingIsBacked ==
    Quiet /\ excuses \cap {"overtaken", "adrift", "unread", "unanswered"} = {} =>
        \A i \in DOMAIN shown.turns :
            shown.turns[i].status = "pending" =>
                \E j \in DOMAIN store[shown.id].turns : store[shown.id].turns[j] = shown.turns[i]

(* When nothing is in flight, the user sees the conversation chosen last,   *)
(* that of a failed first message included.                                 *)
ShownIsChosen ==
    Quiet /\ excuses \cap {"overtaken", "unread", "unanswered"} = {} => shown.id = chosen

(* The deletion answered last can be undone on the page as long as the      *)
(* server allows it.                                                        *)
DeleteOffersUndo ==
    Quiet /\ excuses \cap {"undoing", "unsaid"} = {} /\ last # None =>
        (store[last].stage = "deleted" => toast = last)

(* When nothing is in flight, neither the sidebar nor the page shows what   *)
(* is deleted.  An undo that is heard of after its conversation was listed  *)
(* and deleted again lists it (undoDeletedConversation): the excuse         *)
(* "undoing".                                                               *)
NothingDeletedIsShown ==
    Quiet /\ excuses \cap {"listing", "overtaken", "unsaid", "undoing"} = {} =>
        (listed \cup {shown.id}) \ {None} \subseteq Active
=============================================================================
