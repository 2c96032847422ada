---------------------------- MODULE DeviceProof ----------------------------
(***************************************************************************)
(* The browser's device key (device-proof.ts): each tab reads or generates *)
(* it once, and one slot of IndexedDB keeps it for the tabs that come      *)
(* later.  A login binds the cookie they share to the key of its tab, and  *)
(* whoever refreshes must sign with that key.                              *)
(***************************************************************************)
EXTENDS Integers, FiniteSets

CONSTANTS Tabs,
          MaxKeys,      \* bound: keys ever generated
          MaxLosses,    \* bound: database failures, clearings
          MaxReloads    \* bound: pages closed or reloaded

ProofConstants == {MaxKeys, MaxLosses, MaxReloads} \subseteq Nat

VARIABLES
    slot,       \* the stored key, 0 for none
    tab,        \* each tab's keyPairPromise
    bound,      \* the key the cookie's session is bound to, 0 for no session
    keys, losses, reloads,
    apart       \* why two keys may be in use

proofVars == <<slot, tab, bound, keys, losses, reloads, apart>>

Key == 0..MaxKeys
NoPromise == [at |-> "none", key |-> 0]
Excuses == {"raced", "unread", "unsaved", "cleared"}

Init ==
    /\ slot = 0 /\ tab = [t \in Tabs |-> NoPromise] /\ bound = 0
    /\ keys = 0 /\ losses = 0 /\ reloads = 0 /\ apart = {}

Has(t) == tab[t].at = "ready"
Because(e, when) == apart' = IF when THEN apart \cup {e} ELSE apart

\* The first proof of a page starts the promise; every later one waits for it.
Starts(t) ==
    /\ tab[t].at = "none"
    /\ tab' = [tab EXCEPT ![t].at = "loading"]
    /\ UNCHANGED <<slot, bound, keys, losses, reloads, apart>>

Generates(t) ==
    /\ keys < MaxKeys /\ keys' = keys + 1
    /\ tab' = [tab EXCEPT ![t] = [at |-> "saving", key |-> keys + 1]]

\* Another tab has a key it has not stored yet, or will find none either.
OthersGenerate(t) == \E u \in Tabs \ {t} : tab[u].at = "saving"

ReusesNothing(t) == FALSE
Reuses(t) == slot # 0

Finds(t) ==
    /\ tab[t].at = "loading" /\ Reuses(t)
    /\ tab' = [tab EXCEPT ![t] = [at |-> "ready", key |-> slot]]
    /\ UNCHANGED <<slot, bound, keys, losses, reloads, apart>>
FindsNone(t) ==
    /\ tab[t].at = "loading" /\ ~Reuses(t) /\ Generates(t)
    /\ Because("raced", OthersGenerate(t))
    /\ UNCHANGED <<slot, bound, losses, reloads>>
Unreadable(t) ==
    /\ tab[t].at = "loading" /\ losses < MaxLosses /\ losses' = losses + 1
    /\ Generates(t) /\ Because("unread", TRUE)
    /\ UNCHANGED <<slot, bound, reloads>>

Saves(t) ==
    /\ tab[t].at = "saving" /\ slot' = tab[t].key
    /\ tab' = [tab EXCEPT ![t].at = "ready"]
    /\ UNCHANGED <<bound, keys, losses, reloads, apart>>
Unsaved(t) ==
    /\ tab[t].at = "saving" /\ losses < MaxLosses /\ losses' = losses + 1
    /\ tab' = [tab EXCEPT ![t].at = "ready"] /\ Because("unsaved", TRUE)
    /\ UNCHANGED <<slot, bound, keys, reloads>>

\* The server binds the new session to the thumbprint of the proof.
LogsIn(t) ==
    /\ Has(t) /\ bound # tab[t].key /\ bound' = tab[t].key
    /\ UNCHANGED <<slot, tab, keys, losses, reloads, apart>>
\* Only the session's own key can end it.
LogsOut(t) ==
    /\ Has(t) /\ bound = tab[t].key /\ bound # 0 /\ bound' = 0
    /\ UNCHANGED <<slot, tab, keys, losses, reloads, apart>>

\* A page that is saving may be gone before or after its key is stored.
Reloads(t) ==
    /\ tab[t].at # "none" /\ reloads < MaxReloads /\ reloads' = reloads + 1
    /\ tab' = [tab EXCEPT ![t] = NoPromise]
    /\ slot' \in {slot} \cup (IF tab[t].at = "saving" THEN {tab[t].key} ELSE {})
    /\ UNCHANGED <<bound, keys, losses, apart>>
Clears ==
    /\ slot # 0 /\ losses < MaxLosses /\ losses' = losses + 1 /\ slot' = 0
    /\ Because("cleared", TRUE)
    /\ UNCHANGED <<tab, bound, keys, reloads>>

Next ==
    \/ \E t \in Tabs : \/ Starts(t) \/ Finds(t) \/ FindsNone(t) \/ Unreadable(t) \/ Saves(t) \/ Unsaved(t)
                       \/ LogsIn(t) \/ LogsOut(t) \/ Reloads(t)
    \/ Clears

Spec == Init /\ [][Next]_proofVars

-----------------------------------------------------------------------------

TypeOK ==
    /\ slot \in Key /\ bound \in Key /\ apart \subseteq Excuses
    /\ \A t \in Tabs : tab[t].at \in {"none", "loading", "saving", "ready"} /\ tab[t].key \in Key
    /\ keys \in Key /\ losses \in 0..MaxLosses /\ reloads \in 0..MaxReloads

\* Unless two tabs generated at once or the database lost a key, every tab that
\* has a key, and every tab that will read one, can use the session.
KeyFits ==
    apart = {} /\ bound # 0
      => /\ slot = bound
         /\ \A t \in Tabs : Has(t) => tab[t].key = bound
=============================================================================
