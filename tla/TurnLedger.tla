----------------------------- MODULE TurnLedger -----------------------------
(***************************************************************************)
(* What the conversation promises its owner, without requests, providers,  *)
(* locks or message rows: each client message is answered by one turn that *)
(* settles completed or failed, a failed turn alone may be taken up again, *)
(* and a closed conversation only lets running turns settle.               *)
(***************************************************************************)
CONSTANT Turns
VARIABLES turn, closed

Init ==
    /\ turn = [t \in Turns |-> "none"]
    /\ closed = "no"

Accept(t) ==
    /\ closed = "no"
    /\ turn[t] = "none"
    /\ turn' = [turn EXCEPT ![t] = "pending"]
    /\ UNCHANGED closed

Settle(t, st) ==
    /\ turn[t] = "pending"
    /\ turn' = [turn EXCEPT ![t] = st]
    /\ UNCHANGED closed

TakeUp(t) ==
    /\ closed = "no"
    /\ turn[t] = "failed"
    /\ turn' = [turn EXCEPT ![t] = "pending"]
    /\ UNCHANGED closed

Close == closed = "no" /\ closed' = "yes" /\ UNCHANGED turn
Reopen == closed = "yes" /\ closed' = "no" /\ UNCHANGED turn
Seal == closed = "yes" /\ closed' = "forever" /\ UNCHANGED turn

Next ==
    \/ \E t \in Turns : Accept(t) \/ TakeUp(t)
    \/ \E t \in Turns, st \in {"completed", "failed"} : Settle(t, st)
    \/ Close \/ Reopen \/ Seal

Spec == Init /\ [][Next]_<<turn, closed>>
=============================================================================
