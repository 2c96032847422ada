----------------------------- MODULE MCFrontend -----------------------------
(* Small constants for Frontend.                                           *)
EXTENDS Frontend, TLC

\* An empty database, and one with a user and an administrator.
Registered(role) ==
    [role |-> role, scopes |-> IF role = "admin" THEN {"standard", "admin"} ELSE {"standard"},
     active |-> TRUE, demo |-> FALSE, local |-> TRUE, subjects |-> {}]
Populations == {<<>>, "ann" :> Registered("user") @@ "bob" :> Registered("admin")}

Symmetry == Permutations(Procs) \cup Permutations(Existing) \cup Permutations(Convs \ Existing)
=============================================================================
