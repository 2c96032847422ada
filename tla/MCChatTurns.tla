---------------------------- MODULE MCChatTurns ----------------------------
(* ChatTurns on small instances: requests and client ids are interchangeable. *)
EXTENDS ChatTurns, TLC

Symmetry == Permutations(Requests) \cup Permutations(ClientIds)
=============================================================================
