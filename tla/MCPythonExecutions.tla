------------------------- MODULE MCPythonExecutions -------------------------
(* PythonExecutions on small instances. *)
EXTENDS PythonExecutions, TLC

Symmetry == Permutations(Requests)
=============================================================================
