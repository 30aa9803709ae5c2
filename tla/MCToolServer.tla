---------------------------- MODULE MCToolServer ----------------------------
(* Small instances of ToolServer for TLC.                                   *)
EXTENDS ToolServer, TLC

\* Requests are interchangeable; used by the runs without liveness.
Symmetry == Permutations(Requests)
=============================================================================
