-------------------------- MODULE MCSpoolShutdown --------------------------
(* Small instances of SpoolShutdown for TLC.                               *)
EXTENDS SpoolShutdown
=============================================================================
