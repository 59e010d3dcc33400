----------------------------- MODULE MCLogFanout -----------------------------
(* One record against reloads of a file that others write.                 *)
EXTENDS LogFanout
=============================================================================
