---------------------------- MODULE MCRecording ----------------------------
(* Recording on small instances.  Sessions, recordings and directories are *)
(* interchangeable: no property tells one from another.                    *)
EXTENDS Recording, TLC

Interchangeable == Permutations(Session) \cup Permutations(Rec)
                       \cup Permutations(Dir)
=============================================================================
