------------------------- MODULE RecordingLifecycle -------------------------
(***************************************************************************)
(* What recording.py promises about one recording, without tasks, sockets  *)
(* or files: it is begun once, finished once, and then either published    *)
(* (an <id>.mp4 a client of GET /recordings can see) or dropped.  A        *)
(* published video never goes away again, whatever happens to the process. *)
(* Recording implements this module.                                       *)
(***************************************************************************)

CONSTANT Rec        \* recordings, identified by recording_id

VARIABLES stage,    \* stage[r]: how far recording r has come
          catalogue \* the recordings whose video has been published

vars == <<stage, catalogue>>

Stages == {"unborn", "capturing", "finishing", "published", "dropped"}

LifecycleTypeOK == /\ stage \in [Rec -> Stages]
                   /\ catalogue \subseteq Rec

Init == /\ stage = [r \in Rec |-> "unborn"]
        /\ catalogue = {}

Begin(r) == /\ stage[r] = "unborn"
            /\ stage' = [stage EXCEPT ![r] = "capturing"]
            /\ UNCHANGED catalogue

Finish(r) == /\ stage[r] = "capturing"
             /\ stage' = [stage EXCEPT ![r] = "finishing"]
             /\ UNCHANGED catalogue

Publish(r) == /\ stage[r] = "finishing"
              /\ stage' = [stage EXCEPT ![r] = "published"]
              /\ catalogue' = catalogue \cup {r}

(* Nothing was captured, ffmpeg failed, or the process went away: all the  *)
(* recordings of S that have not been published are given up together.     *)
Drop(S) == /\ S # {}
           /\ \A r \in S : stage[r] \in {"capturing", "finishing"}
           /\ stage' = [r \in Rec |-> IF r \in S THEN "dropped" ELSE stage[r]]
           /\ UNCHANGED catalogue

Next == \/ \E r \in Rec : Begin(r) \/ Finish(r) \/ Publish(r)
        \/ \E S \in SUBSET Rec : Drop(S)

Spec == Init /\ [][Next]_vars
=============================================================================
