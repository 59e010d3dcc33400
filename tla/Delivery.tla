------------------------------ MODULE Delivery ------------------------------
(***************************************************************************)
(* From a tab's frames to the bucket: Screencast and Upload composed.  The *)
(* cdp process encodes recording Mine and moves it into the directory      *)
(* (_encode_and_store), where other recordings arrive as well; the upload  *)
(* process takes what it finds there.                                      *)
(***************************************************************************)
EXTENDS Screencast, Upload

CONSTANT Mine \* the recording the frames are of

ASSUME DeliveryAssumption == Mine \in 1..Recordings

vars == <<castVars, uploadVars>>

Init == CastInit /\ UploadInit

(* ffmpeg is done, and its output is moved.                                *)
Move == /\ stage = "encoded" /\ stage' = "moved"
        /\ Finalize(Mine)
        /\ UNCHANGED <<now, chromeVars, framesVars, stopped, video>>

Next == \/ CastNext /\ UNCHANGED uploadVars
        \/ Move
        \/ /\ Send \/ \E r \in 1..Recordings : Copy(r) \/ (r # Mine /\ Finalize(r))
           /\ UNCHANGED castVars

Spec == Init /\ [][Next]_vars

(* The upload goes on, since an attempt is limited in time; the recording  *)
(* need not.                                                               *)
FairSpec == Spec /\ WF_vars(Send /\ UNCHANGED castVars)
=============================================================================
