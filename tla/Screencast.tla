----------------------------- MODULE Screencast -----------------------------
(***************************************************************************)
(* The frames of one recording, from Chrome to the encoder                 *)
(* (handle_screencast_frame, stop_recording and _encode_and_store of       *)
(* recording.py).  Chrome numbers its frames and sends another one only    *)
(* while fewer than Window are unacknowledged.  A write may fail, with or  *)
(* without an empty or partial file left under the next frame's name; such *)
(* a frame is not acknowledged.  Acknowledgements are tasks of their own.  *)
(* Time is counted in ticks.                                               *)
(***************************************************************************)
EXTENDS Integers, Sequences, FiniteSets

CONSTANTS Window,  \* Chrome's limit of frames in flight
          MinHold, \* _MIN_FRAME_HOLD_SECONDS
          MaxHold, \* _MAX_FRAME_HOLD_SECONDS
          Frames,  \* bound: frames Chrome sends
          MaxTime  \* bound: ticks

ASSUME ScreencastAssumption ==
    /\ {Window, MinHold, MaxHold} \subseteq Nat \ {0} /\ MinHold <= MaxHold
    /\ {Frames, MaxTime} \subseteq Nat

VARIABLES
    now,      \* loop.time()
    sent,     \* frames Chrome has sent
    unacked,  \* how many of them it counts as unacknowledged
    wire,     \* frames sent and not handled yet
    acking,   \* frames whose acknowledgement is still to be sent
    failed,   \* frames that could not be written
    jpgs,     \* the files of frames_dir in name order: frame, and whether it is whole
    count,    \* frame_count
    times,    \* frame_times
    stage,    \* recording, stopping, encoding; encoded and moved, failed, or discarded
    stopped,  \* the time the encoder was given as the end
    video     \* what the encoder was given: frames with their holds

chromeVars == <<sent, unacked, wire>>
framesVars == <<acking, failed, jpgs, count, times>>
castVars == <<now, chromeVars, framesVars, stage, stopped, video>>

CastInit ==
    /\ now = 0 /\ sent = 0 /\ unacked = 0 /\ wire = <<>>
    /\ acking = {} /\ failed = {} /\ jpgs = <<>> /\ count = 0 /\ times = <<>>
    /\ stage = "recording" /\ stopped = 0 /\ video = <<>>

(* Bounded time stands still where nothing depends on it.                  *)
Tick == /\ now < MaxTime /\ stage \in {"recording", "stopping"}
        /\ now' = now + 1
        /\ UNCHANGED <<chromeVars, framesVars, stage, stopped, video>>

ChromeSends ==
    /\ stage \in {"recording", "stopping"}
    /\ sent < Frames /\ unacked < Window
    /\ sent' = sent + 1 /\ unacked' = unacked + 1 /\ wire' = Append(wire, sent + 1)
    /\ UNCHANGED <<now, framesVars, stage, stopped, video>>

-----------------------------------------------------------------------------
(* handle_screencast_frame: what is popped takes no more frames.           *)

Ignored == /\ wire # <<>> /\ stage # "recording"
           /\ wire' = Tail(wire)
           /\ UNCHANGED <<now, sent, unacked, framesVars, stage, stopped, video>>

(* frames_dir with frame f in the file of number count.                    *)
Filed(f, whole) ==
    IF Len(jpgs) = count THEN Append(jpgs, [frame |-> f, whole |-> whole])
    ELSE [jpgs EXCEPT ![count + 1] = [frame |-> f, whole |-> whole]]

OneAck(f) == acking' = IF acking = {} THEN {f} ELSE acking        \* mutant
Ack(f) == acking' = acking \cup {f}

Written ==
    /\ wire # <<>> /\ stage = "recording"
    /\ wire' = Tail(wire)
    /\ jpgs' = Filed(Head(wire), TRUE)
    /\ count' = count + 1 /\ times' = Append(times, now)
    /\ Ack(Head(wire))
    /\ UNCHANGED <<now, sent, unacked, failed, stage, stopped, video>>

Skip == count' = count + 1                                        \* mutant
Reuse == count' = count

WriteFails ==
    /\ wire # <<>> /\ stage = "recording"
    /\ wire' = Tail(wire) /\ failed' = failed \cup {Head(wire)}
    /\ jpgs' \in {jpgs, Filed(Head(wire), FALSE)}
    /\ Reuse
    /\ UNCHANGED <<now, sent, unacked, acking, times, stage, stopped, video>>

AckSent ==
    /\ \E f \in acking : acking' = acking \ {f}
    /\ unacked' = unacked - 1
    /\ UNCHANGED <<now, sent, wire, failed, jpgs, count, times, stage, stopped, video>>

-----------------------------------------------------------------------------
(* stop_recording: pop, then the send of stopScreencast.                   *)
Stop == /\ stage = "recording" /\ stage' = "stopping"
        /\ UNCHANGED <<now, chromeVars, framesVars, stopped, video>>

(* How long each frame stays on screen.                                    *)
ToLastFrame(i) == times[IF i < Len(times) THEN i + 1 ELSE i]      \* mutant
Until(i) == IF i < Len(times) THEN times[i + 1] ELSE now

Clamp(gap) == CASE gap < MinHold -> MinHold
                [] gap > MaxHold -> MaxHold
                [] OTHER -> gap

_frame_holds == [i \in DOMAIN times |-> Clamp(Until(i) - times[i])]

(* Files and times are paired as far as both go.                           *)
StopSent ==
    /\ stage = "stopping"
    /\ IF jpgs = <<>> THEN stage' = "discarded" /\ UNCHANGED <<stopped, video>>
       ELSE /\ stage' = "encoding" /\ stopped' = now
            /\ video' = [i \in DOMAIN times |-> [jpg |-> jpgs[i], hold |-> _frame_holds[i]]]
    /\ UNCHANGED <<now, chromeVars, framesVars>>

(* ffmpeg refuses a list without frames.                                   *)
Encoded == /\ stage = "encoding"
           /\ stage' \in IF video = <<>> THEN {"failed"} ELSE {"encoded", "failed"}
           /\ UNCHANGED <<now, chromeVars, framesVars, stopped, video>>

CastNext == \/ Tick \/ ChromeSends
            \/ Ignored \/ Written \/ WriteFails \/ AckSent
            \/ Stop \/ StopSent \/ Encoded

CastSpec == CastInit /\ [][CastNext]_castVars

-----------------------------------------------------------------------------
Given == stage \in {"encoding", "encoded"}
Gap(i) == (IF i < Len(times) THEN times[i + 1] ELSE stopped) - times[i]
Played[i \in 0..Len(video)] == IF i = 0 THEN 0 ELSE Played[i - 1] + video[i].hold
VideoSeconds == Played[Len(video)]

(* The video shows the frames that were written, each whole, once and in   *)
(* order, at its own time, whatever writes failed in between: a file left  *)
(* by a failed write is overwritten or left out (recording.py:210-219,     *)
(* 317-320).                                                               *)
VideoIsCapture == Given =>
    /\ \A i \in DOMAIN video : video[i].jpg.whole /\ video[i].jpg.frame \notin failed
    /\ \A i, j \in DOMAIN video : i < j => video[i].jpg.frame < video[j].jpg.frame
    /\ Len(video) = count /\ Len(times) = count

(* Playback starts with the first frame and lasts to the stop, frames on a *)
(* static page included.  Only idle stretches make it shorter, and a burst *)
(* of n frames makes it longer by no more than n least holds               *)
(* (recording.py:47-50, 74-76, 289-301).                                   *)
TimelineKept == Given /\ video # <<>> =>
    /\ VideoSeconds <= stopped - times[1] + Len(video) * MinHold
    /\ VideoSeconds <= Len(video) * MaxHold
    /\ (\A i \in DOMAIN times : Gap(i) <= MaxHold) => VideoSeconds >= stopped - times[1]

(* While a tab is recorded, a frame Chrome waits for is under way, about   *)
(* to be acknowledged, or could not be written: the stream stalls for good *)
(* only when Window writes have failed (recording.py:216-228).             *)
StallsOnlyByFailure == stage = "recording" =>
    unacked = Len(wire) + Cardinality(acking) + Cardinality(failed)
=============================================================================
