------------------------------ MODULE Recording ------------------------------
(***************************************************************************)
(* The recording service of browser-trace: recording.py together with the  *)
(* tasks of main.py that drive it.  All of it runs on one asyncio loop, so *)
(* a task is interleaved with the others only where it awaits; an action   *)
(* below is the code between two such points.  The tasks are               *)
(*   - connect_cdp, the receive loop (loop, tab, loopRec),                 *)
(*   - one _recording_watchdog per started recording (watchdog),           *)
(*   - run, which shuts the others down on SIGTERM (main, mainRec),        *)
(*   - watch_config, which moves the recordings directory (recordingsDir). *)
(* Chrome and the websocket are the environment.                           *)
(***************************************************************************)
EXTENDS Naturals

CONSTANTS Session,      \* CDP session ids
          Rec,          \* recording ids: start_recording draws a fresh one
          Dir,          \* directories RECORDING_DIR may name
          MaxFrames,    \* bound: frames written per recording
          CanCrash,     \* bound: whether the process may be killed
          NoSession, NoRec, NoDir

ASSUME RecordingAssumption ==
    /\ NoSession \notin Session
    /\ NoRec \notin Rec
    /\ NoDir \notin Dir
    /\ MaxFrames \in Nat
    /\ CanCrash \in BOOLEAN

VARIABLES
    main,           \* run(): where it stands in starting and shutting down
    mainRec,        \* the recording run()'s stop_all is finishing
    loop,           \* connect_cdp: what the receive loop is suspended in
    tab,            \* the session whose attachedToTarget is being handled
    loopRec,        \* the recording the receive loop is finishing
    wsOpen,         \* whether the websocket is open
    attached,       \* keys of main.sessions
    active,         \* _active_recording_by_session
    phase,          \* phase[r]: how far recording r has come
    sess,           \* sess[r]: the session r records
    frames,         \* frames[r]: frame_count, frames written and timed
    torn,           \* torn[r]: a failed write left a .jpg without a time
    timedOut,       \* meta.timed_out
    watchdog,       \* watchdog[r]: state of r's timeout_task
    tmpDir,         \* tmpDir[r]: r's frames_dir exists
    video, sidecar, \* directory holding <r>.mp4, <r>.json
    recordingsDir,  \* _recordings_dir
    cast            \* sessions whose screencast Chrome is running

taskVars == <<main, mainRec, loop, tab, loopRec>>
chromeVars == <<wsOpen, attached, cast>>
frameVars == <<frames, torn>>
recVars == <<active, phase, sess, timedOut, watchdog>>
diskVars == <<tmpDir, video, sidecar>>
recorderVars == <<frameVars, recVars, diskVars, recordingsDir>>
vars == <<taskVars, chromeVars, recorderVars>>

Mains == {"running", "cancelling", "cancelled", "stopAll", "cleanup", "exited"}
Loops == {"polling", "receiving", "enabling", "starting", "stopping",
          "dropping", "ended"}
Finishing == {"stopping", "encoding"}  \* popped, inside stop_recording
Live == {"starting", "recording"} \cup Finishing
Settled == {"stored", "discarded", "failed", "lost"}
Phases == {"none"} \cup Live \cup Settled
Watchdogs == {"none", "sleeping", "finishing", "done", "cancelled"}

Init == /\ main = "running" /\ mainRec = NoRec
        /\ loop = "polling" /\ tab = NoSession /\ loopRec = NoRec
        /\ wsOpen = FALSE /\ attached = {} /\ cast = {}
        /\ active = [s \in Session |-> NoRec]
        /\ phase = [r \in Rec |-> "none"]
        /\ sess = [r \in Rec |-> NoSession]
        /\ frames = [r \in Rec |-> 0] /\ torn = [r \in Rec |-> FALSE]
        /\ timedOut = [r \in Rec |-> FALSE]
        /\ watchdog = [r \in Rec |-> "none"]
        /\ tmpDir = [r \in Rec |-> FALSE]
        /\ video = [r \in Rec |-> NoDir] /\ sidecar = [r \in Rec |-> NoDir]
        /\ recordingsDir \in Dir

-----------------------------------------------------------------------------
(* stop_recording, the part every caller shares.                           *)

(* *.jpg files in r's frames_dir: the timed ones and a torn last one.      *)
HasFiles(r) == frames[r] > 0 \/ torn[r]

(* What comes after the stopScreencast send, whether it succeeded or not.  *)
AfterSend(r) == IF HasFiles(r) THEN "encoding" ELSE "discarded"

(* stop_recording up to its first suspension: an open socket may hold the  *)
(* send back, a closed one makes it raise at once.                         *)
FirstStops(r) == IF wsOpen THEN {"stopping", AfterSend(r)} ELSE {AfterSend(r)}

KeepFrames(r) == UNCHANGED tmpDir                                 \* mutant
RemoveFrames(r) == tmpDir' = [tmpDir EXCEPT ![r] = FALSE]

(* r reaches phase p.  Discarding removes frames_dir and, when late (timed *)
(* out), leaves a sidecar in the current directory unless the disk is full.*)
Reach(r, p, late) ==
    /\ phase' = [phase EXCEPT ![r] = p]
    /\ IF p = "discarded"
       THEN /\ RemoveFrames(r)
            /\ \E d \in IF late THEN {recordingsDir, NoDir} ELSE {NoDir} :
                   sidecar' = [sidecar EXCEPT ![r] = d]
       ELSE UNCHANGED <<tmpDir, sidecar>>
    /\ UNCHANGED video

(* The task that called stop_recording goes on when r is settled.          *)
Holder(r, p) == IF p \in Finishing THEN r ELSE NoRec

(* Pop r: from here on no other task can stop it.                          *)
UnregisterNothing(r) == UNCHANGED active                          \* mutant
UnregisterSession(r) == active' = [active EXCEPT ![sess[r]] = NoSession] \* mutant
Unregister(r) == active' = [active EXCEPT ![sess[r]] = NoRec]

(* Cancel the watchdog unless it is the caller, which sees it through.     *)
LeaveWatchdog(r, p, byWatchdog) ==                                \* mutant
    watchdog' = [watchdog EXCEPT ![r] =
                    IF byWatchdog THEN IF p \in Finishing THEN "finishing" ELSE "done"
                    ELSE @]
StopWatchdog(r, p, byWatchdog) ==
    watchdog' = [watchdog EXCEPT ![r] =
        CASE byWatchdog /\ p \in Finishing -> "finishing"
          [] byWatchdog /\ p \notin Finishing -> "done"
          [] ~byWatchdog /\ @ = "sleeping" -> "cancelled"
          [] OTHER -> @]

(* Chrome stops casting once the message is out.                           *)
KeepScreencast(r) == UNCHANGED cast                               \* mutant
StopScreencast(r) == cast' = cast \ {sess[r]}

(* stop_recording(sess[r]) up to p, its first suspension or its end.       *)
BeginStop(r, p, byWatchdog) ==
    /\ p \in FirstStops(r)
    /\ Unregister(r)
    /\ StopWatchdog(r, p, byWatchdog)
    /\ StopScreencast(r)
    /\ Reach(r, p, byWatchdog)

(* stop_recording ends: its caller, whichever task that was, goes on.      *)
Return(r) ==
    /\ loopRec' = IF loopRec = r THEN NoRec ELSE loopRec
    /\ loop' = IF loopRec = r /\ loop = "stopping" THEN "receiving" ELSE loop
    /\ mainRec' = IF mainRec = r THEN NoRec ELSE mainRec
    /\ watchdog' = [watchdog EXCEPT ![r] = IF @ = "finishing" THEN "done" ELSE @]

(* The stopScreencast send returns or raises.                              *)
SendDone(r) ==
    /\ phase[r] = "stopping"
    /\ Reach(r, AfterSend(r), timedOut[r])
    /\ IF HasFiles(r) THEN UNCHANGED <<loopRec, loop, mainRec, watchdog>>
                      ELSE Return(r)
    /\ UNCHANGED <<main, tab, chromeVars, frameVars, active, sess, timedOut,
                   recordingsDir>>

(* _write_meta reads the directory again, or fails.                        *)
AnySidecarDir == Dir \cup {NoDir}                                 \* mutant
SidecarDir == {recordingsDir, NoDir}

(* ffmpeg succeeds: the mp4 is moved and the sidecar written without a     *)
(* suspension between them, in the directory configured by now; writing    *)
(* the sidecar may fail.  ffmpeg has nothing to encode without timed frames*)
EncodeOk(r) ==
    /\ phase[r] = "encoding" /\ frames[r] > 0
    /\ phase' = [phase EXCEPT ![r] = "stored"]
    /\ video' = [video EXCEPT ![r] = recordingsDir]
    /\ \E d \in SidecarDir : sidecar' = [sidecar EXCEPT ![r] = d]
    /\ RemoveFrames(r)
    /\ Return(r)
    /\ UNCHANGED <<main, tab, chromeVars, frameVars, active, sess, timedOut,
                   recordingsDir>>

(* ffmpeg or the move fails: logged, frames_dir removed, nothing stored.   *)
EncodeFails(r) ==
    /\ phase[r] = "encoding"
    /\ phase' = [phase EXCEPT ![r] = "failed"]
    /\ RemoveFrames(r)
    /\ Return(r)
    /\ UNCHANGED <<main, tab, chromeVars, frameVars, active, sess, timedOut,
                   video, sidecar, recordingsDir>>

(* The tasks in S are cancelled inside stop_recording: CancelledError is   *)
(* no Exception, so nothing is stored, and frames_dir is removed only by   *)
(* the finally around the encode.                                          *)
Lose(S) ==
    /\ phase' = [r \in Rec |-> IF r \in S THEN "lost" ELSE phase[r]]
    /\ tmpDir' = [r \in Rec |-> IF r \in S /\ phase[r] = "encoding"
                                THEN FALSE ELSE tmpDir[r]]

-----------------------------------------------------------------------------
(* connect_cdp, run_session and the recording handlers of handle_event.    *)

Connect ==
    /\ loop = "polling"
    /\ loop' = "receiving" /\ wsOpen' = TRUE
    /\ UNCHANGED <<main, mainRec, tab, loopRec, attached, cast, recorderVars>>

(* Target.attachedToTarget up to its first send; on a socket that has      *)
(* closed meanwhile the send raises and ends run_session.  Bound: there is *)
(* a recording id left.                                                    *)
Attach(s) ==
    /\ loop = "receiving"
    /\ \E r \in Rec : phase[r] = "none"
    /\ attached' = attached \cup {s}
    /\ IF wsOpen THEN loop' = "enabling" /\ tab' = s
                 ELSE loop' = "dropping" /\ tab' = tab
    /\ UNCHANGED <<main, mainRec, loopRec, wsOpen, cast, recorderVars>>

EnableFails ==
    /\ loop = "enabling" /\ ~wsOpen
    /\ loop' = "dropping" /\ tab' = NoSession
    /\ UNCHANGED <<main, mainRec, loopRec, chromeVars, recorderVars>>

(* _new_id never repeats one; the registry is looked up by session.        *)
FreshOrStored(r) == phase[r] \in {"none", "stored"}               \* mutant
Fresh(r) == phase[r] = "none"
Unguarded(s) == TRUE                                              \* mutant
NotRecording(s) == active[s] = NoRec

(* start_recording up to its first suspension.                             *)
StartRecording(r) ==
    /\ loop = "enabling" /\ wsOpen
    /\ NotRecording(tab) /\ Fresh(r)
    /\ loop' = "starting"
    /\ active' = [active EXCEPT ![tab] = r]
    /\ phase' = [phase EXCEPT ![r] = "starting"]
    /\ sess' = [sess EXCEPT ![r] = tab]
    /\ tmpDir' = [tmpDir EXCEPT ![r] = TRUE]
    /\ UNCHANGED <<main, mainRec, tab, loopRec, chromeVars, frameVars, timedOut,
                   watchdog, video, sidecar, recordingsDir>>

(* start_recording returns at once for a session that is recording, and    *)
(* for any other it raises before registering it if mkdtemp fails.         *)
StartsNothing ==
    /\ loop = "enabling" /\ wsOpen
    /\ loop' = "receiving" /\ tab' = NoSession
    /\ UNCHANGED <<main, mainRec, loopRec, chromeVars, recorderVars>>

DisarmedWatchdog(r) == UNCHANGED watchdog                         \* mutant
ArmWatchdog(r) == watchdog' = [watchdog EXCEPT ![r] = "sleeping"]

(* Both sends went out: the screencast runs and the watchdog is armed.     *)
StartDone ==
    /\ loop = "starting" /\ wsOpen
    /\ loop' = "receiving" /\ tab' = NoSession
    /\ phase' = [phase EXCEPT ![active[tab]] = "recording"]
    /\ ArmWatchdog(active[tab])
    /\ cast' = cast \cup {tab}
    /\ UNCHANGED <<main, mainRec, loopRec, wsOpen, attached, frameVars, active,
                   sess, timedOut, diskVars, recordingsDir>>

(* A send raised: start_recording undoes itself and handle_event logs it.  *)
StartFails ==
    /\ loop = "starting" /\ ~wsOpen
    /\ loop' = "receiving" /\ tab' = NoSession
    /\ active' = [active EXCEPT ![tab] = NoRec]
    /\ phase' = [phase EXCEPT ![active[tab]] = "failed"]
    /\ RemoveFrames(active[tab])
    /\ UNCHANGED <<main, mainRec, loopRec, chromeVars, frameVars, sess, timedOut,
                   watchdog, video, sidecar, recordingsDir>>

(* handle_screencast_frame; a failed write may leave a partial file, which *)
(* the next frame, having the same number, overwrites.                     *)
FrameWritten(s) ==
    /\ loop = "receiving" /\ active[s] # NoRec
    /\ frames[active[s]] < MaxFrames
    /\ frames' = [frames EXCEPT ![active[s]] = @ + 1]
    /\ torn' = [torn EXCEPT ![active[s]] = FALSE]
    /\ UNCHANGED <<taskVars, chromeVars, recVars, diskVars, recordingsDir>>

FrameWriteFails(s) ==
    /\ loop = "receiving" /\ active[s] # NoRec
    /\ torn' = [torn EXCEPT ![active[s]] = TRUE]
    /\ UNCHANGED <<taskVars, chromeVars, frames, recVars, diskVars, recordingsDir>>

(* Target.detachedFromTarget for a tab that is not, or no longer, recorded *)
DetachIdle(s) ==
    /\ loop = "receiving" /\ s \in attached /\ active[s] = NoRec
    /\ attached' = attached \ {s}
    /\ UNCHANGED <<taskVars, wsOpen, cast, recorderVars>>

(* ... and for one that is: the receive loop itself stops and encodes.     *)
Detach(s) ==
    /\ loop = "receiving" /\ s \in attached /\ active[s] # NoRec
    /\ attached' = attached \ {s}
    /\ \E p \in Finishing \cup {"discarded"} :
           /\ BeginStop(active[s], p, FALSE)
           /\ loopRec' = Holder(active[s], p)
           /\ loop' = IF p \in Finishing THEN "stopping" ELSE "receiving"
    /\ UNCHANGED <<main, mainRec, tab, wsOpen, frameVars, sess, timedOut,
                   recordingsDir>>

(* The socket closed and every message before that has been handled.       *)
NoticeClosed ==
    /\ loop = "receiving" /\ ~wsOpen
    /\ loop' = "dropping"
    /\ UNCHANGED <<main, mainRec, tab, loopRec, chromeVars, recorderVars>>

(* drop_session_state: stop_all takes the recordings one after the other;  *)
(* nothing is added meanwhile, so its snapshot of the keys is the dict.    *)
DropNext(s) ==
    /\ loop = "dropping" /\ loopRec = NoRec /\ active[s] # NoRec
    /\ \E p \in Finishing \cup {"discarded"} :
           /\ BeginStop(active[s], p, FALSE)
           /\ loopRec' = Holder(active[s], p)
    /\ UNCHANGED <<main, mainRec, loop, tab, wsOpen, attached, frameVars, sess,
                   timedOut, recordingsDir>>

NothingActive == \A s \in Session : active[s] = NoRec

KeepSessions == UNCHANGED attached                                \* mutant
ClearSessions == attached' = {}

(* Dropping runs in a finally: a cancellation goes on after it.            *)
AfterDrop == IF main = "cancelled" THEN "ended" ELSE "polling"

DropDone ==
    /\ loop = "dropping" /\ loopRec = NoRec /\ NothingActive
    /\ loop' = AfterDrop
    /\ ClearSessions /\ wsOpen' = FALSE /\ cast' = {}
    /\ UNCHANGED <<main, mainRec, tab, loopRec, recorderVars>>

-----------------------------------------------------------------------------
(* _recording_watchdog: the sleep ends with the recording still active.    *)
LeaveUnmarked(r) == UNCHANGED timedOut                            \* mutant
MarkTimedOut(r) == timedOut' = [timedOut EXCEPT ![r] = TRUE]

WatchdogFires(r) ==
    /\ watchdog[r] = "sleeping" /\ active[sess[r]] = r
    /\ MarkTimedOut(r)
    /\ \E p \in Finishing \cup {"discarded"} : BeginStop(r, p, TRUE)
    /\ UNCHANGED <<taskVars, wsOpen, attached, frameVars, sess, recordingsDir>>

-----------------------------------------------------------------------------
(* run: SIGTERM, then cancel connect_cdp and wait for it, then stop_all.   *)

Sigterm ==
    /\ main = "running"
    /\ main' = "cancelling"
    /\ UNCHANGED <<mainRec, loop, tab, loopRec, chromeVars, recorderVars>>

(* CancelledError reaches connect_cdp where it awaits.  The first one ends *)
(* run_session, whose finally still drops the session state.               *)
CancelLoop ==
    /\ main = "cancelling" /\ main' = "cancelled"
    /\ loop \in {"receiving", "enabling", "starting"}
    /\ loop' = "dropping" /\ tab' = NoSession
    /\ UNCHANGED <<mainRec, loopRec, chromeVars, recorderVars>>

CancelPolling ==
    /\ main = "cancelling" /\ main' = "cancelled"
    /\ loop = "polling" /\ loop' = "ended"
    /\ UNCHANGED <<mainRec, tab, loopRec, chromeVars, recorderVars>>

(* It strikes inside the stop_recording of a detach handler ...            *)
CancelStopping ==
    /\ main = "cancelling" /\ main' = "cancelled"
    /\ loop = "stopping" /\ loop' = "dropping"
    /\ Lose({loopRec}) /\ loopRec' = NoRec
    /\ UNCHANGED <<mainRec, tab, chromeVars, frameVars, active, sess, timedOut,
                   watchdog, video, sidecar, recordingsDir>>

(* ... or inside drop_session_state, which it ends with tabs still active. *)
CancelDropping ==
    /\ main = "cancelling" /\ main' = "cancelled"
    /\ loop = "dropping" /\ loopRec # NoRec
    /\ loop' = "ended"
    /\ Lose({loopRec}) /\ loopRec' = NoRec
    /\ wsOpen' = FALSE /\ cast' = {}
    /\ UNCHANGED <<mainRec, tab, attached, frameVars, active, sess, timedOut,
                   watchdog, video, sidecar, recordingsDir>>

MainStops ==
    /\ main = "cancelled" /\ loop = "ended"
    /\ main' = "stopAll"
    /\ UNCHANGED <<mainRec, loop, tab, loopRec, chromeVars, recorderVars>>

MainStopNext(s) ==
    /\ main = "stopAll" /\ mainRec = NoRec /\ active[s] # NoRec
    /\ \E p \in Finishing \cup {"discarded"} :
           /\ BeginStop(active[s], p, FALSE)
           /\ mainRec' = Holder(active[s], p)
    /\ UNCHANGED <<main, loop, tab, loopRec, wsOpen, attached, frameVars, sess,
                   timedOut, recordingsDir>>

MainStopDone ==
    /\ main = "stopAll" /\ mainRec = NoRec /\ NothingActive
    /\ main' = "cleanup"
    /\ UNCHANGED <<mainRec, loop, tab, loopRec, chromeVars, recorderVars>>

(* run returns: asyncio.run cancels the tasks still there, which can only  *)
(* be watchdogs that are finishing a recording nobody waits for.           *)
Exit ==
    /\ main = "cleanup" /\ main' = "exited"
    /\ Lose({r \in Rec : phase[r] \in Live})
    /\ watchdog' = [r \in Rec |-> IF watchdog[r] = "finishing" THEN "cancelled"
                                  ELSE watchdog[r]]
    /\ UNCHANGED <<mainRec, loop, tab, loopRec, chromeVars, frameVars, active,
                   sess, timedOut, video, sidecar, recordingsDir>>

(* The process is killed: memory is gone, the disk stays as it is.         *)
Crash ==
    /\ CanCrash /\ main # "exited" /\ main' = "exited"
    /\ mainRec' = NoRec /\ loop' = "ended" /\ tab' = NoSession /\ loopRec' = NoRec
    /\ wsOpen' = FALSE /\ cast' = {} /\ attached' = {}
    /\ active' = [s \in Session |-> NoRec]
    /\ phase' = [r \in Rec |-> IF phase[r] \in Live THEN "lost" ELSE phase[r]]
    /\ watchdog' = [r \in Rec |-> IF watchdog[r] \in {"sleeping", "finishing"}
                                  THEN "cancelled" ELSE watchdog[r]]
    /\ UNCHANGED <<frameVars, sess, timedOut, diskVars, recordingsDir>>

(* s6 starts the service again.                                            *)
Restart ==
    /\ main = "exited" /\ main' = "running"
    /\ loop' = "polling" /\ tab' = NoSession /\ attached' = {}
    /\ UNCHANGED <<mainRec, loopRec, wsOpen, cast, recorderVars>>

-----------------------------------------------------------------------------
(* watch_config: rec.configure, at any of the other tasks' suspensions.    *)
Configure(d) ==
    /\ main \in {"running", "exited"} /\ d # recordingsDir
    /\ recordingsDir' = d
    /\ UNCHANGED <<taskVars, chromeVars, frameVars, recVars, diskVars>>

(* Chrome closes the socket, or the network or the keepalive does.         *)
LoseConnection ==
    /\ wsOpen
    /\ wsOpen' = FALSE /\ cast' = {}
    /\ UNCHANGED <<taskVars, attached, recorderVars>>

-----------------------------------------------------------------------------
Finish(r) == SendDone(r) \/ EncodeOk(r) \/ EncodeFails(r)

LoopStep == \/ Connect \/ EnableFails \/ StartsNothing \/ StartDone
            \/ StartFails \/ NoticeClosed \/ DropDone
            \/ \E r \in Rec : StartRecording(r)
            \/ \E s \in Session : DropNext(s)

ChromeEvent == \E s \in Session : \/ Attach(s) \/ DetachIdle(s) \/ Detach(s)
                                  \/ FrameWritten(s) \/ FrameWriteFails(s)

Cancel == CancelLoop \/ CancelPolling \/ CancelStopping \/ CancelDropping

MainStep == Cancel \/ MainStops \/ MainStopDone \/ Exit
            \/ \E s \in Session : MainStopNext(s)

Next == \/ LoopStep \/ ChromeEvent \/ MainStep
        \/ \E r \in Rec : Finish(r) \/ WatchdogFires(r)
        \/ \E d \in Dir : Configure(d)
        \/ LoseConnection \/ Sigterm \/ Crash \/ Restart

Spec == Init /\ [][Next]_vars

(* The loop runs every ready task; sends return or raise because the       *)
(* websocket's keepalive closes a dead link; ffmpeg ends on a finite input;*)
(* the watchdog's sleep expires; a cancellation is thrown at the next      *)
(* await even if the awaits come and go (strong fairness).                 *)
Fairness == /\ WF_vars(LoopStep) /\ WF_vars(MainStep) /\ SF_vars(Cancel)
            /\ \A r \in Rec : WF_vars(Finish(r)) /\ WF_vars(WatchdogFires(r))

FairSpec == Spec /\ Fairness

-----------------------------------------------------------------------------
(* Every variable keeps the type its Python counterpart has.               *)
TypeOK == /\ main \in Mains /\ mainRec \in Rec \cup {NoRec}
          /\ loop \in Loops
          /\ tab \in IF loop \in {"enabling", "starting"} THEN Session
                                                          ELSE {NoSession}
          /\ loopRec \in Rec \cup {NoRec}
          /\ wsOpen \in BOOLEAN /\ attached \subseteq Session
          /\ cast \subseteq Session
          /\ active \in [Session -> Rec \cup {NoRec}]
          /\ phase \in [Rec -> Phases]
          /\ sess \in [Rec -> Session \cup {NoSession}]
          /\ frames \in [Rec -> Nat] /\ torn \in [Rec -> BOOLEAN]
          /\ timedOut \in [Rec -> BOOLEAN]
          /\ watchdog \in [Rec -> Watchdogs]
          /\ tmpDir \in [Rec -> BOOLEAN]
          /\ video \in [Rec -> Dir \cup {NoDir}]
          /\ sidecar \in [Rec -> Dir \cup {NoDir}]
          /\ recordingsDir \in Dir

(* The registry and the recordings agree: an entry is a recording of that  *)
(* very session that nobody has begun to stop, and no such recording is    *)
(* missing from it, or stop_all and the detach handler would never see it  *)
(* (recording.py:87-91, 119, 144, 169, 233).                               *)
ActiveIsExact ==
    \A r \in Rec : phase[r] \in {"starting", "recording"}
                       <=> \E s \in Session : active[s] = r /\ sess[r] = s

(* The detach handler, the watchdog, drop_session_state and the shutdown   *)
(* may all try to stop a recording; exactly one of them gets to finish it, *)
(* so no frames_dir is removed under an ffmpeg another task awaits         *)
(* (recording.py:198, 233-235, 285; main.py:451, 603, 672).                *)
Finishers(r) == {t \in {"loop", "main", "watchdog"} :
                    \/ t = "loop" /\ loopRec = r
                    \/ t = "main" /\ mainRec = r
                    \/ t = "watchdog" /\ watchdog[r] = "finishing"}

OneFinisher ==
    \A r \in Rec : IF phase[r] \in Finishing
                   THEN \E t \in Finishers(r) : Finishers(r) = {t}
                   ELSE Finishers(r) = {}

(* Frames cannot pile up unguarded: a recording that captures has an armed *)
(* watchdog, and no watchdog sleeps on for one that does not, where it     *)
(* could strike the session's next recording (recording.py:48-50, 173-177, *)
(* 189-192, 237-242).                                                      *)
WatchdogExact == \A r \in Rec : phase[r] = "recording" <=> watchdog[r] = "sleeping"

(* A frames_dir exists exactly while its recording is live; only a process *)
(* that is shut down or killed may leave one behind (recording.py:123,     *)
(* 170, 261, 279).                                                         *)
FramesDirReclaimed ==
    \A r \in Rec : /\ phase[r] \in Live => tmpDir[r]
                   /\ tmpDir[r] => phase[r] \in Live \cup {"lost"}

(* RECORDING_DIR may move while ffmpeg runs, yet a video and its sidecar   *)
(* end up in one directory; a sidecar alone marks a timed-out tab          *)
(* (recording.py:262-264, 268-270, 352-359).                               *)
SidecarBesideVideo ==
    \A r \in Rec : sidecar[r] # NoDir =>
        IF video[r] # NoDir THEN sidecar[r] = video[r]
                            ELSE timedOut[r] /\ ~HasFiles(r)

(* Session ids mean nothing on the next connection: when the receive loop  *)
(* polls for Chrome again, no tab is registered and nothing of the old     *)
(* connection is still being captured (main.py:601-607, 629-631).          *)
NothingSurvivesDisconnect ==
    loop = "polling" => attached = {} /\ NothingActive /\ cast = {} /\ ~wsOpen

(* A running screencast always has a recording that consumes its frames;   *)
(* otherwise it would starve the session's next one (recording.py:244-248).*)
ScreencastConsumed == \A s \in cast : active[s] # NoRec

(* A tab is recorded for its whole lifetime: capture ends only with the    *)
(* tab, the connection, the time limit or the process (recording.py:6-9,   *)
(* 48-50), never because of what happens to another tab.                   *)
RecordsWholeLifetime ==
    [][\A r \in Rec : phase[r] = "recording" /\ phase'[r] # "recording" =>
           \/ sess[r] \notin attached'
           \/ timedOut'[r] /\ ~timedOut[r]
           \/ loop = "dropping"
           \/ main # "running" \/ main' # "running"]_vars

(* Every recording is finished some day: no tab, socket or shutdown leaves *)
(* one open (recording.py:8-9, 48-50).                                     *)
EverySettles == \A r \in Rec : phase[r] \in Live ~> phase[r] \in Settled

(* A SIGTERM ends the process, whichever encodes are running (main.py:     *)
(* 661-676).                                                               *)
ShutdownCompletes == main = "cancelling" ~> main = "exited"

(* Both at once: whatever is under way comes to rest.                      *)
ComesToRest == EverySettles /\ ShutdownCompletes

(* recording.py implements the life cycle of RecordingLifecycle.           *)
StageOf(p) == CASE p = "none" -> "unborn"
                [] p \in {"starting", "recording"} -> "capturing"
                [] p \in Finishing -> "finishing"
                [] p = "stored" -> "published"
                [] OTHER -> "dropped"

Lifecycle == INSTANCE RecordingLifecycle
                 WITH stage <- [r \in Rec |-> StageOf(phase[r])],
                      catalogue <- {r \in Rec : video[r] # NoDir}

ImplementsLifecycle == Lifecycle!Spec

-----------------------------------------------------------------------------
(* A statement of the code's comments that does not hold.                  *)

(* recording.py:8-9, "Each recording is finalized when its tab closes or   *)
(* the CDP connection drops": without a kill, captured frames are not lost.*)
CapturedIsFinalized == \A r \in Rec : phase[r] = "lost" => frames[r] = 0
=============================================================================
