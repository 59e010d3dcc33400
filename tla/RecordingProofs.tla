--------------------------- MODULE RecordingProofs ---------------------------
(***************************************************************************)
(* Theorems about Recording, for every number of sessions, recordings and  *)
(* directories and every bound on frames.                                  *)
(***************************************************************************)
EXTENDS Recording, TLAPS

-----------------------------------------------------------------------------
(* The inductive invariant.  ActiveIsExact and WatchdogExact are not       *)
(* inductive by themselves: they need to know that an entry's recording    *)
(* belongs to the entry's session, and where each task stands when it      *)
(* touches the registry.                                                   *)

Capturing == {"starting", "recording"}

(* The registry, read in both directions.                                  *)
Registry ==
    /\ \A s \in Session : active[s] # NoRec =>
           sess[active[s]] = s /\ phase[active[s]] \in Capturing
    /\ \A r \in Rec : phase[r] \in Capturing =>
           sess[r] \in Session /\ active[sess[r]] = r

(* What the receive loop has in hand in each of its states.                *)
LoopControl ==
    /\ loop = "starting" => active[tab] # NoRec /\ phase[active[tab]] = "starting"
    /\ loop = "stopping" => loopRec # NoRec
    /\ loopRec # NoRec => loop \in {"stopping", "dropping"}
    /\ loop = "ended" => main \notin {"running", "cancelling"}

(* By the time run stops recordings itself, the receive loop has ended.    *)
MainControl ==
    /\ mainRec # NoRec => main = "stopAll"
    /\ main \in {"stopAll", "cleanup", "exited"} => loop = "ended"
    /\ main \in {"cleanup", "exited"} => NothingActive

(* A connection that is gone has left nothing behind.                      *)
Disconnected ==
    /\ loop = "polling" => attached = {} /\ NothingActive
    /\ loop \in {"polling", "ended"} => ~wsOpen
    /\ ~wsOpen => cast = {}

(* OneFinisher without the set of tasks: who holds a recording, and that   *)
(* nobody else does.                                                       *)
Handed ==
    \A r \in Rec :
        /\ phase[r] \in Finishing
               <=> loopRec = r \/ mainRec = r \/ watchdog[r] = "finishing"
        /\ ~(loopRec = r /\ mainRec = r)
        /\ watchdog[r] = "finishing" => loopRec # r /\ mainRec # r

IInv == /\ TypeOK /\ Registry /\ LoopControl /\ MainControl /\ Disconnected
        /\ WatchdogExact /\ Handed /\ ScreencastConsumed
-----------------------------------------------------------------------------
(* Type correctness is inductive by itself.                                *)

(* What the shared parts of stop_recording do to the types.                *)
LEMMA ReachDisk ==
    ASSUME TypeOK, NEW r, NEW p, NEW late \in BOOLEAN, Reach(r, p, late)
    PROVE  /\ tmpDir' \in [Rec -> BOOLEAN]
           /\ video' \in [Rec -> Dir \cup {NoDir}]
           /\ sidecar' \in [Rec -> Dir \cup {NoDir}]
<1>1. CASE p = "discarded"
  <2>1. PICK d \in IF late THEN {recordingsDir, NoDir} ELSE {NoDir} :
            sidecar' = [sidecar EXCEPT ![r] = d]
      BY <1>1 DEF Reach
  <2>2. d \in Dir \cup {NoDir}
      BY <2>1 DEF TypeOK
  <2> QED BY <1>1, <2>1, <2>2 DEF Reach, RemoveFrames, TypeOK
<1>2. CASE p # "discarded"
    BY <1>2 DEF Reach, TypeOK
<1> QED BY <1>1, <1>2

LEMMA StopTypes ==
    ASSUME TypeOK, NEW r \in Rec \cup {NoRec},
           NEW p \in Finishing \cup {"discarded"}, NEW b \in BOOLEAN, BeginStop(r, p, b)
    PROVE  /\ active' \in [Session -> Rec \cup {NoRec}]
           /\ phase' \in [Rec -> Phases] /\ watchdog' \in [Rec -> Watchdogs]
           /\ cast' \subseteq Session /\ tmpDir' \in [Rec -> BOOLEAN]
           /\ video' \in [Rec -> Dir \cup {NoDir}]
           /\ sidecar' \in [Rec -> Dir \cup {NoDir}]
           /\ Holder(r, p) \in Rec \cup {NoRec}
<1> USE DEF TypeOK, Finishing
<1>1. active' \in [Session -> Rec \cup {NoRec}]
    BY DEF BeginStop, Unregister
<1>2. phase' \in [Rec -> Phases]
    BY DEF BeginStop, Reach, Phases, Live, Settled
<1>3. watchdog' \in [Rec -> Watchdogs]
  <2>1. CASE b /\ p \in Finishing
      BY <2>1 DEF BeginStop, StopWatchdog, Watchdogs
  <2>2. CASE b /\ p \notin Finishing
      BY <2>2 DEF BeginStop, StopWatchdog, Watchdogs
  <2>3. CASE ~b
      BY <2>3 DEF BeginStop, StopWatchdog, Watchdogs
  <2> QED BY <2>1, <2>2, <2>3
<1>4. cast' \subseteq Session
    BY DEF BeginStop, StopScreencast
<1>5. /\ tmpDir' \in [Rec -> BOOLEAN]
      /\ video' \in [Rec -> Dir \cup {NoDir}]
      /\ sidecar' \in [Rec -> Dir \cup {NoDir}]
    BY ReachDisk DEF BeginStop
<1>6. Holder(r, p) \in Rec \cup {NoRec}
    BY DEF Holder
<1> QED BY <1>1, <1>2, <1>3, <1>4, <1>5, <1>6

LEMMA InitType == Init => TypeOK
<1> SUFFICES ASSUME Init PROVE TypeOK
    OBVIOUS
<1>1. /\ main \in Mains /\ loop \in Loops /\ tab = NoSession
      /\ loop \notin {"enabling", "starting"}
    BY DEF Init, Mains, Loops
<1>2. /\ phase \in [Rec -> Phases] /\ watchdog \in [Rec -> Watchdogs]
      /\ frames \in [Rec -> Nat] /\ torn \in [Rec -> BOOLEAN]
      /\ timedOut \in [Rec -> BOOLEAN] /\ tmpDir \in [Rec -> BOOLEAN]
    BY DEF Init, Phases, Watchdogs
<1> QED BY <1>1, <1>2 DEF Init, TypeOK

LEMMA NextType == TypeOK /\ [Next]_vars => TypeOK'
<1> SUFFICES ASSUME TypeOK, [Next]_vars PROVE TypeOK'
    OBVIOUS
<1> USE RecordingAssumption
    DEF TypeOK, Mains, Loops, taskVars, chromeVars, frameVars, recVars, diskVars,
        recorderVars
<1>1. CASE UNCHANGED vars
    BY <1>1 DEF vars
<1>2. CASE LoopStep
  <2>1. CASE Connect
      BY <2>1 DEF Connect
  <2>2. CASE EnableFails
      BY <2>2 DEF EnableFails
  <2>3. CASE StartsNothing
      BY <2>3 DEF StartsNothing
  <2>4. CASE StartDone
      BY <2>4 DEF StartDone, ArmWatchdog, Phases, Live, Watchdogs
  <2>5. CASE StartFails
      BY <2>5 DEF StartFails, RemoveFrames, Phases, Settled
  <2>6. CASE NoticeClosed
      BY <2>6 DEF NoticeClosed
  <2>7. CASE DropDone
      BY <2>7 DEF DropDone, ClearSessions, AfterDrop
  <2>8. CASE \E r \in Rec : StartRecording(r)
    <3>1. PICK r \in Rec : StartRecording(r)
        BY <2>8
    <3>2. tab \in Session /\ tab' \in Session
        BY <3>1 DEF StartRecording
    <3> QED BY <3>1, <3>2 DEF StartRecording, Phases, Live
  <2>9. CASE \E s \in Session : DropNext(s)
    <3>1. PICK s \in Session : DropNext(s)
        BY <2>9
    <3>2. PICK p \in Finishing \cup {"discarded"} :
              BeginStop(active[s], p, FALSE) /\ loopRec' = Holder(active[s], p)
        BY <3>1 DEF DropNext
    <3> QED BY <3>1, <3>2, StopTypes DEF DropNext
  <2> QED BY <1>2, <2>1, <2>2, <2>3, <2>4, <2>5, <2>6, <2>7, <2>8, <2>9 DEF LoopStep
<1>3. CASE ChromeEvent
  <2>1. PICK s \in Session : \/ Attach(s) \/ DetachIdle(s) \/ Detach(s)
                             \/ FrameWritten(s) \/ FrameWriteFails(s)
      BY <1>3 DEF ChromeEvent
  <2>2. CASE Attach(s)
      BY <2>2 DEF Attach
  <2>3. CASE DetachIdle(s)
      BY <2>3 DEF DetachIdle
  <2>4. CASE Detach(s)
    <3>1. PICK p \in Finishing \cup {"discarded"} :
              /\ BeginStop(active[s], p, FALSE)
              /\ loopRec' = Holder(active[s], p)
              /\ loop' = IF p \in Finishing THEN "stopping" ELSE "receiving"
        BY <2>4 DEF Detach
    <3> QED BY <2>4, <3>1, StopTypes DEF Detach
  <2>5. CASE FrameWritten(s)
      BY <2>5 DEF FrameWritten
  <2>6. CASE FrameWriteFails(s)
      BY <2>6 DEF FrameWriteFails
  <2> QED BY <2>1, <2>2, <2>3, <2>4, <2>5, <2>6
<1>4. CASE MainStep
  <2>1. CASE CancelLoop \/ CancelPolling
      BY <2>1 DEF CancelLoop, CancelPolling
  <2>2. CASE CancelStopping \/ CancelDropping
      BY <2>2 DEF CancelStopping, CancelDropping, Lose, Phases, Settled
  <2>3. CASE MainStops \/ MainStopDone
      BY <2>3 DEF MainStops, MainStopDone
  <2>4. CASE Exit
      BY <2>4 DEF Exit, Lose, Phases, Settled, Watchdogs
  <2>5. CASE \E s \in Session : MainStopNext(s)
    <3>1. PICK s \in Session : MainStopNext(s)
        BY <2>5
    <3>2. PICK p \in Finishing \cup {"discarded"} :
              BeginStop(active[s], p, FALSE) /\ mainRec' = Holder(active[s], p)
        BY <3>1 DEF MainStopNext
    <3> QED BY <3>1, <3>2, StopTypes DEF MainStopNext
  <2> QED BY <1>4, <2>1, <2>2, <2>3, <2>4, <2>5 DEF MainStep, Cancel
<1>5. CASE \E r \in Rec : Finish(r) \/ WatchdogFires(r)
  <2>1. PICK r \in Rec : Finish(r) \/ WatchdogFires(r)
      BY <1>5
  <2>2. CASE SendDone(r)
    <3>1. /\ tmpDir' \in [Rec -> BOOLEAN]
          /\ video' \in [Rec -> Dir \cup {NoDir}]
          /\ sidecar' \in [Rec -> Dir \cup {NoDir}]
        BY <2>2, ReachDisk DEF SendDone
    <3>2. phase' \in [Rec -> Phases]
        BY <2>2 DEF SendDone, Reach, AfterSend, Phases, Live, Finishing, Settled
    <3>3. CASE HasFiles(r)
        BY <2>2, <3>1, <3>2, <3>3 DEF SendDone
    <3>4. CASE ~HasFiles(r)
        BY <2>2, <3>1, <3>2, <3>4 DEF SendDone, Return, Watchdogs
    <3> QED BY <3>3, <3>4
  <2>3. CASE EncodeOk(r)
      BY <2>3 DEF EncodeOk, SidecarDir, RemoveFrames, Return, Phases, Settled,
                  Watchdogs
  <2>4. CASE EncodeFails(r)
      BY <2>4 DEF EncodeFails, RemoveFrames, Return, Phases, Settled, Watchdogs
  <2>5. CASE WatchdogFires(r)
    <3>1. PICK p \in Finishing \cup {"discarded"} : BeginStop(r, p, TRUE)
        BY <2>5 DEF WatchdogFires
    <3> QED BY <2>5, <3>1, StopTypes DEF WatchdogFires, MarkTimedOut
  <2> QED BY <2>1, <2>2, <2>3, <2>4, <2>5 DEF Finish
<1>6. CASE \E d \in Dir : Configure(d)
    BY <1>6 DEF Configure
<1>7. CASE LoseConnection
    BY <1>7 DEF LoseConnection
<1>9. CASE Sigterm \/ Restart
    BY <1>9 DEF Sigterm, Restart
<1>8. CASE Crash
    BY <1>8 DEF Crash, Phases, Settled, Watchdogs
<1> QED BY <1>1, <1>2, <1>3, <1>4, <1>5, <1>6, <1>7, <1>8, <1>9 DEF Next

(* Every variable keeps the type its Python counterpart has, whatever the  *)
(* tasks, Chrome and the disk do.                                          *)
THEOREM TypeCorrect == Spec => []TypeOK
BY InitType, NextType, PTL DEF Spec
-----------------------------------------------------------------------------
(* Beginning to stop a recording of the registry.                          *)
LEMMA StopEffect ==
    ASSUME TypeOK, Registry, WatchdogExact, Handed,
           NEW r \in Rec, phase[r] \in Capturing,
           NEW p \in Finishing \cup {"discarded"}, NEW b \in BOOLEAN,
           BeginStop(r, p, b)
    PROVE  /\ sess[r] \in Session /\ active[sess[r]] = r
           /\ active' = [active EXCEPT ![sess[r]] = NoRec]
           /\ phase' = [phase EXCEPT ![r] = p]
           /\ cast' = cast \ {sess[r]}
           /\ loopRec # r /\ mainRec # r /\ watchdog[r] # "finishing"
           /\ \A q \in Rec \ {r} : watchdog'[q] = watchdog[q]
           /\ watchdog'[r] # "sleeping"
           /\ watchdog'[r] = "finishing" <=> b /\ p \in Finishing
<1>1. sess[r] \in Session /\ active[sess[r]] = r
    BY DEF Registry
<1>2. loopRec # r /\ mainRec # r /\ watchdog[r] # "finishing"
    BY DEF Handed, Capturing, Finishing
<1>3. /\ active' = [active EXCEPT ![sess[r]] = NoRec]
      /\ phase' = [phase EXCEPT ![r] = p]
      /\ cast' = cast \ {sess[r]}
    BY DEF BeginStop, Unregister, StopScreencast, Reach
<1>4. /\ \A q \in Rec \ {r} : watchdog'[q] = watchdog[q]
      /\ watchdog'[r] # "sleeping"
      /\ watchdog'[r] = "finishing" <=> b /\ p \in Finishing
  <2>1. StopWatchdog(r, p, b)
      BY DEF BeginStop
  <2>2. CASE b /\ p \in Finishing
      BY <2>1, <2>2 DEF StopWatchdog, TypeOK
  <2>3. CASE b /\ p \notin Finishing
      BY <2>1, <2>3 DEF StopWatchdog, TypeOK
  <2>4. CASE ~b /\ watchdog[r] = "sleeping"
      BY <2>1, <2>4 DEF StopWatchdog, TypeOK
  <2>5. CASE ~b /\ watchdog[r] # "sleeping"
      BY <1>2, <2>1, <2>5 DEF StopWatchdog, TypeOK
  <2> QED BY <2>2, <2>3, <2>4, <2>5
<1> QED BY <1>1, <1>2, <1>3, <1>4

LEMMA StopKeeps ==
    ASSUME TypeOK, Registry, WatchdogExact, Handed, ScreencastConsumed,
           NEW r \in Rec, phase[r] \in Capturing,
           NEW p \in Finishing \cup {"discarded"}, NEW b \in BOOLEAN,
           BeginStop(r, p, b), UNCHANGED sess
    PROVE  Registry' /\ WatchdogExact' /\ ScreencastConsumed'
<1>1. Registry'
    BY StopEffect DEF Registry, TypeOK, Capturing, Finishing
<1>2. WatchdogExact'
    BY StopEffect DEF WatchdogExact, TypeOK, Finishing
<1>3. ScreencastConsumed'
    BY StopEffect DEF ScreencastConsumed, TypeOK
<1> QED BY <1>1, <1>2, <1>3
-----------------------------------------------------------------------------
(* The invariant beyond the types is kept by every step.                   *)
Ctl == LoopControl /\ MainControl /\ Disconnected
Data == Registry /\ WatchdogExact /\ Handed /\ ScreencastConsumed

LEMMA InitInv == Init => IInv
<1> SUFFICES ASSUME Init PROVE IInv
    OBVIOUS
<1>1. TypeOK
    BY InitType
<1>2. Registry /\ WatchdogExact /\ Handed /\ ScreencastConsumed
    BY RecordingAssumption DEF Init, Registry, WatchdogExact, Handed, Capturing,
       Finishing, ScreencastConsumed
<1>3. LoopControl /\ MainControl /\ Disconnected
    BY DEF Init, LoopControl, MainControl, Disconnected, NothingActive
<1> QED BY <1>1, <1>2, <1>3 DEF IInv

(* Steps of the receive loop that stop nothing.                            *)
LEMMA LoopStepInv ==
    ASSUME IInv, TypeOK',
           \/ Connect \/ EnableFails \/ StartsNothing \/ StartDone
           \/ StartFails \/ NoticeClosed \/ DropDone
           \/ \E r \in Rec : StartRecording(r)
    PROVE  Ctl' /\ Data'
<1> USE RecordingAssumption
    DEF IInv, Ctl, Data, TypeOK, taskVars, chromeVars, frameVars, recVars,
        diskVars, recorderVars
<1>1. CASE Connect \/ EnableFails \/ StartsNothing \/ NoticeClosed
  <2>1. UNCHANGED <<main, mainRec, loopRec, cast, active, phase, sess, watchdog>>
      BY <1>1 DEF Connect, EnableFails, StartsNothing, NoticeClosed
  <2>2. Data'
      BY <2>1 DEF Registry, WatchdogExact, Handed, ScreencastConsumed
  <2>3. Ctl'
      BY <1>1, <2>1 DEF Connect, EnableFails, StartsNothing, NoticeClosed,
         LoopControl, MainControl, Disconnected, NothingActive
  <2> QED BY <2>2, <2>3
<1>2. CASE StartDone
  <2> DEFINE r == active[tab]
  <2>1. tab \in Session /\ r \in Rec /\ phase[r] = "starting" /\ sess[r] = tab
      BY <1>2 DEF StartDone, LoopControl, Registry
  <2>2. Registry'
      BY <1>2, <2>1 DEF StartDone, Registry, Capturing
  <2>3. WatchdogExact'
      BY <1>2, <2>1 DEF StartDone, ArmWatchdog, WatchdogExact
  <2>4. Handed'
      BY <1>2, <2>1 DEF StartDone, ArmWatchdog, Handed, Finishing
  <2>5. ScreencastConsumed'
      BY <1>2, <2>1 DEF StartDone, ScreencastConsumed
  <2>6. Ctl'
      BY <1>2 DEF StartDone, LoopControl, MainControl, Disconnected, NothingActive
  <2> QED BY <2>2, <2>3, <2>4, <2>5, <2>6
<1>3. CASE StartFails
  <2> DEFINE r == active[tab]
  <2>1. tab \in Session /\ r \in Rec /\ phase[r] = "starting" /\ sess[r] = tab
      BY <1>3 DEF StartFails, LoopControl, Registry
  <2>2. Registry'
      BY <1>3, <2>1 DEF StartFails, Registry, Capturing
  <2>3. WatchdogExact' /\ Handed'
      BY <1>3, <2>1 DEF StartFails, WatchdogExact, Handed, Finishing
  <2>4. ScreencastConsumed'
      BY <1>3 DEF StartFails, ScreencastConsumed, Disconnected
  <2>5. Ctl'
      BY <1>3 DEF StartFails, LoopControl, MainControl, Disconnected, NothingActive
  <2> QED BY <2>2, <2>3, <2>4, <2>5
<1>4. CASE DropDone
  <2>1. UNCHANGED <<main, mainRec, loopRec, active, phase, sess, watchdog>>
      BY <1>4 DEF DropDone
  <2>2. Data'
      BY <1>4, <2>1 DEF DropDone, Registry, WatchdogExact, Handed, ScreencastConsumed
  <2>3. Ctl'
      BY <1>4, <2>1 DEF DropDone, ClearSessions, AfterDrop, LoopControl,
         MainControl, Disconnected, NothingActive
  <2> QED BY <2>2, <2>3
<1>5. CASE \E r \in Rec : StartRecording(r)
  <2>1. PICK r \in Rec : StartRecording(r)
      BY <1>5
  <2>2. /\ tab \in Session /\ active[tab] = NoRec /\ phase[r] = "none"
        /\ active' = [active EXCEPT ![tab] = r]
        /\ phase' = [phase EXCEPT ![r] = "starting"]
        /\ sess' = [sess EXCEPT ![r] = tab]
        /\ UNCHANGED <<main, mainRec, tab, loopRec, wsOpen, attached, cast, watchdog>>
        /\ loop = "enabling" /\ loop' = "starting"
      BY <2>1 DEF StartRecording, NotRecording, Fresh
  <2>3. Registry'
      BY <2>2 DEF Registry, Capturing
  <2>4. WatchdogExact' /\ Handed' /\ ScreencastConsumed'
      BY <2>2 DEF WatchdogExact, Handed, Finishing, ScreencastConsumed
  <2>5. Ctl'
      BY <2>1, <2>2 DEF LoopControl, MainControl, Disconnected, NothingActive
  <2> QED BY <2>3, <2>4, <2>5
<1> QED BY <1>1, <1>2, <1>3, <1>4, <1>5
(* The four ways a recording begins to be stopped.                         *)
LEMMA StopStepInv ==
    ASSUME IInv, TypeOK', NEW s \in Session,
           Detach(s) \/ DropNext(s) \/ MainStopNext(s)
    PROVE  Ctl' /\ Data'
<1> DEFINE r == active[s]
<1>1. /\ TypeOK /\ Registry /\ WatchdogExact /\ Handed /\ ScreencastConsumed
      /\ LoopControl /\ MainControl /\ Disconnected
    BY DEF IInv
<1>2. r \in Rec /\ phase[r] \in Capturing /\ sess[r] = s
  <2>1. active[s] # NoRec
      BY DEF Detach, DropNext, MainStopNext
  <2> QED BY <1>1, <2>1 DEF Registry, TypeOK
<1>3. PICK p \in Finishing \cup {"discarded"} : BeginStop(r, p, FALSE)
    BY DEF Detach, DropNext, MainStopNext
<1>4. UNCHANGED <<main, tab, wsOpen, sess>>
    BY DEF Detach, DropNext, MainStopNext
<1>5. Registry' /\ WatchdogExact' /\ ScreencastConsumed'
    BY <1>1, <1>2, <1>3, <1>4, StopKeeps
<1>6. /\ active' = [active EXCEPT ![s] = NoRec]
      /\ phase' = [phase EXCEPT ![r] = p]
      /\ cast' = cast \ {s}
      /\ loopRec # r /\ mainRec # r
      /\ \A q \in Rec \ {r} : watchdog'[q] = watchdog[q]
      /\ watchdog[r] # "finishing" /\ watchdog'[r] # "finishing"
    BY <1>1, <1>2, <1>3, StopEffect
<1>7. CASE Detach(s)
  <2>1. PICK q \in Finishing \cup {"discarded"} :
            /\ BeginStop(r, q, FALSE)
            /\ loopRec' = Holder(r, q)
            /\ loop' = IF q \in Finishing THEN "stopping" ELSE "receiving"
      BY <1>7 DEF Detach
  <2>2. q = p
      BY <1>1, <1>2, <1>3, <2>1 DEF BeginStop, Reach, TypeOK
  <2>3. loopRec = NoRec /\ loop = "receiving" /\ mainRec' = mainRec
      BY <1>1, <1>7, RecordingAssumption DEF Detach, LoopControl
  <2>4. Handed'
      BY <1>1, <1>2, <1>6, <2>1, <2>2, <2>3, RecordingAssumption
         DEF Handed, Holder, Finishing, TypeOK
  <2>5. Ctl'
      BY <1>1, <1>2, <1>4, <1>6, <2>1, <2>2, <2>3, RecordingAssumption
         DEF Ctl, LoopControl, MainControl, Disconnected, NothingActive, Holder, TypeOK
  <2> QED BY <1>5, <2>4, <2>5 DEF Data
<1>8. CASE DropNext(s)
  <2>1. PICK q \in Finishing \cup {"discarded"} :
            BeginStop(r, q, FALSE) /\ loopRec' = Holder(r, q)
      BY <1>8 DEF DropNext
  <2>2. q = p
      BY <1>1, <1>2, <1>3, <2>1 DEF BeginStop, Reach, TypeOK
  <2>3. /\ loopRec = NoRec /\ loop = "dropping" /\ loop' = loop
        /\ mainRec' = mainRec
      BY <1>8 DEF DropNext
  <2>4. Handed'
      BY <1>1, <1>2, <1>6, <2>1, <2>2, <2>3, RecordingAssumption
         DEF Handed, Holder, Finishing, TypeOK
  <2>5. Ctl'
      BY <1>1, <1>4, <1>6, <2>3
         DEF Ctl, LoopControl, MainControl, Disconnected, NothingActive
  <2> QED BY <1>5, <2>4, <2>5 DEF Data
<1>9. CASE MainStopNext(s)
  <2>1. PICK q \in Finishing \cup {"discarded"} :
            BeginStop(r, q, FALSE) /\ mainRec' = Holder(r, q)
      BY <1>9 DEF MainStopNext
  <2>2. q = p
      BY <1>1, <1>2, <1>3, <2>1 DEF BeginStop, Reach, TypeOK
  <2>3. /\ mainRec = NoRec /\ main = "stopAll"
        /\ UNCHANGED <<loop, loopRec, attached>>
      BY <1>9 DEF MainStopNext
  <2>4. Handed'
      BY <1>1, <1>2, <1>6, <2>1, <2>2, <2>3, RecordingAssumption
         DEF Handed, Holder, Finishing, TypeOK
  <2>5. Ctl'
      BY <1>1, <1>4, <1>6, <2>3
         DEF Ctl, LoopControl, MainControl, Disconnected, NothingActive
  <2> QED BY <1>5, <2>4, <2>5 DEF Data
<1> QED BY <1>7, <1>8, <1>9

LEMMA WatchdogStepInv ==
    ASSUME IInv, TypeOK', NEW r \in Rec, WatchdogFires(r)
    PROVE  Ctl' /\ Data'
<1>1. /\ TypeOK /\ Registry /\ WatchdogExact /\ Handed /\ ScreencastConsumed
      /\ LoopControl /\ MainControl /\ Disconnected
    BY DEF IInv
<1>2. phase[r] \in Capturing
    BY <1>1 DEF WatchdogFires, WatchdogExact, Capturing
<1>3. PICK p \in Finishing \cup {"discarded"} : BeginStop(r, p, TRUE)
    BY DEF WatchdogFires
<1>4. UNCHANGED <<main, mainRec, loop, tab, loopRec, wsOpen, attached, sess>>
    BY DEF WatchdogFires, taskVars
<1>5. Registry' /\ WatchdogExact' /\ ScreencastConsumed'
    BY <1>1, <1>2, <1>3, <1>4, StopKeeps
<1>6. /\ active' = [active EXCEPT ![sess[r]] = NoRec]
      /\ phase' = [phase EXCEPT ![r] = p]
      /\ cast' = cast \ {sess[r]}
      /\ loopRec # r /\ mainRec # r
      /\ active[sess[r]] = r /\ sess[r] \in Session
      /\ \A q \in Rec \ {r} : watchdog'[q] = watchdog[q]
      /\ watchdog'[r] = "finishing" <=> p \in Finishing
    BY <1>1, <1>2, <1>3, StopEffect
<1>7. Handed'
    BY <1>1, <1>4, <1>6 DEF Handed, Finishing, TypeOK
<1>8. loop # "starting" \/ active[tab] # r
    BY <1>1 DEF WatchdogFires, WatchdogExact, LoopControl
<1>9. Ctl'
  <2>1. LoopControl'
      BY <1>1, <1>2, <1>4, <1>6, <1>8 DEF LoopControl, TypeOK
  <2>2. MainControl' /\ Disconnected'
      BY <1>1, <1>4, <1>6 DEF MainControl, Disconnected, NothingActive, TypeOK
  <2> QED BY <2>1, <2>2 DEF Ctl
<1> QED BY <1>5, <1>7, <1>9 DEF Data

(* stop_recording goes on or ends, in whichever task.                      *)
LEMMA FinishStepInv ==
    ASSUME IInv, TypeOK', NEW r \in Rec, Finish(r)
    PROVE  Ctl' /\ Data'
<1>1. /\ TypeOK /\ Registry /\ WatchdogExact /\ Handed /\ ScreencastConsumed
      /\ LoopControl /\ MainControl /\ Disconnected
    BY DEF IInv
<1>2. /\ phase[r] \in Finishing
      /\ UNCHANGED <<main, tab, wsOpen, attached, cast, active, sess>>
    BY DEF Finish, SendDone, EncodeOk, EncodeFails, chromeVars, Finishing
<1>3. PICK p \in {"encoding", "discarded", "stored", "failed"} :
          /\ phase' = [phase EXCEPT ![r] = p]
          /\ p = "encoding" => UNCHANGED <<loopRec, loop, mainRec, watchdog>>
          /\ p # "encoding" => Return(r)
    BY DEF Finish, SendDone, EncodeOk, EncodeFails, Reach, AfterSend
<1>4. Registry'
    BY <1>1, <1>2, <1>3 DEF Registry, Capturing, Finishing, TypeOK
<1>5. ScreencastConsumed'
    BY <1>1, <1>2 DEF ScreencastConsumed
<1>6. CASE p = "encoding"
  <2>1. WatchdogExact' /\ Handed'
      BY <1>1, <1>2, <1>3, <1>6 DEF WatchdogExact, Handed, Finishing, TypeOK
  <2>2. Ctl'
    <3>1. LoopControl'
        BY <1>1, <1>2, <1>3, <1>6 DEF LoopControl, Finishing, TypeOK
    <3>2. MainControl' /\ Disconnected'
        BY <1>1, <1>2, <1>3, <1>6 DEF MainControl, Disconnected, NothingActive
    <3> QED BY <3>1, <3>2 DEF Ctl
  <2> QED BY <1>4, <1>5, <2>1, <2>2 DEF Data
<1>7. CASE p # "encoding"
  <2>1. /\ loopRec' = IF loopRec = r THEN NoRec ELSE loopRec
        /\ loop' = IF loopRec = r /\ loop = "stopping" THEN "receiving" ELSE loop
        /\ mainRec' = IF mainRec = r THEN NoRec ELSE mainRec
        /\ \A q \in Rec \ {r} : watchdog'[q] = watchdog[q]
        /\ watchdog'[r] = IF watchdog[r] = "finishing" THEN "done" ELSE watchdog[r]
      BY <1>1, <1>3, <1>7 DEF Return, TypeOK
  <2>2. WatchdogExact'
      BY <1>1, <1>2, <1>3, <1>7, <2>1 DEF WatchdogExact, Finishing, TypeOK
  <2>3. Handed'
      BY <1>1, <1>2, <1>3, <1>7, <2>1, RecordingAssumption
         DEF Handed, Finishing, TypeOK
  <2>4. LoopControl'
      BY <1>1, <1>2, <1>3, <2>1, RecordingAssumption
         DEF LoopControl, Finishing, TypeOK
  <2>5. MainControl' /\ Disconnected'
      BY <1>1, <1>2, <2>1 DEF LoopControl, MainControl, Disconnected, NothingActive
  <2> QED BY <1>4, <1>5, <2>2, <2>3, <2>4, <2>5 DEF Ctl, Data
<1> QED BY <1>6, <1>7

(* Shutting down, being killed, starting again.                            *)
LEMMA MainStepInv ==
    ASSUME IInv, TypeOK',
           \/ Sigterm \/ Cancel \/ MainStops \/ MainStopDone \/ Exit
           \/ Crash \/ Restart
    PROVE  Ctl' /\ Data'
<1>1. /\ TypeOK /\ Registry /\ WatchdogExact /\ Handed /\ ScreencastConsumed
      /\ LoopControl /\ MainControl /\ Disconnected
    BY DEF IInv
<1> USE RecordingAssumption
<1>2. CASE Sigterm \/ CancelLoop \/ CancelPolling \/ MainStops \/ MainStopDone
           \/ Restart
  <2>1. UNCHANGED <<mainRec, loopRec, wsOpen, cast, active, phase, sess, watchdog>>
      BY <1>2 DEF Sigterm, CancelLoop, CancelPolling, MainStops, MainStopDone,
         Restart, chromeVars, recorderVars, recVars
  <2>2. Data'
      BY <1>1, <2>1 DEF Data, Registry, WatchdogExact, Handed, ScreencastConsumed
  <2>3. Ctl'
      BY <1>1, <1>2, <2>1 DEF Sigterm, CancelLoop, CancelPolling, MainStops,
         MainStopDone, Restart, chromeVars, Ctl, LoopControl, MainControl,
         Disconnected, NothingActive
  <2> QED BY <2>2, <2>3
<1>3. CASE CancelStopping \/ CancelDropping
  <2>1. /\ UNCHANGED <<mainRec, active, sess, watchdog, attached>>
        /\ main = "cancelling" /\ main' = "cancelled"
        /\ loopRec' = NoRec
        /\ \/ loop = "stopping" /\ loop' = "dropping" /\ UNCHANGED <<wsOpen, cast>>
           \/ loop' = "ended" /\ wsOpen' = FALSE /\ cast' = {}
        /\ phase' = [q \in Rec |-> IF q = loopRec THEN "lost" ELSE phase[q]]
      BY <1>3 DEF CancelStopping, CancelDropping, Lose, chromeVars
  <2>2. loopRec \in Rec
      BY <1>1, <1>3 DEF CancelStopping, CancelDropping, LoopControl, TypeOK
  <2>3. phase[loopRec] \in Finishing
      BY <1>1, <2>2 DEF Handed
  <2>4. Registry'
      BY <1>1, <2>1, <2>2, <2>3 DEF Registry, Capturing, Finishing, TypeOK
  <2>5. WatchdogExact' /\ Handed'
      BY <1>1, <2>1, <2>2, <2>3 DEF WatchdogExact, Handed, Finishing, TypeOK
  <2>6. ScreencastConsumed'
      BY <1>1, <2>1 DEF ScreencastConsumed
  <2>7. Ctl'
      BY <1>1, <2>1 DEF Ctl, LoopControl, MainControl, Disconnected, NothingActive
  <2> QED BY <2>4, <2>5, <2>6, <2>7 DEF Data
<1>4. CASE Exit
  <2>1. /\ loop = "ended" /\ loopRec = NoRec /\ mainRec = NoRec /\ NothingActive
      BY <1>1, <1>4 DEF Exit, LoopControl, MainControl
  <2>2. /\ main' = "exited"
        /\ UNCHANGED <<mainRec, loop, loopRec, tab, wsOpen, attached, cast, active, sess>>
        /\ phase' = [q \in Rec |-> IF phase[q] \in Live THEN "lost" ELSE phase[q]]
        /\ watchdog' = [q \in Rec |-> IF watchdog[q] = "finishing" THEN "cancelled"
                                      ELSE watchdog[q]]
      BY <1>4 DEF Exit, Lose, chromeVars
  <2>3. \A q \in Rec : phase[q] \notin Capturing
      BY <1>1, <2>1 DEF Registry, NothingActive
  <2>4. Registry'
      BY <2>1, <2>2, <2>3 DEF Registry, NothingActive, Capturing, Live
  <2>5. WatchdogExact' /\ Handed'
      BY <1>1, <2>1, <2>2, <2>3 DEF WatchdogExact, Handed, Capturing, Live, Finishing
  <2>6. ScreencastConsumed' /\ Ctl'
      BY <1>1, <2>1, <2>2 DEF ScreencastConsumed, Ctl, LoopControl, MainControl,
         Disconnected, NothingActive
  <2> QED BY <2>4, <2>5, <2>6 DEF Data
<1>5. CASE Crash
  <2>1. Registry' /\ WatchdogExact' /\ Handed' /\ ScreencastConsumed'
      BY <1>1, <1>5 DEF Crash, Registry, WatchdogExact, Handed, ScreencastConsumed,
         Capturing, Live, Finishing, TypeOK
  <2>2. Ctl'
      BY <1>5 DEF Crash, Ctl, LoopControl, MainControl, Disconnected, NothingActive
  <2> QED BY <2>1, <2>2 DEF Data
<1> QED BY <1>2, <1>3, <1>4, <1>5 DEF Cancel

(* Chrome, the configuration, and steps that change nothing.               *)
LEMMA OtherStepInv ==
    ASSUME IInv, TypeOK',
           \/ \E s \in Session : \/ Attach(s) \/ DetachIdle(s)
                                 \/ FrameWritten(s) \/ FrameWriteFails(s)
           \/ \E d \in Dir : Configure(d)
           \/ LoseConnection \/ UNCHANGED vars
    PROVE  Ctl' /\ Data'
<1>1. /\ TypeOK /\ Registry /\ WatchdogExact /\ Handed /\ ScreencastConsumed
      /\ LoopControl /\ MainControl /\ Disconnected
    BY DEF IInv
<1>2. UNCHANGED <<main, mainRec, loopRec, active, phase, sess, watchdog>>
    BY DEF Attach, DetachIdle, FrameWritten, FrameWriteFails, Configure,
       LoseConnection, vars, taskVars, recorderVars, recVars
<1>3. Registry' /\ WatchdogExact' /\ Handed'
    BY <1>1, <1>2 DEF Registry, WatchdogExact, Handed
<1>4. \/ UNCHANGED <<wsOpen, cast>>
      \/ wsOpen' = FALSE /\ cast' = {}
    BY DEF Attach, DetachIdle, FrameWritten, FrameWriteFails, Configure,
       LoseConnection, vars, chromeVars
<1>5. ScreencastConsumed'
    BY <1>1, <1>2, <1>4 DEF ScreencastConsumed
<1>6. \/ UNCHANGED <<loop, tab, attached>>
      \/ loop = "receiving" /\ loop' \in {"receiving", "enabling", "dropping"}
    BY DEF Attach, DetachIdle, FrameWritten, FrameWriteFails, Configure,
       LoseConnection, vars, taskVars, chromeVars
<1>7. Ctl'
    BY <1>1, <1>2, <1>4, <1>6, RecordingAssumption
       DEF Ctl, LoopControl, MainControl, Disconnected, NothingActive
<1> QED BY <1>3, <1>5, <1>7 DEF Data

LEMMA NextInv == IInv /\ [Next]_vars => IInv'
<1> SUFFICES ASSUME IInv, [Next]_vars PROVE IInv'
    OBVIOUS
<1>1. TypeOK'
    BY NextType DEF IInv
<1>2. Ctl' /\ Data'
    BY <1>1, LoopStepInv, StopStepInv, WatchdogStepInv, FinishStepInv,
       MainStepInv, OtherStepInv DEF Next, LoopStep, ChromeEvent, MainStep
<1> QED BY <1>1, <1>2 DEF IInv, Ctl, Data

(* The inductive invariant, whatever the order of events (recording.py:87-91). *)
(* For any number of sessions, recordings, directories and frames.         *)
THEOREM Invariance == Spec => []IInv
BY InitInv, NextInv, PTL DEF Spec
-----------------------------------------------------------------------------
(* The properties that runs check, for every instance.                     *)

(* The registry and the recordings agree, however the detach handler, the  *)
(* watchdogs, a reconnect and the shutdown interleave (recording.py:87-91).*)
THEOREM ActiveExact == Spec => []ActiveIsExact
<1>1. IInv => ActiveIsExact
  <2> SUFFICES ASSUME IInv, NEW r \in Rec
               PROVE  phase[r] \in {"starting", "recording"}
                          <=> \E s \in Session : active[s] = r /\ sess[r] = s
      BY DEF ActiveIsExact
  <2>1. ASSUME phase[r] \in {"starting", "recording"}
        PROVE  \E s \in Session : active[s] = r /\ sess[r] = s
      BY <2>1 DEF IInv, Registry, Capturing
  <2>2. ASSUME NEW s \in Session, active[s] = r
        PROVE  phase[r] \in {"starting", "recording"}
      BY <2>2, RecordingAssumption DEF IInv, Registry, Capturing
  <2> QED BY <2>1, <2>2
<1> QED BY <1>1, Invariance, PTL

(* A recording that is being stopped is in the hands of exactly one task   *)
(* (recording.py:233-235).                                                 *)
THEOREM OneFinisherAtATime == Spec => []OneFinisher
<1>1. IInv => OneFinisher
  <2> SUFFICES ASSUME IInv, NEW r \in Rec
               PROVE  IF phase[r] \in Finishing
                      THEN \E t \in Finishers(r) : Finishers(r) = {t}
                      ELSE Finishers(r) = {}
      BY DEF OneFinisher
  <2>1. CASE loopRec = r
    <3>1. Finishers(r) = {"loop"} /\ phase[r] \in Finishing
        BY <2>1 DEF IInv, Handed, Finishers
    <3> QED BY <3>1
  <2>2. CASE mainRec = r
    <3>1. Finishers(r) = {"main"} /\ phase[r] \in Finishing
        BY <2>2 DEF IInv, Handed, Finishers
    <3> QED BY <3>1
  <2>3. CASE watchdog[r] = "finishing"
    <3>1. Finishers(r) = {"watchdog"} /\ phase[r] \in Finishing
        BY <2>3 DEF IInv, Handed, Finishers
    <3> QED BY <3>1
  <2>4. CASE loopRec # r /\ mainRec # r /\ watchdog[r] # "finishing"
    <3>1. Finishers(r) = {} /\ phase[r] \notin Finishing
        BY <2>4 DEF IInv, Handed, Finishers
    <3> QED BY <3>1
  <2> QED BY <2>1, <2>2, <2>3, <2>4
<1> QED BY <1>1, Invariance, PTL

(* Capturing recordings and sleeping watchdogs are the same recordings     *)
(* (recording.py:173-177, 237-242).                                        *)
THEOREM WatchdogGuards == Spec => []WatchdogExact
<1>1. IInv => WatchdogExact
    BY DEF IInv
<1> QED BY <1>1, Invariance, PTL

(* The receive loop polls for Chrome again only when nothing of the last   *)
(* connection is left (main.py:601-607).                                   *)
THEOREM CleanReconnect == Spec => []NothingSurvivesDisconnect
<1>1. IInv => NothingSurvivesDisconnect
    BY DEF IInv, Disconnected, NothingSurvivesDisconnect
<1> QED BY <1>1, Invariance, PTL

(* Chrome never casts to nobody (recording.py:244-248).                    *)
THEOREM CastConsumed == Spec => []ScreencastConsumed
<1>1. IInv => ScreencastConsumed
    BY DEF IInv
<1> QED BY <1>1, Invariance, PTL

-----------------------------------------------------------------------------
(* What is on disk of a recording, by how far it has come.                 *)
DiskOf(r) ==
    /\ phase[r] \in Live => tmpDir[r]
    /\ tmpDir[r] => phase[r] \in Live \cup {"lost"}
    /\ video[r] # NoDir => phase[r] = "stored"
    /\ sidecar[r] # NoDir => phase[r] \in {"stored", "discarded"}
    /\ sidecar[r] # NoDir => IF video[r] # NoDir THEN sidecar[r] = video[r]
                                                 ELSE timedOut[r] /\ ~HasFiles(r)
OnDisk == \A r \in Rec : DiskOf(r)

(* A step that moves recording r alone, and marks no other as timed out.   *)
Alone(r) == \A q \in Rec \ {r} :
    /\ phase'[q] = phase[q] /\ tmpDir'[q] = tmpDir[q]
    /\ video'[q] = video[q] /\ sidecar'[q] = sidecar[q]
    /\ timedOut'[q] = timedOut[q] /\ HasFiles(q)' = HasFiles(q)

LEMMA AloneKeeps ==
    ASSUME OnDisk, NEW r \in Rec, Alone(r), DiskOf(r)' PROVE OnDisk'
<1> SUFFICES ASSUME NEW q \in Rec, q # r PROVE DiskOf(q)'
    BY DEF OnDisk
<1> QED BY DEF OnDisk, DiskOf, Alone

(* A captured recording begins to be stopped: discarded at once only if it *)
(* has no files, and then with a sidecar only if the watchdog stopped it.  *)
LEMMA StopDisk ==
    ASSUME TypeOK, OnDisk, NEW r \in Rec, phase[r] \in Capturing,
           NEW p \in Finishing \cup {"discarded"}, NEW b \in BOOLEAN, BeginStop(r, p, b),
           UNCHANGED frameVars,
           timedOut' = IF b THEN [timedOut EXCEPT ![r] = TRUE] ELSE timedOut
    PROVE  OnDisk'
<1>1. /\ phase' = [phase EXCEPT ![r] = p] /\ video' = video
      /\ p = "discarded" =>
             /\ tmpDir' = [tmpDir EXCEPT ![r] = FALSE]
             /\ \E d \in IF b THEN {recordingsDir, NoDir} ELSE {NoDir} :
                    sidecar' = [sidecar EXCEPT ![r] = d]
      /\ p # "discarded" => UNCHANGED <<tmpDir, sidecar>>
    BY DEF BeginStop, Reach, RemoveFrames
<1>2. \A q \in Rec : HasFiles(q)' = HasFiles(q)
    BY DEF HasFiles, frameVars
<1>3. Alone(r)
    BY <1>1, <1>2 DEF Alone, TypeOK
<1>4. video[r] = NoDir /\ sidecar[r] = NoDir /\ tmpDir[r]
    BY DEF OnDisk, DiskOf, Capturing, Live
<1>5. CASE p = "discarded"
  <2>1. ~HasFiles(r)
      BY <1>5 DEF BeginStop, FirstStops, AfterSend, Finishing
  <2>2. phase'[r] = "discarded" /\ ~tmpDir'[r] /\ video'[r] = NoDir
      BY <1>1, <1>4, <1>5 DEF TypeOK
  <2>3. sidecar'[r] # NoDir => timedOut'[r]
    <3>1. CASE b
        BY <3>1 DEF TypeOK
    <3>2. CASE ~b
        BY <1>1, <1>5, <3>2 DEF TypeOK
    <3> QED BY <3>1, <3>2
  <2>4. DiskOf(r)'
      BY <1>2, <2>1, <2>2, <2>3 DEF DiskOf, Live, Finishing
  <2> QED BY <1>3, <2>4, AloneKeeps
<1>6. CASE p # "discarded"
  <2>1. phase'[r] \in Live /\ tmpDir'[r] /\ video'[r] = NoDir /\ sidecar'[r] = NoDir
      BY <1>1, <1>4, <1>6 DEF TypeOK, Live
  <2>2. DiskOf(r)'
      BY <2>1 DEF DiskOf
  <2> QED BY <1>3, <2>2, AloneKeeps
<1> QED BY <1>5, <1>6

(* stop_recording goes on or ends.                                         *)
LEMMA FinishDisk ==
    ASSUME TypeOK, OnDisk, NEW r \in Rec, Finish(r) PROVE OnDisk'
<1>1. \A q \in Rec : HasFiles(q)' = HasFiles(q) /\ timedOut'[q] = timedOut[q]
    BY DEF Finish, SendDone, EncodeOk, EncodeFails, frameVars, HasFiles
<1>2. /\ phase[r] \in Live /\ tmpDir[r] /\ video[r] = NoDir /\ sidecar[r] = NoDir
    BY DEF OnDisk, DiskOf, Finish, SendDone, EncodeOk, EncodeFails, Live, Finishing
<1>3. CASE SendDone(r)
  <2>1. CASE HasFiles(r)
    <3>1. /\ phase' = [phase EXCEPT ![r] = "encoding"]
          /\ UNCHANGED <<tmpDir, sidecar, video>>
        BY <1>3, <2>1 DEF SendDone, AfterSend, Reach
    <3>2. Alone(r) /\ DiskOf(r)'
        BY <1>1, <1>2, <3>1 DEF Alone, DiskOf, TypeOK, Live, Finishing
    <3> QED BY <3>2, AloneKeeps
  <2>2. CASE ~HasFiles(r)
    <3>1. /\ phase' = [phase EXCEPT ![r] = "discarded"]
          /\ tmpDir' = [tmpDir EXCEPT ![r] = FALSE] /\ video' = video
          /\ \E d \in IF timedOut[r] THEN {recordingsDir, NoDir} ELSE {NoDir} :
                 sidecar' = [sidecar EXCEPT ![r] = d]
        BY <1>3, <2>2 DEF SendDone, AfterSend, Reach, RemoveFrames
    <3>2. Alone(r)
        BY <1>1, <3>1 DEF Alone, TypeOK
    <3>3. sidecar'[r] # NoDir => timedOut[r]
        BY <3>1 DEF TypeOK
    <3>4. phase'[r] = "discarded" /\ ~tmpDir'[r] /\ video'[r] = NoDir
        BY <1>2, <3>1 DEF TypeOK
    <3>5. DiskOf(r)'
        BY <1>1, <2>2, <3>3, <3>4 DEF DiskOf, Live, Finishing
    <3> QED BY <3>2, <3>5, AloneKeeps
  <2> QED BY <2>1, <2>2
<1>4. CASE EncodeOk(r)
  <2>1. PICK d \in {recordingsDir, NoDir} : sidecar' = [sidecar EXCEPT ![r] = d]
      BY <1>4 DEF EncodeOk, SidecarDir
  <2>2. /\ phase' = [phase EXCEPT ![r] = "stored"]
        /\ video' = [video EXCEPT ![r] = recordingsDir]
        /\ tmpDir' = [tmpDir EXCEPT ![r] = FALSE]
      BY <1>4 DEF EncodeOk, RemoveFrames
  <2>3. Alone(r)
      BY <1>1, <2>1, <2>2 DEF Alone, TypeOK
  <2>4. recordingsDir # NoDir
      BY RecordingAssumption DEF TypeOK
  <2>5. DiskOf(r)'
      BY <2>1, <2>2, <2>4 DEF DiskOf, TypeOK, Live, Finishing
  <2> QED BY <2>3, <2>5, AloneKeeps
<1>5. CASE EncodeFails(r)
  <2>1. /\ phase' = [phase EXCEPT ![r] = "failed"]
        /\ tmpDir' = [tmpDir EXCEPT ![r] = FALSE] /\ UNCHANGED <<video, sidecar>>
      BY <1>5 DEF EncodeFails, RemoveFrames
  <2>2. Alone(r) /\ DiskOf(r)'
      BY <1>1, <1>2, <2>1 DEF Alone, DiskOf, TypeOK, Live, Finishing
  <2> QED BY <2>2, AloneKeeps
<1> QED BY <1>3, <1>4, <1>5 DEF Finish

(* A recording starts, runs, or fails to.                                  *)
LEMMA StartDisk ==
    ASSUME IInv, OnDisk, \/ StartDone \/ StartFails \/ \E r \in Rec : StartRecording(r)
    PROVE  OnDisk'
<1>0. TypeOK /\ Registry /\ LoopControl
    BY DEF IInv
<1>1. \A q \in Rec : HasFiles(q)' = HasFiles(q) /\ timedOut'[q] = timedOut[q]
    BY DEF StartDone, StartFails, StartRecording, frameVars, HasFiles
<1>2. CASE \E r \in Rec : StartRecording(r)
  <2>1. PICK r \in Rec : StartRecording(r)
      BY <1>2
  <2>2. /\ phase' = [phase EXCEPT ![r] = "starting"] /\ phase[r] = "none"
        /\ tmpDir' = [tmpDir EXCEPT ![r] = TRUE] /\ UNCHANGED <<video, sidecar>>
      BY <2>1 DEF StartRecording, Fresh
  <2>3. Alone(r)
      BY <1>0, <1>1, <2>2 DEF Alone, TypeOK
  <2>4. phase'[r] \in Live /\ tmpDir'[r] /\ video'[r] = NoDir /\ sidecar'[r] = NoDir
      BY <1>0, <2>2 DEF TypeOK, OnDisk, DiskOf, Live
  <2>5. DiskOf(r)'
      BY <2>4 DEF DiskOf
  <2> QED BY <2>3, <2>5, AloneKeeps
<1>3. CASE StartDone \/ StartFails
  <2>0. active[tab] \in Rec /\ phase[active[tab]] = "starting"
      BY <1>0, <1>3 DEF StartDone, StartFails, LoopControl, TypeOK
  <2>1. PICK r \in Rec : r = active[tab] /\ phase[r] = "starting"
      BY <2>0
  <2>2. \/ /\ phase' = [phase EXCEPT ![r] = "recording"]
           /\ UNCHANGED <<tmpDir, video, sidecar>>
        \/ /\ phase' = [phase EXCEPT ![r] = "failed"]
           /\ tmpDir' = [tmpDir EXCEPT ![r] = FALSE] /\ UNCHANGED <<video, sidecar>>
      BY <1>3, <2>1 DEF StartDone, StartFails, RemoveFrames, diskVars
  <2>3. Alone(r)
      BY <1>0, <1>1, <2>2 DEF Alone, TypeOK
  <2>4. tmpDir[r] /\ video[r] = NoDir /\ sidecar[r] = NoDir
      BY <2>1 DEF OnDisk, DiskOf, Live
  <2>5. DiskOf(r)'
      BY <1>0, <2>1, <2>2, <2>4 DEF TypeOK, DiskOf, Live, Finishing
  <2> QED BY <2>1, <2>3, <2>5, AloneKeeps
<1> QED BY <1>2, <1>3

(* Cancelled or killed: what was live is lost, and finishing may clean up. *)
LEMMA LoseDisk ==
    ASSUME IInv, OnDisk, Cancel \/ Exit \/ Crash PROVE OnDisk'
<1>1. TypeOK
    BY DEF IInv
<1>2. UNCHANGED <<frames, torn, timedOut, video, sidecar>>
    BY DEF Cancel, CancelLoop, CancelPolling, CancelStopping, CancelDropping, Exit, Crash,
       recorderVars, frameVars, recVars, diskVars
<1>3. \A q \in Rec : \/ phase'[q] = phase[q] /\ tmpDir'[q] = tmpDir[q]
                     \/ /\ phase'[q] = "lost" /\ phase[q] \in Live
                        /\ tmpDir'[q] => tmpDir[q]
  <2>1. CASE CancelLoop \/ CancelPolling
      BY <2>1 DEF CancelLoop, CancelPolling, recorderVars, recVars, diskVars
  <2>2. CASE CancelStopping \/ CancelDropping
    <3>1. loopRec \in Rec /\ phase[loopRec] \in Live
      <4>1. loopRec \in Rec
          BY <2>2 DEF IInv, TypeOK, LoopControl, CancelStopping, CancelDropping
      <4> QED BY <4>1 DEF IInv, Handed, Live
    <3> QED BY <2>2, <3>1 DEF CancelStopping, CancelDropping, Lose
  <2>3. CASE Exit
      BY <2>3 DEF Exit, Lose
  <2>4. CASE Crash
      BY <2>4 DEF Crash, diskVars
  <2> QED BY <2>1, <2>2, <2>3, <2>4 DEF Cancel
<1> SUFFICES ASSUME NEW q \in Rec PROVE DiskOf(q)'
    BY DEF OnDisk
<1>4. CASE phase'[q] = phase[q] /\ tmpDir'[q] = tmpDir[q]
    BY <1>2, <1>4 DEF OnDisk, DiskOf, HasFiles
<1>5. CASE phase'[q] = "lost" /\ phase[q] \in Live
    BY <1>2, <1>5 DEF OnDisk, DiskOf, Live, Finishing
<1> QED BY <1>3, <1>4, <1>5

(* Frames are written for a recording that captures; the rest does not     *)
(* touch the disk.                                                         *)
LEMMA OtherDisk ==
    ASSUME IInv, OnDisk,
           \/ Connect \/ EnableFails \/ StartsNothing \/ NoticeClosed \/ DropDone
           \/ \E s \in Session : \/ Attach(s) \/ DetachIdle(s)
                                 \/ FrameWritten(s) \/ FrameWriteFails(s)
           \/ \E d \in Dir : Configure(d)
           \/ MainStops \/ MainStopDone \/ LoseConnection \/ Sigterm \/ Restart
           \/ UNCHANGED vars
    PROVE  OnDisk'
<1>1. UNCHANGED <<phase, timedOut, tmpDir, video, sidecar>>
    BY DEF Connect, EnableFails, StartsNothing, NoticeClosed, DropDone, Attach,
       DetachIdle, FrameWritten, FrameWriteFails, Configure, MainStops, MainStopDone,
       LoseConnection, Sigterm, Restart, vars, recorderVars, recVars, diskVars
<1>2. \A q \in Rec : HasFiles(q)' = HasFiles(q) \/ phase[q] \in Live
  <2>1. CASE UNCHANGED frameVars
      BY <2>1 DEF frameVars, HasFiles
  <2>2. CASE \E s \in Session : FrameWritten(s) \/ FrameWriteFails(s)
    <3>1. PICK s \in Session : FrameWritten(s) \/ FrameWriteFails(s)
        BY <2>2
    <3>2. active[s] \in Rec /\ phase[active[s]] \in Live
        BY <3>1 DEF IInv, TypeOK, Registry, Capturing, Live, FrameWritten, FrameWriteFails
    <3>3. \A q \in Rec \ {active[s]} : frames'[q] = frames[q] /\ torn'[q] = torn[q]
        BY <3>1 DEF IInv, TypeOK, FrameWritten, FrameWriteFails
    <3> QED BY <3>2, <3>3 DEF HasFiles
  <2> QED BY <2>1, <2>2 DEF Connect, EnableFails, StartsNothing, NoticeClosed, DropDone, Attach,
       DetachIdle, Configure, MainStops, MainStopDone,
       LoseConnection, Sigterm, Restart, vars, recorderVars
<1> QED BY <1>1, <1>2 DEF OnDisk, DiskOf, Live, Finishing

LEMMA DiskInv == IInv /\ OnDisk /\ [Next]_vars => OnDisk'
<1> SUFFICES ASSUME IInv, OnDisk, [Next]_vars PROVE OnDisk'
    OBVIOUS
<1>1. ASSUME NEW s \in Session, Detach(s) \/ DropNext(s) \/ MainStopNext(s)
      PROVE  OnDisk'
  <2> DEFINE r == active[s]
  <2>1. r \in Rec /\ phase[r] \in Capturing
    <3>1. r # NoRec
        BY <1>1 DEF Detach, DropNext, MainStopNext
    <3> QED BY <3>1 DEF IInv, TypeOK, Registry
  <2>2. PICK p \in Finishing \cup {"discarded"} : BeginStop(r, p, FALSE)
      BY <1>1 DEF Detach, DropNext, MainStopNext
  <2>3. UNCHANGED frameVars /\ timedOut' = timedOut
      BY <1>1 DEF Detach, DropNext, MainStopNext
  <2> QED BY <2>1, <2>2, <2>3, StopDisk DEF IInv
<1>2. ASSUME NEW r \in Rec, WatchdogFires(r) PROVE OnDisk'
  <2>1. phase[r] \in Capturing
      BY <1>2 DEF IInv, WatchdogExact, WatchdogFires, Capturing
  <2>2. PICK p \in Finishing \cup {"discarded"} : BeginStop(r, p, TRUE)
      BY <1>2 DEF WatchdogFires
  <2>3. UNCHANGED frameVars /\ timedOut' = [timedOut EXCEPT ![r] = TRUE]
      BY <1>2 DEF WatchdogFires, MarkTimedOut
  <2> QED BY <2>1, <2>2, <2>3, StopDisk DEF IInv
<1>3. ASSUME NEW r \in Rec, Finish(r) PROVE OnDisk'
    BY <1>3, FinishDisk DEF IInv
<1> QED BY <1>1, <1>2, <1>3, StartDisk, LoseDisk, OtherDisk
        DEF Next, LoopStep, ChromeEvent, MainStep

LEMMA InitDisk == Init => OnDisk
BY DEF Init, OnDisk, DiskOf, Live, Finishing

(* Frames are on disk exactly while a recording is live, unless the        *)
(* process was shut down or killed (recording.py:123, 170, 261, 279).      *)
THEOREM FramesReclaimed == Spec => []FramesDirReclaimed
<1>1. OnDisk => FramesDirReclaimed
    BY DEF OnDisk, DiskOf, FramesDirReclaimed
<1> QED BY <1>1, InitInv, NextInv, InitDisk, DiskInv, PTL DEF Spec

(* Wherever RECORDING_DIR points meanwhile, a sidecar is beside its video, *)
(* or alone for a tab that timed out empty (recording.py:262-270, 352-359).*)
THEOREM SidecarWithVideo == Spec => []SidecarBesideVideo
<1>1. OnDisk => SidecarBesideVideo
    BY DEF OnDisk, DiskOf, SidecarBesideVideo
<1> QED BY <1>1, InitInv, NextInv, InitDisk, DiskInv, PTL DEF Spec

-----------------------------------------------------------------------------
(* A recording is marked as timed out only when it is stopped for that.    *)
Unmarked == \A r \in Rec : phase[r] \in {"none"} \cup Capturing => ~timedOut[r]

LEMMA UnmarkedInv ==
    ASSUME IInv, Unmarked, [Next]_vars PROVE Unmarked'
<1>1. TypeOK /\ LoopControl
    BY DEF IInv
<1>2. CASE \E r \in Rec : WatchdogFires(r)
  <2>1. PICK r \in Rec : WatchdogFires(r)
      BY <1>2
  <2>2. PICK p \in Finishing \cup {"discarded"} : BeginStop(r, p, TRUE)
      BY <2>1 DEF WatchdogFires
  <2>3. /\ phase' = [phase EXCEPT ![r] = p] /\ timedOut' = [timedOut EXCEPT ![r] = TRUE]
      BY <2>1, <2>2 DEF WatchdogFires, MarkTimedOut, BeginStop, Reach
  <2> QED BY <1>1, <2>3 DEF Unmarked, Capturing, Finishing, TypeOK
<1>3. ASSUME NEW r \in Rec, Finish(r) PROVE Unmarked'
  <2>1. phase' \in {[phase EXCEPT ![r] = p] : p \in {"encoding", "discarded", "stored", "failed"}}
      BY <1>3 DEF Finish, SendDone, EncodeOk, EncodeFails, Reach, AfterSend
  <2>2. timedOut' = timedOut
      BY <1>3 DEF Finish, SendDone, EncodeOk, EncodeFails
  <2> QED BY <1>1, <2>1, <2>2 DEF Unmarked, Capturing, TypeOK
<1>4. CASE \/ \E s \in Session : DropNext(s) \/ Detach(s) \/ MainStopNext(s)
  <2>1. PICK s \in Session : DropNext(s) \/ Detach(s) \/ MainStopNext(s)
      BY <1>4
  <2>2. timedOut' = timedOut
        /\ \E p \in Finishing \cup {"discarded"} : phase' = [phase EXCEPT ![active[s]] = p]
      BY <2>1 DEF DropNext, Detach, MainStopNext, BeginStop, Reach
  <2> QED BY <1>1, <2>2 DEF Unmarked, Capturing, Finishing, TypeOK
<1>5. CASE LoopStep /\ ~\E s \in Session : DropNext(s)
  <2>1. timedOut' = timedOut
      BY <1>5 DEF LoopStep, Connect, EnableFails, StartsNothing, StartDone, StartFails,
         NoticeClosed, DropDone, StartRecording, recorderVars, recVars
  <2>2. \/ phase' = phase
        \/ \E r \in Rec : Fresh(r) /\ phase' = [phase EXCEPT ![r] = "starting"]
        \/ loop = "starting" /\ phase' \in {[phase EXCEPT ![active[tab]] = p] :
                                                  p \in {"recording", "failed"}}
      BY <1>5 DEF LoopStep, Connect, EnableFails, StartsNothing, StartDone, StartFails,
         NoticeClosed, DropDone, StartRecording, recorderVars, recVars
  <2> QED BY <1>1, <2>1, <2>2 DEF Unmarked, Capturing, LoopControl, Fresh, TypeOK
<1>6. CASE Cancel \/ Exit \/ Crash
  <2>1. timedOut' = timedOut
        /\ \A r \in Rec : phase'[r] \in {phase[r], "lost"}
      BY <1>1, <1>6 DEF Cancel, CancelLoop, CancelPolling, CancelStopping, CancelDropping,
         Exit, Crash, Lose, recorderVars, recVars, TypeOK
  <2> QED BY <2>1 DEF Unmarked, Capturing
<1>7. CASE \/ \E s \in Session : \/ Attach(s) \/ DetachIdle(s)
                                 \/ FrameWritten(s) \/ FrameWriteFails(s)
           \/ \E d \in Dir : Configure(d)
           \/ MainStops \/ MainStopDone \/ LoseConnection \/ Sigterm \/ Restart
           \/ UNCHANGED vars
  <2>1. timedOut' = timedOut /\ phase' = phase
      BY <1>7 DEF Attach, DetachIdle, FrameWritten, FrameWriteFails, Configure,
         MainStops, MainStopDone, LoseConnection, Sigterm, Restart, vars, recorderVars, recVars
  <2> QED BY <2>1 DEF Unmarked
<1> QED BY <1>2, <1>3, <1>4, <1>5, <1>6, <1>7 DEF Next, LoopStep, ChromeEvent, MainStep

(* Why a capture ends.                                                     *)
LEMMA CaptureEnds ==
    ASSUME IInv, Unmarked, [Next]_vars,
           NEW r \in Rec, phase[r] = "recording", phase'[r] # "recording"
    PROVE  \/ sess[r] \notin attached'
           \/ timedOut'[r] /\ ~timedOut[r]
           \/ loop = "dropping"
           \/ main # "running" \/ main' # "running"
<1>1. TypeOK /\ Registry /\ LoopControl /\ ~timedOut[r]
    BY DEF IInv, Unmarked, Capturing
<1>2. CASE \E q \in Rec : WatchdogFires(q)
  <2>1. PICK q \in Rec : WatchdogFires(q)
      BY <1>2
  <2>2. PICK p \in Finishing \cup {"discarded"} : BeginStop(q, p, TRUE)
      BY <2>1 DEF WatchdogFires
  <2>3. /\ phase' = [phase EXCEPT ![q] = p] /\ timedOut' = [timedOut EXCEPT ![q] = TRUE]
      BY <2>1, <2>2 DEF WatchdogFires, MarkTimedOut, BeginStop, Reach
  <2>4. q = r
      BY <1>1, <2>3 DEF TypeOK
  <2> QED BY <1>1, <2>3, <2>4 DEF TypeOK
<1>3. ASSUME NEW q \in Rec, Finish(q) PROVE FALSE
  <2>1. phase[q] \in Finishing
      BY <1>3 DEF Finish, SendDone, EncodeOk, EncodeFails, Finishing
  <2>2. \A p \in Rec \ {q} : phase'[p] = phase[p]
      BY <1>1, <1>3 DEF Finish, SendDone, EncodeOk, EncodeFails, Reach, TypeOK
  <2> QED BY <2>1, <2>2 DEF Finishing
<1>4. ASSUME NEW s \in Session, Detach(s) PROVE sess[r] \notin attached'
  <2>1. active[s] # NoRec /\ attached' = attached \ {s}
        /\ \E p \in Finishing \cup {"discarded"} : phase' = [phase EXCEPT ![active[s]] = p]
      BY <1>4 DEF Detach, BeginStop, Reach
  <2>2. active[s] = r
      BY <1>1, <2>1 DEF TypeOK
  <2> QED BY <1>1, <2>1, <2>2 DEF Registry
<1>5. CASE LoopStep /\ ~\E s \in Session : DropNext(s)
  <2>1. \/ phase' = phase
        \/ \E q \in Rec : Fresh(q) /\ phase' = [phase EXCEPT ![q] = "starting"]
        \/ loop = "starting" /\ \E p \in {"recording", "failed"} :
                                      phase' = [phase EXCEPT ![active[tab]] = p]
      BY <1>5 DEF LoopStep, Connect, EnableFails, StartsNothing, StartDone, StartFails,
         NoticeClosed, DropDone, StartRecording, recorderVars, recVars
  <2>2. phase'[r] = phase[r]
      BY <1>1, <2>1 DEF Fresh, LoopControl, TypeOK
  <2> QED BY <2>2
<1>6. CASE \E s \in Session : DropNext(s)
    BY <1>6 DEF DropNext
<1>7. CASE MainStep \/ Sigterm \/ Crash
    BY <1>7 DEF MainStep, Cancel, CancelLoop, CancelPolling, CancelStopping, CancelDropping,
       MainStops, MainStopDone, Exit, MainStopNext, Sigterm, Crash
<1>8. CASE \/ \E s \in Session : \/ Attach(s) \/ DetachIdle(s)
                                 \/ FrameWritten(s) \/ FrameWriteFails(s)
           \/ \E d \in Dir : Configure(d)
           \/ LoseConnection \/ Restart \/ UNCHANGED vars
    BY <1>8 DEF Attach, DetachIdle, FrameWritten, FrameWriteFails, Configure,
       LoseConnection, Restart, vars, recorderVars, recVars
<1> QED BY <1>2, <1>3, <1>4, <1>5, <1>6, <1>7, <1>8 DEF Next, LoopStep, ChromeEvent

(* A tab is recorded until it closes, times out, or is cut off with the    *)
(* connection or the process, whatever becomes of other tabs               *)
(* (recording.py:6-9, 48-50, 189-203).                                     *)
THEOREM WholeLifetime == Spec => RecordsWholeLifetime
<1>1. IInv /\ Unmarked /\ [Next]_vars =>
         [\A r \in Rec : phase[r] = "recording" /\ phase'[r] # "recording" =>
             \/ sess[r] \notin attached'
             \/ timedOut'[r] /\ ~timedOut[r]
             \/ loop = "dropping"
             \/ main # "running" \/ main' # "running"]_vars
    BY CaptureEnds
<1>2. Init => Unmarked
    BY DEF Init, Unmarked
<1>3. IInv /\ Unmarked /\ [Next]_vars => Unmarked'
    BY UnmarkedInv
<1> QED BY <1>1, <1>2, <1>3, InitInv, NextInv, PTL DEF Spec, RecordsWholeLifetime

-----------------------------------------------------------------------------
(* Recording implements RecordingLifecycle.                                *)

stageBar == [r \in Rec |-> StageOf(phase[r])]
catalogueBar == {r \in Rec : video[r] # NoDir}

LEMMA StageValues ==
    ASSUME NEW p
    PROVE  /\ p = "none" => StageOf(p) = "unborn"
           /\ p \in {"starting", "recording"} => StageOf(p) = "capturing"
           /\ p \in Finishing => StageOf(p) = "finishing"
           /\ p = "stored" => StageOf(p) = "published"
           /\ p \in {"discarded", "failed", "lost"} => StageOf(p) = "dropped"
BY DEF StageOf, Finishing

(* One recording moves while no video appears: begun, finished, dropped.   *)
LEMMA OneMoves ==
    ASSUME TypeOK, NEW r \in Rec, NEW p \in Phases,
           phase' = [phase EXCEPT ![r] = p], UNCHANGED video,
           \/ phase[r] = "none" /\ p = "starting"
           \/ phase[r] \in {"starting", "recording"}
                  /\ p \in {"recording", "stopping", "encoding", "discarded", "failed"}
           \/ phase[r] \in Finishing /\ p \in {"encoding", "discarded", "failed"}
    PROVE  [Lifecycle!Next]_(Lifecycle!vars)
<1>1. /\ stageBar' = [stageBar EXCEPT ![r] = StageOf(p)]
      /\ stageBar[r] = StageOf(phase[r])
      /\ catalogueBar' = catalogueBar
    BY DEF stageBar, catalogueBar, TypeOK
<1>2. CASE StageOf(p) = stageBar[r]
    BY <1>1, <1>2 DEF Lifecycle!vars, stageBar, catalogueBar
<1>3. CASE StageOf(p) = "capturing" /\ stageBar[r] = "unborn"
    BY <1>1, <1>3 DEF Lifecycle!Next, Lifecycle!Begin, stageBar, catalogueBar
<1>4. CASE StageOf(p) = "finishing" /\ stageBar[r] = "capturing"
    BY <1>1, <1>4 DEF Lifecycle!Next, Lifecycle!Finish, stageBar, catalogueBar
<1>5. CASE StageOf(p) = "dropped" /\ stageBar[r] \in {"capturing", "finishing"}
  <2>1. stageBar' = [q \in Rec |-> IF q \in {r} THEN "dropped" ELSE stageBar[q]]
      BY <1>1, <1>5 DEF stageBar
  <2>2. Lifecycle!Drop({r})
      BY <1>1, <1>5, <2>1 DEF Lifecycle!Drop, stageBar, catalogueBar
  <2> QED BY <2>2 DEF Lifecycle!Next
<1> QED BY <1>1, <1>2, <1>3, <1>4, <1>5, StageValues DEF Finishing

(* Several live recordings are given up together.                          *)
LEMMA ManyLost ==
    ASSUME TypeOK, NEW S \in SUBSET Rec, \A r \in S : phase[r] \in Live,
           phase' = [r \in Rec |-> IF r \in S THEN "lost" ELSE phase[r]],
           UNCHANGED video
    PROVE  [Lifecycle!Next]_(Lifecycle!vars)
<1>1. /\ stageBar' = [r \in Rec |-> IF r \in S THEN "dropped" ELSE stageBar[r]]
      /\ catalogueBar' = catalogueBar
      /\ \A r \in S : stageBar[r] \in {"capturing", "finishing"}
    BY StageValues DEF stageBar, catalogueBar, Live, Finishing
<1>2. CASE S = {}
  <2>1. stageBar' = stageBar
      BY <1>1, <1>2 DEF stageBar
  <2> QED BY <1>1, <2>1 DEF Lifecycle!vars, stageBar, catalogueBar
<1>3. CASE S # {}
  <2>1. Lifecycle!Drop(S)
      BY <1>1, <1>3 DEF Lifecycle!Drop, stageBar, catalogueBar
  <2> QED BY <2>1 DEF Lifecycle!Next
<1> QED BY <1>2, <1>3

LEMMA Published ==
    ASSUME TypeOK, NEW r \in Rec, EncodeOk(r)
    PROVE  [Lifecycle!Next]_(Lifecycle!vars)
<1>1. /\ phase[r] = "encoding" /\ phase' = [phase EXCEPT ![r] = "stored"]
      /\ video' = [video EXCEPT ![r] = recordingsDir] /\ recordingsDir # NoDir
    BY RecordingAssumption DEF EncodeOk, TypeOK
<1>2. /\ stageBar' = [stageBar EXCEPT ![r] = "published"]
      /\ stageBar[r] = "finishing"
      /\ catalogueBar' = catalogueBar \cup {r}
    BY <1>1, StageValues DEF stageBar, catalogueBar, TypeOK, Finishing
<1>3. Lifecycle!Publish(r)
    BY <1>2 DEF Lifecycle!Publish, stageBar, catalogueBar
<1> QED BY <1>3 DEF Lifecycle!Next

LEMMA Stutters ==
    ASSUME UNCHANGED <<phase, video>>
    PROVE  [Lifecycle!Next]_(Lifecycle!vars)
BY DEF Lifecycle!vars

LEMMA StepImplements ==
    ASSUME IInv, [Next]_vars PROVE [Lifecycle!Next]_(Lifecycle!vars)
<1>1. /\ TypeOK /\ Registry /\ LoopControl /\ MainControl /\ Handed
    BY DEF IInv
<1>2. CASE \E s \in Session : Detach(s) \/ DropNext(s) \/ MainStopNext(s)
  <2>1. PICK s \in Session : Detach(s) \/ DropNext(s) \/ MainStopNext(s)
      BY <1>2
  <2>2. active[s] # NoRec
      BY <2>1 DEF Detach, DropNext, MainStopNext
  <2>3. active[s] \in Rec /\ phase[active[s]] \in {"starting", "recording"}
      BY <1>1, <2>2 DEF Registry, Capturing, TypeOK
  <2>4. PICK p \in Finishing \cup {"discarded"} : BeginStop(active[s], p, FALSE)
      BY <2>1 DEF Detach, DropNext, MainStopNext
  <2>5. /\ phase' = [phase EXCEPT ![active[s]] = p] /\ UNCHANGED video
        /\ p \in {"stopping", "encoding", "discarded"} /\ p \in Phases
      BY <2>4 DEF BeginStop, Reach, Finishing, Phases, Live, Settled
  <2> QED BY <1>1, <2>3, <2>5, OneMoves
<1>3. CASE \E r \in Rec : WatchdogFires(r)
  <2>1. PICK r \in Rec : WatchdogFires(r)
      BY <1>3
  <2>2. phase[r] = "recording"
      BY <2>1 DEF IInv, WatchdogFires, WatchdogExact
  <2>3. PICK p \in Finishing \cup {"discarded"} : BeginStop(r, p, TRUE)
      BY <2>1 DEF WatchdogFires
  <2>4. /\ phase' = [phase EXCEPT ![r] = p] /\ UNCHANGED video
        /\ p \in {"stopping", "encoding", "discarded"} /\ p \in Phases
      BY <2>3 DEF BeginStop, Reach, Finishing, Phases, Live, Settled
  <2> QED BY <1>1, <2>2, <2>4, OneMoves
<1>4. CASE \E r \in Rec : SendDone(r) \/ EncodeFails(r)
  <2>1. PICK r \in Rec : SendDone(r) \/ EncodeFails(r)
      BY <1>4
  <2>2. PICK p \in {"encoding", "discarded", "failed"} :
            phase' = [phase EXCEPT ![r] = p] /\ UNCHANGED video
      BY <2>1 DEF SendDone, EncodeFails, Reach, AfterSend
  <2>3. phase[r] \in Finishing /\ p \in Phases
      BY <2>1 DEF SendDone, EncodeFails, Finishing, Phases, Live, Settled
  <2> QED BY <1>1, <2>2, <2>3, OneMoves
<1>5. CASE \E r \in Rec : EncodeOk(r)
    BY <1>1, <1>5, Published
<1>6. CASE \E r \in Rec : StartRecording(r)
  <2>1. PICK r \in Rec : StartRecording(r)
      BY <1>6
  <2>2. /\ phase[r] = "none" /\ phase' = [phase EXCEPT ![r] = "starting"]
        /\ UNCHANGED video /\ "starting" \in Phases
      BY <2>1 DEF StartRecording, Fresh, Phases, Live
  <2> QED BY <1>1, <2>2, OneMoves
<1>7. CASE StartDone \/ StartFails
  <2>1. active[tab] \in Rec /\ phase[active[tab]] = "starting"
      BY <1>1, <1>7 DEF StartDone, StartFails, LoopControl, TypeOK
  <2>2. PICK p \in {"recording", "failed"} :
            phase' = [phase EXCEPT ![active[tab]] = p] /\ UNCHANGED video
      BY <1>7 DEF StartDone, StartFails, diskVars
  <2>3. p \in Phases
      BY DEF Phases, Live, Settled
  <2> QED BY <1>1, <2>1, <2>2, <2>3, OneMoves
<1>8. CASE CancelStopping \/ CancelDropping
  <2> DEFINE S == {loopRec}
  <2>1. loopRec \in Rec
      BY <1>1, <1>8 DEF CancelStopping, CancelDropping, LoopControl, TypeOK
  <2>2. phase[loopRec] \in Live
      BY <1>1, <2>1 DEF Handed, Live
  <2>3. /\ phase' = [r \in Rec |-> IF r \in S THEN "lost" ELSE phase[r]]
        /\ UNCHANGED video
      BY <1>8 DEF CancelStopping, CancelDropping, Lose
  <2>4. S \in SUBSET Rec /\ \A r \in S : phase[r] \in Live
      BY <2>1, <2>2
  <2> HIDE DEF S
  <2> QED BY <1>1, <2>3, <2>4, ManyLost
<1>9. CASE Exit \/ Crash
  <2> DEFINE S == {r \in Rec : phase[r] \in Live}
  <2>1. /\ phase' = [r \in Rec |-> IF r \in S THEN "lost" ELSE phase[r]]
        /\ UNCHANGED video
      BY <1>9 DEF Exit, Crash, Lose, diskVars
  <2>2. S \in SUBSET Rec /\ \A r \in S : phase[r] \in Live
      OBVIOUS
  <2> HIDE DEF S
  <2> QED BY <1>1, <2>1, <2>2, ManyLost
<1>10. CASE \/ Connect \/ EnableFails \/ StartsNothing \/ NoticeClosed \/ DropDone
            \/ CancelLoop \/ CancelPolling \/ MainStops \/ MainStopDone
            \/ LoseConnection \/ Sigterm \/ Restart
  <2>1. UNCHANGED <<phase, video>>
      BY <1>10 DEF Connect, EnableFails, StartsNothing, NoticeClosed, DropDone,
         CancelLoop, CancelPolling, MainStops, MainStopDone, LoseConnection,
         Sigterm, Restart, recorderVars, recVars, diskVars
  <2> QED BY <2>1, Stutters
<1>11. CASE \/ \E s \in Session : \/ Attach(s) \/ DetachIdle(s)
                                  \/ FrameWritten(s) \/ FrameWriteFails(s)
            \/ \E d \in Dir : Configure(d)
            \/ UNCHANGED vars
  <2>1. UNCHANGED <<phase, video>>
      BY <1>11 DEF Attach, DetachIdle, FrameWritten, FrameWriteFails, Configure,
         vars, recorderVars, recVars, diskVars
  <2> QED BY <2>1, Stutters
<1> QED BY <1>2, <1>3, <1>4, <1>5, <1>6, <1>7, <1>8, <1>9, <1>10, <1>11
        DEF Next, LoopStep, ChromeEvent, MainStep, Cancel, Finish

LEMMA InitImplements == Init => Lifecycle!Init
BY StageValues DEF Init, Lifecycle!Init

(* recording.py keeps the promise of RecordingLifecycle: a recording is    *)
(* begun and finished once, and a published video stays published through  *)
(* reconnects, shutdowns and kills.                                        *)
THEOREM Refinement == Spec => ImplementsLifecycle
BY InitImplements, StepImplements, Invariance, PTL
   DEF Spec, ImplementsLifecycle, Lifecycle!Spec
=============================================================================
