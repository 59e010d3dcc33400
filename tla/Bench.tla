------------------------------- MODULE Bench -------------------------------
(***************************************************************************)
(* The start-up benchmark on the platforms driven through a Python SDK:    *)
(* the harness of bench/lib.sh, the hooks of daytona.sh, modal.sh or       *)
(* e2b.sh, and the driver that owns the sandbox.  Daytona's and Modal's    *)
(* driver is a coprocess, reached over two pipes, one line per command and *)
(* one line back; the shell stops waiting for a line after                 *)
(* CTL_READ_TIMEOUT, the driver never knows.  E2B's is a process per       *)
(* command, whose exit status is the answer, and a file that holds the id  *)
(* of the sandbox from one to the next.  box is the latest sandbox that    *)
(* was created.  The provider's part (a sandbox that boots, stops, is      *)
(* deleted) is what the SDK calls ask of it; a call may fail, hang, or     *)
(* succeed and hang.                                                       *)
(***************************************************************************)
EXTENDS Naturals, Sequences

CONSTANTS COUNT,   \* timed runs
          MaxLate  \* bound: reads that time out

ASSUME BenchAssumption == COUNT \in Nat \ {0} /\ MaxLate \in Nat

VARIABLES
    platform, \* PLATFORM: daytona, modal or e2b
    MODE,     \* cold or resume
    pc,       \* the shell: the hook it runs, or exited
    todo,     \* commands the hook has still to issue
    waiting,  \* the command whose answer the shell reads for, or none
    run,      \* i, the timed run; 0 during bp_setup
    samples,  \* INT_MS and EXT_MS: <<signal, run>>
    late,     \* answers the shell no longer waited for
    warned,   \* bp_teardown has said that the delete failed
    cmds,     \* the driver's stdin, or the process the shell starts
    replies,  \* the driver's stdout, or the exit status
    driver,   \* whether the driver runs
    busy,     \* the command it is carrying out, or Idle
    worked,   \* whether the provider has done what that command asks
    box,      \* the sandbox: its state, the run that booted it, its CDP
    ready,    \* runs whose boot has come to answer on CDP
    watchdog, \* armed, fired (the script may still clean up), or killed
    named,    \* E2B's state file, or Modal's _state["current"], tells of box
    stray,    \* a sandbox that came before box still runs
    missed    \* a kill or a delete failed, or a sandbox was not recorded

shellVars == <<platform, MODE, pc, todo, waiting, run, samples, late, warned>>
driverVars == <<driver, busy, worked>>
fileVars == <<named, stray, missed>>
vars == <<shellVars, cmds, replies, driverVars, box, ready, watchdog, fileVars>>

Idle == [cmd |-> "none", run |-> 0]
NoBox == [state |-> "none", boot |-> 0, cdp |-> FALSE]

-----------------------------------------------------------------------------
(* The hooks: the commands each one issues, in order.                      *)

bp_setup == IF platform = "daytona"
            THEN <<"create", "preview", "installfwd", "preview", "info">>
            ELSE <<"setup">>

bp_make == CASE platform = "daytona" /\ MODE = "cold" -> <<"stop", "archive">>
             [] platform = "daytona" /\ MODE = "resume" -> <<"stop">>
             [] platform = "modal" /\ MODE = "cold" -> <<>>
             [] platform = "modal" /\ MODE = "resume" -> <<"snapshot">>
             [] platform = "e2b" /\ MODE = "cold" -> <<"cold">>
             [] platform = "e2b" /\ MODE = "resume" -> <<"paused">>

bp_trigger == IF platform = "daytona" THEN <<"start">> ELSE <<"trigger">>

bp_ready_cdp_internal == <<"wait-cdp">>

bp_teardown == IF platform = "daytona" THEN <<"delete", "quit">> ELSE <<"teardown">>

(* What a hook takes for success: any OK from Daytona's driver, from       *)
(* Modal's only the answer that names the command.                         *)
AnyOk(c, line) == line.ok                                         \* mutant
Accepted(c, line) == line.ok /\ (platform = "modal" => line.cmd = c)

MayFail == {"installfwd", "info"}

-----------------------------------------------------------------------------
(* The shell                                                               *)

Init == /\ platform \in {"daytona", "modal", "e2b"} /\ MODE \in {"cold", "resume"}
        /\ pc = "setup" /\ todo = bp_setup /\ waiting = "none"
        /\ run = 0 /\ samples = {} /\ late = 0 /\ warned = FALSE
        /\ cmds = <<>> /\ replies = <<>>
        /\ driver = TRUE /\ busy = Idle /\ worked = FALSE
        /\ box = NoBox /\ ready = {} /\ watchdog = "armed"
        /\ named = FALSE /\ stray = FALSE /\ missed = FALSE

Enter(hook, commands) == pc' = hook /\ todo' = commands

(* The EXIT trap, which bench_main sets when bp_setup has returned.        *)
TrapLate == IF pc # "novnc" THEN Enter("exited", <<>>)            \* mutant
            ELSE Enter("teardown", bp_teardown)
Exit == IF pc \in {"setup", "teardown"} THEN Enter("exited", <<>>)
        ELSE Enter("teardown", bp_teardown)

BeginRun == /\ run' = run + 1
            /\ IF bp_make = <<>> THEN Enter("trigger", bp_trigger)
                                 ELSE Enter("make", bp_make)

(* ctl, _send: write a line ...                                            *)
Issue ==
    /\ waiting = "none" /\ todo # <<>>
    /\ waiting' = Head(todo) /\ todo' = Tail(todo)
    /\ cmds' = Append(cmds, [cmd |-> Head(todo), run |-> run])
    /\ UNCHANGED <<platform, MODE, pc, run, samples, late, warned, replies,
                   driverVars, box, ready, watchdog, fileVars>>

(* ... and after an answer that counts as success, go on.                  *)
Succeed ==
    /\ IF todo # <<>> THEN UNCHANGED <<pc, todo, run>>
       ELSE CASE pc = "setup" -> BeginRun
              [] pc = "make" -> Enter("trigger", bp_trigger) /\ UNCHANGED run
              [] pc = "trigger" -> /\ Enter("internal", bp_ready_cdp_internal)
                                   /\ UNCHANGED run
              [] pc = "internal" -> Enter("external", <<>>) /\ UNCHANGED run
              [] pc = "teardown" -> Exit /\ UNCHANGED run
    /\ samples' = IF pc = "internal" THEN samples \cup {<<"internal", run>>}
                  ELSE samples
    /\ UNCHANGED warned

(* A failed probe is repeated until READY_TIMEOUT, a failed teardown goes  *)
(* on, the rest ends the script: set -e.                                   *)
Failed ==
    \/ waiting \in MayFail /\ Succeed
    \/ /\ waiting \notin MayFail
       /\ CASE pc = "internal" -> /\ \/ Enter("internal", bp_ready_cdp_internal)
                                     \/ Enter("external", <<>>)
                                  /\ UNCHANGED <<run, samples, warned>>
            [] pc = "teardown" ->
                   /\ warned' = (warned \/ waiting = "delete")
                   /\ IF todo # <<>> THEN UNCHANGED <<pc, todo>> ELSE Exit
                   /\ UNCHANGED <<run, samples>>
            [] OTHER -> Exit /\ UNCHANGED <<run, samples, warned>>

(* A signal that came while the shell waited for a process of E2B's is     *)
(* handled when the process has ended.                                     *)
Interrupted == Exit /\ UNCHANGED <<run, samples, warned>>

Read ==
    /\ waiting # "none" /\ replies # <<>>
    /\ replies' = Tail(replies) /\ waiting' = "none"
    /\ IF platform = "e2b" /\ watchdog # "armed" THEN Interrupted
       ELSE IF Accepted(waiting, Head(replies)) THEN Succeed ELSE Failed
    /\ UNCHANGED <<platform, MODE, late, cmds, driverVars, box, ready, watchdog, fileVars>>

(* The read times out; for a process there is no such limit.               *)
ReadTimesOut ==
    /\ platform # "e2b" /\ waiting # "none" /\ replies = <<>>
    /\ late < MaxLate /\ late' = late + 1
    /\ waiting' = "none" /\ Failed
    /\ UNCHANGED <<platform, MODE, cmds, replies, driverVars, box, ready, watchdog, fileVars>>

(* The probes over the public address, one after the other since the       *)
(* shell reads each one's pid through a pipe the probe keeps open; E2B has *)
(* none.                                                                   *)
External ==
    /\ pc = "external"
    /\ \/ box.cdp /\ platform # "e2b" /\ samples' = samples \cup {<<"external", run>>}
       \/ UNCHANGED samples
    /\ Enter("novnc", <<>>)
    /\ UNCHANGED <<platform, MODE, waiting, run, late, warned, cmds, replies,
                   driverVars, box, ready, watchdog, fileVars>>

Novnc ==
    /\ pc = "novnc"
    /\ IF run < COUNT THEN BeginRun ELSE Exit /\ UNCHANGED run
    /\ UNCHANGED <<platform, MODE, waiting, samples, late, warned, cmds, replies,
                   driverVars, box, ready, watchdog, fileVars>>

(* BENCH_TIMEOUT: a signal whose trap exits, which interrupts a read but   *)
(* not the wait for a process ...                                          *)
NoWatchdog == FALSE /\ UNCHANGED vars                             \* mutant
WatchdogFires ==
    /\ watchdog = "armed" /\ pc # "exited"
    /\ IF platform = "e2b" /\ waiting # "none"
       THEN watchdog' = "fired" /\ UNCHANGED <<pc, todo, waiting, late>>
       ELSE /\ watchdog' = IF pc = "teardown" THEN "killed" ELSE "fired"
            /\ Exit /\ waiting' = "none"
            /\ late' = late + (IF waiting = "none" THEN 0 ELSE 1)
    /\ UNCHANGED <<platform, MODE, run, samples, warned, cmds, replies,
                   driverVars, box, ready, fileVars>>

(* ... after a while the end of its children and of the script, which      *)
(* still runs the EXIT trap, and with it a process of E2B's once more ...  *)
WatchdogTerminates ==
    /\ watchdog = "fired" /\ pc # "exited"
    /\ watchdog' = "killed" /\ Exit
    /\ waiting' = "none" /\ cmds' = <<>> /\ replies' = <<>>
    /\ busy' = Idle /\ worked' = FALSE /\ driver' = (platform = "e2b")
    /\ UNCHANGED <<platform, MODE, run, samples, late, warned, box, ready, fileVars>>

(* ... and a little later their killing.                                   *)
WatchdogKills ==
    /\ watchdog = "killed" /\ pc # "exited"
    /\ Enter("exited", <<>>) /\ waiting' = "none" /\ driver' = FALSE
    /\ UNCHANGED <<platform, MODE, run, samples, late, warned, cmds, replies,
                   busy, worked, box, ready, watchdog, fileVars>>

-----------------------------------------------------------------------------
(* The driver and the provider                                             *)

Take ==
    /\ driver /\ busy = Idle /\ cmds # <<>>
    /\ busy' = Head(cmds) /\ cmds' = Tail(cmds) /\ worked' = FALSE
    /\ UNCHANGED <<shellVars, replies, driver, box, ready, watchdog, fileVars>>

(* What the provider does.                                                 *)
Running(i) == [state |-> "running", boot |-> i, cdp |-> FALSE]
Stopped(state) == [box EXCEPT !.state = state, !.cdp = FALSE]

(* Daytona: one sandbox, moved by the command if its state allows.         *)
Effect ==
    \/ busy.cmd = "create" /\ box' = Running(busy.run)
    \/ busy.cmd = "stop" /\ box.state = "running" /\ box' = Stopped("stopped")
    \/ busy.cmd = "archive" /\ box.state = "stopped" /\ box' = Stopped("archived")
    \/ busy.cmd = "start" /\ box.state \in {"stopped", "archived"}
       /\ box' = Running(busy.run)
    \/ busy.cmd = "wait-cdp" /\ box.cdp /\ UNCHANGED box
    \/ busy.cmd = "delete" /\ box' = Stopped("deleted")
    \/ busy.cmd \in {"preview", "installfwd", "info", "quit"} /\ UNCHANGED box

DaytonaWork ==
    /\ platform = "daytona" /\ driver /\ busy # Idle /\ ~worked
    /\ Effect /\ worked' = TRUE
    /\ UNCHANGED <<shellVars, cmds, replies, driver, busy, ready, watchdog, fileVars>>

(* Modal and E2B: setup, Modal's first snapshot and a trigger that does    *)
(* not reconnect create a sandbox.  Only a trigger's, and E2B's setup's,   *)
(* is written down, which comes after.                                     *)
Creates == \/ busy.cmd = "setup" \/ (busy.cmd = "snapshot" /\ busy.run = 1)
           \/ busy.cmd = "trigger" /\ (platform = "modal" \/ MODE = "cold")
Boot == IF busy.cmd = "snapshot" THEN 0 ELSE busy.run
Created == box.state = "running" /\ box.boot = Boot
CreateSandbox ==
    /\ Creates /\ ~named /\ ~Created /\ (busy.cmd = "setup" => box = NoBox)
    /\ box' = Running(Boot) /\ stray' = (stray \/ box.state = "running")
    /\ UNCHANGED <<named, missed, worked>>
_record ==
    /\ Creates /\ Created /\ ~named
    /\ platform = "modal" => busy.cmd = "trigger"
    /\ named' = TRUE /\ worked' = (busy.cmd = "trigger")
    /\ UNCHANGED <<box, stray, missed>>

(* An end of the sandbox whose error is swallowed, and of the one written  *)
(* down, which is forgotten whether that raised or not.                    *)
Terminate == \E raised \in BOOLEAN :
                 /\ box' = IF raised THEN box ELSE Stopped("deleted")
                 /\ missed' = (missed \/ raised)
Kill == /\ IF named THEN Terminate ELSE UNCHANGED <<box, missed>>
        /\ named' = FALSE /\ UNCHANGED stray

(* Modal: every trigger begins with _terminate_current ...                 *)
_terminate_current == busy.cmd = "trigger" /\ named /\ Kill /\ UNCHANGED worked
cmd_teardown == busy.cmd = "teardown" /\ Kill /\ worked' = TRUE

(* ... setup ends its sandbox when Chrome has come up in it, or has not in *)
(* time, and the first snapshot when it is taken; later ones are that one. *)
WarmedUp == /\ busy.cmd = "setup" /\ Created
            /\ box' = Stopped("deleted") /\ worked' = box.cdp /\ UNCHANGED fileVars
cmd_snapshot ==
    /\ busy.cmd = "snapshot" /\ worked' = TRUE
    /\ IF busy.run = 1 THEN Created /\ box.cdp /\ Terminate /\ UNCHANGED <<named, stray>>
                       ELSE UNCHANGED <<box, fileVars>>

(* setup and wait_cdp ask inside the sandbox for Chrome.                   *)
_wait_cdp_in ==
    /\ busy.cmd = "wait-cdp" \/ (busy.cmd = "setup" /\ platform = "e2b")
    /\ named /\ box.cdp
    /\ worked' = TRUE /\ UNCHANGED <<box, fileVars>>

ModalWork ==
    /\ platform = "modal" /\ driver /\ busy # Idle /\ ~worked
    /\ \/ _terminate_current \/ CreateSandbox \/ _record \/ WarmedUp \/ cmd_snapshot
       \/ _wait_cdp_in \/ cmd_teardown
    /\ UNCHANGED <<shellVars, cmds, replies, driver, busy, ready, watchdog>>

(* E2B: paused and the other trigger go by the id in the file.             *)
cmd_paused == /\ busy.cmd = "paused" /\ named /\ box.state = "running"
              /\ box' = Stopped("paused") /\ worked' = TRUE /\ UNCHANGED fileVars
Connect == /\ busy.cmd = "trigger" /\ MODE = "resume" /\ named
           /\ box' = Running(busy.run) /\ worked' = TRUE /\ UNCHANGED fileVars
cmd_cold == busy.cmd = "cold" /\ Kill /\ worked' = TRUE

E2BWork ==
    /\ platform = "e2b" /\ driver /\ busy # Idle /\ ~worked
    /\ CreateSandbox \/ _record \/ _wait_cdp_in \/ cmd_paused \/ Connect
       \/ cmd_cold \/ cmd_teardown
    /\ UNCHANGED <<shellVars, cmds, replies, driver, busy, ready, watchdog>>

(* One line per command, whatever the handler raised.  A snapshot that     *)
(* failed is told of before its sandbox is ended, if the driver has got to *)
(* know of one.                                                            *)
Silent(ok) == replies' = IF ok THEN Append(replies, [cmd |-> busy.cmd, ok |-> ok])
                         ELSE replies                             \* mutant
reply(ok) == replies' = Append(replies, [cmd |-> busy.cmd, ok |-> ok])

Unanswered == busy.cmd \notin {"none", "discard"}
NeverFails == \/ busy.cmd \in {"cold", "teardown"}
              \/ busy.cmd = "snapshot" /\ (worked \/ busy.run > 1)

Answer(ok) ==
    /\ driver /\ Unanswered
    /\ IF ok THEN worked ELSE ~NeverFails
    /\ \/ /\ ~ok /\ busy.cmd = "snapshot" /\ Created
          /\ busy' = [busy EXCEPT !.cmd = "discard"] /\ UNCHANGED missed
       \/ /\ busy' = Idle
          /\ missed' = (missed \/ (~ok /\ \/ busy.cmd = "delete"
                                          \/ Creates /\ Created /\ ~named))
    /\ worked' = FALSE
    /\ IF pc = "exited"
       THEN driver' = FALSE /\ UNCHANGED replies
       ELSE driver' = (busy.cmd # "quit") /\ reply(ok)
    /\ UNCHANGED <<shellVars, cmds, box, ready, watchdog, named, stray>>

Discard ==
    /\ driver /\ busy.cmd = "discard"
    /\ Terminate /\ busy' = Idle
    /\ UNCHANGED <<shellVars, cmds, replies, driver, worked, ready, watchdog, named, stray>>

(* The shell is gone, and with it the other end of stdin; modal.sh kills   *)
(* the driver.                                                             *)
EndOfInput ==
    /\ driver /\ pc = "exited"
    /\ \/ busy = Idle /\ cmds = <<>>
       \/ platform = "modal" /\ run > 0
    /\ driver' = FALSE
    /\ UNCHANGED <<shellVars, cmds, replies, busy, worked, box, ready, watchdog, fileVars>>

(* Chrome in the sandbox opens its port.                                   *)
CdpUp ==
    /\ box.state = "running" /\ ~box.cdp
    /\ box' = [box EXCEPT !.cdp = TRUE] /\ ready' = ready \cup {box.boot}
    /\ UNCHANGED <<shellVars, cmds, replies, driverVars, watchdog, fileVars>>

Next == \/ Issue \/ Read \/ ReadTimesOut \/ External \/ Novnc
        \/ WatchdogFires \/ WatchdogTerminates \/ WatchdogKills
        \/ Take \/ DaytonaWork \/ ModalWork \/ E2BWork \/ Discard \/ EndOfInput \/ CdpUp
        \/ \E ok \in BOOLEAN : Answer(ok)

Spec == Init /\ [][Next]_vars

(* Nothing is assumed of driver and provider, nor of a curl that has no    *)
(* time limit of its own.                                                  *)
FairSpec == Spec /\ WF_vars(Issue \/ Read \/ ReadTimesOut)
                 /\ WF_vars(WatchdogFires)
                 /\ WF_vars(WatchdogTerminates) /\ WF_vars(WatchdogKills)

-----------------------------------------------------------------------------
(* Commands and answers stay in step: what is unanswered or unread is what *)
(* the shell waits for and what it gave up waiting for, so a read that     *)
(* times out shifts every later answer by one (daytona_ctl.py:6-8).        *)
Pending == Len(cmds) + Len(replies) + (IF Unanswered THEN 1 ELSE 0)
InStep == driver /\ pc # "exited" =>
              Pending = late + (IF waiting = "none" THEN 0 ELSE 1)

(* A latency that is reported is that of a boot which was triggered by     *)
(* that very run and did come up (lib.sh:4-10, 13-19).  With Daytona this  *)
(* takes that no read has timed out: its answers do not say what they      *)
(* answer.                                                                 *)
SampleOfRun == platform = "modal" \/ late = 0 =>
                   \A s \in samples : s[2] \in ready

(* Once bp_setup has returned nothing is left running, though runs fail    *)
(* half way and the watchdog may cut one short, unless the teardown itself *)
(* is cut short.  Three things defeat it, and only they: as many answers   *)
(* unread as the teardown has commands, since it then takes an older one   *)
(* for its own (on Modal a single one does, after which the driver is      *)
(* killed, modal.sh:142-143); an end of a sandbox that fails, which Modal  *)
(* and E2B swallow; and a sandbox whose id was never written down.  Only   *)
(* Daytona's user is told on the terminal that the delete has failed, and  *)
(* a lost answer can hide it (lib.sh:31, 207-237, 256).                    *)
TornDown == pc = "exited" /\ run > 0 /\ watchdog # "killed" =>
    /\ late < Len(bp_teardown) /\ ~missed => box.state = "deleted" /\ ~stray
    /\ platform = "daytona" /\ late = 0 /\ missed => warned

(* Whatever hangs, the script ends (lib.sh:201-209).                       *)
BenchEnds == <>(pc = "exited")
=============================================================================
