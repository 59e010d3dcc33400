----------------------------- MODULE BenchProofs -----------------------------
(***************************************************************************)
(* Theorems about Bench, for any number of runs and of late answers.       *)
(***************************************************************************)
EXTENDS Bench, TLAPS

Commands == {"create", "preview", "installfwd", "info", "setup", "stop", "archive",
             "snapshot", "cold", "paused", "start", "trigger", "wait-cdp", "delete",
             "quit", "teardown"}
(* Those that a hook may issue.                                            *)
Issues(p, hook) ==
    CASE hook = "setup" -> IF p = "daytona" THEN {"create", "preview", "installfwd", "info"}
                           ELSE {"setup"}
      [] hook = "make" -> IF p = "daytona" THEN {"stop", "archive"}
                          ELSE IF p = "modal" THEN {"snapshot"} ELSE {"cold", "paused"}
      [] hook = "trigger" -> IF p = "daytona" THEN {"start"} ELSE {"trigger"}
      [] hook = "internal" -> {"wait-cdp"}
      [] hook = "teardown" -> IF p = "daytona" THEN {"delete", "quit"} ELSE {"teardown"}
      [] OTHER -> {}

Lines == [cmd : Commands, run : Nat]
Discards == [cmd : {"discard"}, run : Nat]

(* The shell waits for an answer only inside a hook that issues commands.  *)
Shell ==
    /\ pc \in {"setup", "make", "trigger", "internal", "external", "novnc", "teardown",
               "exited"}
    /\ todo \in Seq(Issues(platform, pc)) /\ waiting \in Issues(platform, pc) \cup {"none"}
    /\ run \in Nat /\ late \in Nat
    /\ platform \in {"daytona", "modal", "e2b"} /\ MODE \in {"cold", "resume"}
    /\ platform = "e2b" => late = 0

Pipes == /\ cmds \in Seq(Lines) /\ busy \in Lines \cup Discards \cup {Idle}
         /\ replies \in Seq([cmd : Commands, ok : BOOLEAN])

IInv == Shell /\ Pipes /\ InStep

LEMMA Scripts ==
    ASSUME NEW C
    PROVE  /\ <<>> \in Seq(C) /\ \A a \in C : <<a>> \in Seq(C)
           /\ \A a, b \in C : <<a, b>> \in Seq(C)
           /\ \A a, b, c, d, e \in C : <<a, b, c, d, e>> \in Seq(C)
OBVIOUS

LEMMA OfHooks == ASSUME NEW p PROVE
    /\ Issues(p, "setup") = IF p = "daytona"
                            THEN {"create", "preview", "installfwd", "info"} ELSE {"setup"}
    /\ Issues(p, "make") = IF p = "daytona" THEN {"stop", "archive"}
                           ELSE IF p = "modal" THEN {"snapshot"} ELSE {"cold", "paused"}
    /\ Issues(p, "trigger") = IF p = "daytona" THEN {"start"} ELSE {"trigger"}
    /\ Issues(p, "internal") = {"wait-cdp"}
    /\ Issues(p, "teardown") = IF p = "daytona" THEN {"delete", "quit"} ELSE {"teardown"}
    /\ Issues(p, "external") = {} /\ Issues(p, "novnc") = {} /\ Issues(p, "exited") = {}
BY DEF Issues

LEMMA AreCommands ==
    ASSUME Shell PROVE Issues(platform, pc) \subseteq Commands /\ "none" \notin Commands
BY OfHooks DEF Shell, Commands

LEMMA HooksIssueCommands ==
    ASSUME platform \in {"daytona", "modal", "e2b"}, MODE \in {"cold", "resume"}
    PROVE  /\ bp_setup \in Seq(Issues(platform, "setup")) /\ bp_make \in Seq(Issues(platform, "make"))
           /\ bp_trigger \in Seq(Issues(platform, "trigger"))
           /\ bp_ready_cdp_internal \in Seq(Issues(platform, "internal"))
           /\ bp_teardown \in Seq(Issues(platform, "teardown"))
           /\ \A hook : <<>> \in Seq(Issues(platform, hook))
<1>1. \A hook : <<>> \in Seq(Issues(platform, hook))
    BY Scripts
<1>2. bp_trigger \in Seq(Issues(platform, "trigger"))
  <2>1. \E c \in Issues(platform, "trigger") : bp_trigger = <<c>>
      BY OfHooks DEF bp_trigger
  <2> QED BY <2>1, Scripts
<1>3. bp_ready_cdp_internal \in Seq(Issues(platform, "internal"))
  <2>1. "wait-cdp" \in Issues(platform, "internal")
      BY OfHooks
  <2> QED BY <2>1, Scripts DEF bp_ready_cdp_internal
<1>4. bp_teardown \in Seq(Issues(platform, "teardown"))
  <2>1. CASE platform = "daytona"
    <3>1. /\ bp_teardown = <<"delete", "quit">>
          /\ "delete" \in Issues(platform, "teardown") /\ "quit" \in Issues(platform, "teardown")
        BY <2>1, OfHooks DEF bp_teardown
    <3> QED BY <3>1, Scripts
  <2>2. CASE platform # "daytona"
    <3>1. bp_teardown = <<"teardown">> /\ "teardown" \in Issues(platform, "teardown")
        BY <2>2, OfHooks DEF bp_teardown
    <3> QED BY <3>1, Scripts
  <2> QED BY <2>1, <2>2
<1>5. bp_setup \in Seq(Issues(platform, "setup"))
  <2>1. CASE platform = "daytona"
    <3>1. bp_setup = <<"create", "preview", "installfwd", "preview", "info">>
        BY <2>1 DEF bp_setup
    <3>2. /\ "create" \in Issues(platform, "setup") /\ "preview" \in Issues(platform, "setup")
          /\ "installfwd" \in Issues(platform, "setup") /\ "info" \in Issues(platform, "setup")
        BY <2>1, OfHooks
    <3> QED BY <3>1, <3>2, Scripts
  <2>2. CASE platform # "daytona"
    <3>1. bp_setup = <<"setup">> /\ "setup" \in Issues(platform, "setup")
        BY <2>2, OfHooks DEF bp_setup
    <3> QED BY <3>1, Scripts
  <2> QED BY <2>1, <2>2
<1>6. bp_make \in Seq(Issues(platform, "make"))
  <2>1. CASE platform = "daytona"
    <3>1. /\ bp_make \in {<<"stop">>, <<"stop", "archive">>}
          /\ "stop" \in Issues(platform, "make") /\ "archive" \in Issues(platform, "make")
        BY <2>1, OfHooks DEF bp_make
    <3> QED BY <3>1, Scripts
  <2>2. CASE platform = "modal"
    <3>1. bp_make \in {<<>>, <<"snapshot">>} /\ "snapshot" \in Issues(platform, "make")
        BY <2>2, OfHooks DEF bp_make
    <3> QED BY <1>1, <3>1, Scripts
  <2>3. CASE platform = "e2b"
    <3>1. /\ bp_make \in {<<"cold">>, <<"paused">>}
          /\ "cold" \in Issues(platform, "make") /\ "paused" \in Issues(platform, "make")
        BY <2>3, OfHooks DEF bp_make
    <3> QED BY <3>1, Scripts
  <2> QED BY <2>1, <2>2, <2>3
<1> QED BY <1>1, <1>2, <1>3, <1>4, <1>5, <1>6

LEMMA OfBusy ==
    ASSUME Pipes
    PROVE  /\ Unanswered => busy \in Lines /\ busy.cmd \in Commands /\ busy.run \in Nat
           /\ ~Unanswered => busy = Idle \/ busy.cmd = "discard"
           /\ \A line \in Lines : line.cmd \notin {"none", "discard"} /\ line # Idle
           /\ Idle.cmd = "none"
BY DEF Pipes, Unanswered, Lines, Discards, Idle, Commands

LEMMA InitInv == Init => IInv
<1> SUFFICES ASSUME Init PROVE IInv
    OBVIOUS
<1>1. bp_setup \in Seq(Issues(platform, "setup"))
    BY HooksIssueCommands DEF Init
<1>2. Shell /\ Pipes
    BY <1>1 DEF Init, Shell, Pipes
<1>3. InStep
    BY DEF Init, InStep, Pending, Unanswered, Idle
<1> QED BY <1>2, <1>3 DEF IInv

(* Where the shell may be after an answer, or without one.                 *)
Resumed == /\ pc' \in {"setup", "make", "trigger", "internal", "external", "novnc",
                       "teardown", "exited"}
           /\ todo' \in Seq(Issues(platform, pc')) /\ run' \in Nat

LEMMA ExitResumes == ASSUME Shell, Exit, run' = run PROVE Resumed
BY HooksIssueCommands DEF Exit, Enter, Resumed, Shell

LEMMA BeginRunResumes == ASSUME Shell, BeginRun PROVE Resumed
BY HooksIssueCommands DEF BeginRun, Enter, Resumed, Shell

LEMMA SucceedResumes ==
    ASSUME Shell, Succeed, pc \notin {"external", "novnc", "exited"} PROVE Resumed
<1>1. CASE todo # <<>>
    BY <1>1 DEF Succeed, Resumed, Shell
<1>2. CASE todo = <<>> /\ pc = "setup"
    BY <1>2, BeginRunResumes DEF Succeed
<1>3. CASE todo = <<>> /\ pc = "make"
    BY <1>3, HooksIssueCommands DEF Succeed, Enter, Resumed, Shell
<1>4. CASE todo = <<>> /\ pc = "trigger"
    BY <1>4, HooksIssueCommands DEF Succeed, Enter, Resumed, Shell
<1>5. CASE todo = <<>> /\ pc = "internal"
    BY <1>5, HooksIssueCommands DEF Succeed, Enter, Resumed, Shell
<1>6. CASE todo = <<>> /\ pc = "teardown"
    BY <1>6, ExitResumes DEF Succeed
<1> QED BY <1>1, <1>2, <1>3, <1>4, <1>5, <1>6 DEF Shell

LEMMA FailedResumes ==
    ASSUME Shell, Failed, pc \notin {"external", "novnc", "exited"} PROVE Resumed
<1>1. CASE Succeed
    BY <1>1, SucceedResumes
<1>2. CASE Exit /\ run' = run
    BY <1>2, ExitResumes
<1>3. CASE /\ \/ Enter("internal", bp_ready_cdp_internal) \/ Enter("external", <<>>)
           /\ run' = run
    BY <1>3, HooksIssueCommands DEF Enter, Resumed, Shell
<1>4. CASE todo # <<>> /\ UNCHANGED <<pc, todo, run>>
    BY <1>4 DEF Resumed, Shell
<1>5. \/ Succeed
      \/ Exit /\ run' = run
      \/ /\ \/ Enter("internal", bp_ready_cdp_internal) \/ Enter("external", <<>>)
         /\ run' = run
      \/ todo # <<>> /\ UNCHANGED <<pc, todo, run>>
  <2>1. CASE waiting \in MayFail
      BY <2>1 DEF Failed
  <2>2. CASE waiting \notin MayFail /\ pc = "internal"
      BY <2>2 DEF Failed
  <2>3. CASE waiting \notin MayFail /\ pc = "teardown"
      BY <2>3 DEF Failed
  <2>4. CASE waiting \notin MayFail /\ pc \notin {"internal", "teardown"}
      BY <2>4 DEF Failed
  <2> QED BY <2>1, <2>2, <2>3, <2>4
<1> QED BY <1>1, <1>2, <1>3, <1>4, <1>5

(* The shell writes a command.                                             *)
LEMMA IssueInv == ASSUME IInv, Issue PROVE IInv'
<1>1. /\ Shell /\ Pipes /\ InStep /\ waiting = "none" /\ todo # <<>>
      /\ waiting' = Head(todo) /\ todo' = Tail(todo)
      /\ cmds' = Append(cmds, [cmd |-> Head(todo), run |-> run])
      /\ UNCHANGED <<platform, MODE, pc, run, late, replies, driver, busy>>
    BY DEF IInv, Issue, driverVars
<1>2. /\ Head(todo) \in Issues(platform, pc) /\ Tail(todo) \in Seq(Issues(platform, pc))
      /\ Head(todo) \in Commands /\ "none" \notin Commands
  <2>1. Head(todo) \in Issues(platform, pc) /\ Tail(todo) \in Seq(Issues(platform, pc))
      BY <1>1 DEF Shell
  <2> QED BY <1>1, <2>1, AreCommands
<1>3. [cmd |-> Head(todo), run |-> run] \in Lines
    BY <1>1, <1>2 DEF Lines, Shell
<1>4. cmds' \in Seq(Lines) /\ Len(cmds') = Len(cmds) + 1 /\ Len(cmds) \in Nat
    BY <1>1, <1>3 DEF Pipes
<1>5. Shell' /\ Pipes'
    BY <1>1, <1>2, <1>4 DEF Shell, Pipes
<1>6. waiting' # "none"
    BY <1>1, <1>2
<1>7. Len(replies) \in Nat /\ late \in Nat
    BY <1>1 DEF Pipes, Shell
<1>8. InStep'
  <2>1. driver /\ pc # "exited" =>
            Len(cmds) + Len(replies) + (IF Unanswered THEN 1 ELSE 0) = late
      BY <1>1, <1>7 DEF InStep, Pending
  <2>2. driver /\ pc # "exited" =>
            Len(cmds') + Len(replies) + (IF Unanswered THEN 1 ELSE 0) = late + 1
      BY ONLY <1>4, <1>7, <2>1
  <2> QED BY <1>1, <1>6, <2>2 DEF InStep, Pending, Unanswered
<1> QED BY <1>5, <1>8 DEF IInv

(* It reads an answer, or gives up waiting for one.                        *)
LEMMA ReadInv == ASSUME IInv, Read \/ ReadTimesOut PROVE IInv'
<1>1. /\ Shell /\ Pipes /\ InStep /\ waiting # "none" /\ waiting' = "none"
      /\ UNCHANGED <<platform, MODE, cmds, driver, busy>>
    BY DEF IInv, Read, ReadTimesOut, driverVars
<1>2. pc \notin {"external", "novnc", "exited"}
    BY <1>1, OfHooks DEF Shell
<1>3. Resumed
  <2>1. Succeed \/ Failed \/ (Exit /\ run' = run)
      BY DEF Read, ReadTimesOut, Interrupted
  <2> QED BY <1>1, <1>2, <2>1, SucceedResumes, FailedResumes, ExitResumes
<1>4. /\ Len(replies) \in Nat /\ late \in Nat /\ Len(cmds) \in Nat
      /\ driver => Len(cmds) + Len(replies) + (IF Unanswered THEN 1 ELSE 0) = late + 1
    BY <1>1, <1>2 DEF Pipes, Shell, InStep, Pending
<1>5. CASE Read
  <2>1. replies # <<>> /\ replies' = Tail(replies) /\ late' = late
      BY <1>5 DEF Read
  <2>2. replies' \in Seq([cmd : Commands, ok : BOOLEAN]) /\ Len(replies') = Len(replies) - 1
      BY <1>1, <2>1 DEF Pipes
  <2>3. Shell' /\ Pipes'
      BY <1>1, <1>3, <2>1, <2>2 DEF Shell, Pipes, Resumed
  <2>4. InStep'
      BY <1>1, <1>4, <2>1, <2>2 DEF InStep, Pending, Unanswered
  <2> QED BY <2>3, <2>4 DEF IInv
<1>6. CASE ReadTimesOut
  <2>1. platform # "e2b" /\ late' = late + 1 /\ replies' = replies
      BY <1>6 DEF ReadTimesOut
  <2>2. Shell' /\ Pipes'
      BY <1>1, <1>3, <1>4, <2>1 DEF Shell, Pipes, Resumed
  <2>3. InStep'
      BY <1>1, <1>4, <2>1 DEF InStep, Pending, Unanswered
  <2> QED BY <2>2, <2>3 DEF IInv
<1> QED BY <1>5, <1>6

(* It goes on without a command.                                           *)
LEMMA GoOnInv == ASSUME IInv, External \/ Novnc PROVE IInv'
<1>1. /\ Shell /\ Pipes /\ InStep /\ pc \in {"external", "novnc"}
      /\ UNCHANGED <<platform, MODE, waiting, late, cmds, replies, driver, busy>>
    BY DEF IInv, External, Novnc, driverVars
<1>2. waiting = "none"
    BY <1>1, OfHooks DEF Shell
<1>3. Resumed
  <2>1. CASE External
      BY <1>1, <2>1, HooksIssueCommands DEF External, Enter, Resumed, Shell
  <2>2. CASE Novnc
    <3>1. BeginRun \/ (Exit /\ run' = run)
        BY <2>2 DEF Novnc
    <3> QED BY <1>1, <3>1, BeginRunResumes, ExitResumes
  <2> QED BY <2>1, <2>2
<1>4. Shell' /\ Pipes'
    BY <1>1, <1>2, <1>3 DEF Shell, Pipes, Resumed
<1>5. InStep'
    BY <1>1 DEF InStep, Pending, Unanswered
<1> QED BY <1>4, <1>5 DEF IInv

(* The watchdog cuts a read short, ends the children, kills.               *)
LEMMA WatchdogInv ==
    ASSUME IInv, WatchdogFires \/ WatchdogTerminates \/ WatchdogKills PROVE IInv'
<1>1. /\ Shell /\ Pipes /\ InStep /\ pc # "exited" /\ late \in Nat
      /\ Len(cmds) \in Nat /\ Len(replies) \in Nat
      /\ UNCHANGED <<platform, MODE, run>>
    BY DEF IInv, WatchdogFires, WatchdogTerminates, WatchdogKills, Shell, Pipes
<1>2. Exit => Resumed
    BY <1>1, ExitResumes
<1>3. CASE WatchdogFires
  <2>1. UNCHANGED <<cmds, replies, driver, busy>>
      BY <1>3 DEF WatchdogFires, driverVars
  <2>2. CASE platform = "e2b" /\ waiting # "none"
    <3>1. UNCHANGED <<pc, todo, waiting, late>>
        BY <1>3, <2>2 DEF WatchdogFires
    <3> QED BY <1>1, <2>1, <3>1 DEF IInv, Shell, Pipes, InStep, Pending, Unanswered
  <2>3. CASE ~(platform = "e2b" /\ waiting # "none")
    <3>1. /\ Exit /\ waiting' = "none"
          /\ late' = late + (IF waiting = "none" THEN 0 ELSE 1)
        BY <1>3, <2>3 DEF WatchdogFires
    <3>2. Shell' /\ Pipes'
        BY <1>1, <1>2, <2>1, <2>3, <3>1 DEF Shell, Pipes, Resumed
    <3>3. InStep'
        BY <1>1, <2>1, <3>1 DEF InStep, Pending, Unanswered
    <3> QED BY <3>2, <3>3 DEF IInv
  <2> QED BY <2>2, <2>3
<1>4. CASE WatchdogTerminates
  <2>1. /\ Exit /\ waiting' = "none" /\ cmds' = <<>> /\ replies' = <<>>
        /\ busy' = Idle /\ driver' = (platform = "e2b") /\ late' = late
      BY <1>4 DEF WatchdogTerminates
  <2>2. Shell' /\ Pipes'
      BY <1>1, <1>2, <2>1 DEF Shell, Pipes, Resumed
  <2>3. platform = "e2b" => late' = 0
      BY <1>1, <2>1 DEF Shell
  <2>4. InStep'
    <3>1. CASE platform = "e2b"
        BY <2>1, <2>3, <3>1 DEF InStep, Pending, Unanswered, Idle
    <3>2. CASE platform # "e2b"
      <4>1. ~driver'
          BY <2>1, <3>2
      <4> QED BY <4>1 DEF InStep
    <3> QED BY <3>1, <3>2
  <2> QED BY <2>2, <2>4 DEF IInv
<1>5. CASE WatchdogKills
  <2>1. /\ pc' = "exited" /\ todo' = <<>> /\ waiting' = "none"
        /\ UNCHANGED <<cmds, replies, busy, late>>
      BY <1>5 DEF WatchdogKills, Enter
  <2>2. Shell' /\ Pipes'
      BY <1>1, <2>1, HooksIssueCommands DEF Shell, Pipes
  <2> QED BY <2>1, <2>2 DEF IInv, InStep
<1> QED BY <1>3, <1>4, <1>5

(* The driver takes a line and answers it.                                 *)
LEMMA TakeInv == ASSUME IInv, Take PROVE IInv'
<1>1. /\ Shell /\ Pipes /\ InStep /\ driver /\ busy = Idle /\ cmds # <<>>
      /\ busy' = Head(cmds) /\ cmds' = Tail(cmds)
      /\ UNCHANGED <<platform, MODE, pc, todo, waiting, run, late, replies, driver>>
    BY DEF IInv, Take, shellVars
<1>2. /\ Head(cmds) \in Lines /\ Tail(cmds) \in Seq(Lines)
      /\ Len(Tail(cmds)) = Len(cmds) - 1 /\ Len(cmds) \in Nat /\ Len(replies) \in Nat
    BY <1>1 DEF Pipes
<1>3. ~Unanswered /\ Unanswered'
    BY <1>1, <1>2, OfBusy DEF Unanswered
<1>4. Shell' /\ Pipes'
    BY <1>1, <1>2 DEF Shell, Pipes
<1>5. InStep'
    BY <1>1, <1>2, <1>3 DEF InStep, Pending
<1> QED BY <1>4, <1>5 DEF IInv

LEMMA AnswerInv == ASSUME IInv, NEW ok \in BOOLEAN, Answer(ok) PROVE IInv'
<1>1. /\ Shell /\ Pipes /\ InStep /\ driver /\ Unanswered
      /\ UNCHANGED <<platform, MODE, pc, todo, waiting, run, late, cmds>>
      /\ Len(cmds) \in Nat /\ Len(replies) \in Nat /\ late \in Nat
    BY DEF IInv, Answer, shellVars, Shell, Pipes
<1>2. Shell' /\ ~Unanswered' /\ busy' \in Discards \cup {Idle}
  <2>1. busy \in Lines
      BY <1>1, OfBusy
  <2>2. busy' = Idle \/ busy' = [busy EXCEPT !.cmd = "discard"]
      BY DEF Answer
  <2> QED BY <1>1, <2>1, <2>2 DEF Shell, Unanswered, Lines, Discards, Idle
<1>3. CASE pc = "exited"
  <2>1. replies' = replies
      BY <1>3 DEF Answer
  <2> QED BY <1>1, <1>2, <1>3, <2>1 DEF IInv, Pipes, InStep
<1>4. CASE pc # "exited"
  <2>1. replies' = Append(replies, [cmd |-> busy.cmd, ok |-> ok])
      BY <1>4 DEF Answer, reply
  <2>2. [cmd |-> busy.cmd, ok |-> ok] \in [cmd : Commands, ok : BOOLEAN]
      BY <1>1, OfBusy
  <2>3. /\ replies' \in Seq([cmd : Commands, ok : BOOLEAN])
        /\ Len(replies') = Len(replies) + 1
      BY <1>1, <2>1, <2>2 DEF Pipes
  <2>4. InStep'
      BY <1>1, <1>2, <2>3 DEF InStep, Pending
  <2> QED BY <1>1, <1>2, <2>3, <2>4 DEF IInv, Pipes
<1> QED BY <1>3, <1>4

LEMMA NextInv == IInv /\ [Next]_vars => IInv'
<1> SUFFICES ASSUME IInv, [Next]_vars PROVE IInv'
    OBVIOUS
<1>1. ASSUME UNCHANGED <<platform, MODE, pc, todo, waiting, run, late, cmds, replies,
                         driver, busy>>
      PROVE  IInv'
    BY <1>1 DEF IInv, Shell, Pipes, InStep, Pending, Unanswered
<1>2. CASE DaytonaWork \/ ModalWork \/ E2BWork \/ CdpUp
    BY <1>1, <1>2 DEF DaytonaWork, ModalWork, E2BWork, CdpUp, shellVars, driverVars
<1>3. CASE EndOfInput
  <2>1. UNCHANGED <<platform, MODE, pc, todo, waiting, run, late, cmds, replies, busy>>
        /\ pc = "exited"
      BY <1>3 DEF EndOfInput, shellVars
  <2> QED BY <2>1 DEF IInv, Shell, Pipes, InStep
<1>4. CASE UNCHANGED vars
    BY <1>1, <1>4 DEF vars, shellVars, driverVars
<1>5. CASE Issue \/ Read \/ ReadTimesOut \/ External \/ Novnc
    BY <1>5, IssueInv, ReadInv, GoOnInv
<1>6. CASE WatchdogFires \/ WatchdogTerminates \/ WatchdogKills
    BY <1>6, WatchdogInv
<1>7. CASE Take \/ \E ok \in BOOLEAN : Answer(ok)
    BY <1>7, TakeInv, AnswerInv
<1>8. CASE Discard
  <2>1. /\ UNCHANGED <<platform, MODE, pc, todo, waiting, run, late, cmds, replies, driver>>
        /\ busy.cmd = "discard" /\ busy' = Idle
      BY <1>8 DEF Discard, shellVars
  <2> QED BY <2>1 DEF IInv, Shell, Pipes, InStep, Pending, Unanswered, Idle
<1> QED BY <1>2, <1>3, <1>4, <1>5, <1>6, <1>7, <1>8 DEF Next

(* Every command has its one answer, in order: what is unanswered or       *)
(* unread is what the shell waits for and what it gave up waiting for      *)
(* (daytona_ctl.py:6-8), whatever times out and wherever the watchdog      *)
(* strikes.                                                                *)
THEOREM CommandsAnsweredInStep == Spec => []InStep
<1>1. IInv => InStep
    BY DEF IInv
<1> QED BY <1>1, InitInv, NextInv, PTL DEF Spec

-----------------------------------------------------------------------------
(* The run a latency belongs to.  Without a late answer only what the      *)
(* shell waits for is unanswered; with one, Modal's shell is either still  *)
(* probing the boot whose probe was late, or will end at the next answer.  *)
Live == pc \notin {"teardown", "exited"}
Scope == platform = "modal" \/ late = 0

Boxed == box \in [state : {"none", "running", "stopped", "archived", "paused", "deleted"},
                  boot : Nat, cdp : BOOLEAN]

NoQuit == Live => /\ driver
                  /\ \A i \in 1..Len(cmds) : cmds[i].cmd # "quit"
                  /\ busy.cmd # "quit"

Alone == Live /\ late = 0 =>
    /\ \A i \in 1..Len(cmds) : cmds[i].cmd = waiting /\ cmds[i].run = run
    /\ Unanswered => busy.cmd = waiting /\ busy.run = run
    /\ \A i \in 1..Len(replies) : replies[i].cmd = waiting

Doomed == pc \in {"make", "trigger"} /\ late > 0 =>
    \/ replies # <<>> /\ replies[1].cmd = "wait-cdp"
    \/ replies = <<>> /\ busy.cmd = "wait-cdp"
    \/ replies = <<>> /\ ~Unanswered /\ cmds # <<>> /\ cmds[1].cmd = "wait-cdp"

Probing == pc \in {"internal", "external", "novnc"} =>
    /\ \A i \in 1..Len(cmds) : cmds[i].cmd = "wait-cdp"
    /\ Unanswered => busy.cmd = "wait-cdp"
    /\ \A i \in 1..Len(replies) : replies[i].cmd = "wait-cdp"

Triggered == pc = "trigger" /\ late = 0 =>
    /\ Unanswered /\ worked => box.boot = run
    /\ \A i \in 1..Len(replies) : replies[i].ok => box.boot = run

Up == /\ pc \in {"internal", "external"} => box.boot = run
      /\ pc = "internal" => /\ Unanswered /\ worked => run \in ready
                            /\ \A i \in 1..Len(replies) : replies[i].ok => run \in ready

InTime == Scope => /\ pc = "setup" => late = 0
                   /\ Alone /\ Doomed /\ Probing /\ Triggered /\ Up

Sampled == /\ box.cdp => box.boot \in ready
           /\ Scope => \A s \in samples : s[2] \in ready

SInv == IInv /\ Boxed /\ NoQuit /\ InTime /\ Sampled

LEMMA SInitInv == Init => SInv
<1> SUFFICES ASSUME Init PROVE SInv
    OBVIOUS
<1>1. Boxed /\ NoQuit /\ Sampled
    BY DEF Init, NoBox, Idle, Boxed, NoQuit, Sampled
<1>2. InTime
    BY DEF Init, InTime, Alone, Doomed, Probing, Triggered, Up, Unanswered, Idle
<1> QED BY <1>1, <1>2, InitInv DEF SInv

(* Without a late answer nothing is under way when the shell does not      *)
(* wait, and one thing when it does.                                       *)
LEMMA NothingPending ==
    ASSUME SInv, Live, late = 0, waiting = "none"
    PROVE  cmds = <<>> /\ ~Unanswered /\ replies = <<>>
<1>1. /\ cmds \in Seq(Lines) /\ replies \in Seq([cmd : Commands, ok : BOOLEAN])
      /\ driver /\ pc # "exited" /\ InStep
    BY DEF SInv, IInv, Pipes, NoQuit, Live
<1>2. Len(cmds) + Len(replies) + (IF Unanswered THEN 1 ELSE 0) = 0
    BY <1>1 DEF InStep, Pending
<1>3. Len(cmds) \in Nat /\ Len(replies) \in Nat
    BY <1>1
<1>4. Len(cmds) = 0 /\ Len(replies) = 0 /\ ~Unanswered
    BY ONLY <1>2, <1>3
<1> QED BY <1>1, <1>4

LEMMA SumIsOne ==
    ASSUME NEW a \in Nat, NEW b \in Nat, a + b = 1 PROVE b > 0 => a = 0 /\ b = 1
OBVIOUS

LEMMA OnePending ==
    ASSUME SInv, Live, late = 0, waiting # "none"
    PROVE  /\ replies # <<>> => cmds = <<>> /\ ~Unanswered /\ Len(replies) = 1
           /\ Unanswered => cmds = <<>> /\ replies = <<>>
<1>1. /\ cmds \in Seq(Lines) /\ replies \in Seq([cmd : Commands, ok : BOOLEAN])
      /\ driver /\ pc # "exited" /\ InStep
    BY DEF SInv, IInv, Pipes, NoQuit, Live
<1>2. Len(cmds) + Len(replies) + (IF Unanswered THEN 1 ELSE 0) = 1
    BY <1>1 DEF InStep, Pending
<1>3. Len(cmds) \in Nat /\ Len(replies) \in Nat /\ (replies # <<>> => Len(replies) > 0)
    BY <1>1
<1>4. /\ replies # <<>> => Len(cmds) = 0 /\ ~Unanswered /\ Len(replies) = 1
      /\ Unanswered => Len(cmds) = 0 /\ Len(replies) = 0
  <2>1. CASE ~Unanswered
    <3>1. Len(cmds) + Len(replies) = 1
        BY <1>2, <1>3, <2>1
    <3>2. Len(replies) > 0 => Len(cmds) = 0 /\ Len(replies) = 1
        BY <1>3, <3>1, SumIsOne
    <3> QED BY <1>3, <2>1, <3>2
  <2>2. CASE Unanswered
    <3>1. Len(cmds) + Len(replies) + 1 = 1
        BY <1>2, <2>2
    <3>2. Len(cmds) = 0 /\ Len(replies) = 0
        BY ONLY <1>3, <3>1
    <3> QED BY <1>3, <2>2, <3>2
  <2> QED BY <2>1, <2>2
<1> QED BY <1>1, <1>4

(* A step to the teardown or the end records no sample.                    *)
LEMMA EndedInv ==
    ASSUME SInv, IInv', pc' \in {"teardown", "exited"}, Scope' => Scope,
           UNCHANGED <<samples, box, ready>>
    PROVE  SInv'
<1>1. Boxed' /\ Sampled'
    BY DEF SInv, Boxed, Sampled
<1>2. NoQuit' /\ InTime'
    BY DEF NoQuit, Live, InTime, Alone, Doomed, Probing, Triggered, Up
<1> QED BY <1>1, <1>2 DEF SInv

LEMMA SIssueInv == ASSUME SInv, Issue PROVE SInv'
<1> DEFINE line == [cmd |-> Head(todo), run |-> run]
<1>1. /\ SInv /\ waiting = "none" /\ todo # <<>> /\ waiting' = Head(todo)
      /\ cmds' = Append(cmds, line)
      /\ UNCHANGED <<platform, pc, run, late, samples, replies, driver, busy, worked, box,
                     ready>>
    BY DEF Issue, driverVars
<1>2. IInv'
    BY <1>1, IssueInv DEF SInv
<1>3. /\ waiting' \in Issues(platform, pc)
      /\ cmds \in Seq(Lines) /\ Len(cmds) \in Nat
    BY <1>1 DEF SInv, IInv, Shell, Pipes
<1>4. /\ Len(cmds') = Len(cmds) + 1
      /\ \A i \in 1..Len(cmds') : cmds'[i] = line \/ (i \in 1..Len(cmds) /\ cmds'[i] = cmds[i])
      /\ cmds # <<>> => cmds'[1] = cmds[1]
      /\ cmds' # <<>>
    BY <1>1, <1>3
<1>5. line.cmd = waiting' /\ line.run = run
    BY <1>1
<1>6. Boxed' /\ Sampled'
    BY <1>1 DEF SInv, Boxed, Sampled, Scope
<1>7. NoQuit'
  <2>1. Live => line.cmd # "quit"
      BY <1>3, <1>5, OfHooks DEF Live, Issues
  <2> QED BY <1>1, <1>4, <2>1 DEF SInv, NoQuit, Live
<1>8. InTime'
  <2> SUFFICES ASSUME Scope'
               PROVE  /\ (pc = "setup" => late = 0)' /\ Alone' /\ Doomed' /\ Probing'
                      /\ Triggered' /\ Up'
      BY DEF InTime
  <2>1. /\ pc = "setup" => late = 0
        /\ Alone /\ Doomed /\ Probing /\ Triggered /\ Up
      BY <1>1 DEF SInv, InTime, Scope
  <2>2. Alone'
    <3> SUFFICES ASSUME Live, late = 0 PROVE Alone'
        BY <1>1 DEF Alone, Live
    <3>1. cmds = <<>> /\ ~Unanswered /\ replies = <<>>
        BY <1>1, NothingPending
    <3>2. Len(cmds) = 0
        BY <3>1
    <3>3. \A i \in 1..Len(cmds') : cmds'[i] = line
        BY <1>3, <1>4, <3>2
    <3> QED BY <1>1, <1>5, <3>1, <3>3 DEF Alone, Unanswered
  <2>3. Doomed'
      BY <1>1, <1>4, <2>1 DEF Doomed, Unanswered
  <2>4. Probing'
    <3>1. pc \in {"internal", "external", "novnc"} => line.cmd = "wait-cdp"
        BY <1>3, <1>5, OfHooks
    <3> QED BY <1>1, <1>4, <2>1, <3>1 DEF Probing, Unanswered
  <2> QED BY <1>1, <2>1, <2>2, <2>3, <2>4 DEF Triggered, Up, Unanswered
<1> QED BY <1>2, <1>6, <1>7, <1>8 DEF SInv

(* How the shell goes on after an answer, or without one.                  *)
Ended == pc' \in {"teardown", "exited"} /\ samples' = samples

Advanced ==
    /\ pc \in {"setup", "make", "trigger"} /\ samples' = samples
    /\ \/ pc' = pc /\ run' = run
       \/ pc = "setup" /\ pc' \in {"make", "trigger"}
       \/ pc = "make" /\ pc' = "trigger" /\ run' = run
       \/ pc = "trigger" /\ pc' = "internal" /\ run' = run

Probed(fresh) ==
    /\ pc = "internal" /\ pc' \in {"internal", "external"} /\ run' = run
    /\ samples' = samples \cup fresh

LEMMA ExitEnds == ASSUME Exit, samples' = samples PROVE Ended
BY DEF Exit, Enter, Ended

LEMMA SucceedOutcome ==
    ASSUME Shell, waiting # "none", Succeed
    PROVE  Ended \/ Advanced \/ Probed({<<"internal", run>>})
<1>1. pc \in {"setup", "make", "trigger", "internal", "teardown"}
    BY OfHooks DEF Shell
<1>2. CASE pc = "setup"
  <2>1. samples' = samples
      BY <1>2 DEF Succeed
  <2>2. CASE todo # <<>>
      BY <1>2, <2>1, <2>2 DEF Succeed, Advanced
  <2>3. CASE todo = <<>>
    <3>1. BeginRun
        BY <1>2, <2>3 DEF Succeed
    <3> QED BY <1>2, <2>1, <3>1 DEF BeginRun, Enter, Advanced
  <2> QED BY <2>2, <2>3
<1>3. CASE pc \in {"make", "trigger"}
  <2>1. samples' = samples
      BY <1>3 DEF Succeed
  <2>2. CASE todo # <<>>
      BY <1>3, <2>1, <2>2 DEF Succeed, Advanced
  <2>3. CASE todo = <<>> /\ pc = "make"
      BY <2>1, <2>3 DEF Succeed, Enter, Advanced
  <2>4. CASE todo = <<>> /\ pc = "trigger"
      BY <2>1, <2>4 DEF Succeed, Enter, Advanced
  <2> QED BY <1>3, <2>2, <2>3, <2>4
<1>4. CASE pc = "internal"
  <2>1. samples' = samples \cup {<<"internal", run>>}
      BY <1>4 DEF Succeed
  <2>2. CASE todo # <<>>
      BY <1>4, <2>1, <2>2 DEF Succeed, Probed
  <2>3. CASE todo = <<>>
      BY <1>4, <2>1, <2>3 DEF Succeed, Enter, Probed
  <2> QED BY <2>2, <2>3
<1>5. CASE pc = "teardown"
  <2>1. samples' = samples
      BY <1>5 DEF Succeed
  <2>2. CASE todo # <<>>
      BY <1>5, <2>1, <2>2 DEF Succeed, Ended
  <2>3. CASE todo = <<>>
      BY <1>5, <2>1, <2>3, ExitEnds DEF Succeed
  <2> QED BY <2>2, <2>3
<1> QED BY <1>1, <1>2, <1>3, <1>4, <1>5

(* Only Daytona's setup goes on without an answer.                         *)
LEMMA FailedOutcome ==
    ASSUME Shell, waiting # "none", Failed
    PROVE  \/ Ended \/ Probed({})
           \/ platform = "daytona" /\ pc = "setup" /\ Advanced
<1>1. pc \in {"setup", "make", "trigger", "internal", "teardown"}
    BY OfHooks DEF Shell
<1>2. waiting \in MayFail => pc = "setup" /\ platform = "daytona"
    BY <1>1, OfHooks DEF Shell, MayFail
<1>3. CASE waiting \in MayFail
  <2>1. Succeed
      BY <1>3 DEF Failed
  <2>2. Ended \/ Advanced
      BY <1>2, <1>3, <2>1, SucceedOutcome DEF Probed
  <2> QED BY <1>2, <1>3, <2>2
<1>4. CASE waiting \notin MayFail /\ pc = "internal"
    BY <1>4 DEF Failed, Enter, Probed
<1>5. CASE waiting \notin MayFail /\ pc = "teardown"
  <2>1. samples' = samples
      BY <1>5 DEF Failed
  <2>2. CASE todo # <<>>
      BY <1>5, <2>1, <2>2 DEF Failed, Ended
  <2>3. CASE todo = <<>>
      BY <1>5, <2>1, <2>3, ExitEnds DEF Failed
  <2> QED BY <2>2, <2>3
<1>6. CASE waiting \notin MayFail /\ pc \notin {"internal", "teardown"}
    BY <1>6, ExitEnds DEF Failed
<1> QED BY <1>3, <1>4, <1>5, <1>6

LEMMA SReadInv == ASSUME SInv, Read \/ ReadTimesOut PROVE SInv'
<1>1. /\ SInv /\ Shell /\ waiting # "none" /\ waiting' = "none"
      /\ UNCHANGED <<platform, cmds, driver, busy, worked, box, ready>>
      /\ late' = late \/ late' = late + 1
      /\ late \in Nat
    BY DEF SInv, IInv, Shell, Read, ReadTimesOut, driverVars
<1>2. IInv' /\ Boxed' /\ (Scope' => Scope)
  <2>1. IInv' /\ Boxed'
      BY <1>1, ReadInv DEF SInv, Boxed
  <2>2. Scope' => Scope
      BY <1>1 DEF Scope
  <2> QED BY <2>1, <2>2
<1>3. /\ replies \in Seq([cmd : Commands, ok : BOOLEAN]) /\ Len(replies) \in Nat
      /\ \/ replies' = replies
         \/ /\ replies # <<>> /\ replies' = Tail(replies)
            /\ Len(replies') = Len(replies) - 1
            /\ \A i \in 1..Len(replies') : replies'[i] = replies[i + 1]
                                           /\ i + 1 \in 1..Len(replies)
  <2>1. replies \in Seq([cmd : Commands, ok : BOOLEAN])
      BY <1>1 DEF SInv, IInv, Pipes
  <2>2. replies' = replies \/ (replies # <<>> /\ replies' = Tail(replies))
      BY DEF Read, ReadTimesOut
  <2> QED BY <2>1, <2>2
<1>4. CASE Ended
    BY <1>1, <1>2, <1>4, EndedInv DEF Ended
<1>5. ASSUME Live'
      PROVE  Live
    BY <1>1, <1>5, SucceedOutcome, FailedOutcome, ExitEnds DEF Live, Read, ReadTimesOut,
       Interrupted, Ended, Advanced, Probed
<1>6. NoQuit'
    BY <1>1, <1>5 DEF SInv, NoQuit, Live
<1>7. CASE /\ Probed({}) \/ (Probed({<<"internal", run>>}) /\ Read /\ Head(replies).ok)
  <2>1. pc = "internal" /\ pc' \in {"internal", "external"} /\ run' = run
      BY <1>7 DEF Probed
  <2>2. ASSUME Scope'
        PROVE  /\ Alone' /\ Probing' /\ Up'
               /\ \A s \in samples' : s[2] \in ready
    <3>1. Scope /\ Alone /\ Probing /\ Up /\ \A s \in samples : s[2] \in ready
        BY <1>1, <1>2, <2>2 DEF SInv, InTime, Sampled
    <3>2. Probing' /\ Up'
        BY <1>1, <1>3, <2>1, <3>1 DEF Probing, Up, Unanswered
    <3>3. Alone'
      <4> SUFFICES ASSUME late' = 0 PROVE Alone'
          BY DEF Alone
      <4>1. late = 0 /\ Live
          BY <1>1, <2>1 DEF Live
      <4>2. Read
          BY <1>1 DEF ReadTimesOut
      <4>3. replies # <<>> /\ replies' = Tail(replies)
          BY <4>2 DEF Read
      <4>4. cmds = <<>> /\ ~Unanswered /\ Len(replies) = 1
          BY <1>1, <4>1, <4>3, OnePending
      <4>5. Len(replies') = 0 /\ Len(cmds) = 0
          BY <1>3, <4>3, <4>4
      <4> QED BY <1>1, <4>4, <4>5 DEF Alone, Unanswered
    <3>4. Head(replies).ok /\ Read => run \in ready
      <4>1. Read => 1 \in 1..Len(replies) /\ Head(replies) = replies[1]
          BY <1>3 DEF Read
      <4> QED BY <2>1, <3>1, <4>1 DEF Up
    <3> QED BY <1>1, <1>7, <3>1, <3>2, <3>3, <3>4 DEF Probed
  <2>3. InTime' /\ Sampled'
      BY <1>1, <2>1, <2>2 DEF SInv, InTime, Sampled, Doomed, Triggered
  <2> QED BY <1>2, <1>6, <2>3 DEF SInv
<1>8. CASE /\ Advanced /\ Live'
           /\ Read => \/ platform = "daytona" /\ pc = "setup"
                      \/ Accepted(waiting, Head(replies))
           /\ ReadTimesOut => platform = "daytona"
  <2>1. Live /\ pc \in {"setup", "make", "trigger"} /\ samples' = samples
      BY <1>8 DEF Advanced, Live
  <2>2. ASSUME Scope' PROVE InTime'
    <3>1. Scope /\ Alone /\ Doomed /\ Triggered /\ (pc = "setup" => late = 0)
        BY <1>1, <1>2, <2>2 DEF SInv, InTime
    <3>2. Read /\ late' = late
      <4>1. CASE ReadTimesOut
        <5>1. platform = "daytona" /\ late' = late + 1
            BY <1>8, <4>1 DEF ReadTimesOut
        <5> QED BY <1>1, <2>2, <5>1 DEF Scope
      <4> QED BY <4>1 DEF Read
    <3>3. replies # <<>> /\ Head(replies) = replies[1] /\ 1 \in 1..Len(replies)
        BY <1>3, <3>2 DEF Read
    <3>4. late = 0
      <4> SUFFICES ASSUME late # 0 PROVE FALSE
          OBVIOUS
      <4>1. platform = "modal" /\ late > 0 /\ pc \in {"make", "trigger"}
          BY <1>1, <2>1, <3>1 DEF Scope
      <4>2. replies[1].cmd = "wait-cdp"
          BY <3>1, <3>3, <4>1 DEF Doomed
      <4>3. replies[1].cmd = waiting
          BY <1>8, <3>2, <3>3, <4>1 DEF Accepted
      <4>4. waiting \in Issues(platform, pc)
          BY <1>1 DEF Shell
      <4> QED BY <4>1, <4>2, <4>3, <4>4, OfHooks
    <3>5. cmds = <<>> /\ ~Unanswered /\ Len(replies) = 1
        BY <1>1, <2>1, <3>3, <3>4, OnePending
    <3>6. Len(replies') = 0 /\ Len(cmds') = 0 /\ ~Unanswered'
      <4>1. replies' = Tail(replies)
          BY <3>2 DEF Read
      <4> QED BY <1>1, <1>3, <3>3, <3>5, <4>1 DEF Unanswered
    <3>7. pc' = "internal" => box.boot = run /\ run' = run
      <4> SUFFICES ASSUME pc' = "internal" PROVE box.boot = run /\ run' = run
          OBVIOUS
      <4>1. pc = "trigger" /\ run' = run
          BY <1>8 DEF Advanced
      <4>2. replies[1].ok
          BY <1>8, <3>2, <3>3, <4>1 DEF Accepted
      <4> QED BY <3>1, <3>3, <3>4, <4>1, <4>2 DEF Triggered
    <3>8. pc' \in {"setup", "make", "trigger", "internal"}
        BY <1>8 DEF Advanced
    <3> QED BY <1>1, <3>2, <3>4, <3>6, <3>7, <3>8 DEF InTime, Alone, Doomed, Probing,
            Triggered, Up
  <2>3. Sampled'
      BY <1>1, <1>2, <2>1 DEF SInv, Sampled
  <2> QED BY <1>2, <1>6, <2>2, <2>3 DEF SInv, InTime
<1>9. CASE Read
  <2>1. \/ Exit /\ samples' = samples
        \/ Accepted(waiting, Head(replies)) /\ Succeed
        \/ Failed
      BY <1>9 DEF Read, Interrupted
  <2>2. Accepted(waiting, Head(replies)) => Head(replies).ok
      BY DEF Accepted
  <2>3. CASE Exit /\ samples' = samples
      BY <1>4, <2>3, ExitEnds
  <2>4. CASE Accepted(waiting, Head(replies)) /\ Succeed
    <3>1. Ended \/ Advanced \/ Probed({<<"internal", run>>})
        BY <1>1, <2>4, SucceedOutcome
    <3>2. Advanced /\ ~Live' => Ended
        BY DEF Advanced, Live, Ended
    <3>3. ~ReadTimesOut
      <4>1. replies # <<>>
          BY <1>9 DEF Read
      <4> QED BY <4>1 DEF ReadTimesOut
    <3> QED BY <1>4, <1>7, <1>8, <1>9, <2>2, <2>4, <3>1, <3>2, <3>3
  <2>5. CASE Failed
    <3>1. Ended \/ Probed({}) \/ (platform = "daytona" /\ pc = "setup" /\ Advanced)
        BY <1>1, <2>5, FailedOutcome
    <3>2. Advanced /\ ~Live' => Ended
        BY DEF Advanced, Live, Ended
    <3> QED BY <1>4, <1>7, <1>8, <3>1, <3>2
  <2> QED BY <2>1, <2>3, <2>4, <2>5
<1>10. CASE ReadTimesOut
  <2>1. Failed
      BY <1>10 DEF ReadTimesOut
  <2>2. Ended \/ Probed({}) \/ (platform = "daytona" /\ pc = "setup" /\ Advanced)
      BY <1>1, <2>1, FailedOutcome
  <2>3. Advanced /\ ~Live' => Ended
      BY DEF Advanced, Live, Ended
  <2> QED BY <1>4, <1>7, <1>8, <2>2, <2>3
<1> QED BY <1>9, <1>10

LEMMA SGoOnInv == ASSUME SInv, External \/ Novnc PROVE SInv'
<1>1. /\ SInv /\ Shell /\ waiting = "none" /\ pc \in {"external", "novnc"}
      /\ UNCHANGED <<platform, waiting, late, cmds, replies, driver, busy, worked, box,
                     ready>>
  <2>1. /\ SInv /\ Shell /\ pc \in {"external", "novnc"}
        /\ UNCHANGED <<platform, waiting, late, cmds, replies, driver, busy, worked, box,
                       ready>>
      BY DEF SInv, IInv, External, Novnc, driverVars
  <2> QED BY <2>1, OfHooks DEF Shell
<1>2. IInv' /\ Boxed' /\ NoQuit' /\ Scope' = Scope
    BY <1>1, GoOnInv DEF SInv, Boxed, NoQuit, Live, Scope
<1>3. CASE External
  <2>1. /\ pc = "external" /\ pc' = "novnc" /\ run' = run
        /\ \/ box.cdp /\ samples' = samples \cup {<<"external", run>>}
           \/ samples' = samples
      BY <1>3 DEF External, Enter
  <2>2. Sampled'
    <3>1. box.cdp /\ Scope => run \in ready
        BY <1>1, <2>1 DEF SInv, Sampled, InTime, Up
    <3> QED BY <1>1, <1>2, <2>1, <3>1 DEF SInv, Sampled
  <2>3. InTime'
    <3>1. Scope => Alone /\ Probing
        BY <1>1 DEF SInv, InTime
    <3> QED BY <1>1, <1>2, <2>1, <3>1 DEF InTime, Alone, Live, Doomed, Probing, Triggered, Up,
            Unanswered
  <2> QED BY <1>2, <2>2, <2>3 DEF SInv
<1>4. CASE Novnc
  <2>1. samples' = samples /\ pc = "novnc"
      BY <1>4 DEF Novnc
  <2>2. CASE Exit
      BY <1>1, <1>2, <2>1, <2>2, ExitEnds, EndedInv DEF Ended
  <2>3. CASE BeginRun
    <3>1. pc' \in {"make", "trigger"}
        BY <2>3 DEF BeginRun, Enter
    <3>2. /\ cmds \in Seq(Lines) /\ replies \in Seq([cmd : Commands, ok : BOOLEAN])
          /\ late \in Nat /\ driver /\ InStep /\ Live
        BY <1>1, <2>1 DEF SInv, IInv, Pipes, Shell, NoQuit, Live
    <3>3. late = 0 => cmds = <<>> /\ ~Unanswered /\ replies = <<>>
        BY <1>1, <3>2, NothingPending
    <3>4. late > 0 /\ Scope => Doomed'
      <4> SUFFICES ASSUME late > 0, Scope
                   PROVE  \/ replies # <<>> /\ replies[1].cmd = "wait-cdp"
                          \/ replies = <<>> /\ busy.cmd = "wait-cdp"
                          \/ replies = <<>> /\ ~Unanswered /\ cmds # <<>>
                             /\ cmds[1].cmd = "wait-cdp"
          BY <1>1 DEF Doomed, Unanswered
      <4>1. Probing
          BY <1>1 DEF SInv, InTime
      <4>2. CASE replies # <<>>
        <5>1. 1 \in 1..Len(replies)
            BY <3>2, <4>2
        <5> QED BY <2>1, <4>1, <4>2, <5>1 DEF Probing
      <4>3. CASE replies = <<>> /\ Unanswered
          BY <2>1, <4>1, <4>3 DEF Probing
      <4>4. CASE replies = <<>> /\ ~Unanswered
        <5>1. Len(cmds) + 0 + 0 = late + 0
            BY <1>1, <2>1, <3>2, <4>4 DEF InStep, Pending
        <5>2. 1 \in 1..Len(cmds) /\ cmds # <<>>
            BY <3>2, <5>1
        <5> QED BY <2>1, <4>1, <4>4, <5>2 DEF Probing
      <4> QED BY <4>2, <4>3, <4>4
    <3>5. InTime'
      <4>1. late = 0 => /\ Len(cmds') = 0 /\ Len(replies') = 0 /\ ~Unanswered'
          BY <1>1, <3>3 DEF Unanswered
      <4>2. Alone' /\ Triggered'
          BY <1>1, <4>1 DEF Alone, Triggered
      <4>3. Scope => Doomed'
          BY <1>1, <3>2, <3>4 DEF Doomed
      <4> QED BY <1>2, <3>1, <4>2, <4>3 DEF InTime, Probing, Up
    <3>6. Sampled'
        BY <1>1, <1>2, <2>1 DEF SInv, Sampled
    <3> QED BY <1>2, <3>5, <3>6 DEF SInv
  <2> QED BY <1>4, <2>2, <2>3 DEF Novnc
<1> QED BY <1>3, <1>4

LEMMA SWatchdogInv ==
    ASSUME SInv, WatchdogFires \/ WatchdogTerminates \/ WatchdogKills PROVE SInv'
<1>1. IInv' /\ UNCHANGED <<platform, run, samples, box, ready>>
    BY WatchdogInv DEF SInv, WatchdogFires, WatchdogTerminates, WatchdogKills
<1>2. Scope' => Scope
  <2>1. late \in Nat
      BY DEF SInv, IInv, Shell
  <2>2. late' = late \/ late' = late + 1
      BY <2>1 DEF WatchdogFires, WatchdogTerminates, WatchdogKills
  <2> QED BY <1>1, <2>1, <2>2 DEF Scope
<1>3. CASE WatchdogFires /\ platform = "e2b" /\ waiting # "none"
  <2>1. UNCHANGED <<pc, waiting, late, cmds, replies, driver, busy, worked>>
      BY <1>3 DEF WatchdogFires, driverVars
  <2> QED BY <1>1, <2>1 DEF SInv, Boxed, NoQuit, Live, InTime, Scope, Alone, Doomed, Probing,
          Triggered, Up, Unanswered, Sampled
<1>4. CASE ~(WatchdogFires /\ platform = "e2b" /\ waiting # "none")
  <2>1. pc' \in {"teardown", "exited"}
      BY <1>4 DEF WatchdogFires, WatchdogTerminates, WatchdogKills, Exit, Enter
  <2> QED BY <1>1, <1>2, <2>1, EndedInv
<1> QED BY <1>3, <1>4

LEMMA STakeInv == ASSUME SInv, Take PROVE SInv'
<1>1. /\ SInv /\ busy = Idle /\ cmds # <<>> /\ busy' = Head(cmds) /\ cmds' = Tail(cmds)
      /\ worked' = FALSE
      /\ UNCHANGED <<platform, pc, waiting, run, late, samples, replies, driver, box, ready>>
    BY DEF Take, shellVars
<1>2. IInv' /\ Boxed' /\ Sampled'
    BY <1>1, TakeInv DEF SInv, Boxed, Sampled, Scope
<1>3. cmds \in Seq(Lines) /\ ~Unanswered /\ Unanswered'
  <2>1. cmds \in Seq(Lines) /\ Pipes
      BY <1>1 DEF SInv, IInv, Pipes
  <2>2. busy' \in Lines
      BY <1>1, <2>1
  <2> QED BY <1>1, <2>1, <2>2, OfBusy DEF Unanswered
<1>4. /\ 1 \in 1..Len(cmds) /\ busy' = cmds[1]
      /\ \A i \in 1..Len(cmds') : cmds'[i] = cmds[i + 1] /\ i + 1 \in 1..Len(cmds)
    BY <1>1, <1>3
<1>5. NoQuit'
    BY <1>1, <1>4 DEF SInv, NoQuit, Live
<1>6. InTime'
  <2> SUFFICES ASSUME Scope
               PROVE  /\ (pc = "setup" => late = 0)' /\ Alone' /\ Doomed' /\ Probing'
                      /\ Triggered' /\ Up'
      BY <1>1 DEF InTime, Scope
  <2>1. /\ pc = "setup" => late = 0
        /\ Alone /\ Doomed /\ Probing /\ Triggered /\ Up
      BY <1>1 DEF SInv, InTime
  <2>2. Alone' /\ Probing'
      BY <1>1, <1>3, <1>4, <2>1 DEF Alone, Live, Probing
  <2>3. Triggered' /\ Up'
      BY <1>1, <2>1 DEF Triggered, Up
  <2>4. Doomed'
      BY <1>1, <1>3, <1>4, <2>1 DEF Doomed, Unanswered
  <2> QED BY <1>1, <2>1, <2>2, <2>3, <2>4
<1> QED BY <1>2, <1>5, <1>6 DEF SInv

(* What the provider does boots, stops or leaves the sandbox; a command    *)
(* that ends with the sandbox up has booted it in the run it was issued in.*)
Boxes == [state : {"none", "running", "stopped", "archived", "paused", "deleted"},
          boot : Nat, cdp : BOOLEAN]

LEMMA Moves ==
    ASSUME Boxed
    PROVE  /\ \A i \in Nat : /\ Running(i) \in Boxes /\ ~Running(i).cdp
                             /\ Running(i).boot = i /\ Running(i).state = "running"
           /\ \A state \in {"stopped", "archived", "paused", "deleted"} :
                  /\ Stopped(state) \in Boxes /\ ~Stopped(state).cdp
                  /\ Stopped(state).boot = box.boot /\ Stopped(state).state = state
BY DEF Boxed, Boxes, Running, Stopped

(* What one step of the provider comes to.                                 *)
Moved == /\ UNCHANGED <<platform, MODE, pc, todo, waiting, run, late, samples, cmds, replies,
                        driver, ready>>
         /\ \/ box' = Running(busy.run) \/ box' = Running(0) \/ box' = box
            \/ \E state \in {"stopped", "archived", "paused", "deleted"} : box' = Stopped(state)

LEMMA WorkMoves ==
    ASSUME IInv, DaytonaWork \/ ModalWork \/ E2BWork
    PROVE  /\ Moved /\ Unanswered /\ ~worked /\ busy' = busy
           /\ busy.cmd = "wait-cdp" => box' = box /\ (worked' => box.cdp)
           /\ busy.cmd \in {"start", "trigger"} /\ worked' => box'.boot = busy.run
<1>1. CASE DaytonaWork
  <2>1. /\ Effect /\ ~worked
        /\ UNCHANGED <<platform, MODE, pc, todo, waiting, run, late, samples, cmds, replies,
                       driver, busy, ready>>
      BY <1>1 DEF DaytonaWork, shellVars
  <2>2. /\ busy.cmd \notin {"none", "discard"}
        /\ busy.cmd = "wait-cdp" => box' = box /\ box.cdp
        /\ busy.cmd = "start" => box' = Running(busy.run)
        /\ busy.cmd # "trigger"
      BY <2>1, Zenon DEF Effect
  <2>3. Moved
      BY <2>1, Zenon DEF Effect, Moved
  <2> QED BY <2>1, <2>2, <2>3 DEF Unanswered, Running
<1>2. CASE ModalWork
  <2>1. /\ ~worked
        /\ \/ _terminate_current \/ CreateSandbox \/ _record \/ WarmedUp \/ cmd_snapshot
           \/ _wait_cdp_in \/ cmd_teardown
        /\ UNCHANGED <<platform, MODE, pc, todo, waiting, run, late, samples, cmds, replies,
                       driver, busy, ready>>
      BY <1>2 DEF ModalWork, shellVars
  <2>2. CASE _terminate_current
      BY <2>1, <2>2 DEF _terminate_current, Kill, Terminate, Moved, Unanswered
  <2>3. CASE CreateSandbox
      BY <2>1, <2>3 DEF CreateSandbox, Creates, Boot, Moved, Unanswered
  <2>4. CASE _record
      BY <2>1, <2>4 DEF _record, Creates, Created, Boot, Moved, Unanswered
  <2>5. CASE WarmedUp
      BY <2>1, <2>5 DEF WarmedUp, Moved, Unanswered
  <2>6. CASE cmd_snapshot
      BY <2>1, <2>6 DEF cmd_snapshot, Terminate, Moved, Unanswered
  <2>7. CASE _wait_cdp_in
      BY <2>1, <2>7 DEF _wait_cdp_in, Moved, Unanswered
  <2>8. CASE cmd_teardown
      BY <2>1, <2>8 DEF cmd_teardown, Kill, Terminate, Moved, Unanswered
  <2> QED BY <2>1, <2>2, <2>3, <2>4, <2>5, <2>6, <2>7, <2>8
<1>3. CASE E2BWork
  <2>1. /\ ~worked
        /\ \/ CreateSandbox \/ _record \/ _wait_cdp_in \/ cmd_paused \/ Connect
           \/ cmd_cold \/ cmd_teardown
        /\ UNCHANGED <<platform, MODE, pc, todo, waiting, run, late, samples, cmds, replies,
                       driver, busy, ready>>
      BY <1>3 DEF E2BWork, shellVars
  <2>2. CASE CreateSandbox
      BY <2>1, <2>2 DEF CreateSandbox, Creates, Boot, Moved, Unanswered
  <2>3. CASE _record
      BY <2>1, <2>3 DEF _record, Creates, Created, Boot, Moved, Unanswered
  <2>4. CASE _wait_cdp_in
      BY <2>1, <2>4 DEF _wait_cdp_in, Moved, Unanswered
  <2>5. CASE cmd_paused
      BY <2>1, <2>5 DEF cmd_paused, Moved, Unanswered
  <2>6. CASE Connect
      BY <2>1, <2>6 DEF Connect, Moved, Unanswered, Running
  <2>7. CASE cmd_cold \/ cmd_teardown
      BY <2>1, <2>7 DEF cmd_cold, cmd_teardown, Kill, Terminate, Moved, Unanswered
  <2> QED BY <2>1, <2>2, <2>3, <2>4, <2>5, <2>6, <2>7
<1> QED BY <1>1, <1>2, <1>3

(* A sandbox that moves loses its CDP.                                     *)
LEMMA MovedBox ==
    ASSUME SInv, Moved PROVE Boxed' /\ Sampled' /\ (box'.cdp => box' = box)
<1>1. Boxed /\ Sampled /\ busy.run \in Nat
    BY DEF SInv, IInv, Pipes, Lines, Discards, Idle
<1>2. Boxed' /\ (box'.cdp => box' = box)
    BY <1>1, Moves DEF Moved, Boxed, Boxes
<1> QED BY <1>1, <1>2 DEF Moved, Sampled, Scope

LEMMA SWorkInv == ASSUME SInv, DaytonaWork \/ ModalWork \/ E2BWork PROVE SInv'
<1>1. /\ SInv /\ IInv /\ Unanswered /\ ~worked /\ busy \in Lines
      /\ UNCHANGED <<platform, MODE, pc, todo, waiting, run, late, samples, cmds, replies,
                     driver, busy, ready>>
    BY WorkMoves, OfBusy DEF Moved, SInv, IInv
<1>2. IInv' /\ NoQuit' /\ Scope' = Scope
    BY <1>1 DEF SInv, IInv, Shell, Pipes, InStep, Pending, Unanswered, NoQuit, Live, Scope
<1>3. Boxed' /\ Sampled' /\ (box'.cdp => box' = box)
    BY <1>1, WorkMoves, MovedBox
<1>4. InTime'
  <2> SUFFICES ASSUME Scope
               PROVE  /\ (pc = "setup" => late = 0)' /\ Alone' /\ Doomed' /\ Probing'
                      /\ Triggered' /\ Up'
      BY <1>2 DEF InTime
  <2>1. /\ pc = "setup" => late = 0
        /\ Alone /\ Doomed /\ Probing /\ Triggered /\ Up
        /\ box.cdp => box.boot \in ready
      BY <1>1 DEF SInv, InTime, Sampled
  <2>2. Alone' /\ Doomed' /\ Probing'
      BY <1>1, <2>1 DEF Alone, Live, Doomed, Probing, Unanswered
  <2>3. Triggered'
    <3> SUFFICES ASSUME pc = "trigger", late = 0
                 PROVE  /\ worked' => box'.boot = run
                        /\ replies = <<>>
        BY <1>1 DEF Triggered
    <3>1. busy.cmd = waiting /\ busy.run = run /\ Live
        BY <1>1, <2>1 DEF Alone, Live
    <3>2. waiting \in Issues(platform, pc) \cup {"none"} /\ busy.cmd \in Commands
          /\ "none" \notin Commands
        BY <1>1, AreCommands DEF IInv, Shell, Lines
    <3>3. waiting \in {"start", "trigger"}
        BY <3>1, <3>2, OfHooks
    <3>4. waiting # "none"
        BY <3>1, <3>2
    <3> QED BY <1>1, WorkMoves, <3>1, <3>3, <3>4, OnePending
  <2>4. Up'
    <3>1. CASE pc \in {"internal", "external"}
      <4>1. box' = box /\ (worked' => box.cdp) /\ box.boot = run
          BY <1>1, WorkMoves, <2>1, <3>1 DEF Probing, Up
      <4> QED BY <1>1, <2>1, <4>1 DEF Up
    <3>2. CASE pc \notin {"internal", "external"}
        BY <1>1, <3>2 DEF Up
    <3> QED BY <3>1, <3>2
  <2> QED BY <1>1, <2>1, <2>2, <2>3, <2>4
<1> QED BY <1>2, <1>3, <1>4 DEF SInv

LEMMA SDiscardInv == ASSUME SInv, Discard PROVE SInv'
<1>1. /\ SInv /\ ~Unanswered /\ ~Unanswered' /\ busy' = Idle /\ busy.cmd = "discard"
      /\ box' = box \/ box' = Stopped("deleted")
      /\ UNCHANGED <<platform, MODE, pc, todo, waiting, run, late, samples, cmds, replies,
                     driver, ready>>
    BY DEF Discard, Terminate, Unanswered, Idle, shellVars
<1>2. IInv' /\ Scope' = Scope
    BY <1>1 DEF SInv, IInv, Shell, Pipes, InStep, Pending, Scope
<1>3. NoQuit'
    BY <1>1 DEF SInv, NoQuit, Live, Idle
<1>4. Boxed' /\ Sampled'
    BY <1>1, MovedBox DEF Moved
<1>5. box'.boot = box.boot
    BY <1>1, Moves DEF SInv
<1>6. InTime'
  <2> SUFFICES ASSUME Scope
               PROVE  /\ (pc = "setup" => late = 0)' /\ Alone' /\ Doomed' /\ Probing'
                      /\ Triggered' /\ Up'
      BY <1>2 DEF InTime
  <2>1. /\ pc = "setup" => late = 0
        /\ Alone /\ Doomed /\ Probing /\ Triggered /\ Up
      BY <1>1 DEF SInv, InTime
  <2>2. Alone' /\ Probing'
      BY <1>1, <2>1 DEF Alone, Live, Probing
  <2>3. Doomed'
      BY <1>1, <2>1 DEF Doomed
  <2>4. Triggered' /\ Up'
      BY <1>1, <1>5, <2>1 DEF Triggered, Up
  <2> QED BY <1>1, <2>1, <2>2, <2>3, <2>4
<1> QED BY <1>2, <1>3, <1>4, <1>6 DEF SInv

LEMMA SAnswerInv == ASSUME SInv, NEW ok \in BOOLEAN, Answer(ok) PROVE SInv'
<1>1. /\ SInv /\ Shell /\ driver /\ Unanswered /\ worked' = FALSE
      /\ UNCHANGED <<platform, pc, waiting, run, late, samples, cmds, box, ready>>
  <2>1. SInv /\ Shell
      BY DEF SInv, IInv
  <2> QED BY <2>1 DEF Answer, shellVars
<1>2. IInv' /\ Boxed' /\ Sampled' /\ Scope' = Scope
    BY <1>1, AnswerInv DEF SInv, Boxed, Sampled, Scope
<1>3. busy.cmd \in Commands /\ busy'.cmd \in {"none", "discard"} /\ ~Unanswered'
  <2>1. busy \in Lines /\ busy.cmd \in Commands
      BY <1>1, OfBusy DEF SInv, IInv
  <2>2. busy' = Idle \/ busy' = [busy EXCEPT !.cmd = "discard"]
      BY DEF Answer
  <2> QED BY <2>1, <2>2 DEF Lines, Idle, Unanswered
<1>4. CASE ~Live
    BY <1>1, <1>2, <1>4, EndedInv DEF Live
<1>5. CASE Live
  <2> DEFINE line == [cmd |-> busy.cmd, ok |-> ok]
  <2>1. replies' = Append(replies, line) /\ driver' = (busy.cmd # "quit")
      BY <1>5 DEF Live, Answer, reply
  <2>2. replies \in Seq([cmd : Commands, ok : BOOLEAN])
      BY <1>1 DEF SInv, IInv, Pipes
  <2>3. /\ \A i \in 1..Len(replies') : replies'[i] = line
                                       \/ (i \in 1..Len(replies) /\ replies'[i] = replies[i])
        /\ replies' # <<>>
        /\ replies'[1] = IF replies = <<>> THEN line ELSE replies[1]
      BY <2>1, <2>2
  <2>4. line.cmd = busy.cmd /\ line.ok = ok
      OBVIOUS
  <2>5. NoQuit'
    <3>1. busy.cmd # "quit" /\ \A i \in 1..Len(cmds) : cmds[i].cmd # "quit"
        BY <1>1, <1>5 DEF SInv, NoQuit
    <3>2. driver' = TRUE
        BY <2>1, <3>1
    <3> QED BY <1>1, <1>3, <3>1, <3>2 DEF NoQuit
  <2>6. ok => worked
      BY DEF Answer
  <2>7. InTime'
    <3> SUFFICES ASSUME Scope
                 PROVE  /\ (pc = "setup" => late = 0)' /\ Alone' /\ Doomed' /\ Probing'
                        /\ Triggered' /\ Up'
        BY <1>2 DEF InTime
    <3>1. /\ pc = "setup" => late = 0
          /\ Alone /\ Doomed /\ Probing /\ Triggered /\ Up
        BY <1>1 DEF SInv, InTime
    <3>2. Alone' /\ Probing'
        BY <1>1, <1>3, <2>3, <2>4, <3>1 DEF Alone, Live, Probing
    <3>3. Doomed'
        BY <1>1, <2>3, <2>4, <3>1 DEF Doomed
    <3>4. Triggered'
      <4> SUFFICES ASSUME pc = "trigger", late = 0, ok PROVE box.boot = run
          BY <1>1, <2>3, <2>4, <3>1 DEF Triggered
      <4> QED BY <1>1, <2>6, <3>1 DEF Triggered
    <3>5. Up'
      <4> SUFFICES ASSUME pc = "internal", ok PROVE run \in ready
          BY <1>1, <2>3, <2>4, <3>1 DEF Up
      <4> QED BY <1>1, <2>6, <3>1 DEF Up
    <3> QED BY <1>1, <3>1, <3>2, <3>3, <3>4, <3>5
  <2> QED BY <1>2, <2>5, <2>7 DEF SInv
<1> QED BY <1>4, <1>5

LEMMA SNextInv == SInv /\ [Next]_vars => SInv'
<1> SUFFICES ASSUME SInv, [Next]_vars PROVE SInv'
    OBVIOUS
<1>1. IInv'
    BY NextInv DEF SInv
<1>2. CASE CdpUp
  <2>1. /\ box' = [box EXCEPT !.cdp = TRUE] /\ ready' = ready \cup {box.boot}
        /\ UNCHANGED <<platform, pc, waiting, run, late, samples, cmds, replies, driver,
                       busy, worked>>
      BY <1>2 DEF CdpUp, shellVars, driverVars
  <2>2. Boxed' /\ box'.boot = box.boot
      BY <2>1 DEF SInv, Boxed
  <2> QED BY <1>1, <2>1, <2>2 DEF SInv, NoQuit, Live, InTime, Scope, Alone, Doomed, Probing,
          Triggered, Up, Unanswered, Sampled
<1>3. CASE EndOfInput
  <2>1. pc' = "exited" /\ UNCHANGED <<platform, late, samples, box, ready>>
      BY <1>3 DEF EndOfInput, shellVars
  <2> QED BY <1>1, <2>1, EndedInv DEF Scope
<1>4. CASE UNCHANGED vars
  <2>1. UNCHANGED <<platform, pc, waiting, run, late, samples, cmds, replies, driver,
                    busy, worked, box, ready>>
      BY <1>4 DEF vars, shellVars, driverVars
  <2> QED BY <1>1, <2>1 DEF SInv, Boxed, NoQuit, Live, InTime, Scope, Alone, Doomed, Probing,
          Triggered, Up, Unanswered, Sampled
<1>5. CASE Issue \/ Read \/ ReadTimesOut \/ External \/ Novnc
    BY <1>5, SIssueInv, SReadInv, SGoOnInv
<1>6. CASE WatchdogFires \/ WatchdogTerminates \/ WatchdogKills
    BY <1>6, SWatchdogInv
<1>7. CASE Take \/ DaytonaWork \/ ModalWork \/ E2BWork \/ Discard \/ \E ok \in BOOLEAN : Answer(ok)
    BY <1>7, STakeInv, SWorkInv, SDiscardInv, SAnswerInv
<1> QED BY <1>2, <1>3, <1>4, <1>5, <1>6, <1>7 DEF Next

(* A latency that is reported is that of a boot which this very run        *)
(* triggered and which came up: on Modal whatever answers come late, on    *)
(* the others while none has (lib.sh:4-10, 13-19; modal.sh:70-82).         *)
THEOREM SamplesOfTheirRun == Spec => []SampleOfRun
<1>1. SInv => SampleOfRun
    BY DEF SInv, Sampled, Scope, SampleOfRun
<1> QED BY <1>1, SInitInv, SNextInv, PTL DEF Spec
-----------------------------------------------------------------------------
(* What is left running.  As long as no answer is late and the watchdog    *)
(* has not killed the script, at most one command is out, and it is in one *)
(* place.                                                                  *)
InHand == late = 0 /\ watchdog # "killed"
Current == [cmd |-> waiting, run |-> run]

NothingOut == waiting = "none" /\ cmds = <<>> /\ ~Unanswered /\ replies = <<>>
Sent == waiting # "none" /\ cmds = <<Current>> /\ ~Unanswered /\ replies = <<>>
UnderWay == waiting # "none" /\ cmds = <<>> /\ busy = Current /\ replies = <<>>
AnsweredBy(ok) == /\ waiting # "none" /\ cmds = <<>> /\ ~Unanswered
                  /\ replies = <<[cmd |-> waiting, ok |-> ok]>>
Success == (UnderWay /\ worked) \/ AnsweredBy(TRUE)

OneOut == InHand =>
    /\ NothingOut \/ Sent \/ UnderWay \/ AnsweredBy(TRUE) \/ AnsweredBy(FALSE)
    /\ pc = "exited" => NothingOut

Numbered == /\ pc = "setup" => run = 0
            /\ pc \notin {"setup", "exited"} => run > 0

(* The cases TornDown leaves out.                                          *)
Told == InHand /\ ~missed
Deleted == box.state = "deleted"

(* How far the teardown of Modal and E2B has come.                         *)
Ending == Told /\ platform # "daytona" /\ pc = "teardown" =>
    \/ todo = bp_teardown /\ waiting = "none"
    \/ /\ todo = <<>> /\ waiting = "teardown"
       /\ Success => Deleted
       /\ ~AnsweredBy(FALSE)

Gone == Told /\ platform # "daytona" /\ pc = "exited" /\ run > 0 => Deleted

(* With them a sandbox that runs is written down, or else it is just being *)
(* created, warmed up or thrown away.                                      *)
Making == Unanswered /\ Creates /\ Created /\ ~worked
Early == run = 0 \/ (run = 1 /\ pc = "make")
Recorded == Told /\ platform # "daytona" =>
    /\ ~stray
    /\ named => box.state \in {"running", "paused"}
    /\ ~named => box.state \in {"none", "deleted"} \/ Making \/ busy.cmd = "discard"
    /\ named => busy.cmd # "discard" /\ ~(platform = "modal" /\ Early)
    /\ run > 0 \/ (waiting = "setup" /\ Success) => box.state # "none"

TInv == OneOut /\ Numbered /\ Ending /\ Gone /\ Recorded

LEMMA Single ==
    ASSUME NEW x
    PROVE  /\ Append(<<>>, x) = <<x>> /\ <<x>> # <<>> /\ Len(<<x>>) = 1 /\ <<x>>[1] = x
           /\ Head(<<x>>) = x /\ Tail(<<x>>) = <<>>
OBVIOUS

LEMMA TwoOf ==
    ASSUME NEW x, NEW y
    PROVE  <<x, y>> # <<>> /\ Head(<<x, y>>) = x /\ Tail(<<x, y>>) = <<y>>
OBVIOUS

(* Where the command is, by where there is something.                      *)
LEMMA Places ==
    ASSUME OneOut, InHand
    PROVE  /\ waiting = "none" => NothingOut
           /\ cmds # <<>> => Sent
           /\ Unanswered => UnderWay
           /\ replies # <<>> => AnsweredBy(TRUE) \/ AnsweredBy(FALSE)
BY DEF OneOut, NothingOut, Sent, UnderWay, AnsweredBy, Unanswered

LEMMA NotAnswered ==
    ASSUME replies = <<>> PROVE ~AnsweredBy(TRUE) /\ ~AnsweredBy(FALSE)
BY Single DEF AnsweredBy

LEMMA TInitInv == Init => TInv
BY DEF Init, TInv, OneOut, NothingOut, Sent, UnderWay, AnsweredBy, InHand, Told, Ending, Gone,
   Recorded, Success, Numbered, NoBox, Idle, Unanswered

LEMMA TIssueInv == ASSUME Shell, TInv, Issue PROVE TInv'
<1>1. /\ waiting = "none" /\ todo # <<>> /\ waiting' = Head(todo) /\ todo' = Tail(todo)
      /\ cmds' = Append(cmds, [cmd |-> Head(todo), run |-> run])
      /\ UNCHANGED <<platform, MODE, pc, run, late, warned, replies, busy, worked, box,
                     watchdog, named, stray, missed>>
    BY DEF Issue, driverVars, fileVars
<1>2. Numbered'
    BY <1>1 DEF TInv, Numbered
<1>3. SUFFICES ASSUME InHand' PROVE TInv'
    BY <1>2 DEF TInv, OneOut, Told, Ending, Gone, Recorded
<1>4. InHand /\ NothingOut
    BY <1>1, <1>3, Places DEF InHand, TInv
<1>5. waiting' \in Issues(platform, pc) /\ waiting' # "none"
  <2>1. todo \in Seq(Issues(platform, pc))
      BY DEF Shell
  <2>2. waiting' \in Issues(platform, pc)
      BY <1>1, <2>1
  <2> QED BY <2>2, AreCommands
<1>6. Sent' /\ ~Success' /\ ~AnsweredBy(FALSE)'
  <2>1. cmds' = <<Current'>>
      BY <1>1, <1>4, Single DEF NothingOut, Current
  <2>2. Sent'
      BY <1>1, <1>4, <1>5, <2>1 DEF Sent, NothingOut, Unanswered
  <2> QED BY <2>1, <2>2, Single DEF Sent, Success, UnderWay, AnsweredBy
<1>7. pc # "exited"
    BY <1>5, OfHooks
<1>8. OneOut' /\ Gone'
    BY <1>1, <1>4, <1>6, <1>7 DEF TInv, OneOut, Gone
<1>9. Told' = Told
    BY <1>1, <1>4 DEF Told, InHand
<1>10. Ending'
  <2> SUFFICES ASSUME Told', platform # "daytona", pc = "teardown" PROVE Ending'
      BY <1>1 DEF Ending
  <2>1. todo = <<"teardown">>
      BY <1>1, <1>9 DEF TInv, Ending, bp_teardown
  <2>2. waiting' = "teardown" /\ todo' = <<>>
      BY <1>1, <2>1, Single
  <2> QED BY <1>1, <1>6, <2>2 DEF Ending
<1>11. Recorded'
  <2> SUFFICES ASSUME Told', platform # "daytona" PROVE Recorded'
      BY <1>1 DEF Recorded
  <2>1. Making' = Making /\ Early' = Early
      BY <1>1 DEF Making, Unanswered, Creates, Created, Boot, Early
  <2> QED BY <1>1, <1>6, <1>9, <2>1 DEF TInv, Recorded
<1> QED BY <1>2, <1>8, <1>10, <1>11 DEF TInv

LEMMA TTakeInv == ASSUME Shell, TInv, Take PROVE TInv'
<1>1. /\ cmds # <<>> /\ busy' = Head(cmds) /\ cmds' = Tail(cmds) /\ worked' = FALSE
      /\ busy = Idle
      /\ UNCHANGED <<platform, MODE, pc, todo, waiting, run, late, warned, replies, box,
                     watchdog, named, stray, missed>>
    BY DEF Take, shellVars, fileVars
<1>2. Numbered'
    BY <1>1 DEF TInv, Numbered
<1>3. SUFFICES ASSUME InHand' PROVE TInv'
    BY <1>2 DEF TInv, OneOut, Told, Ending, Gone, Recorded
<1>4. InHand /\ Sent
    BY <1>1, <1>3, Places DEF InHand, TInv
<1>5. UnderWay' /\ ~Success'
  <2>1. busy' = Current' /\ cmds' = <<>>
      BY <1>1, <1>4, Single DEF Sent, Current
  <2> QED BY <1>1, <1>4, <2>1, Single DEF Sent, UnderWay, Success, AnsweredBy
<1>6. pc # "exited" /\ ~AnsweredBy(FALSE)'
    BY <1>4, <1>5, Single DEF TInv, OneOut, NothingOut, Sent, UnderWay, AnsweredBy
<1>7. OneOut' /\ Gone'
    BY <1>1, <1>4, <1>5, <1>6 DEF TInv, OneOut, Gone
<1>8. Told' = Told
    BY <1>1 DEF Told, InHand
<1>9. Ending'
    BY <1>1, <1>4, <1>5, <1>6, <1>8 DEF TInv, Ending, bp_teardown
<1>10. Recorded'
  <2> SUFFICES ASSUME Told', platform # "daytona" PROVE Recorded'
      BY <1>1 DEF Recorded
  <2>1. ~Making /\ busy.cmd # "discard" /\ Early' = Early
      BY <1>1 DEF Making, Unanswered, Idle, Early
  <2>2. waiting \in Issues(platform, pc) /\ busy'.cmd = waiting
      BY <1>1, <1>4, <1>5 DEF Shell, Sent, UnderWay, Current
  <2>3. busy'.cmd # "discard"
      BY <2>2, AreCommands DEF Commands
  <2> QED BY <1>1, <1>5, <1>8, <2>1, <2>3 DEF TInv, Recorded
<1> QED BY <1>2, <1>7, <1>9, <1>10 DEF TInv

LEMMA TDaytonaWorkInv == ASSUME Shell, Pipes, TInv, DaytonaWork PROVE TInv'
<1>1. /\ platform = "daytona" /\ Effect
      /\ UNCHANGED <<platform, MODE, pc, todo, waiting, run, late, cmds, replies,
                     busy, watchdog, missed>>
    BY DEF DaytonaWork, shellVars, fileVars
<1>2. Numbered' /\ Ending' /\ Gone' /\ Recorded'
    BY <1>1 DEF TInv, Numbered, Ending, Gone, Recorded
<1>3. OneOut'
    BY <1>1 DEF TInv, OneOut, InHand, NothingOut, Sent, UnderWay, AnsweredBy, Current, Unanswered
<1> QED BY <1>2, <1>3 DEF TInv

LEMMA TAnswerInv == ASSUME Shell, Pipes, TInv, NEW ok \in BOOLEAN, Answer(ok) PROVE TInv'
<1>1. /\ Unanswered /\ worked' = FALSE
      /\ IF ok THEN worked ELSE ~NeverFails
      /\ \/ /\ ~ok /\ busy.cmd = "snapshot" /\ Created
            /\ busy' = [busy EXCEPT !.cmd = "discard"] /\ missed' = missed
         \/ /\ busy' = Idle
            /\ missed' = (missed \/ (~ok /\ \/ busy.cmd = "delete"
                                            \/ Creates /\ Created /\ ~named))
      /\ pc # "exited" => reply(ok)
      /\ UNCHANGED <<platform, MODE, pc, todo, waiting, run, late, cmds, box,
                     watchdog, named, stray>>
    BY DEF Answer, shellVars
<1>2. Numbered'
    BY <1>1 DEF TInv, Numbered
<1>3. SUFFICES ASSUME InHand' PROVE TInv'
    BY <1>2 DEF TInv, OneOut, Told, Ending, Gone, Recorded
<1>4. InHand /\ UnderWay /\ pc # "exited"
    BY <1>1, <1>3, Places DEF InHand, TInv, OneOut, NothingOut
<1>5. busy.cmd = waiting /\ busy.run = run
    BY <1>4 DEF UnderWay, Current
<1>6. ~Unanswered' /\ (busy'.cmd = "discard" => ~ok /\ busy.cmd = "snapshot" /\ Created)
    BY <1>1, OfBusy DEF Unanswered, Idle, Lines
<1>7. AnsweredBy(ok)'
    BY <1>1, <1>4, <1>5, <1>6, Single DEF UnderWay, AnsweredBy, reply
<1>8. OneOut' /\ Gone'
    BY <1>1, <1>4, <1>7 DEF TInv, OneOut, Gone
<1>9. ~UnderWay' /\ (Success' => ok) /\ (AnsweredBy(FALSE)' => ~ok)
  <2>1. ~UnderWay'
      BY <1>7, Single DEF AnsweredBy, UnderWay
  <2> QED BY <1>7, <2>1, Single DEF AnsweredBy, Success
<1>10. ok => Success
    BY <1>1, <1>4 DEF Success
<1>11. Told' => Told
    BY <1>1, <1>4 DEF Told
<1>12. Ending'
  <2> SUFFICES ASSUME Told', platform # "daytona", pc = "teardown" PROVE Ending'
      BY <1>1 DEF Ending
  <2>1. todo = <<>> /\ waiting = "teardown" /\ (Success => Deleted)
      BY <1>4, <1>11 DEF TInv, Ending, UnderWay
  <2>2. ok
      BY <1>1, <1>5, <2>1 DEF NeverFails
  <2> QED BY <1>1, <1>9, <1>10, <2>1, <2>2 DEF Ending, Deleted
<1>13. Recorded'
  <2> SUFFICES ASSUME Told', platform # "daytona" PROVE Recorded'
      BY <1>1 DEF Recorded
  <2>1. Told /\ ~missed' /\ Early' = Early
      BY <1>1, <1>11 DEF Told, Early
  <2>2. Making => ~ok
      BY <1>1 DEF Making
  <2>3. Making => named \/ busy'.cmd = "discard"
    <3> SUFFICES ASSUME Making, busy' = Idle PROVE named
      <4>1. busy' = Idle \/ busy' = [busy EXCEPT !.cmd = "discard"]
          BY <1>1
      <4>2. busy \in Lines
          BY <1>1, OfBusy
      <4> QED BY <4>1, <4>2 DEF Lines
    <3>1. Creates /\ Created /\ ~ok
        BY <2>2 DEF Making
    <3>2. busy' # [busy EXCEPT !.cmd = "discard"]
      <4>1. busy \in Lines
          BY <1>1, OfBusy
      <4> QED BY <4>1 DEF Lines, Idle
    <3> QED BY <1>1, <2>1, <3>1, <3>2
  <2>4. busy'.cmd = "discard" => ~named
    <3> SUFFICES ASSUME busy'.cmd = "discard", named PROVE FALSE
        OBVIOUS
    <3>1. waiting = "snapshot" /\ ~NeverFails /\ ~(busy.run > 1)
        BY <1>1, <1>5, <1>6 DEF NeverFails
    <3>2. /\ waiting \in Issues(platform, pc)
          /\ pc \in {"setup", "make", "trigger", "internal", "external", "novnc", "teardown"}
        BY <1>4, <3>1 DEF Shell
    <3>3. pc = "make" /\ platform = "modal"
        BY <3>1, <3>2, OfHooks
    <3>4. run > 0 /\ run \in Nat
        BY <3>3 DEF TInv, Numbered, Shell
    <3>5. run = 1
        BY <1>5, <3>1, <3>4
    <3> QED BY <2>1, <3>3, <3>5 DEF TInv, Recorded, Early
  <2>5. busy.cmd # "discard" /\ Recorded
      BY <1>1 DEF Unanswered, TInv
  <2> QED BY <1>1, <1>9, <1>10, <2>1, <2>2, <2>3, <2>4, <2>5 DEF Recorded
<1> QED BY <1>2, <1>8, <1>12, <1>13 DEF TInv

(* The hook a command of Modal's or E2B's belongs to.                      *)
LEMMA OfCommand ==
    ASSUME Shell, platform # "daytona", waiting # "none"
    PROVE  /\ waiting \in {"setup", "snapshot", "cold", "paused", "trigger", "wait-cdp", "teardown"}
           /\ waiting = "setup" <=> pc = "setup"
           /\ waiting = "trigger" => pc = "trigger"
           /\ waiting = "snapshot" => pc = "make"
           /\ waiting \in {"cold", "paused"} => pc = "make" /\ platform # "modal"
           /\ waiting = "wait-cdp" <=> pc = "internal"
           /\ waiting = "teardown" <=> pc = "teardown"
<1>1. waiting \in Issues(platform, pc)
    BY DEF Shell
<1>2. CASE pc \in {"external", "novnc", "exited"}
    BY <1>1, <1>2, OfHooks
<1>3. CASE pc \in {"setup", "make"}
    BY <1>1, <1>3, OfHooks
<1>4. CASE pc \in {"trigger", "internal", "teardown"}
    BY <1>1, <1>4, OfHooks
<1> QED BY <1>2, <1>3, <1>4 DEF Shell

(* A sandbox that is ended without an error.                               *)
LEMMA EndsIt ==
    ASSUME Boxed, Terminate, ~missed'
    PROVE  ~missed /\ box' = Stopped("deleted") /\ Deleted'
<1>1. ~missed /\ box' = Stopped("deleted")
    BY DEF Terminate
<1> QED BY <1>1, Moves DEF Deleted

LEMMA TWorkInv == ASSUME SInv, TInv, ModalWork \/ E2BWork PROVE TInv'
<1>1. /\ platform # "daytona" /\ ~worked /\ Unanswered /\ Shell /\ Boxed
      /\ UNCHANGED <<platform, MODE, pc, todo, waiting, run, late, cmds, replies,
                     busy, watchdog>>
  <2>1. Unanswered /\ Shell /\ Boxed
      BY WorkMoves DEF SInv, IInv
  <2> QED BY <2>1 DEF ModalWork, E2BWork, shellVars
<1>2. Numbered'
    BY <1>1 DEF TInv, Numbered
<1>3. SUFFICES ASSUME InHand' PROVE TInv'
    BY <1>2 DEF TInv, OneOut, Told, Ending, Gone, Recorded
<1>4. InHand /\ UnderWay /\ pc # "exited"
    BY <1>1, <1>3, Places DEF InHand, TInv, OneOut, NothingOut
<1>5. UnderWay' /\ ~AnsweredBy(TRUE)' /\ ~AnsweredBy(FALSE)' /\ (Success' => worked')
    BY <1>1, <1>4, Single DEF UnderWay, Current, AnsweredBy, Success
<1>6. busy.cmd = waiting /\ busy.run = run /\ waiting # "none"
    BY <1>4 DEF UnderWay, Current
<1>7. OneOut' /\ Gone'
    BY <1>1, <1>4, <1>5 DEF TInv, OneOut, Gone
<1>8. \/ CreateSandbox \/ _record \/ _wait_cdp_in \/ cmd_paused \/ Connect
      \/ cmd_cold \/ cmd_teardown
      \/ platform = "modal" /\ (_terminate_current \/ WarmedUp \/ cmd_snapshot)
    BY DEF ModalWork, E2BWork
<1>9. SUFFICES ASSUME Told' PROVE Ending' /\ Recorded'
    BY <1>2, <1>7 DEF TInv, Ending, Recorded
<1>10. missed => missed'
  <2>1. CASE CreateSandbox \/ _record
      BY <2>1 DEF CreateSandbox, _record
  <2>2. CASE _wait_cdp_in \/ cmd_paused \/ Connect \/ WarmedUp
      BY <2>2 DEF _wait_cdp_in, cmd_paused, Connect, WarmedUp, fileVars
  <2>3. CASE cmd_cold \/ cmd_teardown \/ _terminate_current
      BY <2>3 DEF cmd_cold, cmd_teardown, _terminate_current, Kill, Terminate
  <2>4. CASE cmd_snapshot
      BY <2>4 DEF cmd_snapshot, Terminate, fileVars
  <2> QED BY <1>8, <2>1, <2>2, <2>3, <2>4
<1>11. /\ Told /\ ~missed' /\ ~stray /\ busy.cmd # "discard"
       /\ named => box.state \in {"running", "paused"} /\ ~(platform = "modal" /\ Early)
       /\ ~named => box.state \in {"none", "deleted"} \/ Making
       /\ run > 0 => box.state # "none"
       /\ Early' = Early
  <2>1. Told /\ ~missed'
      BY <1>1, <1>3, <1>9, <1>10 DEF Told, InHand
  <2> QED BY <1>1, <2>1 DEF TInv, Recorded, Unanswered, Early
<1>12. waiting # "teardown" => pc # "teardown"
    BY <1>1, <1>6, <1>11 DEF TInv, Ending
<1>13. (pc = "setup" => run = 0) /\ (pc # "setup" => run > 0) /\ run \in Nat
    BY <1>1, <1>4 DEF TInv, Numbered, Shell
<1>14. CASE CreateSandbox
  <2>1. Creates /\ ~named /\ ~Created /\ box' = Running(Boot) /\ named' = named
        /\ stray' = (stray \/ box.state = "running") /\ worked' = worked
      BY <1>14 DEF CreateSandbox
  <2>2. box.state # "running" /\ box'.state = "running"
      BY <1>11, <2>1 DEF Making, Running
  <2>3. Making'
      BY <1>1, <2>1 DEF Making, Unanswered, Creates, Created, Boot, Running
  <2>4. waiting # "teardown"
      BY <1>6, <2>1 DEF Creates
  <2> QED BY <1>1, <1>5, <1>11, <1>12, <2>1, <2>2, <2>3, <2>4 DEF Ending, Recorded
<1>15. CASE _record
  <2>1. Creates /\ Created /\ named' /\ box' = box /\ stray' = stray
        /\ (platform = "modal" => busy.cmd = "trigger")
      BY <1>15 DEF _record
  <2>2. platform = "modal" => ~Early
      BY <1>1, <1>6, <1>13, <2>1, OfCommand DEF Early
  <2>3. waiting # "teardown" /\ box.state = "running"
      BY <1>6, <2>1 DEF Creates, Created
  <2> QED BY <1>1, <1>11, <1>12, <2>1, <2>2, <2>3 DEF Ending, Recorded
<1>16. CASE _wait_cdp_in
  <2>1. /\ box' = box /\ UNCHANGED <<named, stray>> /\ named
        /\ busy.cmd \in {"setup", "wait-cdp"}
      BY <1>16 DEF _wait_cdp_in, fileVars
  <2> QED BY <1>1, <1>6, <1>11, <1>12, <2>1 DEF Ending, Recorded
<1>17. CASE cmd_paused \/ Connect
  <2>1. /\ box'.state \in {"paused", "running"} /\ UNCHANGED <<named, stray>> /\ named
        /\ busy.cmd \in {"paused", "trigger"}
      BY <1>1, <1>17, Moves DEF cmd_paused, Connect, fileVars, Running
  <2> QED BY <1>1, <1>6, <1>11, <1>12, <2>1 DEF Ending, Recorded
<1>18. CASE cmd_cold \/ cmd_teardown \/ _terminate_current
  <2>1. /\ busy.cmd \in {"cold", "teardown", "trigger"} /\ Kill /\ ~named' /\ stray' = stray
        /\ ~named => box' = box
        /\ busy.cmd = "trigger" => named
      BY <1>18 DEF cmd_cold, cmd_teardown, _terminate_current, Kill
  <2>2. Deleted'
    <3>1. CASE named
        BY <1>1, <1>11, <2>1, <3>1, EndsIt DEF Kill
    <3>2. CASE ~named
      <4>1. ~Making
          BY <2>1, <3>2 DEF Making, Creates
      <4>2. run > 0
          BY <1>1, <1>6, <1>13, <2>1, <3>2, OfCommand
      <4> QED BY <1>11, <2>1, <3>2, <4>1, <4>2 DEF Deleted
    <3> QED BY <3>1, <3>2
  <2>3. pc = "teardown" => todo = <<>> /\ waiting = "teardown"
      BY <1>1, <1>6, <1>11, <2>1 DEF TInv, Ending
  <2> QED BY <1>1, <1>5, <1>11, <2>1, <2>2, <2>3 DEF Ending, Recorded, Deleted
<1>19. CASE platform = "modal" /\ (WarmedUp \/ (cmd_snapshot /\ busy.run = 1))
  <2>1. /\ box' = Stopped("deleted") /\ UNCHANGED <<named, stray>>
        /\ busy.cmd \in {"setup", "snapshot"} /\ (busy.cmd = "snapshot" => busy.run = 1)
    <3>1. CASE WarmedUp
        BY <3>1 DEF WarmedUp, fileVars
    <3>2. CASE cmd_snapshot /\ busy.run = 1
      <4>1. Terminate /\ UNCHANGED <<named, stray>> /\ busy.cmd = "snapshot"
          BY <3>2 DEF cmd_snapshot
      <4> QED BY <1>1, <1>11, <3>2, <4>1, EndsIt
    <3> QED BY <1>19, <3>1, <3>2
  <2>2. Early
      BY <1>1, <1>6, <1>13, <2>1, OfCommand DEF Early
  <2>3. box'.state = "deleted" /\ ~named' /\ stray' = stray
    <3>1. Stopped("deleted").state = "deleted"
        BY <1>1, Moves
    <3>2. ~named
        BY <1>11, <1>19, <2>2
    <3> QED BY <2>1, <3>1, <3>2
  <2>4. Ending'
      BY <1>1, <1>6, <1>12, <2>1 DEF Ending
  <2>5. Recorded'
      BY <1>1, <1>11, <2>3 DEF Recorded
  <2> QED BY <2>4, <2>5
<1>20. CASE cmd_snapshot /\ busy.run # 1
  <2>1. box' = box /\ UNCHANGED <<named, stray>> /\ busy.cmd = "snapshot"
      BY <1>20 DEF cmd_snapshot, fileVars
  <2>2. ~Making
      BY <1>20, <2>1 DEF Making, Creates
  <2>3. waiting # "setup" /\ waiting # "teardown"
      BY <1>6, <2>1
  <2> QED BY <1>1, <1>11, <1>12, <2>1, <2>2, <2>3 DEF Ending, Recorded
<1> QED BY <1>8, <1>14, <1>15, <1>16, <1>17, <1>18, <1>19, <1>20

LEMMA TDiscardInv == ASSUME SInv, TInv, Discard PROVE TInv'
<1>1. /\ Terminate /\ busy.cmd = "discard" /\ busy' = Idle
      /\ UNCHANGED <<platform, MODE, pc, todo, waiting, run, late, cmds, replies, worked,
                     watchdog, named, stray>>
    BY DEF Discard, shellVars
<1>2. ~Unanswered /\ ~Unanswered'
    BY <1>1 DEF Unanswered, Idle
<1>3. Numbered' /\ OneOut' /\ (AnsweredBy(FALSE)' => AnsweredBy(FALSE)) /\ (Success' => Success)
  <2>1. waiting # "none" => waiting \in Commands /\ waiting # "discard"
      BY AreCommands DEF Shell, SInv, IInv, Commands
  <2>2. ~UnderWay /\ ~UnderWay'
      BY <1>1, <2>1 DEF UnderWay, Current, Idle
  <2>3. /\ NothingOut' = NothingOut /\ Sent' = Sent
        /\ AnsweredBy(TRUE)' = AnsweredBy(TRUE) /\ AnsweredBy(FALSE)' = AnsweredBy(FALSE)
      BY <1>1, <1>2 DEF NothingOut, Sent, AnsweredBy, Current
  <2>4. OneOut'
      BY <1>1, <2>2, <2>3 DEF TInv, OneOut, InHand
  <2> QED BY <1>1, <2>2, <2>3, <2>4 DEF TInv, Numbered, Success
<1>4. SUFFICES ASSUME Told', platform # "daytona" PROVE Ending' /\ Gone' /\ Recorded'
    BY <1>1, <1>3 DEF TInv, Ending, Gone, Recorded
<1>5. Told /\ Deleted'
    BY <1>1, <1>4, EndsIt DEF Told, InHand, SInv
<1>6. Ending' /\ Gone'
    BY <1>1, <1>3, <1>4, <1>5 DEF TInv, Ending, Gone, bp_teardown
<1>7. Recorded'
    BY <1>1, <1>4, <1>5 DEF TInv, Recorded, Deleted
<1> QED BY <1>6, <1>7

(* How the shell goes on.                                                  *)
Went == \/ waiting # "none" /\ todo # <<>> /\ UNCHANGED <<pc, todo, run>>
        \/ pc \in {"setup", "novnc"} /\ BeginRun
        \/ pc = "make" /\ pc' = "trigger" /\ run' = run
        \/ /\ pc \in {"trigger", "internal", "external"}
           /\ pc' \in {"internal", "external", "novnc"} /\ run' = run
        \/ Exit /\ run' = run

LEMMA BeginRunNext ==
    BeginRun => run' = run + 1 /\ pc' \in {"make", "trigger"}
BY DEF BeginRun, Enter

LEMMA ExitNext ==
    Exit => IF pc \in {"setup", "teardown"} THEN pc' = "exited"
            ELSE pc' = "teardown" /\ todo' = bp_teardown
BY DEF Exit, Enter

LEMMA NumberedInv ==
    ASSUME Shell, Numbered, Went, pc # "exited" PROVE Numbered' /\ (Early' => Early)
BY BeginRunNext, ExitNext DEF Shell, Numbered, Went, Early

LEMMA TWentInv ==
    ASSUME Shell, TInv, InHand, InHand', ~UnderWay, pc # "exited", Went, NothingOut',
           UNCHANGED <<platform, MODE, busy, worked, box, named, stray, missed>>,
           Told' /\ platform # "daytona" /\ pc = "teardown" => Deleted,
           Told' /\ platform # "daytona" /\ pc = "setup" /\ BeginRun => box.state # "none"
    PROVE  TInv'
<1>1. /\ waiting' = "none" /\ ~Success' /\ ~Unanswered /\ ~Unanswered'
      /\ ~AnsweredBy(FALSE)' /\ Deleted' = Deleted /\ (Told' => Told) /\ ~Making
      /\ bp_teardown' = bp_teardown
  <2>1. waiting' = "none" /\ ~Unanswered' /\ ~Unanswered /\ (Told' => Told)
      BY DEF NothingOut, Unanswered, Told
  <2> QED BY <2>1 DEF Success, UnderWay, AnsweredBy, Deleted, Making, bp_teardown
<1>2. Numbered' /\ (Early' => Early) /\ Numbered /\ run \in Nat
    BY NumberedInv DEF TInv, Shell
<1>3. OneOut' /\ Numbered'
    BY <1>2 DEF OneOut
<1>4. Gone'
  <2> SUFFICES ASSUME Told', platform # "daytona", pc' = "exited", run' > 0 PROVE Deleted
      BY <1>1 DEF Gone
  <2>1. Exit /\ run' = run
      BY BeginRunNext DEF Went
  <2> QED BY <1>2, <2>1, ExitNext DEF Numbered
<1>5. Ending'
  <2> SUFFICES ASSUME Told', platform # "daytona", pc' = "teardown" PROVE Ending'
      BY DEF Ending
  <2>1. todo' = bp_teardown \/ (waiting # "none" /\ todo # <<>> /\ UNCHANGED <<pc, todo, run>>)
      BY BeginRunNext, ExitNext DEF Went
  <2>2. CASE todo' = bp_teardown
      BY <1>1, <2>2 DEF Ending
  <2>3. CASE waiting # "none" /\ todo # <<>> /\ UNCHANGED <<pc, todo, run>>
      BY <1>1, <2>3 DEF TInv, Ending
  <2> QED BY <2>1, <2>2, <2>3
<1>6. Recorded'
  <2> SUFFICES ASSUME Told', platform # "daytona" PROVE Recorded'
      BY DEF Recorded
  <2>1. /\ ~stray
        /\ named => box.state \in {"running", "paused"} /\ busy.cmd # "discard"
                    /\ ~(platform = "modal" /\ Early)
        /\ ~named => box.state \in {"none", "deleted"} \/ busy.cmd = "discard"
        /\ run > 0 => box.state # "none"
      BY <1>1 DEF TInv, Recorded
  <2>2. run' > 0 => box.state # "none"
      BY <1>2, <2>1, BeginRunNext DEF Numbered, Went
  <2> QED BY <1>1, <1>2, <2>1, <2>2 DEF Recorded
<1> QED BY <1>3, <1>4, <1>5, <1>6 DEF TInv

(* A teardown that is not cut short issues all its commands.               *)
Orderly == pc = "teardown" => IF todo # <<>> THEN UNCHANGED <<pc, todo>> ELSE pc' = "exited"

LEMMA SucceedWent ==
    ASSUME Shell, waiting # "none", Succeed PROVE Went /\ Orderly /\ warned' = warned
<1>1. pc \in {"setup", "make", "trigger", "internal", "teardown"}
    BY OfHooks DEF Shell
<1>2. CASE todo # <<>>
    BY <1>2 DEF Succeed, Went, Orderly
<1>3. CASE todo = <<>> /\ pc = "setup"
    BY <1>3 DEF Succeed, Went, Orderly
<1>4. CASE todo = <<>> /\ pc = "make"
    BY <1>4 DEF Succeed, Enter, Went, Orderly
<1>5. CASE todo = <<>> /\ pc = "trigger"
    BY <1>5 DEF Succeed, Enter, Went, Orderly
<1>6. CASE todo = <<>> /\ pc = "internal"
    BY <1>6 DEF Succeed, Enter, Went, Orderly
<1>7. CASE todo = <<>> /\ pc = "teardown"
    BY <1>7, ExitNext DEF Succeed, Went, Orderly
<1> QED BY <1>1, <1>2, <1>3, <1>4, <1>5, <1>6, <1>7

LEMMA FailedWent ==
    ASSUME Shell, waiting # "none", Failed
    PROVE  /\ Went /\ Orderly /\ (warned => warned')
           /\ pc = "teardown" /\ waiting = "delete" => warned'
<1>1. CASE waiting \in MayFail
    BY <1>1, SucceedWent DEF Failed, MayFail
<1>2. CASE waiting \notin MayFail /\ pc = "internal"
    BY <1>2 DEF Failed, Enter, Went, Orderly
<1>3. CASE waiting \notin MayFail /\ pc = "teardown"
  <2>1. /\ warned' = (warned \/ waiting = "delete") /\ run' = run
        /\ IF todo # <<>> THEN UNCHANGED <<pc, todo>> ELSE Exit
      BY <1>3 DEF Failed
  <2> QED BY <1>3, <2>1, ExitNext DEF Went, Orderly
<1>4. CASE waiting \notin MayFail /\ pc \notin {"internal", "teardown"}
    BY <1>4 DEF Failed, Went, Orderly
<1> QED BY <1>1, <1>2, <1>3, <1>4

(* A read answers to nobody or to Modal's and E2B's watchdog.              *)
LEMMA ReadWent ==
    ASSUME Shell, Read \/ ReadTimesOut
    PROVE  /\ Went /\ waiting # "none" /\ waiting' = "none" /\ pc # "exited"
           /\ platform # "e2b" => Orderly /\ (warned => warned')
<1>1. waiting # "none" /\ waiting' = "none"
    BY DEF Read, ReadTimesOut
<1>2. \/ Succeed \/ Failed
      \/ platform = "e2b" /\ Exit /\ run' = run
    BY DEF Read, ReadTimesOut, Interrupted
<1>3. pc # "exited"
    BY <1>1, OfHooks DEF Shell
<1>4. CASE Succeed
    BY <1>1, <1>3, <1>4, SucceedWent
<1>5. CASE Failed
    BY <1>1, <1>3, <1>5, FailedWent
<1>6. CASE platform = "e2b" /\ Exit /\ run' = run
    BY <1>1, <1>3, <1>6 DEF Went
<1> QED BY <1>2, <1>4, <1>5, <1>6

LEMMA TReadInv == ASSUME SInv, TInv, Read PROVE TInv'
<1>1. /\ waiting # "none" /\ replies # <<>> /\ replies' = Tail(replies) /\ waiting' = "none"
      /\ Went /\ pc # "exited" /\ Shell
      /\ UNCHANGED <<platform, MODE, late, cmds, busy, worked, box, watchdog, named, stray, missed>>
  <2>1. Shell
      BY DEF SInv, IInv
  <2> QED BY <2>1, ReadWent DEF Read, driverVars, fileVars
<1>2. Numbered'
    BY <1>1, NumberedInv DEF TInv
<1>3. SUFFICES ASSUME InHand' PROVE TInv'
    BY <1>2 DEF TInv, OneOut, Told, Ending, Gone, Recorded
<1>4. InHand /\ (AnsweredBy(TRUE) \/ AnsweredBy(FALSE)) /\ ~UnderWay
  <2>1. InHand /\ (AnsweredBy(TRUE) \/ AnsweredBy(FALSE))
      BY <1>1, <1>3, Places DEF InHand, TInv
  <2> QED BY <2>1, Single DEF AnsweredBy, UnderWay
<1>5. /\ NothingOut'
      /\ Head(replies).ok => AnsweredBy(TRUE)
  <2>1. PICK ok \in BOOLEAN : AnsweredBy(ok)
      BY <1>4
  <2>2. Head(replies) = [cmd |-> waiting, ok |-> ok] /\ Tail(replies) = <<>>
      BY <2>1, Single DEF AnsweredBy
  <2>3. Head(replies).ok = ok
      BY <2>2
  <2>4. NothingOut'
      BY <1>1, <2>1, <2>2 DEF AnsweredBy, NothingOut, Unanswered
  <2>5. ok => AnsweredBy(TRUE)
      BY <2>1, Zenon
  <2> QED BY <2>3, <2>4, <2>5
<1>6. Told' => Told
    BY <1>1, <1>4 DEF Told
<1>7. Told' /\ platform # "daytona" /\ pc = "teardown" => Deleted
    BY <1>1, <1>4, <1>6 DEF TInv, Ending, Success
<1>8. ASSUME Told', platform # "daytona", pc = "setup", BeginRun PROVE box.state # "none"
  <2>1. waiting = "setup"
      BY <1>1, <1>8, OfCommand
  <2>2. ~Exit
      BY <1>8, BeginRunNext, ExitNext
  <2>3. Accepted(waiting, Head(replies))
      BY <1>8, <2>1, <2>2 DEF Read, Interrupted, Failed, MayFail
  <2>4. Success
      BY <1>5, <2>3 DEF Accepted, Success
  <2> QED BY <1>6, <1>8, <2>1, <2>4 DEF TInv, Recorded
<1> QED BY <1>1, <1>3, <1>4, <1>5, <1>7, <1>8, TWentInv

LEMMA TGoOnInv == ASSUME SInv, TInv, External \/ Novnc PROVE TInv'
<1>1. /\ pc \in {"external", "novnc"} /\ Shell
      /\ UNCHANGED <<platform, MODE, waiting, late, warned, cmds, replies, busy, worked, box,
                     watchdog, named, stray, missed>>
    BY DEF SInv, IInv, External, Novnc, driverVars, fileVars
<1>2. Went
  <2>1. CASE External
      BY <2>1 DEF External, Enter, Went
  <2>2. CASE Novnc
      BY <2>2 DEF Novnc, Went
  <2> QED BY <2>1, <2>2
<1>3. Numbered'
    BY <1>1, <1>2, NumberedInv DEF TInv
<1>4. SUFFICES ASSUME InHand' PROVE TInv'
    BY <1>3 DEF TInv, OneOut, Told, Ending, Gone, Recorded
<1>5. waiting = "none" /\ InHand
    BY <1>1, <1>4, OfHooks DEF Shell, InHand
<1>6. NothingOut /\ ~UnderWay
    BY <1>5, Places DEF TInv, UnderWay
<1>7. NothingOut'
    BY <1>1, <1>6 DEF NothingOut, Unanswered
<1> QED BY <1>1, <1>2, <1>4, <1>5, <1>6, <1>7, TWentInv

LEMMA TWatchdogInv ==
    ASSUME SInv, TInv, WatchdogFires \/ WatchdogTerminates \/ WatchdogKills PROVE TInv'
<1>1. /\ Shell /\ pc # "exited" /\ run' = run
      /\ \/ UNCHANGED pc \/ Exit \/ pc' = "exited"
    BY DEF SInv, IInv, WatchdogFires, WatchdogTerminates, WatchdogKills, Enter
<1>2. Numbered'
    BY <1>1, ExitNext DEF TInv, Numbered, Shell
<1>3. SUFFICES ASSUME InHand' PROVE TInv'
    BY <1>2 DEF TInv, OneOut, Told, Ending, Gone, Recorded
<1>4. /\ WatchdogFires /\ watchdog = "armed"
      /\ UNCHANGED <<platform, MODE, run, warned, cmds, replies, busy, worked, box,
                     named, stray, missed>>
  <2>1. WatchdogFires
      BY <1>3 DEF WatchdogTerminates, WatchdogKills, InHand
  <2> QED BY <2>1 DEF WatchdogFires, driverVars, fileVars
<1>5. CASE platform = "e2b" /\ waiting # "none"
  <2>1. UNCHANGED <<pc, todo, waiting, late>>
      BY <1>4, <1>5 DEF WatchdogFires
  <2>2. InHand /\ Told' = Told /\ Making' = Making /\ Early' = Early
      BY <1>3, <1>4, <2>1 DEF InHand, Told, Making, Unanswered, Creates, Created, Boot, Early
  <2> QED BY <1>2, <1>4, <2>1, <2>2 DEF TInv, OneOut, NothingOut, Sent, UnderWay, AnsweredBy,
          Unanswered, Current, Success, Deleted, Ending, Gone, Recorded, bp_teardown
<1>6. CASE ~(platform = "e2b" /\ waiting # "none")
  <2>1. /\ pc # "teardown" /\ Exit /\ waiting' = "none"
        /\ late' = late + (IF waiting = "none" THEN 0 ELSE 1)
      BY <1>3, <1>4, <1>6 DEF WatchdogFires, InHand
  <2>2. late \in Nat /\ late' = 0
      BY <1>1, <1>3 DEF Shell, InHand
  <2>3. waiting = "none" /\ late = 0
      BY <2>1, <2>2
  <2>4. InHand
      BY <1>4, <2>3 DEF InHand
  <2>5. NothingOut /\ ~UnderWay
      BY <2>3, <2>4, Places DEF TInv, UnderWay
  <2>6. NothingOut' /\ Went /\ ~BeginRun
      BY <1>1, <1>4, <2>1, <2>5, BeginRunNext, ExitNext DEF NothingOut, Unanswered, Went
  <2> QED BY <1>1, <1>3, <1>4, <2>1, <2>4, <2>5, <2>6, TWentInv
<1> QED BY <1>5, <1>6

LEMMA TSameInv ==
    ASSUME TInv, UNCHANGED <<shellVars, cmds, replies, busy, worked, watchdog, fileVars>>,
           box'.state = box.state, box'.boot = box.boot
    PROVE  TInv'
<1>1. UNCHANGED <<platform, MODE, pc, todo, waiting, run, late, cmds, replies, busy, worked,
                  watchdog, named, stray, missed>>
    BY DEF shellVars, fileVars
<1>2. /\ InHand' = InHand /\ Told' = Told /\ Making' = Making /\ Early' = Early
      /\ NothingOut' = NothingOut /\ Sent' = Sent /\ UnderWay' = UnderWay
      /\ AnsweredBy(TRUE)' = AnsweredBy(TRUE) /\ AnsweredBy(FALSE)' = AnsweredBy(FALSE)
    BY <1>1 DEF InHand, Told, Making, Unanswered, Creates, Created, Boot, Early, NothingOut,
       Sent, UnderWay, AnsweredBy, Current
<1>3. (Success' <=> Success) /\ (Deleted' <=> Deleted) /\ bp_teardown' = bp_teardown
  <2>1. Success' <=> Success
      BY <1>1 DEF Success, UnderWay, AnsweredBy, Unanswered, Current
  <2>2. Deleted' <=> Deleted
      BY DEF Deleted
  <2> QED BY <1>1, <2>1, <2>2 DEF bp_teardown
<1>4. OneOut' /\ Numbered'
    BY <1>1, <1>2 DEF TInv, OneOut, Numbered
<1>5. Ending' /\ Gone'
    BY <1>1, <1>2, <1>3 DEF TInv, Ending, Gone
<1>6. Recorded'
    BY <1>1, <1>2, <1>3 DEF TInv, Recorded
<1> QED BY <1>4, <1>5, <1>6 DEF TInv

LEMMA TNextInv == SInv /\ TInv /\ [Next]_vars => TInv'
<1> SUFFICES ASSUME SInv, TInv, [Next]_vars PROVE TInv'
    OBVIOUS
<1>1. Shell /\ Pipes /\ Boxed
    BY DEF SInv, IInv
<1>2. CASE Issue \/ Read \/ External \/ Novnc
    BY <1>1, <1>2, TIssueInv, TReadInv, TGoOnInv
<1>3. CASE ReadTimesOut
  <2>1. ~InHand' /\ Numbered'
      BY <1>1, <1>3, ReadWent, NumberedInv DEF ReadTimesOut, Shell, InHand, TInv
  <2> QED BY <2>1 DEF TInv, OneOut, Told, Ending, Gone, Recorded
<1>4. CASE WatchdogFires \/ WatchdogTerminates \/ WatchdogKills
    BY <1>4, TWatchdogInv
<1>5. CASE Take \/ DaytonaWork \/ \E ok \in BOOLEAN : Answer(ok)
    BY <1>1, <1>5, TTakeInv, TDaytonaWorkInv, TAnswerInv
<1>6. CASE ModalWork \/ E2BWork \/ Discard
    BY <1>6, TWorkInv, TDiscardInv
<1>7. CASE EndOfInput \/ UNCHANGED vars
    BY <1>7, TSameInv DEF EndOfInput, vars, driverVars
<1>8. CASE CdpUp
  <2>1. box'.state = box.state /\ box'.boot = box.boot
      BY <1>1, <1>8 DEF CdpUp, Boxed
  <2> QED BY <1>8, <2>1, TSameInv DEF CdpUp, driverVars
<1> QED BY <1>2, <1>3, <1>4, <1>5, <1>6, <1>7, <1>8 DEF Next

-----------------------------------------------------------------------------
(* Daytona's teardown deletes and then tells the driver to quit.  A lost   *)
(* answer shifts the others, but the driver works in order: when one at    *)
(* most is outstanding at the end, it is that of quit, and the delete has  *)
(* been answered.                                                          *)
Scoped == platform = "daytona" /\ watchdog # "killed"
OnlyQuits == \A i \in 1..Len(cmds) : cmds[i].cmd = "quit"
Settled == (Deleted \/ missed) /\ OnlyQuits /\ (Unanswered => busy.cmd = "quit")

(* Where the delete is after which k commands were issued.                 *)
DeleteAnswered(k) == Settled /\ Len(cmds) <= k
DeleteBusy(k) == driver /\ busy.cmd = "delete" /\ (worked => Deleted) /\ Len(cmds) = k /\ OnlyQuits
DeleteSent(k) == /\ driver /\ busy.cmd # "quit"
                 /\ \E i \in 1..Len(cmds) :
                        /\ cmds[i].cmd = "delete" /\ Len(cmds) = i + k
                        /\ \A j \in 1..Len(cmds) : cmds[j].cmd = "quit" <=> j > i
DeleteOut(k) == DeleteAnswered(k) \/ DeleteBusy(k) \/ DeleteSent(k)

Unsent == driver /\ busy.cmd # "quit" /\ \A i \in 1..Len(cmds) : cmds[i].cmd # "quit"

Closing == Scoped /\ pc = "teardown" =>
    \/ todo = <<"delete", "quit">> /\ waiting = "none" /\ Unsent
    \/ todo = <<"quit">> /\ waiting \in {"none", "delete"} /\ DeleteOut(0)
    \/ todo = <<>> /\ waiting = "quit" /\ DeleteOut(1)

Closed == Scoped /\ pc = "exited" /\ run > 0 /\ late < 2 => Settled

(* A failed delete whose answer is not lost is read.                       *)
Warns == InHand /\ platform = "daytona" =>
    /\ busy.cmd # "discard"
    /\ missed => warned \/ (waiting = "delete" /\ AnsweredBy(FALSE))

Unstray == platform = "daytona" => ~stray

DInv == Closing /\ Closed /\ Warns /\ Unstray

LEMMA DInitInv == Init => DInv
BY DEF Init, DInv, Closing, Closed, Warns, Unstray, Idle

(* A teardown's command or answer that is not the shell's step changes     *)
(* nothing of the shell.                                                   *)
LEMMA DDriverInv ==
    ASSUME DInv, Unstray', Warns', UNCHANGED <<platform, pc, todo, waiting, run, late, watchdog>>,
           Scoped /\ pc = "exited" /\ Settled => Settled',
           Scoped /\ pc = "teardown" /\ Unsent => Unsent',
           \A k \in {0, 1} : Scoped /\ pc = "teardown" /\ DeleteOut(k) => DeleteOut(k)'
    PROVE  DInv'
<1>1. Closing'
    BY DEF DInv, Closing, Scoped
<1>2. Closed'
    BY DEF DInv, Closed, Scoped
<1> QED BY <1>1, <1>2 DEF DInv

LEMMA DTakeInv == ASSUME SInv, TInv, DInv, Take PROVE DInv'
<1>1. /\ busy = Idle /\ cmds # <<>> /\ busy' = Head(cmds) /\ cmds' = Tail(cmds)
      /\ worked' = FALSE
      /\ UNCHANGED <<platform, MODE, pc, todo, waiting, run, late, warned, watchdog, driver,
                     replies, box, stray, missed>>
    BY DEF Take, shellVars, fileVars
<1>2. /\ cmds \in Seq(Lines) /\ busy' = cmds[1] /\ busy' \in Lines /\ Len(cmds) \in Nat
      /\ 1 \in 1..Len(cmds) /\ Len(cmds') = Len(cmds) - 1
      /\ \A i \in 1..Len(cmds') : cmds'[i] = cmds[i + 1] /\ i + 1 \in 1..Len(cmds)
  <2>1. cmds \in Seq(Lines)
      BY DEF SInv, IInv, Pipes
  <2> QED BY <1>1, <2>1
<1>3. busy'.cmd # "discard" /\ ~Unanswered /\ busy.cmd = "none"
    BY <1>1, <1>2, OfBusy DEF Unanswered, SInv, IInv
<1>4. Unstray'
    BY <1>1 DEF DInv, Unstray
<1>5. Warns'
  <2> SUFFICES ASSUME InHand', platform = "daytona", missed PROVE warned
      BY <1>1, <1>3 DEF Warns
  <2>1. InHand /\ ~AnsweredBy(FALSE)
      BY <1>1 DEF InHand, AnsweredBy
  <2> QED BY <2>1 DEF DInv, Warns
<1>6. Settled => Settled'
    BY <1>1, <1>2 DEF Settled, OnlyQuits, Deleted
<1>7. Unsent => Unsent'
    BY <1>1, <1>2 DEF Unsent
<1>8. ASSUME NEW k \in {0, 1}, DeleteOut(k) PROVE DeleteOut(k)'
  <2>1. CASE DeleteAnswered(k)
      BY <1>1, <1>2, <1>6, <2>1 DEF DeleteOut, DeleteAnswered
  <2>2. CASE DeleteBusy(k)
      BY <1>3, <2>2 DEF DeleteBusy
  <2>3. CASE DeleteSent(k)
    <3>1. PICK i \in 1..Len(cmds) :
              /\ cmds[i].cmd = "delete" /\ Len(cmds) = i + k
              /\ \A j \in 1..Len(cmds) : cmds[j].cmd = "quit" <=> j > i
        BY <2>3 DEF DeleteSent
    <3>2. CASE i = 1
      <4>1. Len(cmds') = k /\ OnlyQuits'
          BY <1>2, <3>1, <3>2 DEF OnlyQuits
      <4> QED BY <1>1, <1>2, <2>3, <3>1, <3>2, <4>1 DEF DeleteSent, DeleteBusy, DeleteOut
    <3>3. CASE i # 1
      <4>1. i - 1 \in 1..Len(cmds') /\ cmds'[i - 1] = cmds[i] /\ Len(cmds') = (i - 1) + k
          BY <1>2, <3>1, <3>3
      <4>2. \A j \in 1..Len(cmds') : cmds'[j].cmd = "quit" <=> j > i - 1
          BY <1>2, <3>1
      <4>3. busy'.cmd # "quit"
          BY <1>2, <3>1, <3>3
      <4>4. DeleteSent(k)'
          BY <1>1, <2>3, <3>1, <4>1, <4>2, <4>3 DEF DeleteSent
      <4> QED BY <4>4 DEF DeleteOut
    <3> QED BY <3>2, <3>3
  <2> QED BY <1>8, <2>1, <2>2, <2>3 DEF DeleteOut
<1> QED BY <1>1, <1>4, <1>5, <1>6, <1>7, <1>8, DDriverInv

(* What the provider and the driver do without taking a command.           *)
LEMMA DBusyInv ==
    ASSUME SInv, DInv, Unstray', Warns',
           UNCHANGED <<platform, pc, todo, waiting, run, late, watchdog, cmds>>,
           missed => missed',
           Scoped /\ pc \in {"teardown", "exited"} =>
               /\ pc = "teardown" /\ driver /\ busy.cmd # "quit" => driver'
               /\ busy.cmd \in {"none", "discard", "delete", "quit"} /\ Deleted => Deleted'
               /\ busy'.cmd = busy.cmd
                  \/ /\ busy'.cmd \in {"none", "discard"}
                     /\ busy.cmd = "delete" /\ (worked => Deleted) => Deleted' \/ missed'
               /\ busy.cmd = "delete" /\ worked' => Deleted'
    PROVE  DInv'
<1>1. Scoped /\ pc \in {"teardown", "exited"} /\ Settled => Settled'
    BY DEF Settled, OnlyQuits, Unanswered
<1>2. Scoped /\ pc = "teardown" /\ Unsent => Unsent'
    BY DEF Unsent
<1>3. ASSUME NEW k \in {0, 1}, Scoped, pc = "teardown", DeleteOut(k) PROVE DeleteOut(k)'
  <2>1. CASE DeleteAnswered(k)
      BY <1>1, <1>3, <2>1 DEF DeleteOut, DeleteAnswered
  <2>2. CASE DeleteBusy(k)
    <3>1. CASE busy'.cmd = busy.cmd
        BY <1>3, <2>2, <3>1 DEF DeleteBusy, DeleteOut, OnlyQuits
    <3>2. CASE busy'.cmd # busy.cmd
      <4>1. Settled'
          BY <1>3, <2>2, <3>2 DEF DeleteBusy, Settled, OnlyQuits, Unanswered
      <4> QED BY <2>2, <4>1 DEF DeleteBusy, DeleteAnswered, DeleteOut
    <3> QED BY <3>1, <3>2
  <2>3. CASE DeleteSent(k)
      BY <1>3, <2>3 DEF DeleteSent, DeleteOut
  <2> QED BY <1>3, <2>1, <2>2, <2>3 DEF DeleteOut
<1> QED BY <1>1, <1>2, <1>3, DDriverInv

LEMMA DWorkInv == ASSUME SInv, TInv, DInv, DaytonaWork PROVE DInv'
<1>1. /\ platform = "daytona" /\ Effect /\ ~worked /\ worked'
      /\ UNCHANGED <<platform, MODE, pc, todo, waiting, run, late, warned, watchdog, cmds,
                     replies, driver, busy, stray, missed>>
    BY DEF DaytonaWork, shellVars, fileVars
<1>2. Unstray' /\ Warns'
    BY <1>1 DEF DInv, Unstray, Warns, InHand, AnsweredBy, Unanswered
<1>3. busy.cmd = "delete" => Deleted'
  <2>1. busy.cmd = "delete" => box' = Stopped("deleted")
      BY <1>1 DEF Effect
  <2> QED BY <2>1, Moves DEF Deleted, SInv
<1>4. Deleted /\ busy.cmd \in {"none", "discard", "delete", "quit"} => Deleted'
    BY <1>1, <1>3 DEF Effect, Deleted
<1> QED BY <1>1, <1>2, <1>3, <1>4, DBusyInv

(* Nothing else ends or forgets a sandbox of Daytona's.                    *)
LEMMA DSetAsideInv == ASSUME SInv, TInv, DInv, Discard PROVE DInv'
<1>1. /\ busy.cmd = "discard" /\ busy' = Idle /\ Terminate
      /\ UNCHANGED <<platform, MODE, pc, todo, waiting, run, late, warned, watchdog, cmds,
                     replies, driver, stray>>
    BY DEF Discard, shellVars
<1>2. Unstray' /\ Warns' /\ (missed => missed')
    BY <1>1 DEF DInv, Unstray, Warns, InHand, Terminate
<1>3. Deleted => Deleted'
  <2>1. box' = box \/ box' = Stopped("deleted")
      BY <1>1 DEF Terminate
  <2> QED BY <2>1, Moves DEF Deleted, SInv
<1> QED BY <1>1, <1>2, <1>3, DBusyInv DEF Idle

LEMMA DAnswerInv == ASSUME SInv, TInv, DInv, NEW ok \in BOOLEAN, Answer(ok) PROVE DInv'
<1>1. /\ Unanswered /\ worked' = FALSE /\ (ok => worked)
      /\ \/ /\ ~ok /\ busy.cmd = "snapshot" /\ Created
            /\ busy' = [busy EXCEPT !.cmd = "discard"] /\ missed' = missed
         \/ /\ busy' = Idle
            /\ missed' = (missed \/ (~ok /\ \/ busy.cmd = "delete"
                                            \/ Creates /\ Created /\ ~named))
      /\ pc # "exited" => reply(ok) /\ driver' = (busy.cmd # "quit")
      /\ UNCHANGED <<platform, MODE, pc, todo, waiting, run, late, warned, cmds, box,
                     watchdog, stray>>
    BY DEF Answer, shellVars
<1>2. /\ Shell /\ busy'.cmd \in {"none", "discard"}
      /\ busy'.cmd = "discard" => busy.cmd = "snapshot"
      /\ missed => missed'
      /\ ~ok /\ busy.cmd = "delete" => missed'
  <2>1. Shell /\ busy \in Lines
      BY <1>1, OfBusy DEF SInv, IInv
  <2>2. CASE busy' = [busy EXCEPT !.cmd = "discard"] /\ busy.cmd = "snapshot" /\ missed' = missed
      BY <2>1, <2>2 DEF Lines
  <2>3. CASE busy' = Idle
      BY <1>1, <2>1, <2>3 DEF Idle, Lines
  <2> QED BY <1>1, <2>2, <2>3
<1>3. Unstray'
    BY <1>1 DEF DInv, Unstray
<1>4. Warns'
  <2> SUFFICES ASSUME InHand', platform = "daytona"
               PROVE  /\ busy'.cmd # "discard"
                      /\ missed' => warned \/ (waiting = "delete" /\ AnsweredBy(FALSE)')
      BY <1>1 DEF Warns
  <2>1. InHand /\ UnderWay /\ pc # "exited"
      BY <1>1, Places DEF InHand, TInv, OneOut, NothingOut
  <2>2. busy.cmd = waiting /\ waiting # "none" /\ busy.run = run
      BY <2>1 DEF UnderWay, Current
  <2>3. waiting \in Issues(platform, pc)
      BY <1>2, <2>2 DEF Shell
  <2>4. waiting \notin {"setup", "snapshot", "trigger"}
    <3>1. pc \in {"setup", "make", "trigger", "internal", "external", "novnc", "teardown"}
        BY <1>2, <2>1 DEF Shell
    <3> QED BY <2>3, <3>1, OfHooks
  <2>5. ~Creates
      BY <2>2, <2>4 DEF Creates
  <2>6. missed => warned
    <3>1. ~AnsweredBy(FALSE)
        BY <1>1 DEF AnsweredBy
    <3> QED BY <2>1, <3>1 DEF DInv, Warns
  <2>7. ~ok => AnsweredBy(FALSE)'
    <3> SUFFICES ASSUME ok = FALSE PROVE AnsweredBy(FALSE)'
        OBVIOUS
    <3>1. replies' = <<[cmd |-> waiting, ok |-> FALSE]>> /\ cmds' = <<>> /\ ~Unanswered'
        BY <1>1, <1>2, <2>1, <2>2, Single DEF reply, UnderWay, Unanswered
    <3> QED BY <1>1, <2>2, <3>1 DEF AnsweredBy
  <2> QED BY <1>1, <1>2, <2>2, <2>4, <2>5, <2>6, <2>7
<1>5. /\ Deleted => Deleted'
      /\ busy.cmd = "delete" /\ (worked => Deleted) => Deleted' \/ missed'
    BY <1>1, <1>2 DEF Deleted
<1> QED BY <1>1, <1>2, <1>3, <1>4, <1>5, DBusyInv

(* The shell issues a command.                                             *)
LEMMA DIssueInv == ASSUME SInv, TInv, DInv, Issue PROVE DInv'
<1> DEFINE line == [cmd |-> Head(todo), run |-> run]
<1>1. /\ waiting = "none" /\ todo # <<>> /\ waiting' = Head(todo) /\ todo' = Tail(todo)
      /\ cmds' = Append(cmds, line)
      /\ UNCHANGED <<platform, MODE, pc, run, late, warned, replies, driver, busy, worked,
                     box, watchdog, stray, missed>>
    BY DEF Issue, driverVars, fileVars
<1>2. /\ cmds \in Seq(Lines) /\ Len(cmds) \in Nat /\ Len(cmds') = Len(cmds) + 1
      /\ cmds'[Len(cmds) + 1] = line /\ \A i \in 1..Len(cmds) : cmds'[i] = cmds[i]
  <2>1. cmds \in Seq(Lines)
      BY DEF SInv, IInv, Pipes
  <2> QED BY <1>1, <2>1
<1>3. pc # "exited"
  <2>1. todo \in Seq(Issues(platform, pc))
      BY DEF SInv, IInv, Shell
  <2>2. Head(todo) \in Issues(platform, pc)
      BY <1>1, <2>1
  <2> QED BY <2>2, OfHooks
<1>4. Closed' /\ Unstray'
    BY <1>1, <1>3 DEF DInv, Closed, Unstray
<1>5. Warns'
    BY <1>1 DEF DInv, Warns, InHand
<1>6. Closing'
  <2> SUFFICES ASSUME Scoped, pc = "teardown" PROVE Closing'
      BY <1>1 DEF Closing, Scoped
  <2>1. CASE todo = <<"delete", "quit">> /\ Unsent
    <3>1. waiting' = "delete" /\ todo' = <<"quit">> /\ line.cmd = "delete"
        BY <1>1, <2>1, TwoOf
    <3>2. DeleteSent(0)'
      <4>1. Len(cmds) + 1 \in 1..Len(cmds') /\ cmds'[Len(cmds) + 1].cmd = "delete"
            /\ Len(cmds') = (Len(cmds) + 1) + 0
          BY <1>2, <3>1
      <4>2. \A j \in 1..Len(cmds') : cmds'[j].cmd = "quit" <=> j > Len(cmds) + 1
        <5> SUFFICES ASSUME NEW j \in 1..Len(cmds') PROVE cmds'[j].cmd = "quit" <=> j > Len(cmds) + 1
            OBVIOUS
        <5>1. CASE j = Len(cmds) + 1
            BY <1>2, <3>1, <5>1
        <5>2. CASE j # Len(cmds) + 1
          <6>1. j \in 1..Len(cmds) /\ cmds'[j] = cmds[j]
              BY <1>2, <5>2
          <6> QED BY <1>2, <2>1, <6>1 DEF Unsent
        <5> QED BY <5>1, <5>2
      <4>3. driver' /\ busy'.cmd # "quit"
          BY <1>1, <2>1 DEF Unsent
      <4> QED BY <4>1, <4>2, <4>3 DEF DeleteSent
    <3> QED BY <1>1, <3>1, <3>2 DEF Closing, DeleteOut
  <2>2. CASE todo = <<"quit">> /\ DeleteOut(0)
    <3>1. waiting' = "quit" /\ todo' = <<>> /\ line.cmd = "quit"
        BY <1>1, <2>2, Single
    <3>2. OnlyQuits => OnlyQuits'
      <4> SUFFICES ASSUME OnlyQuits, NEW j \in 1..Len(cmds') PROVE cmds'[j].cmd = "quit"
          BY DEF OnlyQuits
      <4>1. CASE j = Len(cmds) + 1
          BY <1>2, <3>1, <4>1
      <4>2. CASE j # Len(cmds) + 1
        <5>1. j \in 1..Len(cmds) /\ cmds'[j] = cmds[j]
            BY <1>2, <4>2
        <5> QED BY <5>1 DEF OnlyQuits
      <4> QED BY <4>1, <4>2
    <3>3. CASE DeleteAnswered(0)
        BY <1>1, <1>2, <3>1, <3>2, <3>3 DEF DeleteAnswered, DeleteOut, Settled, Deleted,
           Unanswered, Closing
    <3>4. CASE DeleteBusy(0)
        BY <1>1, <1>2, <3>1, <3>2, <3>4 DEF DeleteBusy, DeleteOut, Deleted, Closing
    <3>5. CASE DeleteSent(0)
      <4>1. PICK i \in 1..Len(cmds) :
                /\ cmds[i].cmd = "delete" /\ Len(cmds) = i + 0
                /\ \A j \in 1..Len(cmds) : cmds[j].cmd = "quit" <=> j > i
          BY <3>5 DEF DeleteSent
      <4>2. i \in 1..Len(cmds') /\ cmds'[i].cmd = "delete" /\ Len(cmds') = i + 1
          BY <1>2, <4>1
      <4>3. \A j \in 1..Len(cmds') : cmds'[j].cmd = "quit" <=> j > i
        <5> SUFFICES ASSUME NEW j \in 1..Len(cmds') PROVE cmds'[j].cmd = "quit" <=> j > i
            OBVIOUS
        <5>1. CASE j = Len(cmds) + 1
            BY <1>2, <3>1, <4>1, <5>1
        <5>2. CASE j # Len(cmds) + 1
          <6>1. j \in 1..Len(cmds) /\ cmds'[j] = cmds[j]
              BY <1>2, <5>2
          <6> QED BY <4>1, <6>1
        <5> QED BY <5>1, <5>2
      <4>4. DeleteSent(1)'
          BY <1>1, <3>5, <4>2, <4>3 DEF DeleteSent
      <4> QED BY <1>1, <3>1, <4>4 DEF DeleteOut, Closing
    <3> QED BY <2>2, <3>3, <3>4, <3>5 DEF DeleteOut
  <2> QED BY <1>1, <2>1, <2>2 DEF DInv, Closing
<1> QED BY <1>4, <1>5, <1>6 DEF DInv

(* The shell goes on: it enters the teardown with no quit on its way, and  *)
(* leaves it with the delete answered, if one answer at most is late.      *)
LEMMA DShellInv ==
    ASSUME SInv, TInv, DInv, Went, Orderly, pc # "exited", waiting' = "none",
           UNCHANGED <<platform, MODE, cmds, driver, busy, worked, box, stray, missed>>,
           Scoped' => Scoped, Warns',
           late' \in Nat,
           driver /\ pc = "teardown" => late' >= Len(cmds) + (IF Unanswered THEN 1 ELSE 0)
    PROVE  DInv'
<1>1. cmds \in Seq(Lines) /\ Len(cmds) \in Nat /\ Shell
    BY DEF SInv, IInv, Pipes
<1>2. Unstray' /\ Deleted' = Deleted /\ Unanswered' = Unanswered
    BY DEF DInv, Unstray, Deleted, Unanswered
<1>3. CASE pc = "teardown"
  <2>1. CASE todo # <<>>
    <3>1. UNCHANGED <<pc, todo>>
        BY <1>3, <2>1 DEF Orderly
    <3>2. waiting # "none"
        BY <1>3, <2>1, <3>1, BeginRunNext, ExitNext DEF Went
    <3>3. Closing'
      <4> SUFFICES ASSUME Scoped' PROVE Closing'
          BY DEF Closing
      <4>1. todo = <<"quit">> /\ DeleteOut(0)
          BY <1>3, <2>1, <3>2 DEF DInv, Closing
      <4>2. DeleteOut(0)'
          BY <1>2, <4>1 DEF DeleteOut, DeleteAnswered, DeleteBusy, DeleteSent, Settled, OnlyQuits
      <4> QED BY <3>1, <4>1, <4>2 DEF Closing
    <3> QED BY <1>2, <1>3, <3>1, <3>3 DEF DInv, Closed
  <2>2. CASE todo = <<>>
    <3>1. pc' = "exited"
        BY <1>3, <2>2 DEF Orderly
    <3>2. Closed'
      <4> SUFFICES ASSUME Scoped, late' < 2 PROVE Settled'
          BY DEF Closed
      <4>1. DeleteOut(1)
          BY <1>3, <2>2, Single, TwoOf DEF DInv, Closing
      <4>2. CASE DeleteAnswered(1)
          BY <1>2, <4>2 DEF DeleteAnswered, Settled, OnlyQuits
      <4>3. CASE DeleteBusy(1)
        <5>1. driver /\ Unanswered /\ Len(cmds) = 1
            BY <4>3 DEF DeleteBusy, Unanswered
        <5>2. late' >= 1 + 1
            BY <1>3, <5>1
        <5> QED BY <4>1, <5>2
      <4>4. CASE DeleteSent(1)
        <5>1. driver /\ Len(cmds) >= 2
            BY <1>1, <4>4 DEF DeleteSent
        <5>2. late' >= Len(cmds)
            BY <1>1, <1>3, <5>1
        <5> QED BY <1>1, <4>1, <5>1, <5>2
      <4> QED BY <4>1, <4>2, <4>3, <4>4 DEF DeleteOut
    <3> QED BY <1>2, <3>1, <3>2 DEF DInv, Closing
  <2> QED BY <2>1, <2>2
<1>4. CASE pc # "teardown"
  <2>1. pc' = "teardown" => todo' = bp_teardown
      BY <1>4, BeginRunNext, ExitNext DEF Went
  <2>2. pc' = "exited" => run' = 0
    <3>1. pc' = "exited" => pc = "setup" /\ run' = run
        BY <1>4, BeginRunNext, ExitNext DEF Went
    <3> QED BY <3>1 DEF TInv, Numbered
  <2>3. Live
      BY <1>4 DEF Live
  <2>4. Unsent'
      BY <2>3 DEF SInv, NoQuit, Unsent
  <2>5. Closing'
      BY <2>1, <2>4 DEF Closing, Scoped, bp_teardown
  <2> QED BY <1>2, <2>2, <2>5 DEF DInv, Closed
<1> QED BY <1>3, <1>4

LEMMA DReadInv == ASSUME SInv, TInv, DInv, Read \/ ReadTimesOut PROVE DInv'
<1>1. /\ Shell /\ Pipes /\ waiting # "none" /\ waiting' = "none" /\ pc # "exited" /\ Went
      /\ UNCHANGED <<platform, MODE, cmds, driver, busy, worked, box, stray, missed, watchdog>>
      /\ platform # "e2b" => Orderly /\ (warned => warned')
  <2>1. Shell /\ Pipes
      BY DEF SInv, IInv
  <2> QED BY <2>1, ReadWent DEF Read, ReadTimesOut, driverVars, fileVars
<1>2. CASE platform # "daytona"
    BY <1>1, <1>2 DEF DInv, Closing, Closed, Warns, Unstray, Scoped
<1>3. CASE platform = "daytona"
  <2>1. late' \in Nat /\ (driver => late' >= Len(cmds) + (IF Unanswered THEN 1 ELSE 0))
    <3>1. /\ Len(replies) \in Nat /\ late \in Nat /\ Len(cmds) \in Nat
          /\ driver => Len(cmds) + Len(replies) + (IF Unanswered THEN 1 ELSE 0) = late + 1
        BY <1>1 DEF SInv, IInv, Pipes, Shell, InStep, Pending
    <3>2. \/ Len(replies) >= 1 /\ late' = late
          \/ Len(replies) = 0 /\ late' = late + 1
        BY <1>1, <3>1 DEF Read, ReadTimesOut, Pipes
    <3> QED BY <3>1, <3>2
  <2>2. Warns'
    <3> SUFFICES ASSUME InHand' PROVE busy.cmd # "discard" /\ (missed => warned')
        BY <1>1 DEF Warns
    <3>1. Read /\ InHand
        BY <1>1 DEF Read, ReadTimesOut, InHand, Shell
    <3>2. /\ busy.cmd # "discard"
          /\ missed => warned \/ (waiting = "delete" /\ AnsweredBy(FALSE))
        BY <1>3, <3>1 DEF DInv, Warns
    <3>3. waiting = "delete" /\ AnsweredBy(FALSE) => warned'
      <4> SUFFICES ASSUME waiting = "delete", AnsweredBy(FALSE) PROVE warned'
          OBVIOUS
      <4>1. Head(replies) = [cmd |-> waiting, ok |-> FALSE]
          BY Single DEF AnsweredBy
      <4>2. ~Accepted(waiting, Head(replies))
          BY <4>1 DEF Accepted
      <4>3. Failed
          BY <1>3, <3>1, <4>2 DEF Read
      <4>4. waiting \in Issues(platform, pc) /\ pc \in {"setup", "make", "trigger", "internal",
                 "external", "novnc", "teardown"}
          BY <1>1 DEF Shell
      <4>5. pc = "teardown"
          BY <1>3, <4>4, OfHooks
      <4> QED BY <1>1, <4>3, <4>5, FailedWent
    <3> QED BY <1>1, <1>3, <3>2, <3>3
  <2> QED BY <1>1, <1>3, <2>1, <2>2, DShellInv DEF Scoped
<1> QED BY <1>2, <1>3

LEMMA DGoOnInv == ASSUME SInv, TInv, DInv, External \/ Novnc PROVE DInv'
<1>1. /\ Shell /\ pc \in {"external", "novnc"}
      /\ UNCHANGED <<platform, MODE, waiting, late, warned, cmds, replies, driver, busy, worked,
                     box, watchdog, stray, missed>>
    BY DEF SInv, IInv, External, Novnc, driverVars, fileVars
<1>2. Went
  <2>1. CASE External
      BY <2>1 DEF External, Enter, Went
  <2>2. CASE Novnc
      BY <2>2 DEF Novnc, Went
  <2> QED BY <2>1, <2>2
<1>3. waiting' = "none" /\ Orderly /\ late' \in Nat
    BY <1>1, OfHooks DEF Shell, Orderly
<1>4. Warns'
    BY <1>1, <1>3 DEF DInv, Warns, InHand
<1> QED BY <1>1, <1>2, <1>3, <1>4, DShellInv DEF Scoped

LEMMA DWatchdogInv ==
    ASSUME SInv, TInv, DInv, WatchdogFires \/ WatchdogTerminates \/ WatchdogKills PROVE DInv'
<1>1. UNCHANGED <<platform, MODE, run, warned, box, stray, missed>> /\ pc # "exited"
    BY DEF WatchdogFires, WatchdogTerminates, WatchdogKills, fileVars
<1>2. CASE ~(platform = "daytona" /\ watchdog' # "killed")
    BY <1>1, <1>2 DEF DInv, Closing, Closed, Warns, Unstray, Scoped, InHand
<1>3. CASE platform = "daytona" /\ watchdog' # "killed"
  <2>1. WatchdogFires /\ watchdog = "armed" /\ pc # "teardown"
      BY <1>3 DEF WatchdogFires, WatchdogTerminates, WatchdogKills
  <2>2. /\ Exit /\ run' = run /\ waiting' = "none" /\ Shell
        /\ late' = late + (IF waiting = "none" THEN 0 ELSE 1)
        /\ UNCHANGED <<cmds, driver, busy, worked>>
      BY <1>3, <2>1 DEF WatchdogFires, driverVars, SInv, IInv
  <2>3. Went /\ Orderly /\ late' \in Nat /\ Scoped
      BY <1>3, <2>1, <2>2 DEF Went, Orderly, Shell, Scoped
  <2>4. Warns'
    <3>1. InHand' => waiting = "none" /\ InHand
        BY <2>1, <2>2 DEF InHand, Shell
    <3> QED BY <1>1, <2>2, <3>1 DEF DInv, Warns
  <2> QED BY <1>1, <2>1, <2>2, <2>3, <2>4, DShellInv
<1> QED BY <1>2, <1>3

LEMMA DSameInv ==
    ASSUME DInv,
           UNCHANGED <<platform, pc, todo, waiting, run, late, warned, watchdog, cmds, replies,
                       busy, worked, stray, missed>>,
           box'.state = box.state, pc = "teardown" => driver' = driver
    PROVE  DInv'
<1>1. /\ (Deleted' <=> Deleted) /\ (Unanswered' <=> Unanswered) /\ (OnlyQuits' <=> OnlyQuits)
      /\ (Scoped' <=> Scoped) /\ (InHand' <=> InHand)
      /\ (AnsweredBy(FALSE)' <=> AnsweredBy(FALSE))
    BY DEF Deleted, Unanswered, OnlyQuits, Scoped, InHand, AnsweredBy
<1>2. Settled' <=> Settled
    BY <1>1 DEF Settled
<1>3. Warns' /\ Unstray'
    BY <1>1 DEF DInv, Warns, Unstray
<1>4. Scoped /\ pc = "teardown" /\ Unsent => Unsent'
    BY DEF Unsent
<1>5. ASSUME NEW k \in {0, 1}, pc = "teardown", DeleteOut(k) PROVE DeleteOut(k)'
    BY <1>1, <1>2, <1>5 DEF DeleteOut, DeleteAnswered, DeleteBusy, DeleteSent
<1> QED BY <1>2, <1>3, <1>4, <1>5, DDriverInv

LEMMA DNextInv == SInv /\ TInv /\ DInv /\ [Next]_vars => DInv'
<1> SUFFICES ASSUME SInv, TInv, DInv, [Next]_vars PROVE DInv'
    OBVIOUS
<1>1. CASE Issue \/ Read \/ ReadTimesOut \/ External \/ Novnc
    BY <1>1, DIssueInv, DReadInv, DGoOnInv
<1>2. CASE WatchdogFires \/ WatchdogTerminates \/ WatchdogKills
    BY <1>2, DWatchdogInv
<1>3. CASE Take \/ DaytonaWork \/ Discard \/ \E ok \in BOOLEAN : Answer(ok)
    BY <1>3, DTakeInv, DWorkInv, DSetAsideInv, DAnswerInv
<1>4. CASE ModalWork \/ E2BWork
  <2>1. platform # "daytona" /\ platform' = platform
      BY <1>4 DEF ModalWork, E2BWork, shellVars
  <2> QED BY <2>1 DEF DInv, Closing, Closed, Warns, Unstray, Scoped
<1>5. CASE EndOfInput \/ UNCHANGED vars
  <2>1. /\ UNCHANGED <<platform, pc, todo, waiting, run, late, warned, watchdog, cmds, replies,
                       busy, worked, stray, missed, box>>
        /\ pc = "teardown" => driver' = driver
      BY <1>5 DEF EndOfInput, vars, shellVars, driverVars, fileVars
  <2> QED BY <2>1, DSameInv
<1>6. CASE CdpUp
  <2>1. /\ UNCHANGED <<platform, pc, todo, waiting, run, late, warned, watchdog, cmds, replies,
                       busy, worked, stray, missed, driver>>
        /\ box'.state = box.state
      BY <1>6 DEF CdpUp, shellVars, driverVars, fileVars, SInv, Boxed
  <2> QED BY <2>1, DSameInv
<1> QED BY <1>1, <1>2, <1>3, <1>4, <1>5, <1>6 DEF Next

(* Once bp_setup has returned, the script never ends with a sandbox left   *)
(* running, on any of the three platforms, unless the watchdog has cut the *)
(* teardown short, as many answers are still unread as the teardown has    *)
(* commands, an end or a delete of a sandbox has failed, or a sandbox was  *)
(* created and never written down; and while no answer is late, Daytona's  *)
(* user is told that the delete has failed (lib.sh:31, 207-237, 256).      *)
THEOREM NothingLeftRunning == Spec => []TornDown
<1>1. SInv /\ TInv /\ DInv => TornDown
  <2> SUFFICES ASSUME SInv, TInv, DInv, pc = "exited", run > 0, watchdog # "killed"
               PROVE  /\ late < Len(bp_teardown) /\ ~missed => Deleted /\ ~stray
                      /\ platform = "daytona" /\ late = 0 /\ missed => warned
      BY DEF TornDown, Deleted
  <2>1. late \in Nat
      BY DEF SInv, IInv, Shell
  <2>2. CASE platform = "daytona"
    <3>1. Len(bp_teardown) = 2
        BY <2>2 DEF bp_teardown
    <3>2. late < 2 /\ ~missed => Deleted /\ ~stray
        BY <2>2 DEF DInv, Closed, Scoped, Settled, Unstray
    <3>3. late = 0 /\ missed => warned
      <4> SUFFICES ASSUME InHand, missed PROVE warned
          BY DEF InHand
      <4>1. waiting = "none"
          BY DEF TInv, OneOut, NothingOut
      <4> QED BY <2>2, <4>1 DEF DInv, Warns
    <3> QED BY <2>2, <3>1, <3>2, <3>3
  <2>3. CASE platform # "daytona"
    <3>1. Len(bp_teardown) = 1
        BY <2>3 DEF bp_teardown
    <3>2. late < 1 => late = 0
        BY <2>1
    <3> QED BY <2>3, <3>1, <3>2 DEF TInv, Gone, Recorded, Told, InHand
  <2> QED BY <2>2, <2>3
<1>2. Init => SInv /\ TInv /\ DInv
    BY SInitInv, TInitInv, DInitInv
<1>3. SInv /\ TInv /\ DInv /\ [Next]_vars => SInv' /\ TInv' /\ DInv'
    BY SNextInv, TNextInv, DNextInv
<1> QED BY <1>1, <1>2, <1>3, PTL DEF Spec
=============================================================================
