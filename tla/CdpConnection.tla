---------------------------- MODULE CdpConnection ----------------------------
(***************************************************************************)
(* One cdp.Connection: a websocket shared by commands that are awaited     *)
(* (call, made by HTTP handlers) and commands whose reply the receive loop *)
(* dispatches (send).  Message ids are never reused, so a command stands   *)
(* for its id.  An action is the code between two awaits.                  *)
(***************************************************************************)
CONSTANTS Call,  \* commands issued with call
          Send   \* commands issued with send

ASSUME DisjointCommands == Call \cap Send = {}

VARIABLES
    wsOpen,      \* whether the websocket is open
    reading,     \* the receive loop still takes replies: close() has not run
    pc,          \* pc[c]: what the coroutine issuing command c is doing
    future,      \* future[c]: the future of call c
    awaited,     \* keys of _awaited
    dispatched,  \* keys of _dispatched
    outcome,     \* outcome[c]: how call c ended
    atChrome,    \* commands Chrome has received and not answered
    answer,      \* answer[c]: what Chrome answered
    wire         \* commands whose reply has not been taken

vars == <<wsOpen, reading, pc, future, awaited, dispatched, outcome, atChrome,
          answer, wire>>

Cmd == Call \cup Send
chromeVars == <<atChrome, answer, wire>>

Init == /\ wsOpen = TRUE /\ reading = TRUE
        /\ pc = [c \in Cmd |-> "idle"]
        /\ future = [c \in Call |-> "pending"]
        /\ awaited = {} /\ dispatched = {}
        /\ outcome = [c \in Call |-> "none"]
        /\ atChrome = {} /\ wire = {}
        /\ answer = [c \in Cmd |-> "none"]

-----------------------------------------------------------------------------
(* call                                                                    *)

(* The finally of call.                                                    *)
KeepAwaited(c) == UNCHANGED awaited                               \* mutant
Forget(c) == awaited' = awaited \ {c}

(* call ends: it returns a result or raises.                               *)
End(c, how) == /\ pc' = [pc EXCEPT ![c] = "done"]
               /\ outcome' = [outcome EXCEPT ![c] = how]

(* The command is registered and written; a full buffer suspends it.       *)
Issue(c) ==
    /\ pc[c] = "idle" /\ wsOpen
    /\ pc' = [pc EXCEPT ![c] = "sending"]
    /\ awaited' = awaited \cup {c}
    /\ atChrome' = atChrome \cup {c}
    /\ UNCHANGED <<wsOpen, reading, future, dispatched, outcome, answer, wire>>

(* On a closed socket ws.send raises, and so does call.                    *)
IssueFails(c) ==
    /\ pc[c] = "idle" /\ ~wsOpen
    /\ End(c, "ConnectionClosed")
    /\ UNCHANGED <<wsOpen, reading, future, awaited, dispatched, chromeVars>>

SendingDone(c) ==
    /\ pc[c] = "sending" /\ wsOpen
    /\ pc' = [pc EXCEPT ![c] = "waiting"]
    /\ UNCHANGED <<wsOpen, reading, future, awaited, dispatched, outcome, chromeVars>>

SendingFails(c) ==
    /\ pc[c] = "sending" /\ ~wsOpen
    /\ End(c, "ConnectionClosed") /\ Forget(c)
    /\ UNCHANGED <<wsOpen, reading, future, dispatched, chromeVars>>

NoTimer(c) == FALSE /\ UNCHANGED vars                             \* mutant

(* wait_for's timer cancels the future unless it has been set already; the *)
(* coroutine raises TimeoutError when it runs next.                        *)
TimerFires(c) ==
    /\ pc[c] = "waiting"
    /\ pc' = [pc EXCEPT ![c] = "expired"]
    /\ future' = [future EXCEPT ![c] = IF @ = "pending" THEN "cancelled" ELSE @]
    /\ UNCHANGED <<wsOpen, reading, awaited, dispatched, outcome, chromeVars>>

Expires(c) ==
    /\ pc[c] = "expired"
    /\ End(c, "TimeoutError") /\ Forget(c)
    /\ UNCHANGED <<wsOpen, reading, future, dispatched, chromeVars>>

Returns(c) ==
    /\ pc[c] = "waiting" /\ future[c] \in {"result", "error"}
    /\ End(c, IF future[c] = "result" THEN "result" ELSE "CdpError")
    /\ Forget(c)
    /\ UNCHANGED <<wsOpen, reading, future, dispatched, chromeVars>>

-----------------------------------------------------------------------------
(* send: registered before the socket is tried, written if it is open.     *)
SendCommand(s) ==
    /\ pc[s] = "idle"
    /\ pc' = [pc EXCEPT ![s] = "done"]
    /\ dispatched' = dispatched \cup {s}
    /\ atChrome' = IF wsOpen THEN atChrome \cup {s} ELSE atChrome
    /\ UNCHANGED <<wsOpen, reading, future, awaited, outcome, answer, wire>>

-----------------------------------------------------------------------------
(* take_reply and close                                                    *)

(* A future that is done already, cancelled by its timer, is left alone.   *)
SetAnyway(c, v) == future' = [future EXCEPT ![c] = v]             \* mutant
Settle(c, v) == future' = [future EXCEPT ![c] = IF @ = "pending" THEN v ELSE @]

(* The entry goes away with its reply.                                     *)
Dispatch(s) == dispatched' = dispatched \ {s}

(* The call is woken with its own reply.                                   *)
WakeAny(c) == \E d \in awaited : /\ awaited' = awaited \ {d}      \* mutant
                                 /\ Settle(d, answer[c])
Wake(c) == awaited' = awaited \ {c} /\ Settle(c, answer[c])

TakeReply(c) ==
    /\ reading /\ c \in wire
    /\ wire' = wire \ {c}
    /\ \/ c \in awaited /\ Wake(c) /\ UNCHANGED dispatched
       \/ c \in dispatched /\ Dispatch(c) /\ UNCHANGED <<awaited, future>>
       \/ c \notin awaited \cup dispatched
            /\ UNCHANGED <<awaited, future, dispatched>>
    /\ UNCHANGED <<wsOpen, reading, pc, outcome, atChrome, answer>>

(* close: run_session has ended, by the end of the stream or an exception. *)
ForgetAll == UNCHANGED future                                     \* mutant
AbandonAll == future' = [c \in Call |->
                 IF c \in awaited /\ future[c] = "pending" THEN "error"
                 ELSE future[c]]

Close ==
    /\ reading
    /\ reading' = FALSE
    /\ AbandonAll
    /\ awaited' = {} /\ dispatched' = {}
    /\ UNCHANGED <<wsOpen, pc, outcome, chromeVars>>

-----------------------------------------------------------------------------
(* Chrome and the socket.  A command may go unanswered for ever.           *)
ChromeAnswers(c) ==
    /\ c \in atChrome
    /\ atChrome' = atChrome \ {c} /\ wire' = wire \cup {c}
    /\ \E a \in {"result", "error"} : answer' = [answer EXCEPT ![c] = a]
    /\ UNCHANGED <<wsOpen, reading, pc, future, awaited, dispatched, outcome>>

(* The socket closes; replies already received can still be read.          *)
WsCloses ==
    /\ wsOpen
    /\ wsOpen' = FALSE /\ atChrome' = {}
    /\ UNCHANGED <<reading, pc, future, awaited, dispatched, outcome, answer, wire>>

-----------------------------------------------------------------------------
CallStep(c) == \/ Issue(c) \/ IssueFails(c) \/ SendingDone(c) \/ SendingFails(c)
               \/ TimerFires(c) \/ Expires(c) \/ Returns(c)

Next == \/ \E c \in Call : CallStep(c)
        \/ \E s \in Send : SendCommand(s)
        \/ \E c \in Cmd : TakeReply(c) \/ ChromeAnswers(c)
        \/ Close \/ WsCloses

Spec == Init /\ [][Next]_vars

(* Coroutines that can run do, timers fire, a send ends.                   *)
FairSpec == Spec /\ \A c \in Call :
    WF_vars(SendingDone(c) \/ SendingFails(c) \/ TimerFires(c) \/ Expires(c)
            \/ Returns(c))

-----------------------------------------------------------------------------
(* Every variable keeps its type: calls and sends never share a table, and *)
(* a future holds what a reply or close may put there.                     *)
TypeOK == /\ wsOpen \in BOOLEAN /\ reading \in BOOLEAN
          /\ pc \in [Cmd -> {"idle", "sending", "waiting", "expired", "done"}]
          /\ future \in [Call -> {"pending", "result", "error", "cancelled"}]
          /\ awaited \subseteq Call /\ dispatched \subseteq Send
          /\ outcome \in [Call -> {"none", "result", "CdpError", "TimeoutError",
                                   "ConnectionClosed"}]
          /\ atChrome \subseteq Cmd /\ wire \subseteq Cmd
          /\ answer \in [Cmd -> {"none", "result", "error"}]

(* No waiter is stranded: a call whose future is still open can be woken,  *)
(* by its reply or by close, because it is in the table (cdp.py:65-70,     *)
(* 80-88, 113-118).  Only a call issued after close has nobody to wake it. *)
Blocked(c) == pc[c] \in {"sending", "waiting"} /\ future[c] = "pending"
WaitersReachable == \A c \in Call : Blocked(c) => c \in awaited

(* A reply wakes the caller that asked for it: what a call returns is what *)
(* Chrome answered to that very command (cdp.py:79-88).                    *)
OwnReply == \A c \in Call : outcome[c] = "result" => answer[c] = "result"

(* The tables do not grow with the traffic: one holds no call that has    *)
(* ended (cdp.py:69-70), the other no command whose reply has been taken   *)
(* (cdp.py:90-93), however replies, timers and sends interleave.           *)
NoDeadEntries == \A c \in awaited : pc[c] \in {"sending", "waiting", "expired"}
AnsweredForgotten ==
    \A s \in dispatched : answer[s] = "none" \/ s \in wire
TablesBounded == NoDeadEntries /\ AnsweredForgotten

(* A future is set or cancelled once: a reply or a close that races the    *)
(* timer must not raise InvalidStateError in the receive loop (cdp.py:82,  *)
(* 114).                                                                   *)
FutureSetOnce == [][\A c \in Call : future[c] # "pending" =>
                                        future'[c] = future[c]]_vars

(* Every call ends, even if Chrome never answers (cdp.py:59-61).           *)
EveryCallEnds == \A c \in Call : pc[c] = "sending" ~> pc[c] = "done"
=============================================================================
