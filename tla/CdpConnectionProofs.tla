------------------------- MODULE CdpConnectionProofs -------------------------
(***************************************************************************)
(* Theorems about CdpConnection, for any sets of commands.                 *)
(***************************************************************************)
EXTENDS CdpConnection, TLAPS

(* A command is answered at most once, and only after it was issued.       *)
AnsweredOnce ==
    /\ \A c \in Cmd : pc[c] = "idle" => c \notin atChrome /\ answer[c] = "none"
    /\ \A c \in atChrome : answer[c] = "none"
    /\ \A c \in wire : answer[c] # "none"

(* A future that holds a result holds the command's own.                   *)
OwnFuture == \A c \in Call : future[c] = "result" => answer[c] = "result"

IInv == /\ TypeOK /\ AnsweredOnce /\ OwnFuture
        /\ WaitersReachable /\ NoDeadEntries /\ OwnReply /\ AnsweredForgotten

LEMMA InitInv == Init => IInv
<1> SUFFICES ASSUME Init PROVE IInv
    OBVIOUS
<1>1. TypeOK
    BY DEF Init, TypeOK
<1>2. AnsweredOnce /\ OwnFuture /\ OwnReply
    BY DEF Init, AnsweredOnce, OwnFuture, OwnReply
<1>3. WaitersReachable /\ NoDeadEntries /\ AnsweredForgotten
    BY DEF Init, WaitersReachable, Blocked, NoDeadEntries, AnsweredForgotten, Cmd
<1> QED BY <1>1, <1>2, <1>3 DEF IInv

(* The steps of a call.                                                    *)
LEMMA CallInv ==
    ASSUME IInv, NEW c \in Call, CallStep(c) PROVE IInv'
<1>1. /\ TypeOK /\ AnsweredOnce /\ OwnFuture /\ OwnReply
      /\ WaitersReachable /\ NoDeadEntries /\ AnsweredForgotten /\ c \in Cmd
    BY DEF IInv, Cmd
<1>2. UNCHANGED <<dispatched, answer, wire>> /\ atChrome \subseteq atChrome'
      /\ atChrome' \subseteq atChrome \cup {c}
    BY DEF CallStep, Issue, IssueFails, SendingDone, SendingFails, TimerFires,
       Expires, Returns, chromeVars
<1>3. AnsweredForgotten'
    BY <1>1, <1>2 DEF AnsweredForgotten
<1>4. CASE Issue(c)
  <2>1. TypeOK' /\ AnsweredOnce'
      BY <1>1, <1>4 DEF Issue, TypeOK, AnsweredOnce
  <2>2. OwnFuture' /\ OwnReply'
      BY <1>1, <1>4 DEF Issue, OwnFuture, OwnReply
  <2>3. WaitersReachable' /\ NoDeadEntries'
      BY <1>1, <1>4 DEF Issue, WaitersReachable, Blocked, NoDeadEntries, TypeOK
  <2> QED BY <1>3, <2>1, <2>2, <2>3 DEF IInv
<1>5. CASE SendingDone(c)
  <2>1. TypeOK' /\ AnsweredOnce'
      BY <1>1, <1>5 DEF SendingDone, TypeOK, AnsweredOnce, chromeVars
  <2>2. OwnFuture' /\ OwnReply'
      BY <1>1, <1>5 DEF SendingDone, OwnFuture, OwnReply, chromeVars
  <2>3. WaitersReachable' /\ NoDeadEntries'
      BY <1>1, <1>5 DEF SendingDone, WaitersReachable, Blocked, NoDeadEntries, TypeOK
  <2> QED BY <1>3, <2>1, <2>2, <2>3 DEF IInv
<1>6. CASE TimerFires(c)
  <2>1. TypeOK' /\ AnsweredOnce'
      BY <1>1, <1>6 DEF TimerFires, TypeOK, AnsweredOnce, chromeVars
  <2>2. OwnFuture' /\ OwnReply'
      BY <1>1, <1>6 DEF TimerFires, OwnFuture, OwnReply, chromeVars, TypeOK
  <2>3. WaitersReachable' /\ NoDeadEntries'
      BY <1>1, <1>6 DEF TimerFires, WaitersReachable, Blocked, NoDeadEntries, TypeOK
  <2> QED BY <1>3, <2>1, <2>2, <2>3 DEF IInv
<1>7. CASE IssueFails(c) \/ SendingFails(c) \/ Expires(c) \/ Returns(c)
  <2>1. PICK how \in {"result", "CdpError", "TimeoutError", "ConnectionClosed"} :
            End(c, how) /\ (how = "result" => future[c] = "result")
      BY <1>7 DEF IssueFails, SendingFails, Expires, Returns
  <2>2. /\ UNCHANGED <<wsOpen, reading, future, chromeVars>>
        /\ awaited' \subseteq awaited /\ (awaited' = awaited \/ awaited' = awaited \ {c})
        /\ c \notin awaited'
      BY <1>1, <1>7 DEF IssueFails, SendingFails, Expires, Returns, Forget,
         NoDeadEntries, chromeVars
  <2>3. TypeOK' /\ AnsweredOnce'
      BY <1>1, <1>2, <2>1, <2>2 DEF End, TypeOK, AnsweredOnce, chromeVars
  <2>4. OwnFuture' /\ OwnReply'
      BY <1>1, <2>1, <2>2 DEF End, OwnFuture, OwnReply, TypeOK, chromeVars
  <2>5. WaitersReachable' /\ NoDeadEntries'
      BY <1>1, <2>1, <2>2 DEF End, WaitersReachable, Blocked, NoDeadEntries, TypeOK
  <2> QED BY <1>3, <2>3, <2>4, <2>5 DEF IInv
<1> QED BY <1>4, <1>5, <1>6, <1>7 DEF CallStep

(* The reply of c is taken: a waiter wakes, a dispatch happens, or neither.*)
LEMMA TakeReplyInv ==
    ASSUME IInv, NEW c \in Cmd, TakeReply(c) PROVE IInv'
<1>1. /\ TypeOK /\ AnsweredOnce /\ OwnFuture /\ OwnReply
      /\ WaitersReachable /\ NoDeadEntries /\ AnsweredForgotten
    BY DEF IInv
<1>2. /\ UNCHANGED <<wsOpen, reading, pc, outcome, atChrome, answer>>
      /\ c \in wire /\ wire' = wire \ {c} /\ answer[c] \in {"result", "error"}
    BY <1>1 DEF TakeReply, AnsweredOnce, TypeOK
<1>3. AnsweredOnce' /\ OwnReply'
    BY <1>1, <1>2 DEF AnsweredOnce, OwnReply
<1>4. CASE c \in awaited /\ Wake(c) /\ UNCHANGED dispatched
  <2>1. /\ c \in Call /\ c \notin dispatched /\ awaited' = awaited \ {c}
        /\ future' = [future EXCEPT ![c] = IF future[c] = "pending" THEN answer[c]
                                           ELSE future[c]]
      BY <1>1, <1>4, DisjointCommands DEF TypeOK, Wake, Settle
  <2>2. TypeOK'
      BY <1>1, <1>2, <1>4, <2>1 DEF TypeOK
  <2>3. OwnFuture'
      BY <1>1, <1>2, <2>1 DEF OwnFuture, TypeOK
  <2>4. WaitersReachable' /\ NoDeadEntries'
      BY <1>1, <1>2, <2>1 DEF WaitersReachable, Blocked, NoDeadEntries, TypeOK
  <2>5. AnsweredForgotten'
      BY <1>1, <1>2, <1>4, <2>1 DEF AnsweredForgotten
  <2> QED BY <1>3, <2>2, <2>3, <2>4, <2>5 DEF IInv
<1>5. CASE c \notin awaited \/ ~Wake(c)
  <2>1. /\ UNCHANGED <<awaited, future>>
        /\ dispatched' = dispatched \ {c}
      BY <1>5 DEF TakeReply, Dispatch
  <2>2. TypeOK' /\ OwnFuture'
      BY <1>1, <1>2, <2>1 DEF TypeOK, OwnFuture
  <2>3. WaitersReachable' /\ NoDeadEntries'
      BY <1>1, <1>2, <2>1 DEF WaitersReachable, Blocked, NoDeadEntries
  <2>4. AnsweredForgotten'
      BY <1>1, <1>2, <2>1 DEF AnsweredForgotten
  <2> QED BY <1>3, <2>2, <2>3, <2>4 DEF IInv
<1> QED BY <1>4, <1>5, <1>1, DisjointCommands DEF TakeReply, TypeOK

LEMMA NextInv == IInv /\ [Next]_vars => IInv'
<1> SUFFICES ASSUME IInv, [Next]_vars PROVE IInv'
    OBVIOUS
<1>1. /\ TypeOK /\ AnsweredOnce /\ OwnFuture /\ OwnReply
      /\ WaitersReachable /\ NoDeadEntries /\ AnsweredForgotten
    BY DEF IInv
<1>2. CASE \E s \in Send : SendCommand(s)
  <2>1. PICK s \in Send : SendCommand(s)
      BY <1>2
  <2>2. s \in Cmd /\ s \notin Call /\ answer[s] = "none"
      BY <1>1, <2>1, DisjointCommands DEF SendCommand, AnsweredOnce, Cmd
  <2>3. TypeOK' /\ AnsweredOnce'
      BY <1>1, <2>1, <2>2 DEF SendCommand, TypeOK, AnsweredOnce
  <2>4. OwnFuture' /\ OwnReply' /\ AnsweredForgotten'
      BY <1>1, <2>1, <2>2 DEF SendCommand, OwnFuture, OwnReply, AnsweredForgotten
  <2>5. WaitersReachable' /\ NoDeadEntries'
      BY <1>1, <2>1, <2>2
         DEF SendCommand, WaitersReachable, Blocked, NoDeadEntries, TypeOK, Cmd
  <2> QED BY <2>3, <2>4, <2>5 DEF IInv
<1>3. CASE \E c \in Cmd : ChromeAnswers(c)
  <2>1. PICK c \in Cmd : ChromeAnswers(c)
      BY <1>3
  <2>2. PICK a \in {"result", "error"} : answer' = [answer EXCEPT ![c] = a]
      BY <2>1 DEF ChromeAnswers
  <2>3. answer[c] = "none" /\ pc[c] # "idle"
      BY <1>1, <2>1 DEF ChromeAnswers, AnsweredOnce
  <2>4. TypeOK' /\ AnsweredOnce'
      BY <1>1, <2>1, <2>2, <2>3 DEF ChromeAnswers, TypeOK, AnsweredOnce
  <2>5. OwnFuture' /\ OwnReply'
      BY <1>1, <2>1, <2>2, <2>3 DEF ChromeAnswers, OwnFuture, OwnReply, TypeOK, Cmd
  <2>6. AnsweredForgotten'
      BY <1>1, <2>1, <2>2, <2>3 DEF ChromeAnswers, AnsweredForgotten, TypeOK, Cmd
  <2>7. WaitersReachable' /\ NoDeadEntries'
      BY <1>1, <2>1 DEF ChromeAnswers, WaitersReachable, Blocked, NoDeadEntries
  <2> QED BY <2>4, <2>5, <2>6, <2>7 DEF IInv
<1>4. CASE Close
  <2>1. TypeOK'
      BY <1>1, <1>4 DEF Close, AbandonAll, TypeOK, chromeVars
  <2>2. AnsweredOnce' /\ OwnFuture' /\ OwnReply'
      BY <1>1, <1>4 DEF Close, AbandonAll, AnsweredOnce, OwnFuture, OwnReply,
         chromeVars
  <2>3. WaitersReachable' /\ NoDeadEntries' /\ AnsweredForgotten'
      BY <1>1, <1>4 DEF Close, AbandonAll, WaitersReachable, Blocked,
         NoDeadEntries, AnsweredForgotten
  <2> QED BY <2>1, <2>2, <2>3 DEF IInv
<1>5. CASE WsCloses
  <2>1. UNCHANGED <<reading, pc, future, awaited, dispatched, outcome, answer, wire>>
        /\ atChrome' = {} /\ wsOpen' = FALSE
      BY <1>5 DEF WsCloses
  <2>2. TypeOK' /\ AnsweredOnce' /\ OwnFuture' /\ OwnReply'
      BY <1>1, <2>1 DEF TypeOK, AnsweredOnce, OwnFuture, OwnReply
  <2>3. WaitersReachable' /\ NoDeadEntries' /\ AnsweredForgotten'
      BY <1>1, <2>1 DEF WaitersReachable, Blocked, NoDeadEntries, AnsweredForgotten
  <2> QED BY <2>2, <2>3 DEF IInv
<1>6. CASE UNCHANGED vars
    BY <1>1, <1>6 DEF vars, IInv, TypeOK, AnsweredOnce, OwnFuture, OwnReply,
       WaitersReachable, Blocked, NoDeadEntries, AnsweredForgotten
<1> QED BY <1>2, <1>3, <1>4, <1>5, <1>6, CallInv, TakeReplyInv DEF Next

(* The inductive invariant, whatever the order of events (cdp.py:47-118).  *)
(* For any number of calls and sends, and whatever Chrome answers.         *)
THEOREM Invariance == Spec => []IInv
BY InitInv, NextInv, PTL DEF Spec

(* A call that still waits for its future is always in the table from      *)
(* which a reply or close can wake it (cdp.py:65-70, 113-118).             *)
THEOREM WaitersAlwaysReachable == Spec => []WaitersReachable
<1>1. IInv => WaitersReachable
    BY DEF IInv
<1> QED BY <1>1, Invariance, PTL

(* A call returns Chrome's answer to its own command, whatever replies,    *)
(* timers and closes happen around it (cdp.py:79-88).                      *)
THEOREM RepliesMatch == Spec => []OwnReply
<1>1. IInv => OwnReply
    BY DEF IInv
<1> QED BY <1>1, Invariance, PTL

(* Neither table keeps commands that are over (cdp.py:69-70, 90-93).       *)
THEOREM TablesDoNotLeak == Spec => []TablesBounded
<1>1. IInv => TablesBounded
    BY DEF IInv, TablesBounded
<1> QED BY <1>1, Invariance, PTL

(* No future is set twice, so take_reply and close never raise             *)
(* InvalidStateError (cdp.py:82, 114).                                     *)
THEOREM FuturesSetOnce == Spec => FutureSetOnce
<1>1. ASSUME IInv, [Next]_vars
      PROVE  [\A c \in Call : future[c] # "pending" => future'[c] = future[c]]_vars
  <2> SUFFICES ASSUME Next, NEW c \in Call, future[c] # "pending"
               PROVE  future'[c] = future[c]
      BY <1>1
  <2>1. TypeOK
      BY <1>1 DEF IInv
  <2>2. CASE \E d \in Call : CallStep(d)
      BY <2>1, <2>2 DEF CallStep, Issue, IssueFails, SendingDone, SendingFails,
         TimerFires, Expires, Returns, TypeOK
  <2>3. CASE \E d \in Cmd : TakeReply(d)
      BY <2>1, <2>3 DEF TakeReply, Wake, Settle, TypeOK
  <2>4. CASE Close
      BY <2>1, <2>4 DEF Close, AbandonAll, TypeOK
  <2>5. CASE \/ \E s \in Send : SendCommand(s)
             \/ \E d \in Cmd : ChromeAnswers(d)
             \/ WsCloses
      BY <2>5 DEF SendCommand, ChromeAnswers, WsCloses
  <2> QED BY <2>2, <2>3, <2>4, <2>5 DEF Next
<1> QED BY <1>1, Invariance, PTL DEF Spec, FutureSetOnce
=============================================================================
