------------------------------ MODULE Thumbnail ------------------------------
(***************************************************************************)
(* thumbnail.py: GET /thumbnail answered from the frontmost tab, behind a  *)
(* lock and a short cache, while connect_cdp drops and replaces the        *)
(* connection and tabs come and go (main.py).  Everything runs on one      *)
(* loop; an action is the code between two awaits.                         *)
(***************************************************************************)
EXTENDS Naturals, Sequences

CONSTANTS Session,      \* CDP session ids; one is never used again
          Http,         \* requests for a thumbnail
          CacheSeconds, \* CACHE_SECONDS
          MaxTime, MaxConn, \* bounds: the clock, and connections made
          NoSession, NoHttp

ASSUME ThumbnailAssumption ==
    /\ NoSession \notin Session /\ NoHttp \notin Http
    /\ {CacheSeconds, MaxTime, MaxConn} \subseteq Nat

VARIABLES
    now,        \* time.monotonic()
    stage,      \* connect_cdp: polling, connected or dropping
    conn,       \* number of the latest connection
    wsOpen,     \* whether its socket is open
    sessions,   \* main.sessions, in the order of insertion
    used,       \* session ids Chrome has given out
    source,     \* _source: the connection it names, 0 for None
    cache,      \* _cache
    lock,       \* the request that holds _lock
    queue,      \* requests waiting for it, first come first served
    pc,         \* pc[q]: where capture stands for request q
    chosen,     \* chosen[q]: its local variables source and session_id
    rendering,  \* requests whose screenshot Chrome still works on
    frame,      \* frame[q]: the screenshot Chrome has taken for q
    answer      \* answer[q]: the HTTP answer

connVars == <<stage, conn, wsOpen, sessions, used, source>>
lockVars == <<lock, queue>>
httpVars == <<pc, chosen, rendering, frame, answer>>
vars == <<now, connVars, cache, lockVars, httpVars>>

None == [session |-> NoSession, source |-> 0, done |-> 0]
NoAnswer == [status |-> 0, jpeg |-> None]

Init == /\ now = 0
        /\ stage = "polling" /\ conn = 0 /\ wsOpen = FALSE
        /\ sessions = <<>> /\ used = {} /\ source = 0
        /\ cache = None /\ lock = NoHttp /\ queue = <<>>
        /\ pc = [q \in Http |-> "idle"]
        /\ chosen = [q \in Http |-> [source |-> 0, session |-> NoSession]]
        /\ rendering = {} /\ frame = [q \in Http |-> None]
        /\ answer = [q \in Http |-> NoAnswer]

-----------------------------------------------------------------------------
(* capture                                                                 *)

Front == IF sessions = <<>> THEN NoSession ELSE sessions[Len(sessions)]

AnyTab(session) == cache # None /\ cache.done + CacheSeconds > now \* mutant
Hit(session) == /\ cache # None /\ cache.session = session
                /\ cache.done + CacheSeconds > now

HoldOn(q) == UNCHANGED lock                                       \* mutant
Release(q) == lock' = IF lock = q THEN NoHttp ELSE lock

(* The request ends, and with it its hold on the lock.                     *)
Answer(q, status, jpeg) ==
    /\ pc' = [pc EXCEPT ![q] = "done"]
    /\ answer' = [answer EXCEPT ![q] = [status |-> status, jpeg |-> jpeg]]
    /\ Release(q)

Usable(q, src) == wsOpen /\ src = conn

(* With the lock held: serve the cached frame, or ask Chrome.  A command   *)
(* on a closed socket raises what no handler catches.                      *)
Enter(q, src, session) ==
    IF Hit(session)
    THEN Answer(q, 200, cache)
    ELSE IF Usable(q, src)
         THEN /\ pc' = [pc EXCEPT ![q] = "metrics"] /\ lock' = q
              /\ UNCHANGED answer
         ELSE Answer(q, 500, None)

(* A free lock nobody waits for is taken without suspending.               *)
Lockless == TRUE                                                  \* mutant
LockFree == lock = NoHttp /\ queue = <<>>

Capture(q) ==
    /\ pc[q] = "idle" /\ source # 0 /\ sessions # <<>>
    /\ chosen' = [chosen EXCEPT ![q] = [source |-> source, session |-> Front]]
    /\ IF LockFree
       THEN Enter(q, source, Front) /\ UNCHANGED queue
       ELSE /\ queue' = Append(queue, q) /\ pc' = [pc EXCEPT ![q] = "waiting"]
            /\ UNCHANGED <<lock, answer>>
    /\ UNCHANGED <<now, connVars, cache, rendering, frame>>

(* Not connected, or no tab is open.                                       *)
Unavailable(q) ==
    /\ pc[q] = "idle" /\ (source = 0 \/ sessions = <<>>)
    /\ Answer(q, 503, None)
    /\ UNCHANGED <<now, connVars, cache, queue, chosen, rendering, frame>>

Dequeue == queue' = Tail(queue)

Wake(q) ==
    /\ lock = NoHttp /\ queue # <<>> /\ q = Head(queue)
    /\ Dequeue
    /\ Enter(q, chosen[q].source, chosen[q].session)
    /\ UNCHANGED <<now, connVars, cache, chosen, rendering, frame>>

(* Page.getLayoutMetrics is answered; Page.captureScreenshot goes out.     *)
MetricsDone(q) ==
    /\ pc[q] = "metrics" /\ Usable(q, chosen[q].source)
    /\ pc' = [pc EXCEPT ![q] = "shooting"] /\ rendering' = rendering \cup {q}
    /\ UNCHANGED <<now, connVars, cache, lockVars, chosen, frame, answer>>

(* The socket closed between the two commands.                             *)
SendFails(q) ==
    /\ pc[q] = "metrics" /\ ~Usable(q, chosen[q].source)
    /\ Answer(q, 500, None)
    /\ UNCHANGED <<now, connVars, cache, queue, chosen, rendering, frame>>

(* Either command fails: TimeoutError (504), which gives up the reply and  *)
(* not Chrome's work; or CdpError or an empty answer (503), from Chrome or *)
(* because the connection closed.                                          *)
CallFails(q, status) ==
    /\ pc[q] \in {"metrics", "shooting"}
    /\ Answer(q, status, None)
    /\ rendering' = IF status = 503 /\ Usable(q, chosen[q].source)
                    THEN rendering \ {q} ELSE rendering
    /\ UNCHANGED <<now, connVars, cache, queue, chosen, frame>>

KeepAnyway(q, jpeg) == cache' = jpeg                              \* mutant
Keep(q, jpeg) == cache' = IF source = chosen[q].source THEN jpeg ELSE cache

ShotDone(q) ==
    /\ pc[q] = "shooting" /\ frame[q] # None
    /\ LET jpeg == [frame[q] EXCEPT !.done = now]
       IN  Answer(q, 200, jpeg) /\ Keep(q, jpeg)
    /\ UNCHANGED <<now, connVars, queue, chosen, rendering, frame>>

(* Chrome has rendered the tab.  Nobody takes the frame of a request that  *)
(* has given up.                                                           *)
Shoot(q) ==
    /\ q \in rendering /\ Usable(q, chosen[q].source)
    /\ chosen[q].session \in {sessions[i] : i \in DOMAIN sessions}
    /\ rendering' = rendering \ {q}
    /\ frame' = IF pc[q] # "shooting" THEN frame
                ELSE [frame EXCEPT ![q] = [session |-> chosen[q].session,
                          source |-> chosen[q].source, done |-> now]]
    /\ UNCHANGED <<now, connVars, cache, lockVars, pc, chosen, answer>>

-----------------------------------------------------------------------------
(* connect_cdp and the tabs                                                *)

ForgetCache == cache' = None

Connect ==
    /\ stage = "polling" /\ conn < MaxConn
    /\ stage' = "connected" /\ conn' = conn + 1 /\ wsOpen' = TRUE
    /\ source' = conn + 1 /\ ForgetCache
    /\ UNCHANGED <<now, sessions, used, lockVars, httpVars>>

OpenTab(s) ==
    /\ stage = "connected" /\ s \notin used
    /\ used' = used \cup {s} /\ sessions' = Append(sessions, s)
    /\ UNCHANGED <<now, stage, conn, wsOpen, source, cache, lockVars, httpVars>>

CloseTab(s) ==
    /\ stage = "connected"
    /\ \E i \in DOMAIN sessions :
          /\ sessions[i] = s
          /\ sessions' = SubSeq(sessions, 1, i - 1)
                         \o SubSeq(sessions, i + 1, Len(sessions))
    /\ UNCHANGED <<now, stage, conn, wsOpen, used, source, cache, lockVars, httpVars>>

WsCloses ==
    /\ wsOpen /\ wsOpen' = FALSE
    /\ UNCHANGED <<now, stage, conn, sessions, used, source, cache, lockVars, httpVars>>

(* drop_session_state up to its await: detach.                             *)
Drop ==
    /\ stage = "connected" /\ ~wsOpen
    /\ stage' = "dropping" /\ source' = 0 /\ ForgetCache
    /\ UNCHANGED <<now, conn, wsOpen, sessions, used, lockVars, httpVars>>

DropDone ==
    /\ stage = "dropping" /\ stage' = "polling"
    /\ sessions' = <<>>
    /\ UNCHANGED <<now, conn, wsOpen, used, source, cache, lockVars, httpVars>>

Tick == now < MaxTime /\ now' = now + 1
        /\ UNCHANGED <<connVars, cache, lockVars, httpVars>>

Step(q) == \/ Capture(q) \/ Unavailable(q) \/ Wake(q) \/ MetricsDone(q)
           \/ SendFails(q) \/ ShotDone(q) \/ \E c \in {503, 504} : CallFails(q, c)

Next == \/ \E q \in Http : Step(q) \/ Shoot(q)
        \/ \E s \in Session : OpenTab(s) \/ CloseTab(s)
        \/ Connect \/ WsCloses \/ Drop \/ DropDone \/ Tick

Spec == Init /\ [][Next]_vars

(* The loop runs what is ready, and a command ends within its timeout.     *)
FairSpec == Spec /\ \A q \in Http : WF_vars(Step(q))

-----------------------------------------------------------------------------
Jpeg == [session : Session \cup {NoSession}, source : Nat, done : Nat]

(* Every variable keeps its type (thumbnail.py:38-41, main.py:85-98).      *)
TypeOK ==
    /\ now \in Nat /\ conn \in Nat /\ source \in Nat
    /\ stage \in {"polling", "connected", "dropping"} /\ wsOpen \in BOOLEAN
    /\ sessions \in Seq(Session) /\ used \subseteq Session
    /\ cache \in Jpeg /\ lock \in Http \cup {NoHttp} /\ queue \in Seq(Http)
    /\ pc \in [Http -> {"idle", "waiting", "metrics", "shooting", "done"}]
    /\ chosen \in [Http -> [source : Nat, session : Session \cup {NoSession}]]
    /\ rendering \subseteq Http /\ frame \in [Http -> Jpeg]
    /\ answer \in [Http -> [status : {0, 200, 500, 503, 504}, jpeg : Jpeg]]

(* However many clients poll, Chrome is not asked for the same picture     *)
(* twice: no request is at Chrome for a tab of which a fresh frame is      *)
(* cached, and Chrome is never at two screenshots of one connection unless *)
(* a client of one has timed out.  After a timeout it may be: the lock is  *)
(* let go while Chrome still renders (thumbnail.py:62-73, cdp.py:59-70).   *)
Drawing(q) == q \in rendering /\ Usable(q, chosen[q].source)
NoStampede ==
    /\ \A q \in Http : pc[q] \in {"metrics", "shooting"} => ~Hit(chosen[q].session)
    /\ \A q, r \in Http : Drawing(q) /\ Drawing(r) /\ q # r =>
                             504 \in {answer[q].status, answer[r].status}

(* The cached frame came over the connection being served from, even if a  *)
(* reconnect happened while it was taken (thumbnail.py:48-52, 77-82).      *)
CacheOfConnection == cache # None => source # 0 /\ cache.source = source

(* A thumbnail shows the tab that was in front when it was asked for,      *)
(* whatever is cached by the time the lock is had (thumbnail.py:60-70).    *)
ShowsChosenTab ==
    \A q \in Http : answer[q].status = 200 =>
                        answer[q].jpeg.session = chosen[q].session

(* Every request is answered: a tab that goes away, a reconnect or a       *)
(* failing request ahead of it never leaves it waiting for the lock.       *)
EveryRequestAnswered == \A q \in Http : pc[q] # "idle" ~> pc[q] = "done"
=============================================================================
