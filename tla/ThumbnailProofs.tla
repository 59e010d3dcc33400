-------------------------- MODULE ThumbnailProofs --------------------------
(***************************************************************************)
(* Theorems about Thumbnail, for any sessions, requests and bounds.        *)
(***************************************************************************)
EXTENDS Thumbnail, TLAPS

(* What a request has, by how far it has come.                             *)
Progress ==
    \A q \in Http :
        /\ pc[q] \notin {"shooting", "done"} => frame[q] = None
        /\ pc[q] # "done" => answer[q].status = 0
        /\ pc[q] \in {"waiting", "metrics", "shooting"} => chosen[q].source # 0
        /\ frame[q] # None => /\ frame[q].session = chosen[q].session
                              /\ frame[q].source = chosen[q].source

(* Only the holder of the lock has commands out that it waits for, and no  *)
(* fresh frame of its tab is cached.                                       *)
Held == \A q \in Http : pc[q] \in {"metrics", "shooting"} => lock = q
Missed == \A q \in Http : pc[q] \in {"metrics", "shooting"} => ~Hit(chosen[q].session)

(* What Chrome still works on is waited for, or was given up by a timeout  *)
(* or with its connection.                                                 *)
Drawn ==
    /\ source <= conn
    /\ \A q \in Http :
          /\ chosen[q].source <= conn
          /\ q \in rendering => /\ pc[q] \in {"shooting", "done"} /\ frame[q] = None
                                /\ pc[q] = "done" => \/ answer[q].status = 504
                                                     \/ ~Usable(q, chosen[q].source)

(* The lock's queue holds each waiting request once, and no other.         *)
InQueue(q) == \E i \in 1..Len(queue) : queue[i] = q
QueueExact == /\ \A q \in Http : InQueue(q) <=> pc[q] = "waiting"
              /\ \A i, j \in 1..Len(queue) : queue[i] = queue[j] => i = j

IInv == /\ TypeOK /\ QueueExact /\ Progress /\ Held /\ Missed /\ Drawn
        /\ CacheOfConnection /\ ShowsChosenTab

LEMMA NoneIsJpeg == None \in Jpeg /\ None.source = 0
BY DEF None, Jpeg

LEMMA InitInv == Init => IInv
<1> SUFFICES ASSUME Init PROVE IInv
    OBVIOUS
<1>1. TypeOK
  <2>1. /\ now \in Nat /\ conn \in Nat /\ source \in Nat
        /\ stage \in {"polling", "connected", "dropping"} /\ wsOpen \in BOOLEAN
      BY DEF Init
  <2>5. /\ used \subseteq Session /\ cache \in Jpeg /\ lock \in Http \cup {NoHttp}
      BY NoneIsJpeg DEF Init
  <2>6. sessions \in Seq(Session) /\ queue \in Seq(Http)
      BY DEF Init
  <2>2. NoAnswer \in [status : {0, 200, 500, 503, 504}, jpeg : Jpeg]
      BY NoneIsJpeg DEF NoAnswer
  <2>3. /\ pc \in [Http -> {"idle", "waiting", "metrics", "shooting", "done"}]
        /\ chosen \in [Http -> [source : Nat, session : Session \cup {NoSession}]]
        /\ rendering \subseteq Http /\ frame \in [Http -> Jpeg]
      BY NoneIsJpeg DEF Init
  <2>4. answer \in [Http -> [status : {0, 200, 500, 503, 504}, jpeg : Jpeg]]
      BY <2>2 DEF Init
  <2> QED BY <2>1, <2>3, <2>4, <2>5, <2>6 DEF TypeOK
<1>2. Progress /\ ShowsChosenTab
    BY DEF Init, Progress, ShowsChosenTab, NoAnswer
<1>3. Held /\ Missed /\ Drawn /\ CacheOfConnection
    BY DEF Init, Held, Missed, Drawn, CacheOfConnection
<1>4. QueueExact
    BY DEF Init, QueueExact, InQueue
<1> QED BY <1>1, <1>2, <1>3, <1>4 DEF IInv

(* The request at the head of the queue leaves it.                         *)
LEMMA HeadLeaves ==
    ASSUME QueueExact, queue \in Seq(Http), queue # <<>>,
           NEW q \in Http, q = Head(queue), queue' = Tail(queue)
    PROVE  /\ pc[q] = "waiting" /\ queue' \in Seq(Http)
           /\ \A r \in Http : InQueue(r)' <=> pc[r] = "waiting" /\ r # q
           /\ \A i, j \in 1..Len(queue') : queue'[i] = queue'[j] => i = j
<1>1. /\ Len(queue) \in Nat \ {0} /\ 1 \in 1..Len(queue) /\ queue[1] = q
      /\ queue' \in Seq(Http) /\ Len(queue') = Len(queue) - 1
      /\ \A i \in 1..Len(queue') : queue'[i] = queue[i + 1] /\ i + 1 \in 1..Len(queue)
    OBVIOUS
<1>2. ASSUME NEW r \in Http, NEW i \in 1..Len(queue'), queue'[i] = r
      PROVE  pc[r] = "waiting" /\ r # q
  <2>1. queue[i + 1] = r /\ i + 1 \in 1..Len(queue) /\ i + 1 # 1
      BY <1>1, <1>2
  <2> QED BY <1>1, <2>1 DEF QueueExact, InQueue
<1>3. ASSUME NEW r \in Http, pc[r] = "waiting", r # q
      PROVE  \E i \in 1..Len(queue') : queue'[i] = r
  <2>1. PICK j \in 1..Len(queue) : queue[j] = r
      BY <1>3 DEF QueueExact, InQueue
  <2>2. j # 1 /\ j - 1 \in 1..Len(queue') /\ (j - 1) + 1 = j
      BY <1>1, <1>3, <2>1
  <2> QED BY <1>1, <2>1, <2>2
<1>4. pc[q] = "waiting"
    BY <1>1 DEF QueueExact, InQueue
<1>5. ASSUME NEW i \in 1..Len(queue'), NEW j \in 1..Len(queue'), queue'[i] = queue'[j]
      PROVE  i = j
  <2>1. i + 1 = j + 1
      BY <1>1, <1>5 DEF QueueExact
  <2> QED BY <2>1
<1> QED BY <1>1, <1>2, <1>3, <1>4, <1>5 DEF InQueue

(* What a step of request q may do to the queue and to its own choice.     *)
QueueMoves(q) == \/ queue' = queue /\ pc[q] # "waiting"
                 \/ queue # <<>> /\ q = Head(queue) /\ queue' = Tail(queue)
Chooses(q) == /\ chosen' \in [Http -> [source : Nat, session : Session \cup {NoSession}]]
              /\ chosen'[q].source <= conn
              /\ \A r \in Http : r # q \/ pc[q] # "idle" => chosen'[r] = chosen[r]

LEMMA QueueKept ==
    ASSUME TypeOK, QueueExact, NEW q \in Http, QueueMoves(q),
           NEW v \in {"metrics", "shooting", "done"}, pc' = [pc EXCEPT ![q] = v]
    PROVE  queue' \in Seq(Http) /\ QueueExact'
<1>1. \A r \in Http : pc'[r] = "waiting" <=> pc[r] = "waiting" /\ r # q
    BY DEF TypeOK
<1>2. CASE queue' = queue /\ pc[q] # "waiting"
  <2>1. \A r \in Http : InQueue(r)' <=> InQueue(r)
      BY <1>2 DEF InQueue
  <2> QED BY <1>1, <1>2, <2>1 DEF QueueExact, TypeOK
<1>3. CASE queue # <<>> /\ q = Head(queue) /\ queue' = Tail(queue)
    BY <1>1, <1>3, HeadLeaves DEF QueueExact, TypeOK
<1> QED BY <1>2, <1>3 DEF QueueMoves

(* Whoever waits for Chrome holds the lock, so the cache is stale for it   *)
(* until it stores a frame itself.                                         *)
LEMMA MissedKept ==
    ASSUME TypeOK, Held, Missed, NEW q \in Http, Chooses(q),
           NEW v \in {"waiting", "metrics", "shooting", "done"}, pc' = [pc EXCEPT ![q] = v],
           now' = now, cache' = cache \/ pc[q] = "shooting",
           v \in {"metrics", "shooting"} => cache' = cache /\ ~Hit(chosen'[q].session)
    PROVE  Missed'
<1> SUFFICES ASSUME NEW r \in Http, pc'[r] \in {"metrics", "shooting"}
             PROVE  ~Hit(chosen[r].session)'
    BY DEF Missed
<1>1. CASE r = q
    BY <1>1 DEF TypeOK, Hit
<1>2. CASE r # q
  <2>1. pc[r] \in {"metrics", "shooting"} /\ chosen'[r] = chosen[r]
      BY <1>2 DEF TypeOK, Chooses
  <2>2. cache' = cache
      BY <1>2, <2>1 DEF Held
  <2> QED BY <2>1, <2>2 DEF Missed, Hit
<1> QED BY <1>1, <1>2

(* The request ends.                                                       *)
LEMMA AnswerInv ==
    ASSUME IInv, NEW q \in Http, NEW status \in {200, 500, 503, 504}, NEW jpeg \in Jpeg,
           Answer(q, status, jpeg), UNCHANGED <<now, connVars, frame>>,
           QueueMoves(q), Chooses(q), status = 200 => jpeg.session = chosen'[q].session,
           cache' \in Jpeg, CacheOfConnection', cache' = cache \/ pc[q] = "shooting",
           rendering' \subseteq rendering,
           q \in rendering' => status = 504 \/ ~Usable(q, chosen'[q].source)
    PROVE  IInv'
<1>1. TypeOK /\ QueueExact /\ Progress /\ Held /\ Missed /\ Drawn /\ ShowsChosenTab
    BY DEF IInv
<1>2. /\ pc' = [pc EXCEPT ![q] = "done"]
      /\ answer' = [answer EXCEPT ![q] = [status |-> status, jpeg |-> jpeg]]
      /\ lock' = IF lock = q THEN NoHttp ELSE lock
    BY DEF Answer, Release
<1>3. queue' \in Seq(Http) /\ QueueExact'
    BY <1>1, <1>2, QueueKept
<1>4. TypeOK'
  <2>1. /\ pc' \in [Http -> {"idle", "waiting", "metrics", "shooting", "done"}]
        /\ answer' \in [Http -> [status : {0, 200, 500, 503, 504}, jpeg : Jpeg]]
        /\ lock' \in Http \cup {NoHttp} /\ rendering' \subseteq Http
      BY <1>1, <1>2 DEF TypeOK
  <2> QED BY <1>1, <1>3, <2>1 DEF TypeOK, connVars, Chooses
<1>5. Progress' /\ ShowsChosenTab'
    BY <1>1, <1>2 DEF Progress, ShowsChosenTab, TypeOK, Chooses
<1>6. Held'
    BY <1>1, <1>2 DEF Held, TypeOK
<1>7. Missed'
    BY <1>1, <1>2, MissedKept
<1>8. Drawn'
  <2>1. /\ source' = source /\ conn' = conn /\ frame' = frame
        /\ \A r \in Http, n \in Nat : Usable(r, n)' <=> Usable(r, n)
      BY DEF connVars, Usable
  <2>2. ASSUME NEW r \in Http, r # q
        PROVE  pc'[r] = pc[r] /\ chosen'[r] = chosen[r] /\ answer'[r] = answer[r]
      BY <1>1, <1>2, <2>2 DEF TypeOK, Chooses
  <2>3. pc'[q] = "done" /\ answer'[q].status = status
      BY <1>1, <1>2 DEF TypeOK
  <2>4. \A r \in Http : chosen'[r].source \in Nat
      BY DEF Chooses
  <2>5. \A r \in Http : chosen'[r].source <= conn
      BY <1>1, <2>2 DEF Drawn, Chooses
  <2> QED BY <1>1, <2>1, <2>2, <2>3, <2>4, <2>5 DEF Drawn
<1> QED BY <1>3, <1>4, <1>5, <1>6, <1>7, <1>8 DEF IInv

(* The lock is had, at once or after a wait.                               *)
LEMMA EnterInv ==
    ASSUME IInv, NEW q \in Http, pc[q] \in {"idle", "waiting"}, lock = NoHttp,
           Enter(q, chosen'[q].source, chosen'[q].session), chosen'[q].source # 0,
           QueueMoves(q), Chooses(q), UNCHANGED <<now, connVars, cache, rendering, frame>>
    PROVE  IInv'
<1>1. /\ TypeOK /\ QueueExact /\ Progress /\ Held /\ Missed /\ Drawn
      /\ CacheOfConnection /\ ShowsChosenTab
    BY DEF IInv
<1>2. CacheOfConnection' /\ cache' \in Jpeg /\ q \notin rendering'
    BY <1>1 DEF CacheOfConnection, TypeOK, connVars, Drawn
<1>3. CASE Answer(q, 200, cache) /\ cache.session = chosen'[q].session
    BY <1>1, <1>2, <1>3, AnswerInv DEF TypeOK
<1>4. CASE Answer(q, 500, None)
    BY <1>2, <1>4, AnswerInv, NoneIsJpeg
<1>5. CASE /\ pc' = [pc EXCEPT ![q] = "metrics"] /\ lock' = q /\ UNCHANGED answer
           /\ ~Hit(chosen'[q].session)
  <2>1. queue' \in Seq(Http) /\ QueueExact'
      BY <1>1, <1>5, QueueKept
  <2>2. TypeOK'
      BY <1>1, <1>5, <2>1 DEF TypeOK, connVars, Chooses
  <2>3. Progress' /\ ShowsChosenTab' /\ Drawn'
    <3>1. frame[q] = None /\ answer[q].status = 0 /\ pc'[q] = "metrics"
        BY <1>1, <1>5 DEF Progress, TypeOK
    <3>2. ASSUME NEW r \in Http, r # q
          PROVE  pc'[r] = pc[r] /\ chosen'[r] = chosen[r]
        BY <1>1, <1>5, <3>2 DEF TypeOK, Chooses
    <3>3. Progress'
        BY <1>1, <1>5, <3>1, <3>2 DEF Progress
    <3>4. ShowsChosenTab'
        BY <1>1, <1>5, <3>1, <3>2 DEF ShowsChosenTab
    <3>5. Drawn'
        BY <1>1, <1>2, <1>5, <3>2 DEF Drawn, Usable, connVars, Chooses
    <3> QED BY <3>3, <3>4, <3>5
  <2>4. Held'
      BY <1>1, <1>5, ThumbnailAssumption DEF Held, TypeOK
  <2>5. Missed'
      BY <1>1, <1>5, MissedKept
  <2> QED BY <1>2, <2>1, <2>2, <2>3, <2>4, <2>5 DEF IInv
<1> QED BY <1>3, <1>4, <1>5 DEF Enter, Hit

LEMMA CaptureInv ==
    ASSUME IInv, NEW q \in Http, Capture(q) PROVE IInv'
<1>1. /\ TypeOK /\ QueueExact /\ Progress /\ Held /\ Missed /\ Drawn
      /\ CacheOfConnection /\ ShowsChosenTab
    BY DEF IInv
<1>2. /\ Front \in Session /\ pc[q] = "idle" /\ source \in Nat \ {0}
      /\ UNCHANGED <<now, connVars, cache, rendering, frame>>
    BY <1>1 DEF Capture, Front, TypeOK
<1>3. /\ Chooses(q) /\ chosen'[q].source = source /\ chosen'[q].session = Front
    BY <1>1, <1>2 DEF Capture, Chooses, TypeOK, Drawn
<1>4. CASE LockFree
  <2>1. lock = NoHttp /\ Enter(q, chosen'[q].source, chosen'[q].session) /\ QueueMoves(q)
      BY <1>2, <1>3, <1>4 DEF Capture, LockFree, QueueMoves
  <2> QED BY <1>2, <1>3, <2>1, EnterInv
<1>5. CASE ~LockFree
  <2>1. /\ queue' = Append(queue, q) /\ pc' = [pc EXCEPT ![q] = "waiting"]
        /\ UNCHANGED <<lock, answer>>
      BY <1>5 DEF Capture
  <2>2. queue' \in Seq(Http) /\ QueueExact'
    <3>1. /\ queue' \in Seq(Http) /\ Len(queue) \in Nat /\ Len(queue') = Len(queue) + 1
          /\ \A i \in 1..Len(queue) : queue'[i] = queue[i] /\ queue[i] # q
          /\ queue'[Len(queue) + 1] = q
      <4>1. queue \in Seq(Http)
          BY <1>1 DEF TypeOK
      <4>2. \A i \in 1..Len(queue) : queue[i] # q
          BY <1>1, <1>2 DEF QueueExact, InQueue
      <4>3. /\ queue' \in Seq(Http) /\ Len(queue) \in Nat /\ Len(queue') = Len(queue) + 1
            /\ \A i \in 1..Len(queue) : queue'[i] = queue[i]
            /\ queue'[Len(queue) + 1] = q
          BY <2>1, <4>1
      <4> QED BY <4>2, <4>3
    <3>2. \A r \in Http : InQueue(r)' <=> InQueue(r) \/ r = q
        BY <3>1 DEF InQueue
    <3>3. \A r \in Http : pc'[r] = "waiting" <=> pc[r] = "waiting" \/ r = q
        BY <1>1, <2>1 DEF TypeOK
    <3>4. \A i, j \in 1..Len(queue') : queue'[i] = queue'[j] => i = j
        BY <1>1, <3>1 DEF QueueExact
    <3> QED BY <1>1, <3>1, <3>2, <3>3, <3>4 DEF QueueExact
  <2>3. TypeOK'
      BY <1>1, <1>2, <1>3, <2>1, <2>2 DEF TypeOK, connVars, Chooses
  <2>4. Progress' /\ ShowsChosenTab' /\ Drawn'
    <3>1. /\ frame[q] = None /\ answer[q].status = 0
          /\ pc'[q] = "waiting" /\ chosen'[q].source # 0
        BY <1>1, <1>2, <1>3, <2>1 DEF Progress, TypeOK
    <3>2. ASSUME NEW r \in Http, r # q
          PROVE  pc'[r] = pc[r] /\ chosen'[r] = chosen[r]
        BY <1>1, <1>3, <2>1, <3>2 DEF TypeOK, Chooses
    <3>3. Progress'
        BY <1>1, <1>2, <2>1, <3>1, <3>2 DEF Progress
    <3>4. ShowsChosenTab'
        BY <1>1, <2>1, <3>1, <3>2 DEF ShowsChosenTab
    <3>5. Drawn'
        BY <1>1, <1>2, <1>3, <2>1, <3>2 DEF Drawn, Usable, connVars, Chooses
    <3> QED BY <3>3, <3>4, <3>5
  <2>5. Held' /\ CacheOfConnection'
      BY <1>1, <1>2, <2>1 DEF Held, CacheOfConnection, TypeOK, connVars
  <2>6. Missed'
      BY <1>1, <1>2, <1>3, <2>1, MissedKept
  <2> QED BY <2>2, <2>3, <2>4, <2>5, <2>6 DEF IInv
<1> QED BY <1>4, <1>5

(* The other steps of a request, and what Chrome does for it.              *)
LEMMA StepInv ==
    ASSUME IInv, NEW q \in Http, Step(q) \/ Shoot(q) PROVE IInv'
<1>1. /\ TypeOK /\ QueueExact /\ Progress /\ Held /\ Missed /\ Drawn
      /\ CacheOfConnection /\ ShowsChosenTab
    BY DEF IInv
<1>2. UNCHANGED chosen => Chooses(q)
    BY <1>1 DEF Chooses, TypeOK, Drawn
<1>3. CASE Capture(q)
    BY <1>3, CaptureInv
<1>4. CASE Wake(q)
  <2>1. /\ lock = NoHttp /\ QueueMoves(q)
        /\ Enter(q, chosen'[q].source, chosen'[q].session)
        /\ UNCHANGED <<now, connVars, cache, chosen, rendering, frame>>
      BY <1>4 DEF Wake, Dequeue, QueueMoves
  <2>2. pc[q] = "waiting" /\ chosen'[q].source # 0
      BY <1>1, <1>4, <2>1, HeadLeaves DEF Wake, Dequeue, TypeOK, Progress
  <2> QED BY <1>2, <2>1, <2>2, EnterInv
<1>5. CASE MetricsDone(q)
  <2>1. /\ pc[q] = "metrics" /\ pc' = [pc EXCEPT ![q] = "shooting"]
        /\ rendering' = rendering \cup {q}
        /\ UNCHANGED <<now, connVars, cache, lockVars, chosen, frame, answer>>
      BY <1>5 DEF MetricsDone
  <2>2. queue' \in Seq(Http) /\ QueueExact'
      BY <1>1, <2>1, QueueKept DEF QueueMoves, lockVars
  <2>3. TypeOK'
      BY <1>1, <2>1, <2>2 DEF TypeOK, connVars, lockVars
  <2>4. Progress' /\ ShowsChosenTab' /\ Held' /\ CacheOfConnection'
      BY <1>1, <2>1 DEF Progress, ShowsChosenTab, Held, CacheOfConnection, TypeOK,
         connVars, lockVars
  <2>5. Missed'
      BY <1>1, <2>1 DEF Missed, Hit, TypeOK
  <2>6. Drawn'
    <3>1. frame[q] = None /\ pc'[q] = "shooting"
        BY <1>1, <2>1 DEF Progress, TypeOK
    <3>2. \A r \in Http : r # q => pc'[r] = pc[r] /\ (r \in rendering' <=> r \in rendering)
        BY <1>1, <2>1 DEF TypeOK
    <3> QED BY <1>1, <2>1, <3>1, <3>2 DEF Drawn, Usable, connVars
  <2> QED BY <2>2, <2>3, <2>4, <2>5, <2>6 DEF IInv
<1>6. CASE \/ Unavailable(q) \/ SendFails(q) \/ \E c \in {503, 504} : CallFails(q, c)
  <2>1. PICK status \in {500, 503, 504} :
            /\ Answer(q, status, None)
            /\ \/ rendering' = rendering /\ pc[q] \in {"idle", "metrics"}
               \/ rendering' = IF status = 503 /\ Usable(q, chosen[q].source)
                               THEN rendering \ {q} ELSE rendering
            /\ status = 500 => rendering' = rendering /\ pc[q] \in {"idle", "metrics"}
      BY <1>6 DEF Unavailable, SendFails, CallFails
  <2>2. UNCHANGED <<now, connVars, cache, queue, chosen, frame>> /\ pc[q] # "waiting"
      BY <1>6 DEF Unavailable, SendFails, CallFails
  <2>3. CacheOfConnection' /\ cache' \in Jpeg /\ QueueMoves(q)
      BY <1>1, <2>2 DEF CacheOfConnection, TypeOK, connVars, QueueMoves
  <2>4. /\ rendering' \subseteq rendering
        /\ q \in rendering' => status = 504 \/ ~Usable(q, chosen'[q].source)
      BY <1>1, <2>1, <2>2 DEF Drawn
  <2> QED BY <1>2, <2>1, <2>2, <2>3, <2>4, AnswerInv, NoneIsJpeg
<1>7. CASE ShotDone(q)
  <2>1. PICK jpeg \in Jpeg : /\ jpeg = [frame[q] EXCEPT !.done = now]
                             /\ Answer(q, 200, jpeg) /\ Keep(q, jpeg)
    <3>1. frame[q] \in Jpeg /\ now \in Nat
        BY <1>1 DEF TypeOK
    <3>2. [frame[q] EXCEPT !.done = now] \in Jpeg
        BY <3>1 DEF Jpeg
    <3> QED BY <1>7, <3>2 DEF ShotDone
  <2>2. /\ UNCHANGED <<now, connVars, queue, chosen, rendering, frame>>
        /\ pc[q] = "shooting" /\ frame[q] # None
      BY <1>7 DEF ShotDone
  <2>3. /\ jpeg.session = chosen[q].session /\ jpeg.source = chosen[q].source
        /\ chosen[q].source # 0
      BY <1>1, <2>1, <2>2 DEF Progress, TypeOK, Jpeg
  <2>4. CacheOfConnection' /\ cache' \in Jpeg /\ QueueMoves(q)
      BY <1>1, <2>1, <2>2, <2>3 DEF CacheOfConnection, TypeOK, connVars, QueueMoves, Keep
  <2>5. Chooses(q) /\ jpeg.session = chosen'[q].session /\ UNCHANGED <<now, connVars, frame>>
      BY <1>2, <2>2, <2>3
  <2>6. Answer(q, 200, jpeg) /\ 200 \in {200, 500, 503, 504} /\ jpeg \in Jpeg
      BY <2>1
  <2>7. rendering' = rendering /\ q \notin rendering /\ pc[q] = "shooting"
      BY <1>1, <2>2 DEF Drawn
  <2> QED BY <2>4, <2>5, <2>6, <2>7, AnswerInv
<1>8. CASE Shoot(q)
  <2>1. /\ q \in rendering /\ rendering' = rendering \ {q}
        /\ UNCHANGED <<now, connVars, cache, lockVars, pc, chosen, answer>>
        /\ \/ frame' = frame
           \/ /\ pc[q] = "shooting"
              /\ frame' = [frame EXCEPT ![q] = [session |-> chosen[q].session,
                              source |-> chosen[q].source, done |-> now]]
      BY <1>8 DEF Shoot
  <2>2. frame' \in [Http -> Jpeg] /\ \A r \in Http : r # q => frame'[r] = frame[r]
    <3>1. frame \in [Http -> Jpeg]
        BY <1>1 DEF TypeOK
    <3>2. [session |-> chosen[q].session, source |-> chosen[q].source, done |-> now] \in Jpeg
        BY <1>1 DEF TypeOK, Jpeg
    <3> QED BY <2>1, <3>1, <3>2
  <2>3. TypeOK' /\ QueueExact'
      BY <1>1, <2>1, <2>2 DEF TypeOK, QueueExact, InQueue, connVars, lockVars
  <2>4. Progress'
      BY <1>1, <2>1 DEF Progress, TypeOK
  <2>5. ShowsChosenTab' /\ Held' /\ CacheOfConnection'
      BY <1>1, <2>1 DEF ShowsChosenTab, Held, CacheOfConnection, connVars, lockVars
  <2>6. Missed' /\ Drawn'
      BY <1>1, <2>1, <2>2 DEF Missed, Hit, Drawn, Usable, connVars
  <2> QED BY <2>3, <2>4, <2>5, <2>6 DEF IInv
<1> QED BY <1>3, <1>4, <1>5, <1>6, <1>7, <1>8 DEF Step

(* Connections and tabs come and go.                                       *)
LEMMA EnvironmentInv ==
    ASSUME IInv,
           \/ \E s \in Session : OpenTab(s) \/ CloseTab(s)
           \/ Connect \/ WsCloses \/ Drop \/ DropDone \/ Tick
           \/ UNCHANGED vars
    PROVE  IInv'
<1>1. /\ TypeOK /\ QueueExact /\ Progress /\ Held /\ Missed /\ Drawn
      /\ CacheOfConnection /\ ShowsChosenTab
    BY DEF IInv
<1>2. UNCHANGED <<lockVars, httpVars>>
    BY DEF OpenTab, CloseTab, Connect, WsCloses, Drop, DropDone, Tick, vars
<1>3. QueueExact' /\ Progress' /\ Held' /\ ShowsChosenTab'
    BY <1>1, <1>2 DEF QueueExact, InQueue, Progress, Held, ShowsChosenTab,
       lockVars, httpVars
<1>4. sessions' \in Seq(Session) /\ used' \subseteq Session
  <2>1. ASSUME NEW s \in Session, OpenTab(s) PROVE sessions' \in Seq(Session) /\ used' \subseteq Session
      BY <1>1, <2>1 DEF OpenTab, TypeOK
  <2>2. ASSUME NEW s \in Session, CloseTab(s) PROVE sessions' \in Seq(Session) /\ used' \subseteq Session
    <3>1. PICK i \in DOMAIN sessions : sessions' = SubSeq(sessions, 1, i - 1)
                                                \o SubSeq(sessions, i + 1, Len(sessions))
        BY <2>2 DEF CloseTab
    <3>2. /\ SubSeq(sessions, 1, i - 1) \in Seq(Session)
          /\ SubSeq(sessions, i + 1, Len(sessions)) \in Seq(Session)
        BY <1>1 DEF TypeOK
    <3>3. sessions' \in Seq(Session)
        BY <3>1, <3>2
    <3>4. used' = used
        BY <2>2 DEF CloseTab
    <3> QED BY <1>1, <3>3, <3>4 DEF TypeOK
  <2>3. CASE Connect \/ WsCloses \/ Drop \/ DropDone \/ Tick \/ UNCHANGED vars
    <3>1. sessions' = sessions \/ sessions' = <<>>
        BY <2>3 DEF Connect, WsCloses, Drop, DropDone, Tick, vars, connVars
    <3>2. used' = used
        BY <2>3 DEF Connect, WsCloses, Drop, DropDone, Tick, vars, connVars
    <3>3. sessions \in Seq(Session) /\ used \subseteq Session
        BY <1>1 DEF TypeOK
    <3>4. <<>> \in Seq(Session)
        OBVIOUS
    <3> QED BY ONLY <3>1, <3>2, <3>3, <3>4
  <2> QED BY <2>1, <2>2, <2>3
<1>5. /\ now' \in Nat /\ conn' \in Nat /\ source' \in Nat /\ wsOpen' \in BOOLEAN
      /\ stage' \in {"polling", "connected", "dropping"}
      /\ cache' = None \/ UNCHANGED <<cache, source>>
  <2>1. /\ now \in Nat /\ conn \in Nat /\ source \in Nat /\ wsOpen \in BOOLEAN
        /\ stage \in {"polling", "connected", "dropping"}
      BY <1>1 DEF TypeOK
  <2>2. CASE \E s \in Session : OpenTab(s) \/ CloseTab(s)
    <3>1. UNCHANGED <<now, stage, conn, wsOpen, source, cache>>
        BY <2>2 DEF OpenTab, CloseTab
    <3> QED BY <2>1, <3>1
  <2>3. CASE Connect
    <3>1. now' = now /\ conn' = conn + 1 /\ source' = conn + 1 /\ stage' = "connected"
        BY <2>3 DEF Connect
    <3>2. wsOpen' = TRUE /\ cache' = None
        BY <2>3 DEF Connect, ForgetCache
    <3> QED BY <2>1, <3>1, <3>2
  <2>6. CASE WsCloses
    <3>1. UNCHANGED <<now, stage, conn, source, cache>> /\ wsOpen' = FALSE
        BY <2>6 DEF WsCloses
    <3> QED BY <2>1, <3>1
  <2>4. CASE Drop \/ DropDone
      BY <2>1, <2>4 DEF Drop, DropDone, ForgetCache
  <2>5. CASE Tick \/ UNCHANGED vars
      BY <2>1, <2>5 DEF Tick, vars, connVars
  <2> QED BY <2>2, <2>3, <2>4, <2>5, <2>6
<1>6. TypeOK' /\ CacheOfConnection'
    BY <1>1, <1>2, <1>4, <1>5, NoneIsJpeg DEF TypeOK, CacheOfConnection, lockVars, httpVars
<1>7. Missed'
  <2>1. now' = now \/ now' = now + 1
      BY DEF OpenTab, CloseTab, Connect, WsCloses, Drop, DropDone, Tick, vars
  <2>2. now' >= now
      BY <1>1, <2>1 DEF TypeOK
  <2>3. ASSUME NEW x, Hit(x)' PROVE Hit(x)
    <3>1. cache' = cache /\ cache \in Jpeg
        BY <1>1, <1>5, <2>3 DEF Hit, TypeOK
    <3> QED BY <1>1, <1>5, <2>2, <2>3, <3>1, ThumbnailAssumption DEF Hit, TypeOK, Jpeg
  <2> QED BY <1>1, <1>2, <2>3 DEF Missed, httpVars
<1>8. Drawn'
  <2>1. CASE Connect
    <3>1. conn' = conn + 1 /\ source' = conn + 1
        BY <2>1 DEF Connect
    <3>2. \A r \in Http : chosen[r].source <= conn /\ chosen[r].source \in Nat
        BY <1>1 DEF Drawn, TypeOK
    <3> QED BY <1>1, <1>2, <3>1, <3>2 DEF Drawn, Usable, TypeOK, httpVars
  <2>2. CASE ~Connect
    <3>1. conn' = conn /\ (source' = source \/ source' = 0) /\ (wsOpen' => wsOpen)
        BY <2>2 DEF OpenTab, CloseTab, WsCloses, Drop, DropDone, Tick, vars, connVars
    <3> QED BY <1>1, <1>2, <3>1 DEF Drawn, Usable, TypeOK, httpVars
  <2> QED BY <2>1, <2>2
<1> QED BY <1>3, <1>6, <1>7, <1>8 DEF IInv

(* The inductive invariant, for any number of requests, tabs and           *)
(* connections.                                                            *)
THEOREM Invariance == Spec => []IInv
<1>1. Init => IInv
    BY InitInv
<1>2. IInv /\ [Next]_vars => IInv'
    BY StepInv, EnvironmentInv DEF Next
<1> QED BY <1>1, <1>2, PTL DEF Spec

(* No picture is asked for twice, for any number of requests, tabs and     *)
(* connections: a request is at Chrome only for want of a fresh frame, and *)
(* beside another only after a timeout (thumbnail.py:62-73, cdp.py:59-70). *)
THEOREM NoSecondRender == Spec => []NoStampede
<1>1. IInv => NoStampede
  <2> SUFFICES ASSUME IInv PROVE NoStampede
      OBVIOUS
  <2>1. Held /\ Missed /\ Drawn
      BY DEF IInv
  <2>2. ASSUME NEW q \in Http, NEW r \in Http, Drawing(q), Drawing(r), q # r
        PROVE  504 \in {answer[q].status, answer[r].status}
    <3>1. CASE pc[q] = "shooting" /\ pc[r] = "shooting"
        BY <2>1, <2>2, <3>1 DEF Held
    <3>2. CASE pc[q] = "done" \/ pc[r] = "done"
        BY <2>1, <2>2, <3>2 DEF Drawn, Drawing
    <3> QED BY <2>1, <2>2, <3>1, <3>2 DEF Drawn, Drawing
  <2> QED BY <2>1, <2>2 DEF NoStampede, Missed
<1> QED BY <1>1, Invariance, PTL

(* A frame is never cached for another connection (thumbnail.py:77-82).    *)
THEOREM CacheFollowsConnection == Spec => []CacheOfConnection
<1>1. IInv => CacheOfConnection
    BY DEF IInv
<1> QED BY <1>1, Invariance, PTL

(* A thumbnail is of the tab that was chosen (thumbnail.py:60-70).         *)
THEOREM ChosenTabShown == Spec => []ShowsChosenTab
<1>1. IInv => ShowsChosenTab
    BY DEF IInv
<1> QED BY <1>1, Invariance, PTL
=============================================================================
