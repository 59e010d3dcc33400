--------------------------- MODULE LogFanoutProofs ---------------------------
(***************************************************************************)
(* Theorems about LogFanout, for any records, paths and number of writes   *)
(* to the configuration file.                                              *)
(***************************************************************************)
EXTENDS LogFanout, FiniteSetTheorems, SequenceTheorems, TLAPS

(* What configure adds, by kind.                                           *)
FileOf(p, g) == [kind |-> "file", path |-> p, gen |-> g, open |-> TRUE]
StdoutOf(g) == [kind |-> "stdout", path |-> NoPath, gen |-> g, open |-> TRUE]
OtelOf(g) == [kind |-> "otel", path |-> NoPath, gen |-> g, open |-> TRUE]

Handler == [kind : {"file"}, path : Path, gen : {0, 1}, open : BOOLEAN]
           \cup [kind : {"stdout", "otel"}, path : {NoPath}, gen : {0, 1}, open : BOOLEAN]

(* The list while the handlers of a configuration go, and come.            *)
Leaving(g) == {Added(c, g) : c \in Config}
              \cup {<<StdoutOf(g), OtelOf(g)>>, <<StdoutOf(g)>>, <<OtelOf(g)>>}
Coming(c, g) ==
    {<<>>} \cup (IF c = BadPath THEN {} ELSE {<<FileOf(c.path, g)>>})
           \cup (IF c.otel THEN {<<FileOf(c.path, g), StdoutOf(g)>>} ELSE {})

Typed ==
    /\ cmd \in {"cdp", "tinyproxy"}
    /\ file \in [body : Body, mtime : Nat] /\ writes \in Nat /\ spoiled \in BOOLEAN
    /\ sed \in Body \cup {NotYet, Replaced} /\ seen \in Nat
    /\ generation \in {0, 1} /\ config \in Config \cup {BadPath}
    /\ reload \in {"idle", "loading", "removing", "adding", "dead"}
    /\ emitting \in [record : Record, index : Nat \ {0}] \cup {Idle}
    /\ held \in Handler \cup {NoHandler}
    /\ logged \subseteq Record
    /\ wanted \in [Record -> Body]
    /\ written \in [Record -> [Path -> Nat]]
    /\ printed \in [Record -> Nat] /\ exported \in [Record -> Nat]

(* The handlers, at each step of a reload.                                 *)
Listed ==
    /\ reload \in {"idle", "loading"} =>
          config \in Config /\ handlers = Added(config, generation)
    /\ reload = "removing" => handlers \in Leaving(1 - generation)
    /\ reload = "adding" => handlers \in Coming(config, generation)
    /\ reload = "dead" =>
          handlers = IF config = BadPath THEN <<>> ELSE Added(config, generation)

(* A record that no call is under way for has gone nowhere yet; one that   *)
(* a file handler is about to take has no line, and none has two.          *)
Untouched(r) == /\ \A p \in Path : written[r][p] = 0
                /\ printed[r] = 0 /\ exported[r] = 0

OneLine(r) == \A p, q \in Path : /\ written[r][p] <= 1
                                 /\ written[r][p] > 0 /\ written[r][q] > 0 => p = q

Emitted ==
    /\ held # NoHandler => ~Quiet /\ emitting.index >= 2
    /\ ~Quiet => emitting.record \notin logged
    /\ \A r \in Record :
          r \in logged \/ (r = emitting.record /\ emitting.index >= 2) \/ Untouched(r)
    /\ held.kind = "file" => \A p \in Path : written[emitting.record][p] = 0
    /\ \A r \in Record : OneLine(r)

(* In the cdp subcommand: a record has been to the first k handlers of the *)
(* configuration it was logged under.                                      *)
Handled == emitting.index - (IF held = NoHandler THEN 1 ELSE 2)

DeliveredTo(r, k) ==
    /\ written[r] = [p \in Path |-> IF p = wanted[r].path /\ k >= 1 THEN 1 ELSE 0]
    /\ printed[r] = IF k >= 2 THEN 1 ELSE 0
    /\ exported[r] = IF k >= 3 THEN 1 ELSE 0

Delivering ==
    /\ reload \in {"idle", "dead"} /\ wanted[emitting.record] = config
    /\ config \in Config =>
          /\ emitting.index <= Len(handlers) + 1
          /\ held # NoHandler => held = handlers[emitting.index - 1]
          /\ DeliveredTo(emitting.record, Handled)

Exact == cmd = "cdp" =>
    /\ ~Quiet => Delivering
    /\ \A r \in logged : wanted[r] \in Config =>
          DeliveredTo(r, IF wanted[r].otel THEN 3 ELSE 2)

IInv == Typed /\ Listed /\ Emitted /\ Exact

(* --------------------------------------------------------------------- *)
(* The lists of handlers                                                  *)

LEMMA Joined ==
    ASSUME NEW a, NEW b, NEW c
    PROVE  <<a, b>> \o <<c>> = <<a, b, c>> /\ <<a, b>> \o <<>> = <<a, b>>
<1> DEFINE S == {a, b, c}
           l == <<a, b>> \o <<c>>
           r == <<a, b, c>>
<1>1. /\ l \in Seq(S) /\ r \in Seq(S) /\ Len(l) = 3 /\ Len(r) = 3
      /\ \A i \in 1..3 : l[i] = r[i]
  <2>1. a \in S /\ b \in S /\ c \in S
      OBVIOUS
  <2> HIDE DEF S
  <2>2. l \in Seq(S) /\ r \in Seq(S) /\ Len(l) = 3 /\ Len(r) = 3
      BY <2>1
  <2>3. l[1] = a /\ l[2] = b /\ l[3] = c /\ r[1] = a /\ r[2] = b /\ r[3] = c
      BY <2>1
  <2> QED BY <2>2, <2>3
<1>2. <<a, b>> \in Seq({a, b})
    OBVIOUS
<1> HIDE DEF S, l, r
<1>3. l = r
    BY <1>1, SeqEqual
<1>4. <<a, b>> \o <<>> = <<a, b>>
    BY <1>2, ConcatEmptySeq
<1> QED BY <1>3, <1>4 DEF l, r

LEMMA Appended ==
    ASSUME NEW a, NEW b, NEW c
    PROVE  /\ Append(<<>>, a) = <<a>> /\ Append(<<a>>, b) = <<a, b>>
           /\ Append(<<a, b>>, c) = <<a, b, c>>
<1> DEFINE S == {a, b, c}
<1>1. Append(<<>>, a) = <<a>>
    OBVIOUS
<1>2. a \in S /\ b \in S /\ c \in S
    OBVIOUS
<1> HIDE DEF S
<1>3. Append(<<a>>, b) = <<a, b>>
  <2> DEFINE l == Append(<<a>>, b)
             r == <<a, b>>
  <2>1. l \in Seq(S) /\ r \in Seq(S) /\ Len(l) = 2 /\ Len(r) = 2
      BY <1>2
  <2>2. l[1] = a /\ l[2] = b /\ r[1] = a /\ r[2] = b
      BY <1>2
  <2>3. \A i \in 1..Len(l) : l[i] = r[i]
      BY <2>1, <2>2
  <2> HIDE DEF l, r
  <2>4. l = r
      BY <2>1, <2>3, SeqEqual
  <2> QED BY <2>4 DEF l, r
<1>4. Append(<<a, b>>, c) = <<a, b, c>>
  <2> DEFINE l == Append(<<a, b>>, c)
             r == <<a, b, c>>
  <2>1. l \in Seq(S) /\ r \in Seq(S) /\ Len(l) = 3 /\ Len(r) = 3
      BY <1>2
  <2>2. l[1] = a /\ l[2] = b /\ l[3] = c /\ r[1] = a /\ r[2] = b /\ r[3] = c
      BY <1>2
  <2>3. \A i \in 1..Len(l) : l[i] = r[i]
      BY <2>1, <2>2
  <2> HIDE DEF l, r
  <2>4. l = r
      BY <2>1, <2>3, SeqEqual
  <2> QED BY <2>4 DEF l, r
<1> QED BY <1>1, <1>3, <1>4

LEMMA AddedIs ==
    ASSUME NEW c \in Config, NEW g
    PROVE  Added(c, g) = IF c.otel THEN <<FileOf(c.path, g), StdoutOf(g), OtelOf(g)>>
                                   ELSE <<FileOf(c.path, g), StdoutOf(g)>>
<1>1. c.otel \in BOOLEAN
    BY DEF Config
<1>2. CASE c.otel
  <2>1. Added(c, g) = <<FileOf(c.path, g), StdoutOf(g)>> \o <<OtelOf(g)>>
      BY <1>2 DEF Added, FileOf, StdoutOf, OtelOf
  <2> QED BY <1>2, <2>1, Joined
<1>3. CASE ~c.otel
  <2>1. Added(c, g) = <<FileOf(c.path, g), StdoutOf(g)>> \o <<>>
      BY <1>3 DEF Added, FileOf, StdoutOf
  <2> QED BY <1>3, <2>1, Joined
<1> QED BY <1>1, <1>2, <1>3

LEMMA HandlerIs ==
    ASSUME NEW p \in Path, NEW g \in {0, 1}
    PROVE  /\ FileOf(p, g) \in Handler /\ FileOf(p, g).kind = "file" /\ FileOf(p, g).gen = g
           /\ StdoutOf(g) \in Handler /\ StdoutOf(g).kind = "stdout" /\ StdoutOf(g).gen = g
           /\ OtelOf(g) \in Handler /\ OtelOf(g).kind = "otel" /\ OtelOf(g).gen = g
           /\ FileOf(p, g).path = p /\ FileOf(p, g).open
           /\ StdoutOf(g).open /\ OtelOf(g).open
BY DEF FileOf, StdoutOf, OtelOf, Handler

LEMMA ConfigIs ==
    /\ \A c \in Config : c.path \in Path /\ c.otel \in BOOLEAN /\ c.fault = "none"
    /\ BadPath.fault = "path" /\ BadPort.fault = "port" /\ BadPath \notin Config
    /\ ~BadPath.otel /\ Defaults \in Config
BY LogFanoutAssumption DEF Config, BadPath, BadPort, Faulty, Defaults

(* The handlers of one generation, in the order configure adds them.       *)
Ordered(h, g) ==
    /\ h \in Seq(Handler) /\ Len(h) <= 3
    /\ \A i \in 1..Len(h) : h[i].gen = g /\ (h[i].kind = "file" => i = 1)

LEMMA AddedOrdered ==
    ASSUME NEW c \in Config, NEW g \in {0, 1}
    PROVE  Ordered(Added(c, g), g) /\ Len(Added(c, g)) = IF c.otel THEN 3 ELSE 2
<1>1. c.path \in Path /\ c.otel \in BOOLEAN
    BY ConfigIs
<1> DEFINE f == FileOf(c.path, g)
           s == StdoutOf(g)
           o == OtelOf(g)
<1>2. /\ f \in Handler /\ s \in Handler /\ o \in Handler
      /\ f.gen = g /\ s.gen = g /\ o.gen = g /\ s.kind = "stdout" /\ o.kind = "otel"
    BY <1>1, HandlerIs
<1>3. Added(c, g) = IF c.otel THEN <<f, s, o>> ELSE <<f, s>>
    BY AddedIs
<1> HIDE DEF f, s, o
<1>4. Ordered(<<f, s, o>>, g) /\ Len(<<f, s, o>>) = 3
    BY <1>2 DEF Ordered
<1>5. Ordered(<<f, s>>, g) /\ Len(<<f, s>>) = 2
    BY <1>2 DEF Ordered
<1> QED BY <1>1, <1>3, <1>4, <1>5

LEMMA LeavingOrdered ==
    ASSUME NEW g \in {0, 1}, NEW h \in Leaving(g)
    PROVE  Ordered(h, g) /\ Len(h) \in 1..3
<1>1. CASE \E c \in Config : h = Added(c, g)
    BY <1>1, AddedOrdered
<1>2. CASE h \in {<<StdoutOf(g), OtelOf(g)>>, <<StdoutOf(g)>>, <<OtelOf(g)>>}
  <2> DEFINE s == StdoutOf(g)
             o == OtelOf(g)
  <2>1. /\ s \in Handler /\ o \in Handler
        /\ s.gen = g /\ o.gen = g /\ s.kind = "stdout" /\ o.kind = "otel"
      BY HandlerIs, LogFanoutAssumption
  <2>2. h = <<s, o>> \/ h = <<s>> \/ h = <<o>>
      BY <1>2
  <2> HIDE DEF s, o
  <2>3. Ordered(<<s, o>>, g) /\ Len(<<s, o>>) = 2
      BY <2>1 DEF Ordered
  <2>4. Ordered(<<s>>, g) /\ Len(<<s>>) = 1 /\ Ordered(<<o>>, g) /\ Len(<<o>>) = 1
      BY <2>1 DEF Ordered
  <2> QED BY <2>2, <2>3, <2>4
<1> QED BY <1>1, <1>2 DEF Leaving

LEMMA ComingOrdered ==
    ASSUME NEW c \in Config \cup {BadPath}, NEW g \in {0, 1}, NEW h \in Coming(c, g)
    PROVE  Ordered(h, g)
<1>1. CASE h = <<>>
    BY <1>1 DEF Ordered
<1>2. CASE h # <<>>
  <2> DEFINE f == FileOf(c.path, g)
             s == StdoutOf(g)
  <2>1. c \in Config
      BY <1>2, ConfigIs DEF Coming
  <2>2. /\ f \in Handler /\ s \in Handler
        /\ f.gen = g /\ s.gen = g /\ s.kind = "stdout"
      BY <2>1, HandlerIs, ConfigIs
  <2>3. h = <<f>> \/ h = <<f, s>>
      BY <1>2, <2>1 DEF Coming
  <2> HIDE DEF f, s
  <2>4. Ordered(<<f, s>>, g) /\ Ordered(<<f>>, g)
      BY <2>2 DEF Ordered
  <2> QED BY <2>3, <2>4
<1> QED BY <1>1, <1>2

(* The list only ever holds handlers of one generation.                    *)
LEMMA HandlersOrdered ==
    ASSUME Typed, Listed
    PROVE  \E g \in {0, 1} : Ordered(handlers, g)
<1>1. generation \in {0, 1} /\ 1 - generation \in {0, 1} /\ config \in Config \cup {BadPath}
    BY DEF Typed
<1>2. CASE reload = "removing"
    BY <1>1, <1>2, LeavingOrdered DEF Listed
<1>3. CASE reload = "adding"
    BY <1>1, <1>3, ComingOrdered DEF Listed
<1>4. CASE reload \notin {"removing", "adding"}
  <2>1. CASE reload = "dead" /\ config = BadPath
    <3>1. handlers = <<>>
        BY <2>1 DEF Listed
    <3>2. Ordered(<<>>, generation)
        BY DEF Ordered
    <3> QED BY <1>1, <3>1, <3>2
  <2>2. CASE ~(reload = "dead" /\ config = BadPath)
    <3>1. reload \in {"idle", "loading", "dead"}
        BY <1>4 DEF Typed
    <3>2. config \in Config /\ handlers = Added(config, generation)
        BY <1>1, <2>2, <3>1 DEF Listed
    <3> QED BY <1>1, <3>2, AddedOrdered
  <2> QED BY <2>1, <2>2
<1> QED BY <1>2, <1>3, <1>4

(* --------------------------------------------------------------------- *)
(* Others write the file; the watcher reloads it                          *)

LEMMA Logging ==
    ASSUME Typed
    PROVE  /\ Quiet <=> emitting.index = 0
           /\ ~Quiet => emitting.record \in Record /\ emitting.index \in Nat \ {0}
BY DEF Typed, Quiet, Idle

LEMMA InitInv == Init => IInv
<1> SUFFICES ASSUME Init PROVE IInv
    OBVIOUS
<1>1. Typed
  <2>1. config \in Config /\ config \in Body /\ Defaults \in Body
      BY ConfigIs DEF Init, Body
  <2>2. file \in [body : Body, mtime : Nat]
      BY <2>1 DEF Init, Gone
  <2>3. /\ wanted \in [Record -> Body] /\ written \in [Record -> [Path -> Nat]]
        /\ printed \in [Record -> Nat] /\ exported \in [Record -> Nat]
      BY <2>1 DEF Init
  <2> QED BY <2>1, <2>2, <2>3 DEF Init, Typed
<1>2. Listed
    BY DEF Init, Listed
<1>3. Emitted
    BY DEF Init, Emitted, Untouched, OneLine, Quiet, NoHandler
<1>4. Exact
    BY DEF Init, Exact, Quiet
<1> QED BY <1>1, <1>2, <1>3, <1>4 DEF IInv

(* Who writes the file disturbs nothing but the file.                      *)
LEMMA WriteInv ==
    ASSUME IInv, (\E body \in Body : Edit(body)) \/ Delete \/ SedReads \/ SedReplaces
    PROVE  IInv'
<1>1. Typed /\ Listed /\ Emitted /\ Exact /\ UNCHANGED <<watcherVars, emitVars, outVars>>
    BY DEF IInv, Edit, Delete, SedReads, SedReplaces
<1>2. UNCHANGED <<cmd, seen, handlers, generation, config, reload, emitting, held,
                  logged, wanted, written, printed, exported>>
    BY <1>1 DEF watcherVars, emitVars, logVars, outVars
<1>3. /\ file' \in [body : Body, mtime : Nat] /\ writes' \in Nat /\ spoiled' \in BOOLEAN
      /\ sed' \in Body \cup {NotYet, Replaced}
  <2>1. /\ file \in [body : Body, mtime : Nat] /\ file.mtime \in Nat /\ file.body \in Body
        /\ writes \in Nat /\ spoiled \in BOOLEAN /\ sed \in Body \cup {NotYet, Replaced}
      BY <1>1 DEF Typed
  <2>2. CASE \E body \in Body : Edit(body)
      BY <2>1, <2>2 DEF Edit, Written
  <2>3. CASE Delete
      BY <2>1, <2>3, ConfigIs DEF Delete, Gone, Body
  <2>4. CASE SedReads
      BY <2>1, <2>4 DEF SedReads
  <2>5. CASE SedReplaces
      BY <2>1, <2>5 DEF SedReplaces, Written
  <2> QED BY <1>1, <2>2, <2>3, <2>4, <2>5
<1>4. Typed'
    BY <1>1, <1>2, <1>3 DEF Typed
<1>5. Listed'
    BY <1>1, <1>2 DEF Listed
<1>6. Emitted'
    BY <1>1, <1>2 DEF Emitted, Untouched, OneLine, Quiet
<1>7. Exact'
    BY <1>1, <1>2 DEF Exact, Delivering, DeliveredTo, Handled, Quiet
<1> QED BY <1>4, <1>5, <1>6, <1>7 DEF IInv

(* A step of a reload emits nothing; where it closes the handler a loop    *)
(* holds, the loop goes on with it.  In the cdp subcommand no loop runs.   *)
LEMMA ReloadKeeps ==
    ASSUME Typed, Emitted, Exact, cmd = "cdp" => Quiet,
           UNCHANGED <<cmd, emitting, logged, wanted, written, printed, exported>>,
           held' = NoHandler <=> held = NoHandler, held'.kind = held.kind
    PROVE  Emitted' /\ Exact'
<1>1. Emitted'
    BY DEF Emitted, Untouched, OneLine, Quiet
<1>2. Exact'
    BY DEF Exact, DeliveredTo, Quiet
<1> QED BY <1>1, <1>2

(* Between two loads the loop and the reload are apart in cdp.             *)
LEMMA PollLoadInv == ASSUME IInv, Poll \/ Load PROVE IInv'
<1>1. /\ Typed /\ Listed /\ Emitted /\ Exact
      /\ UNCHANGED <<file, writes, spoiled, sed, cmd, handlers, emitting, held, logged,
                     wanted, written, printed, exported>>
    BY DEF IInv, Poll, Load, logVars, fileVars, emitVars, outVars
<1>2. cmd = "cdp" => Quiet
  <2>1. CASE Poll
      BY <2>1 DEF Poll, MayReload, Threaded
  <2>2. CASE Load
      BY <1>1, <2>2 DEF Load, Exact, Delivering
  <2> QED BY <2>1, <2>2
<1>3. Emitted' /\ Exact'
    BY <1>1, <1>2, ReloadKeeps
<1>4. CASE Poll
  <2>1. /\ reload = "idle" /\ reload' = "loading" /\ seen' = file.mtime
        /\ UNCHANGED <<handlers, generation, config>>
      BY <1>4 DEF Poll, logVars
  <2>2. seen' \in Nat
      BY <1>1, <2>1 DEF Typed
  <2>3. Typed'
      BY <1>1, <2>1, <2>2 DEF Typed
  <2>4. Listed'
      BY <1>1, <2>1 DEF Listed
  <2> QED BY <1>3, <2>3, <2>4 DEF IInv
<1>5. CASE Load
  <2>1. reload = "loading" /\ seen' = seen /\ config \in Config /\ generation \in {0, 1}
        /\ handlers = Added(config, generation)
      BY <1>1, <1>5 DEF Load, Listed, Typed
  <2>2. Found \in Body
      BY <1>1, ConfigIs DEF Typed, Found, Body
  <2>3. CASE Found.fault = "port"
    <3>1. reload' = "dead" /\ UNCHANGED <<config, generation>>
        BY <1>5, <2>3 DEF Load
    <3>2. Typed'
        BY <1>1, <2>1, <3>1 DEF Typed
    <3>3. Listed'
        BY <1>1, <2>1, <3>1, ConfigIs DEF Listed
    <3> QED BY <1>3, <3>2, <3>3 DEF IInv
  <2>4. CASE Found.fault # "port"
    <3>1. reload' = "removing" /\ config' = Found /\ generation' = 1 - generation
        BY <1>5, <2>4 DEF Load
    <3>2. Found \in Config \cup {BadPath}
        BY <2>2, <2>4, ConfigIs DEF Body
    <3>3. generation' \in {0, 1} /\ 1 - generation' = generation
        BY <2>1, <3>1
    <3>4. Typed'
        BY <1>1, <2>1, <3>1, <3>2, <3>3 DEF Typed
    <3>5. handlers' \in Leaving(1 - generation')
        BY <1>1, <2>1, <3>3 DEF Leaving
    <3>6. Listed'
        BY <3>1, <3>5 DEF Listed
    <3> QED BY <1>3, <3>4, <3>6 DEF IInv
  <2> QED BY <2>3, <2>4
<1> QED BY <1>4, <1>5

(* What is left of the old handlers when the first of them is gone.        *)
LEMMA TailLeaves ==
    ASSUME NEW g \in {0, 1}, NEW h \in Leaving(g)
    PROVE  /\ Len(h) = 1 => Tail(h) = <<>>
           /\ Len(h) # 1 => Tail(h) \in Leaving(g)
           /\ Head(h) = h[1] /\ h[1] \in Handler
<1> DEFINE s == StdoutOf(g)
           o == OtelOf(g)
<1>1. Ordered(h, g) /\ Len(h) \in 1..3
    BY LeavingOrdered
<1>2. h[1] \in Handler /\ Head(h) = h[1]
    BY <1>1 DEF Ordered
<1>3. {<<s, o>>, <<s>>, <<o>>} \subseteq Leaving(g)
    BY DEF Leaving
<1>4. CASE \E c \in Config : h = Added(c, g)
  <2>1. PICK f : h = <<f, s, o>> \/ h = <<f, s>>
      BY <1>4, AddedIs
  <2> HIDE DEF s, o
  <2>2. Tail(<<f, s, o>>) = <<s, o>> /\ Tail(<<f, s>>) = <<s>>
      OBVIOUS
  <2>3. Len(<<f, s, o>>) = 3 /\ Len(<<f, s>>) = 2
      OBVIOUS
  <2>4. CASE h = <<f, s, o>>
      BY <1>2, <1>3, <2>2, <2>3, <2>4
  <2>5. CASE h = <<f, s>>
      BY <1>2, <1>3, <2>2, <2>3, <2>5
  <2> QED BY <2>1, <2>4, <2>5
<1>5. CASE h \in {<<s, o>>, <<s>>, <<o>>}
  <2> HIDE DEF s, o
  <2>1. Tail(<<s, o>>) = <<o>> /\ Tail(<<s>>) = <<>> /\ Tail(<<o>>) = <<>>
      OBVIOUS
  <2>2. Len(<<s, o>>) = 2 /\ Len(<<s>>) = 1 /\ Len(<<o>>) = 1
      OBVIOUS
  <2>3. CASE h = <<s, o>>
      BY <1>2, <1>3, <2>1, <2>2, <2>3
  <2>4. CASE h = <<s>>
      BY <1>2, <2>1, <2>2, <2>4
  <2>5. CASE h = <<o>>
      BY <1>2, <2>1, <2>2, <2>5
  <2> QED BY <1>5, <2>3, <2>4, <2>5
<1> QED BY <1>4, <1>5 DEF Leaving

LEMMA RemoveInv == ASSUME IInv, Remove PROVE IInv'
<1>1. /\ Typed /\ Listed /\ Emitted /\ Exact
      /\ UNCHANGED <<file, writes, spoiled, sed, cmd, seen, generation, config, emitting,
                     logged, wanted, written, printed, exported>>
      /\ reload = "removing" /\ handlers' = Tail(handlers)
      /\ held' = IF held = Head(handlers) THEN [held EXCEPT !.open = FALSE] ELSE held
    BY DEF IInv, Remove, fileVars, outVars
<1>2. /\ generation \in {0, 1} /\ 1 - generation \in {0, 1} /\ 1 - generation # generation
      /\ config \in Config \cup {BadPath} /\ handlers \in Leaving(1 - generation)
    BY <1>1 DEF Typed, Listed
<1>3. /\ Ordered(handlers, 1 - generation) /\ Len(handlers) \in 1..3
      /\ Head(handlers) \in Handler
      /\ Len(handlers) = 1 => Tail(handlers) = <<>>
      /\ Len(handlers) # 1 => Tail(handlers) \in Leaving(1 - generation)
    BY <1>2, LeavingOrdered, TailLeaves
<1>4. held' \in Handler \cup {NoHandler} /\ held'.kind = held.kind
      /\ (held' = NoHandler <=> held = NoHandler)
  <2>1. NoHandler \notin Handler
      BY DEF NoHandler, Handler
  <2>2. \A h \in Handler : [h EXCEPT !.open = FALSE] \in Handler
                           /\ [h EXCEPT !.open = FALSE].kind = h.kind
      BY DEF Handler
  <2>3. held \in Handler \cup {NoHandler}
      BY <1>1 DEF Typed
  <2> QED BY <1>1, <1>3, <2>1, <2>2, <2>3
<1>5. Old = 1..Len(handlers)
    BY <1>2, <1>3 DEF Old, Ordered
<1>6. Cardinality(Old) = Len(handlers)
    BY <1>3, <1>5, FS_Interval
<1>7. reload' = IF Len(handlers) = 1 THEN "adding" ELSE "removing"
    BY <1>6 DEF Remove, OverCopy
<1>8. Typed'
    BY <1>1, <1>4, <1>7 DEF Typed
<1>9. Listed'
    BY <1>1, <1>3, <1>7 DEF Listed, Coming
<1>10. cmd = "cdp" => Quiet
    BY <1>1 DEF Exact, Delivering
<1>11. Emitted' /\ Exact'
    BY <1>1, <1>4, <1>10, ReloadKeeps
<1> QED BY <1>8, <1>9, <1>11 DEF IInv

LEMMA AddInv == ASSUME IInv, Add PROVE IInv'
<1>1. /\ Typed /\ Listed /\ Emitted /\ Exact
      /\ UNCHANGED <<file, writes, spoiled, sed, cmd, seen, generation, config, emitting,
                     held, logged, wanted, written, printed, exported>>
      /\ reload = "adding"
    BY DEF IInv, Add, StatFirst, fileVars, emitVars, outVars
<1>2. generation \in {0, 1} /\ config \in Config \cup {BadPath}
      /\ handlers \in Coming(config, generation)
    BY <1>1 DEF Typed, Listed
<1>3. cmd = "cdp" => Quiet
    BY <1>1 DEF Exact, Delivering
<1>4. Emitted' /\ Exact'
    BY <1>1, <1>3, ReloadKeeps
<1>5. CASE config = BadPath
  <2>1. reload' = "dead" /\ handlers' = handlers /\ handlers = <<>>
      BY <1>2, <1>5, ConfigIs DEF Add, Coming
  <2>2. Typed' /\ Listed'
      BY <1>1, <1>5, <2>1 DEF Typed, Listed
  <2> QED BY <1>4, <2>2 DEF IInv
<1>6. CASE config # BadPath
  <2> DEFINE f == FileOf(config.path, generation)
             s == StdoutOf(generation)
             o == OtelOf(generation)
             all == Added(config, generation)
             n == Len(handlers)
  <2>1. config \in Config /\ config.fault = "none" /\ config.otel \in BOOLEAN
      BY <1>2, <1>6, ConfigIs
  <2>2. all = IF config.otel THEN <<f, s, o>> ELSE <<f, s>>
      BY <2>1, AddedIs
  <2>3. NewOnes = 1..n /\ n \in Nat
    <3>1. Ordered(handlers, generation)
        BY <1>2, ComingOrdered
    <3>2. n \in Nat /\ DOMAIN handlers = 1..n
        BY <3>1 DEF Ordered
    <3>3. \A i \in 1..n : handlers[i].gen = generation
        BY <3>1 DEF Ordered
    <3> QED BY <3>2, <3>3 DEF NewOnes
  <2>4. Cardinality(NewOnes) = n
    <3> HIDE DEF n
    <3>1. Cardinality(1..n) = IF 1 > n THEN 0 ELSE n - 1 + 1
        BY <2>3, FS_Interval
    <3> QED BY <2>3, <3>1
  <2>5. handlers' = Append(handlers, all[n + 1])
        /\ reload' = IF n + 1 = Len(all) THEN "idle" ELSE "adding"
      BY <2>1, <2>4 DEF Add
  <2>6. handlers = <<>> \/ handlers = <<f>> \/ (config.otel /\ handlers = <<f, s>>)
    <3> HIDE DEF f, s
    <3>1. Coming(config, generation) =
            {<<>>} \cup {<<f>>} \cup (IF config.otel THEN {<<f, s>>} ELSE {})
        BY <1>6 DEF Coming, f, s
    <3> QED BY <1>2, <3>1
  <2>7. {<<>>, <<f>>} \subseteq Coming(config, generation)
        /\ (config.otel => <<f, s>> \in Coming(config, generation))
      BY <1>6 DEF Coming
  <2> HIDE DEF f, s, o, all, n
  <2>8. /\ Append(<<>>, f) = <<f>> /\ Append(<<f>>, s) = <<f, s>>
        /\ Append(<<f, s>>, o) = <<f, s, o>>
      BY Appended
  <2>9. \/ handlers' \in Coming(config, generation) /\ reload' = "adding"
        \/ handlers' = all /\ reload' = "idle"
    <3>1. /\ Len(<<f, s, o>>) = 3 /\ <<f, s, o>>[1] = f /\ <<f, s, o>>[2] = s
          /\ <<f, s, o>>[3] = o /\ Len(<<f, s>>) = 2 /\ <<f, s>>[1] = f /\ <<f, s>>[2] = s
          /\ Len(<<f>>) = 1 /\ Len(<<>>) = 0
        OBVIOUS
    <3>2. Len(all) = (IF config.otel THEN 3 ELSE 2) /\ all[1] = f /\ all[2] = s
          /\ (config.otel => all[3] = o)
        BY <2>2, <3>1
    <3>3. CASE handlers = <<>>
        BY <2>5, <2>7, <2>8, <3>1, <3>2, <3>3 DEF n
    <3>4. CASE handlers = <<f>>
      <4>1. n = 1 /\ handlers' = <<f, s>>
          BY <2>5, <2>8, <3>1, <3>2, <3>4 DEF n
      <4>2. CASE config.otel
        <5>1. Len(all) = 3 /\ n + 1 = 2
            BY <3>2, <4>1, <4>2
        <5>2. reload' = "adding"
            BY <2>5, <5>1
        <5>3. <<f, s>> \in Coming(config, generation)
            BY <2>7, <4>2
        <5> QED BY <4>1, <5>2, <5>3
      <4>3. CASE ~config.otel
        <5>1. Len(all) = 2 /\ n + 1 = 2 /\ all = <<f, s>>
            BY <2>2, <3>2, <4>1, <4>3
        <5>2. reload' = "idle"
            BY <2>5, <5>1
        <5> QED BY <4>1, <5>1, <5>2
      <4> QED BY <4>2, <4>3
    <3>5. CASE config.otel /\ handlers = <<f, s>>
      <4>1. n = 2 /\ handlers' = <<f, s, o>>
          BY <2>5, <2>8, <3>1, <3>2, <3>5 DEF n
      <4>2. Len(all) = 3 /\ n + 1 = 3 /\ all = <<f, s, o>>
          BY <2>2, <3>2, <3>5, <4>1
      <4>3. reload' = "idle"
          BY <2>5, <4>2
      <4> QED BY <4>1, <4>2, <4>3
    <3> QED BY <2>6, <3>3, <3>4, <3>5
  <2>10. Typed'
      BY <1>1, <2>9 DEF Typed
  <2>11. Listed'
      BY <1>1, <2>1, <2>9 DEF Listed, all
  <2> QED BY <1>4, <2>10, <2>11 DEF IInv
<1> QED BY <1>5, <1>6

(* --------------------------------------------------------------------- *)
(* A logging call                                                         *)

LEMMA LogInv == ASSUME IInv, NEW r \in Record, Log(r) PROVE IInv'
<1>1. /\ Typed /\ Listed /\ Emitted /\ Exact
      /\ UNCHANGED <<file, writes, spoiled, sed, cmd, seen, handlers, generation, config,
                     reload, held, logged, written, printed, exported>>
      /\ Quiet /\ r \notin logged /\ MayLog
      /\ emitting' = [record |-> r, index |-> 1]
      /\ wanted' = [wanted EXCEPT ![r] = config]
    BY DEF IInv, Log, fileVars, watcherVars, logVars, outVars
<1>2. held = NoHandler /\ emitting.index = 0 /\ Untouched(r)
    BY <1>1, Logging DEF Emitted
<1>3. config \in Config \cup {BadPath} /\ config \in Body /\ wanted' \in [Record -> Body]
      /\ wanted'[r] = config /\ \A q \in Record \ {r} : wanted'[q] = wanted[q]
    BY <1>1 DEF Typed, Body
<1>4. Typed'
    BY <1>1, <1>3 DEF Typed
<1>5. Listed'
    BY <1>1 DEF Listed
<1>6. emitting'.record = r /\ emitting'.index = 1 /\ ~Quiet'
    BY <1>1 DEF Quiet, Idle
<1>7. Emitted'
  <2>1. \A q \in Record : q \in logged' \/ Untouched(q)'
      BY <1>1, <1>2 DEF Emitted, Untouched
  <2>2. held'.kind # "file"
      BY <1>1, <1>2 DEF NoHandler
  <2>3. \A q \in Record : OneLine(q)'
      BY <1>1 DEF Emitted, OneLine
  <2> QED BY <1>1, <1>2, <1>6, <2>1, <2>2, <2>3 DEF Emitted
<1>8. Exact'
  <2> SUFFICES ASSUME cmd = "cdp" PROVE Exact'
      BY <1>1 DEF Exact
  <2>1. reload' \in {"idle", "dead"}
      BY <1>1 DEF MayLog, Threaded
  <2>2. Handled' = 0 /\ emitting'.index <= Len(handlers') + 1
    <3>1. Len(handlers) \in Nat
        BY <1>1, HandlersOrdered DEF Ordered
    <3> QED BY <1>1, <1>2, <1>6, <3>1 DEF Handled
  <2>3. DeliveredTo(r, 0)'
    <3>1. written[r] \in [Path -> Nat] /\ \A p \in Path : written[r][p] = 0
        BY <1>1, <1>2 DEF Typed, Untouched
    <3>2. written[r] = [p \in Path |-> 0]
        BY <3>1
    <3>3. printed[r] = 0 /\ exported[r] = 0
        BY <1>2 DEF Untouched
    <3> QED BY <1>1, <3>2, <3>3 DEF DeliveredTo
  <2>4. Delivering'
      BY <1>1, <1>2, <1>3, <1>6, <2>1, <2>2, <2>3 DEF Delivering
  <2>5. \A q \in logged' : wanted'[q] \in Config =>
            DeliveredTo(q, IF wanted[q].otel THEN 3 ELSE 2)'
    <3> SUFFICES ASSUME NEW q \in logged', wanted'[q] \in Config
                 PROVE  DeliveredTo(q, IF wanted[q].otel THEN 3 ELSE 2)'
        OBVIOUS
    <3>1. q \in logged /\ q \in Record \ {r}
        BY <1>1 DEF Typed
    <3>2. wanted'[q] = wanted[q]
        BY <1>3, <3>1
    <3>3. DeliveredTo(q, IF wanted[q].otel THEN 3 ELSE 2)
        BY <1>1, <3>1, <3>2 DEF Exact
    <3> QED BY <1>1, <3>2, <3>3 DEF DeliveredTo
  <2> QED BY <2>4, <2>5 DEF Exact
<1> QED BY <1>4, <1>5, <1>7, <1>8 DEF IInv

LEMMA TakeInv == ASSUME IInv, Take PROVE IInv'
<1>1. /\ Typed /\ Listed /\ Emitted /\ Exact
      /\ UNCHANGED <<file, writes, spoiled, sed, cmd, seen, handlers, generation, config,
                     reload, logged, wanted, written, printed, exported>>
      /\ ~Quiet /\ held = NoHandler /\ emitting.index <= Len(handlers)
      /\ held' = handlers[emitting.index]
      /\ emitting' = [emitting EXCEPT !.index = @ + 1]
    BY DEF IInv, Take, fileVars, watcherVars, logVars, outVars
<1>2. /\ emitting \in [record : Record, index : Nat \ {0}]
      /\ emitting.record \in Record /\ emitting.index \in Nat \ {0}
      /\ emitting.record \notin logged
    BY <1>1, Logging DEF Typed, Quiet, Emitted
<1>3. /\ emitting' \in [record : Record, index : Nat \ {0}]
      /\ emitting'.record = emitting.record /\ emitting'.index = emitting.index + 1
      /\ ~Quiet'
    BY <1>1, <1>2 DEF Quiet, Idle
<1>4. held' \in Handler /\ (held'.kind = "file" => emitting.index = 1)
  <2>1. PICK g \in {0, 1} : Ordered(handlers, g)
      BY <1>1, HandlersOrdered
  <2>2. emitting.index \in 1..Len(handlers)
      BY <1>1, <1>2, <2>1 DEF Ordered
  <2> QED BY <1>1, <2>1, <2>2 DEF Ordered
<1>5. Typed'
    BY <1>1, <1>3, <1>4 DEF Typed
<1>6. Listed'
    BY <1>1 DEF Listed
<1>7. Emitted'
  <2>1. \A r \in Record : r \in logged' \/ r = emitting'.record \/ Untouched(r)'
      BY <1>1, <1>3 DEF Emitted, Untouched
  <2>2. held'.kind = "file" => \A p \in Path : written'[emitting'.record][p] = 0
      BY <1>1, <1>2, <1>3, <1>4 DEF Emitted, Untouched
  <2>3. \A r \in Record : OneLine(r)'
      BY <1>1 DEF Emitted, OneLine
  <2>4. emitting'.index >= 2
      BY <1>2, <1>3
  <2> QED BY <1>1, <1>2, <1>3, <2>1, <2>2, <2>3, <2>4 DEF Emitted
<1>8. Exact'
  <2> SUFFICES ASSUME cmd = "cdp" PROVE Exact'
      BY <1>1 DEF Exact
  <2>1. Delivering
      BY <1>1 DEF Exact
  <2>2. held' # NoHandler
      BY <1>4 DEF Handler, NoHandler
  <2>3. Handled = emitting.index - 1 /\ Handled' = emitting.index - 1
      BY <1>1, <1>2, <1>3, <2>2 DEF Handled
  <2>4. emitting'.index - 1 = emitting.index
      BY <1>2, <1>3
  <2>5. config \in Config => /\ emitting'.index <= Len(handlers') + 1
                             /\ DeliveredTo(emitting.record, Handled)'
    <3> SUFFICES ASSUME config \in Config
                 PROVE  /\ emitting'.index <= Len(handlers') + 1
                        /\ DeliveredTo(emitting.record, Handled)'
        OBVIOUS
    <3>1. Len(handlers) \in Nat
        BY <1>1, HandlersOrdered DEF Ordered
    <3>2. DeliveredTo(emitting.record, Handled) /\ Handled' = Handled
        BY <2>1, <2>3 DEF Delivering
    <3>3. DeliveredTo(emitting.record, Handled)'
        BY <1>1, <1>3, <3>2 DEF DeliveredTo
    <3> QED BY <1>1, <1>2, <1>3, <3>1, <3>3
  <2>6. Delivering'
      BY <1>1, <1>3, <2>1, <2>3, <2>4, <2>5 DEF Delivering, DeliveredTo
  <2>7. \A q \in logged' : wanted'[q] \in Config =>
            DeliveredTo(q, IF wanted[q].otel THEN 3 ELSE 2)'
      BY <1>1 DEF Exact, DeliveredTo
  <2> QED BY <2>6, <2>7 DEF Exact
<1> QED BY <1>5, <1>6, <1>7, <1>8 DEF IInv

(* The i-th handler of a configuration in force takes the record.          *)
LEMMA HandlerAt ==
    ASSUME Typed, Listed, config \in Config, reload \in {"idle", "dead"}
    PROVE  /\ Len(handlers) = IF config.otel THEN 3 ELSE 2
           /\ handlers[1] = FileOf(config.path, generation)
           /\ handlers[2] = StdoutOf(generation)
           /\ config.otel => handlers[3] = OtelOf(generation)
<1> DEFINE f == FileOf(config.path, generation)
           s == StdoutOf(generation)
           o == OtelOf(generation)
<1>1. handlers = Added(config, generation)
    BY ConfigIs DEF Listed
<1>2. handlers = IF config.otel THEN <<f, s, o>> ELSE <<f, s>>
    BY <1>1, AddedIs
<1> HIDE DEF f, s, o
<1>3. CASE config.otel
  <2>1. handlers = <<f, s, o>>
      BY <1>2, <1>3
  <2>2. /\ Len(<<f, s, o>>) = 3 /\ <<f, s, o>>[1] = f /\ <<f, s, o>>[2] = s
        /\ <<f, s, o>>[3] = o
      OBVIOUS
  <2>3. Len(handlers) = 3 /\ handlers[1] = f /\ handlers[2] = s /\ handlers[3] = o
      BY <2>1, <2>2
  <2> QED BY <1>3, <2>3 DEF f, s, o
<1>4. CASE ~config.otel
  <2>1. handlers = <<f, s>>
      BY <1>2, <1>4
  <2>2. Len(<<f, s>>) = 2 /\ <<f, s>>[1] = f /\ <<f, s>>[2] = s
      OBVIOUS
  <2>3. Len(handlers) = 2 /\ handlers[1] = f /\ handlers[2] = s
      BY <2>1, <2>2
  <2> QED BY <1>4, <2>3 DEF f, s
<1> QED BY <1>3, <1>4

(* What handling does to the outputs of the record, by kind.               *)
LEMMA HandleIs ==
    ASSUME Typed, Emitted, Handle
    PROVE  LET r == emitting.record
               k == held.kind
           IN  /\ r \in Record /\ r \notin logged /\ held \in Handler
               /\ held' = NoHandler
               /\ written' \in [Record -> [Path -> Nat]]
               /\ printed' \in [Record -> Nat] /\ exported' \in [Record -> Nat]
               /\ \A q \in Record \ {r} : /\ written'[q] = written[q]
                                          /\ printed'[q] = printed[q]
                                          /\ exported'[q] = exported[q]
               /\ IF k = "file"
                  THEN /\ held.path \in Path
                       /\ written'[r] = [p \in Path |-> IF p = held.path THEN 1 ELSE 0]
                  ELSE written'[r] = written[r]
               /\ printed'[r] = IF k = "stdout" THEN printed[r] + 1 ELSE printed[r]
               /\ exported'[r] = IF k = "otel" /\ held.open THEN exported[r] + 1
                                 ELSE exported[r]
<1> DEFINE r == emitting.record
           k == held.kind
<1>1. /\ held # NoHandler /\ held' = NoHandler
      /\ written' = IF k = "file" THEN [written EXCEPT ![r][held.path] = @ + 1] ELSE written
      /\ printed' = IF k = "stdout" THEN [printed EXCEPT ![r] = @ + 1] ELSE printed
      /\ exported' = IF k = "otel" /\ held.open THEN [exported EXCEPT ![r] = @ + 1]
                                                ELSE exported
    BY DEF Handle
<1>2. r \in Record /\ r \notin logged /\ held \in Handler
    BY <1>1, Logging DEF Emitted, Typed
<1>3. /\ written \in [Record -> [Path -> Nat]]
      /\ printed \in [Record -> Nat] /\ exported \in [Record -> Nat]
      /\ printed[r] + 1 \in Nat /\ exported[r] + 1 \in Nat
    BY <1>2 DEF Typed
<1>4. k = "file" => held.path \in Path
    BY <1>2 DEF Handler
<1> HIDE DEF r, k
<1>5. /\ written' \in [Record -> [Path -> Nat]]
      /\ \A q \in Record \ {r} : written'[q] = written[q]
      /\ IF k = "file" THEN written'[r] = [p \in Path |-> IF p = held.path THEN 1 ELSE 0]
                       ELSE written'[r] = written[r]
  <2>1. CASE k = "file"
    <3> DEFINE w == [written[r] EXCEPT ![held.path] = @ + 1]
    <3>1. written' = [written EXCEPT ![r] = w]
        BY <1>1, <2>1
    <3>2. written[r] \in [Path -> Nat] /\ \A p \in Path : written[r][p] = 0
        BY <1>2, <1>3, <2>1 DEF Emitted, r, k
    <3>3. w = [p \in Path |-> IF p = held.path THEN 1 ELSE 0]
        BY <1>4, <2>1, <3>2
    <3>4. w \in [Path -> Nat]
      <4>1. [p \in Path |-> IF p = held.path THEN 1 ELSE 0] \in [Path -> Nat]
          OBVIOUS
      <4> QED BY <3>3, <4>1
    <3> HIDE DEF w
    <3> QED BY <1>2, <1>3, <2>1, <3>1, <3>3, <3>4 DEF r
  <2>2. CASE k # "file"
      BY <1>1, <1>3, <2>2
  <2> QED BY <2>1, <2>2
<1>6. /\ printed' \in [Record -> Nat]
      /\ \A q \in Record \ {r} : printed'[q] = printed[q]
      /\ printed'[r] = IF k = "stdout" THEN printed[r] + 1 ELSE printed[r]
    BY <1>1, <1>2, <1>3 DEF r
<1>7. /\ exported' \in [Record -> Nat]
      /\ \A q \in Record \ {r} : exported'[q] = exported[q]
      /\ exported'[r] = IF k = "otel" /\ held.open THEN exported[r] + 1 ELSE exported[r]
    BY <1>1, <1>2, <1>3 DEF r
<1> QED BY <1>1, <1>2, <1>4, <1>5, <1>6, <1>7 DEF r, k

LEMMA HandleInv == ASSUME IInv, Handle PROVE IInv'
<1> DEFINE r == emitting.record
<1>1. /\ Typed /\ Listed /\ Emitted /\ Exact
      /\ UNCHANGED <<file, writes, spoiled, sed, cmd, seen, handlers, generation, config,
                     reload, emitting, logged, wanted>>
      /\ held # NoHandler /\ held' = NoHandler
    BY DEF IInv, Handle, fileVars, watcherVars, logVars
<1>2. /\ r \in Record /\ r \notin logged /\ held \in Handler
      /\ written' \in [Record -> [Path -> Nat]]
      /\ printed' \in [Record -> Nat] /\ exported' \in [Record -> Nat]
      /\ \A q \in Record \ {r} : /\ written'[q] = written[q]
                                 /\ printed'[q] = printed[q]
                                 /\ exported'[q] = exported[q]
      /\ IF held.kind = "file"
         THEN written'[r] = [p \in Path |-> IF p = held.path THEN 1 ELSE 0]
         ELSE written'[r] = written[r]
      /\ printed'[r] = IF held.kind = "stdout" THEN printed[r] + 1 ELSE printed[r]
      /\ exported'[r] = IF held.kind = "otel" /\ held.open THEN exported[r] + 1
                        ELSE exported[r]
    BY <1>1, HandleIs
<1>3. ~Quiet /\ ~Quiet' /\ emitting.index \in Nat /\ emitting.index >= 2
    BY <1>1, Logging DEF Emitted, Quiet
<1>4. Typed'
    BY <1>1, <1>2 DEF Typed
<1>5. Listed'
    BY <1>1 DEF Listed
<1>6. Emitted'
  <2>1. \A q \in Record : q \in logged' \/ q = r \/ Untouched(q)'
      BY <1>1, <1>2 DEF Emitted, Untouched
  <2>2. held'.kind # "file"
      BY <1>1 DEF NoHandler
  <2>3. \A q \in Record : OneLine(q)'
    <3>1. \A q \in Record \ {r} : OneLine(q)'
        BY <1>1, <1>2 DEF Emitted, OneLine
    <3>2. OneLine(emitting.record)'
        BY <1>1, <1>2 DEF Emitted, OneLine
    <3> QED BY <1>1, <3>1, <3>2 DEF OneLine
  <2> QED BY <1>1, <1>2, <1>3, <2>1, <2>2, <2>3 DEF Emitted
<1>7. Exact'
  <2> SUFFICES ASSUME cmd = "cdp" PROVE Exact'
      BY <1>1 DEF Exact
  <2>1. Delivering
      BY <1>1, <1>3 DEF Exact
  <2>2. Handled = emitting.index - 2 /\ Handled' = emitting.index - 1
      BY <1>1 DEF Handled
  <2>3. ASSUME config \in Config PROVE DeliveredTo(r, Handled)'
    <3>1. /\ emitting.index - 1 \in 1..Len(handlers)
          /\ held = handlers[emitting.index - 1]
          /\ DeliveredTo(r, emitting.index - 2) /\ wanted[r] = config
      <4>1. Len(handlers) \in Nat
          BY <1>1, HandlersOrdered DEF Ordered
      <4> QED BY <1>1, <1>3, <2>1, <2>2, <2>3, <4>1 DEF Delivering
    <3>2. /\ Len(handlers) = IF config.otel THEN 3 ELSE 2
          /\ handlers[1] = FileOf(config.path, generation)
          /\ handlers[2] = StdoutOf(generation)
          /\ config.otel => handlers[3] = OtelOf(generation)
        BY <1>1, <2>1, <2>3, HandlerAt DEF Delivering
    <3>3. /\ config.path \in Path /\ config.otel \in BOOLEAN /\ generation \in {0, 1}
        BY <1>1, <2>3, ConfigIs DEF Typed
    <3> DEFINE f == FileOf(config.path, generation)
               s == StdoutOf(generation)
               o == OtelOf(generation)
    <3>4. /\ f.kind = "file" /\ f.path = config.path /\ s.kind = "stdout"
          /\ o.kind = "otel" /\ o.open
        BY <3>3, HandlerIs
    <3> HIDE DEF f, s, o
    <3>5. wanted'[r] = config /\ emitting'.record = r
        BY <1>1, <3>1
    <3> HIDE DEF r
    <3>6. CASE emitting.index = 2
      <4>1. held = f
          BY <3>1, <3>2, <3>6 DEF f
      <4>2. written'[r] = [p \in Path |-> IF p = config.path THEN 1 ELSE 0]
            /\ printed'[r] = printed[r] /\ exported'[r] = exported[r]
          BY <1>2, <3>4, <4>1
      <4>3. printed[r] = 0 /\ exported[r] = 0 /\ Handled' = 1
          BY <2>2, <3>1, <3>6 DEF DeliveredTo
      <4> QED BY <3>5, <4>2, <4>3 DEF DeliveredTo, r
    <3>7. CASE emitting.index = 3
      <4>1. held = s
          BY <3>1, <3>2, <3>7 DEF s
      <4>2. written'[r] = written[r]
            /\ printed'[r] = printed[r] + 1 /\ exported'[r] = exported[r]
          BY <1>2, <3>4, <4>1
      <4>3. /\ written[r] = [p \in Path |-> IF p = config.path THEN 1 ELSE 0]
            /\ printed[r] = 0 /\ exported[r] = 0 /\ Handled' = 2
          BY <2>2, <3>1, <3>7 DEF DeliveredTo
      <4> QED BY <3>5, <4>2, <4>3 DEF DeliveredTo, r
    <3>8. CASE emitting.index = 4
      <4>1. held = o
          BY <3>1, <3>2, <3>3, <3>8 DEF o
      <4>2. written'[r] = written[r]
            /\ printed'[r] = printed[r] /\ exported'[r] = exported[r] + 1
          BY <1>2, <3>4, <4>1
      <4>3. /\ written[r] = [p \in Path |-> IF p = config.path THEN 1 ELSE 0]
            /\ printed[r] = 1 /\ exported[r] = 0 /\ Handled' = 3
          BY <2>2, <3>1, <3>8 DEF DeliveredTo
      <4> QED BY <3>5, <4>2, <4>3 DEF DeliveredTo, r
    <3> QED BY <1>3, <3>1, <3>2, <3>3, <3>6, <3>7, <3>8
  <2>4. Delivering'
    <3>1. config' \in Config => DeliveredTo(emitting.record, Handled)'
        BY <1>1, <2>3
    <3> QED BY <1>1, <2>1, <3>1 DEF Delivering
  <2>5. \A q \in logged' : wanted'[q] \in Config =>
            DeliveredTo(q, IF wanted[q].otel THEN 3 ELSE 2)'
    <3> SUFFICES ASSUME NEW q \in logged', wanted'[q] \in Config
                 PROVE  DeliveredTo(q, IF wanted[q].otel THEN 3 ELSE 2)'
        OBVIOUS
    <3>1. q \in logged /\ q \in Record \ {r}
        BY <1>1, <1>2 DEF Typed
    <3>2. DeliveredTo(q, IF wanted[q].otel THEN 3 ELSE 2)
        BY <1>1, <3>1 DEF Exact
    <3>3. written'[q] = written[q] /\ printed'[q] = printed[q] /\ exported'[q] = exported[q]
        BY <1>2, <3>1
    <3> QED BY <1>1, <3>2, <3>3 DEF DeliveredTo
  <2> QED BY <2>4, <2>5 DEF Exact
<1> QED BY <1>4, <1>5, <1>6, <1>7 DEF IInv

LEMMA DoneInv == ASSUME IInv, Done PROVE IInv'
<1> DEFINE r == emitting.record
<1>1. /\ Typed /\ Listed /\ Emitted /\ Exact
      /\ UNCHANGED <<file, writes, spoiled, sed, cmd, seen, handlers, generation, config,
                     reload, held, wanted, written, printed, exported>>
      /\ ~Quiet /\ held = NoHandler /\ emitting.index > Len(handlers)
      /\ emitting' = Idle /\ logged' = logged \cup {r}
    BY DEF IInv, Done, fileVars, watcherVars, logVars, outVars
<1>2. r \in Record /\ emitting.index \in Nat
    BY <1>1, Logging
<1>3. Typed'
    BY <1>1, <1>2 DEF Typed
<1>4. Listed'
    BY <1>1 DEF Listed
<1>5. Emitted'
  <2>1. \A q \in Record : q \in logged' \/ Untouched(q)'
      BY <1>1 DEF Emitted, Untouched
  <2>2. held'.kind # "file"
      BY <1>1 DEF NoHandler
  <2>3. \A q \in Record : OneLine(q)'
      BY <1>1 DEF Emitted, OneLine
  <2>4. Quiet' /\ held' = NoHandler
      BY <1>1 DEF Quiet
  <2> QED BY <2>1, <2>2, <2>3, <2>4 DEF Emitted
<1>6. Exact'
  <2> SUFFICES ASSUME cmd = "cdp" PROVE Exact'
      BY <1>1 DEF Exact
  <2>1. \A q \in logged : wanted[q] \in Config =>
            DeliveredTo(q, IF wanted[q].otel THEN 3 ELSE 2)
      BY <1>1 DEF Exact
  <2>2. wanted[r] \in Config => DeliveredTo(r, IF wanted[r].otel THEN 3 ELSE 2)
    <3> SUFFICES ASSUME wanted[r] \in Config
                 PROVE  DeliveredTo(r, IF wanted[r].otel THEN 3 ELSE 2)
        OBVIOUS
    <3>1. Delivering /\ wanted[r] = config /\ config \in Config
          /\ reload \in {"idle", "dead"}
        BY <1>1 DEF Exact, Delivering
    <3>2. Len(handlers) = (IF config.otel THEN 3 ELSE 2) /\ Len(handlers) \in Nat
        BY <1>1, <3>1, HandlerAt
    <3>3. emitting.index = Len(handlers) + 1
        BY <1>1, <1>2, <3>1, <3>2 DEF Delivering
    <3>4. Handled = Len(handlers)
        BY <1>1, <3>2, <3>3 DEF Handled
    <3>5. DeliveredTo(r, Handled)
        BY <3>1 DEF Delivering
    <3> QED BY <3>1, <3>2, <3>4, <3>5
  <2>3. Quiet'
      BY <1>1 DEF Quiet
  <2>4. \A q \in logged' : wanted'[q] \in Config =>
            DeliveredTo(q, IF wanted[q].otel THEN 3 ELSE 2)'
    <3> HIDE DEF r
    <3>1. \A q \in logged' : wanted[q] \in Config =>
              DeliveredTo(q, IF wanted[q].otel THEN 3 ELSE 2)
        BY <1>1, <2>1, <2>2
    <3> QED BY <1>1, <3>1 DEF DeliveredTo
  <2> QED BY <2>3, <2>4 DEF Exact
<1> QED BY <1>3, <1>4, <1>5, <1>6 DEF IInv

LEMMA NextInv == IInv /\ [Next]_vars => IInv'
<1> SUFFICES ASSUME IInv, [Next]_vars PROVE IInv'
    OBVIOUS
<1>1. CASE (\E body \in Body : Edit(body)) \/ Delete \/ SedReads \/ SedReplaces
    BY <1>1, WriteInv
<1>2. CASE Poll \/ Load
    BY <1>2, PollLoadInv
<1>3. CASE Remove
    BY <1>3, RemoveInv
<1>4. CASE Add
    BY <1>4, AddInv
<1>5. ASSUME NEW r \in Record, Log(r) PROVE IInv'
    BY <1>5, LogInv
<1>6. CASE Take
    BY <1>6, TakeInv
<1>7. CASE Handle
    BY <1>7, HandleInv
<1>8. CASE Done
    BY <1>8, DoneInv
<1>9. CASE UNCHANGED vars
  <2>1. UNCHANGED <<file, writes, spoiled, sed, cmd, seen, handlers, generation, config,
                    reload, emitting, held, logged, wanted, written, printed, exported>>
      BY <1>9 DEF vars, fileVars, watcherVars, logVars, emitVars, outVars
  <2>2. Typed' /\ Listed'
      BY <2>1 DEF IInv, Typed, Listed
  <2>3. Emitted'
      BY <2>1 DEF IInv, Emitted, Untouched, OneLine, Quiet
  <2>4. Exact'
      BY <2>1 DEF IInv, Exact, Delivering, DeliveredTo, Handled, Quiet
  <2> QED BY <2>2, <2>3, <2>4 DEF IInv
<1> QED BY <1>1, <1>2, <1>3, <1>4, <1>5, <1>6, <1>7, <1>8, <1>9 DEF Next

(* The inductive invariant: what the logger's list can be at each step of  *)
(* a reload, and how far a logging call has got (logs.py:72-105).          *)
THEOREM Invariance == Spec => []IInv
BY InitInv, NextInv, PTL DEF Spec

(* Every variable keeps its type, and the logger has the handlers of the   *)
(* configuration in force, or none after a log that cannot be opened       *)
(* (logs.py:82-105).                                                       *)
THEOREM TypeCorrect == Spec => []TypeOK
<1>1. IInv => TypeOK
    BY DEF IInv, Typed, Listed, TypeOK, Body
<1> QED BY <1>1, Invariance, PTL

(* No record is in the history of GET /logs twice, for any number of       *)
(* records and reloads, and wherever a reload overtakes a logging call     *)
(* (logs.py:82-105).                                                       *)
THEOREM AppendedOnce == Spec => []AppendedAtMostOnce
<1>1. ASSUME IInv PROVE AppendedAtMostOnce
  <2> SUFFICES ASSUME NEW r \in Record
               PROVE  /\ \A p \in Path : written[r][p] <= 1
                      /\ Cardinality(Lines(r)) <= 1
      BY DEF AppendedAtMostOnce
  <2>1. OneLine(r)
      BY <1>1 DEF IInv, Emitted
  <2>2. CASE Lines(r) = {}
      BY <2>1, <2>2, FS_EmptySet DEF OneLine
  <2>3. CASE Lines(r) # {}
    <3>1. PICK p \in Path : p \in Lines(r)
        BY <2>3 DEF Lines
    <3>2. Lines(r) = {p}
        BY <2>1, <3>1 DEF OneLine, Lines
    <3>3. Cardinality(Lines(r)) = 1
        BY <3>2, FS_Singleton
    <3> QED BY <2>1, <3>3 DEF OneLine
  <2> QED BY <2>2, <2>3
<1> QED BY <1>1, Invariance, PTL

(* In the cdp subcommand every record goes, once, to each of the places    *)
(* that the configuration it was logged under names, however many reloads  *)
(* and records there are (logs.py:72-105, main.py:185-205, 562-577).       *)
THEOREM Delivered == Spec => []DeliveredAsConfigured
<1>1. ASSUME IInv, cmd = "cdp", NEW r \in logged, wanted[r] \in Config
      PROVE  /\ written[r] = [p \in Path |-> IF p = wanted[r].path THEN 1 ELSE 0]
             /\ printed[r] = 1
             /\ exported[r] = IF wanted[r].otel THEN 1 ELSE 0
  <2>1. DeliveredTo(r, IF wanted[r].otel THEN 3 ELSE 2)
      BY <1>1 DEF IInv, Exact
  <2>2. CASE wanted[r].otel
      BY <2>1, <2>2 DEF DeliveredTo
  <2>3. CASE ~wanted[r].otel
      BY <2>1, <2>3 DEF DeliveredTo
  <2> QED BY <2>2, <2>3
<1>2. IInv => DeliveredAsConfigured
    BY <1>1 DEF DeliveredAsConfigured
<1> QED BY <1>2, Invariance, PTL
=============================================================================
