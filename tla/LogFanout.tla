------------------------------ MODULE LogFanout ------------------------------
(***************************************************************************)
(* How a log record reaches the JSONL file, stdout and OpenTelemetry while *)
(* the configuration file is watched and reloaded (logs.py, apply_config   *)
(* and the watchers of main.py).  In the cdp subcommand everything runs on *)
(* one loop, so a reload never overlaps a logging call; in the tinyproxy   *)
(* subcommand the watcher is a thread, and the interpreter may switch      *)
(* between any two of the steps below.  The file is written by others: an  *)
(* operator, and the run script of the sibling service, whose `sed -i`     *)
(* reads the file and replaces it.  The loop over logger.handlers, by      *)
(* index and without a lock, and a FileHandler that reopens its file when  *)
(* it is used after its close are the logging library's.                   *)
(***************************************************************************)
EXTENDS Naturals, Sequences, FiniteSets

CONSTANTS Record,      \* records the application logs
          Path,        \* values of EVENT_LOG_PATH that can be opened
          DefaultPath, \* _DEFAULT_PATH
          NoPath,
          MaxWrites    \* bound: writes to the configuration file

ASSUME LogFanoutAssumption ==
    MaxWrites \in Nat /\ DefaultPath \in Path /\ NoPath \notin Path

VARIABLES
    cmd,        \* args.cmd: the subcommand, cdp or tinyproxy
    file,       \* the configuration file: what it says, and its mtime
    writes,     \* how often it has been written: the clock of mtime
    spoiled,    \* whether a write was one the watcher cannot follow
    sed,        \* what the sibling's sed has read, NotYet before, Replaced after
    seen,       \* last_mtime, 0 for None
    handlers,   \* logger.handlers
    generation, \* calls of configure, modulo 2: tells the new handlers from the old
    config,     \* _config
    reload,     \* the watcher: idle, the step of a reload it is at, or dead
    emitting,   \* the record the application is logging, with its loop index
    held,       \* the handler that loop has taken from the list
    logged,     \* records whose logging call has returned
    wanted,     \* wanted[r]: the configuration in force when r was logged
    written,    \* written[r][p]: lines for r in file p
    printed,    \* printed[r]: lines for r on stdout
    exported    \* exported[r]: records for r handed to OpenTelemetry

fileVars == <<file, writes, spoiled, sed>>
emitVars == <<emitting, held, logged, wanted>>
outVars == <<written, printed, exported>>
logVars == <<handlers, generation, config>>
watcherVars == <<cmd, seen, logVars, reload>>
vars == <<fileVars, watcherVars, emitVars, outVars>>

Config == [path : Path, otel : BOOLEAN, fault : {"none"}]
Faulty(f) == [path |-> NoPath, otel |-> FALSE, fault |-> f]
BadPort == Faulty("port")          \* a port that is no number
BadPath == Faulty("path")          \* a log path that cannot be opened
Body == Config \cup {BadPort, BadPath}

(* What a watcher finds in a file that is not there.                       *)
Defaults == [path |-> DefaultPath, otel |-> FALSE, fault |-> "none"]
Gone == [body |-> Defaults, mtime |-> 0]
NotYet == Faulty("notyet")
Replaced == Faulty("replaced")

Idle == [record |-> NoPath, index |-> 0]
NoHandler == [kind |-> "none", path |-> NoPath, gen |-> 0, open |-> FALSE]

(* The handlers configure adds, in this order.                             *)
OtelFirst(c, g) ==                                                \* mutant
    (IF c.otel THEN <<[kind |-> "otel", path |-> NoPath, gen |-> g, open |-> TRUE]>> ELSE <<>>)
    \o <<[kind |-> "file", path |-> c.path, gen |-> g, open |-> TRUE],
         [kind |-> "stdout", path |-> NoPath, gen |-> g, open |-> TRUE]>>
Added(c, g) ==
    <<[kind |-> "file", path |-> c.path, gen |-> g, open |-> TRUE],
      [kind |-> "stdout", path |-> NoPath, gen |-> g, open |-> TRUE]>>
    \o IF c.otel THEN <<[kind |-> "otel", path |-> NoPath, gen |-> g, open |-> TRUE]>> ELSE <<>>

(* main has applied the configuration once when the watcher starts.        *)
Init == /\ cmd \in {"cdp", "tinyproxy"}
        /\ config \in Config /\ generation = 0
        /\ file \in {[body |-> config, mtime |-> 1], Gone} /\ file.body = config
        /\ writes = 1
        /\ spoiled = FALSE /\ sed = NotYet /\ seen = 0
        /\ handlers = Added(config, 0)
        /\ reload = "idle"
        /\ emitting = Idle /\ held = NoHandler /\ logged = {}
        /\ wanted = [r \in Record |-> config]
        /\ written = [r \in Record |-> [p \in Path |-> 0]]
        /\ printed = [r \in Record |-> 0]
        /\ exported = [r \in Record |-> 0]

Quiet == emitting = Idle
Threaded == cmd = "tinyproxy"
MayReload == Threaded \/ Quiet
MayLog == Threaded \/ reload \in {"idle", "dead"}

-----------------------------------------------------------------------------
(* Others write the file                                                   *)

Written(body, mtime) == /\ writes <= MaxWrites /\ writes' = writes + 1
                        /\ file' = [body |-> body, mtime |-> mtime]

(* Two writes may fall within one tick of the file system's clock.         *)
Edit(body) ==
    /\ \E mtime \in {writes + 1} \cup ({file.mtime} \ {0}) :
          /\ Written(body, mtime)
          /\ spoiled' = (spoiled \/ body \notin Config \/ mtime = file.mtime)
    /\ UNCHANGED <<sed, watcherVars, emitVars, outVars>>

(* A watcher that has not seen the file yet does not miss it either.       *)
Delete ==
    /\ file # Gone /\ writes <= MaxWrites /\ writes' = writes + 1 /\ file' = Gone
    /\ spoiled' = (spoiled \/ seen = 0)
    /\ UNCHANGED <<sed, watcherVars, emitVars, outVars>>

(* The sibling's run script starts: sed reads the file; it writes a copy,  *)
(* with the placeholders replaced if there are any left, and renames it.   *)
SedReads ==
    /\ sed = NotYet /\ file # Gone /\ sed' = file.body
    /\ UNCHANGED <<file, writes, spoiled, watcherVars, emitVars, outVars>>

SedReplaces ==
    /\ sed \in Body /\ Written(sed, writes + 1) /\ sed' = Replaced
    /\ UNCHANGED <<spoiled, watcherVars, emitVars, outVars>>

-----------------------------------------------------------------------------
(* watch_config, watch_config_thread: a poll that finds another mtime      *)

Poll ==
    /\ reload = "idle" /\ MayReload /\ file.mtime # seen
    /\ seen' = file.mtime /\ reload' = "loading"
    /\ UNCHANGED <<cmd, logVars, fileVars, emitVars, outVars>>

(* from_file reads, after that look at the mtime; what is not there, now   *)
(* or then, gives the defaults.  Then apply_config.  A port that is no     *)
(* number raises out of the watcher before anything has changed.           *)
Found == IF seen = 0 THEN Defaults ELSE file.body

Load ==
    /\ reload = "loading"
    /\ IF Found.fault = "port"
       THEN reload' = "dead" /\ UNCHANGED <<config, generation>>
       ELSE /\ reload' = "removing" /\ config' = Found
            /\ generation' = 1 - generation
    /\ UNCHANGED <<cmd, seen, handlers, fileVars, emitVars, outVars>>

(* The next of the old handlers is removed and closed, over a copy of the  *)
(* list.  A logging call may hold it.                                      *)
Old == {i \in DOMAIN handlers : handlers[i].gen # generation}

InPlace == reload' = IF Cardinality(Old) <= 2 THEN "adding" ELSE "removing"  \* mutant
OverCopy == reload' = IF Cardinality(Old) = 1 THEN "adding" ELSE "removing"

Remove ==
    /\ reload = "removing"
    /\ handlers' = Tail(handlers)
    /\ held' = IF held = Head(handlers) THEN [held EXCEPT !.open = FALSE] ELSE held
    /\ OverCopy
    /\ UNCHANGED <<cmd, seen, generation, config, fileVars, emitting, logged, wanted, outVars>>

(* The next of the new ones is appended; a path that cannot be opened      *)
(* raises out of the watcher, with the old ones gone.  The mtime that will *)
(* be compared is the one of the poll, from before the file was read.      *)
NewOnes == {i \in DOMAIN handlers : handlers[i].gen = generation}

StatLate == seen' = file.mtime                                    \* mutant
StatFirst == seen' = seen

Add ==
    /\ reload = "adding"
    /\ IF config.fault = "path"
       THEN reload' = "dead" /\ UNCHANGED handlers
       ELSE LET all == Added(config, generation)
                n == Cardinality(NewOnes)
            IN  /\ handlers' = Append(handlers, all[n + 1])
                /\ reload' = IF n + 1 = Len(all) THEN "idle" ELSE "adding"
    /\ StatFirst
    /\ UNCHANGED <<cmd, generation, config, fileVars, emitVars, outVars>>

-----------------------------------------------------------------------------
(* A logging call of the application: callHandlers                         *)

Log(r) ==
    /\ Quiet /\ r \notin logged /\ MayLog
    /\ emitting' = [record |-> r, index |-> 1]
    /\ wanted' = [wanted EXCEPT ![r] = config]
    /\ UNCHANGED <<fileVars, watcherVars, held, logged, outVars>>

Take ==
    /\ ~Quiet /\ held = NoHandler /\ emitting.index <= Len(handlers)
    /\ held' = handlers[emitting.index]
    /\ emitting' = [emitting EXCEPT !.index = @ + 1]
    /\ UNCHANGED <<fileVars, watcherVars, logged, wanted, outVars>>

(* A closed OpenTelemetry provider drops what it is handed.                *)
Handle ==
    /\ held # NoHandler
    /\ held' = NoHandler
    /\ LET r == emitting.record
           k == held.kind
       IN  /\ written' = IF k = "file" THEN [written EXCEPT ![r][held.path] = @ + 1]
                                       ELSE written
           /\ printed' = IF k = "stdout" THEN [printed EXCEPT ![r] = @ + 1] ELSE printed
           /\ exported' = IF k = "otel" /\ held.open
                          THEN [exported EXCEPT ![r] = @ + 1] ELSE exported
    /\ UNCHANGED <<fileVars, watcherVars, emitting, logged, wanted>>

Done ==
    /\ ~Quiet /\ held = NoHandler /\ emitting.index > Len(handlers)
    /\ emitting' = Idle
    /\ logged' = logged \cup {emitting.record}
    /\ UNCHANGED <<fileVars, watcherVars, held, wanted, outVars>>

Next == \/ \E body \in Body : Edit(body)
        \/ Delete \/ SedReads \/ SedReplaces
        \/ Poll \/ Load \/ Remove \/ Add
        \/ \E r \in Record : Log(r)
        \/ Take \/ Handle \/ Done

Spec == Init /\ [][Next]_vars

(* The watcher polls once a second, and a logging call goes on.            *)
FairSpec == Spec /\ WF_vars(Poll \/ Load \/ Remove \/ Add)
                 /\ WF_vars(Take \/ Handle \/ Done)

-----------------------------------------------------------------------------
Lines(r) == {p \in Path : written[r][p] > 0}

(* Every variable keeps its type; between two reloads the logger has the   *)
(* handlers of the configuration in force, and after one that failed to    *)
(* open the log it has none (logs.py:82-105).                              *)
TypeOK ==
    /\ cmd \in {"cdp", "tinyproxy"}
    /\ file \in [body : Body, mtime : Nat] /\ writes \in Nat /\ spoiled \in BOOLEAN
    /\ sed \in Body \cup {NotYet, Replaced} /\ seen \in Nat
    /\ config \in Body /\ generation \in {0, 1}
    /\ reload \in {"idle", "loading", "removing", "adding", "dead"}
    /\ reload \in {"idle", "loading"} =>
          config \in Config /\ handlers = Added(config, generation)
    /\ reload = "dead" =>
          handlers = IF config = BadPath THEN <<>> ELSE Added(config, generation)
    /\ logged \subseteq Record
    /\ wanted \in [Record -> Body]
    /\ written \in [Record -> [Path -> Nat]]
    /\ {printed, exported} \subseteq [Record -> Nat]

(* However a reload interleaves, no record is in the history of GET /logs  *)
(* twice: every old handler is gone before the first new one is there, and *)
(* the file comes first, so a loop that is past it never meets another one *)
(* (logs.py:82-105).  A line on stdout can be repeated.                    *)
AppendedAtMostOnce ==
    \A r \in Record : /\ \A p \in Path : written[r][p] <= 1
                      /\ Cardinality(Lines(r)) <= 1

(* In the cdp subcommand every record goes, once, to the file, to stdout   *)
(* and to OpenTelemetry as the configuration in force asks, however many   *)
(* reloads there are, one that cannot be parsed included; only a log that  *)
(* cannot be opened leaves records nowhere to go (logs.py:72-105,          *)
(* main.py:185-205, 562-577).                                              *)
DeliveredAsConfigured == cmd = "cdp" =>
    \A r \in logged : wanted[r] \in Config =>
                    /\ written[r] = [p \in Path |-> IF p = wanted[r].path THEN 1 ELSE 0]
                    /\ printed[r] = 1
                    /\ exported[r] = IF wanted[r].otel THEN 1 ELSE 0

(* What the file says is in force in the end, without a restart, whenever  *)
(* it is written, replaced or deleted against the poll and the load; a     *)
(* write that cannot be applied, or that leaves the mtime as it was, is    *)
(* where this ends (main.py:562-577, README.md:49).                        *)
LatestApplied == <>[](spoiled \/ (reload = "idle" /\ config = file.body))

(* browser-trace/README.md:102, "Every application record is appended as   *)
(* one JSON object per line to EVENT_LOG_PATH": a record that has been     *)
(* logged is in some file.                                                 *)
EveryRecordAppended == \A r \in logged : Lines(r) # {}
=============================================================================
