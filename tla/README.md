# A TLA+ verification of chrome-live

chrome-live is a container that runs one Chrome behind a filtering proxy and
watches it: `src/browser-trace/` connects to Chrome's DevTools protocol (CDP),
records every tab, counts its traffic, reports its navigations and captchas,
serves thumbnails and recordings over HTTP, and ships logs. This directory
models that service, checks the models with TLC and proves the most important
properties with TLAPS. So is the start-up benchmark in `src/bench/`. File and
line references are to `src/browser-trace/` unless they name another directory.

- [The system](#the-system): components, state, interaction, what is hard
- [The modules](#the-modules) and how they correspond to the code
- [The runs](#the-runs): what each checks, its bounds, the fairness assumed
- [The proofs](#the-proofs)
- [Where comments and code disagree](#where-comments-and-code-disagree)
- [What is not modelled](#what-is-not-modelled) and [the plan](#the-plan)

## The system

### Processes

| process | started by | what it does |
|---|---|---|
| `browser-trace <conf>` (cdp) | s6 `browser-trace/run` | one asyncio loop: `run` (main.py:637) with the tasks `connect_cdp`, `watch_config`, `report_traffic`, an aiohttp server, one watchdog per recording and the captcha probes |
| `browser-trace tinyproxy` | s6 `tinyproxy-log/run` | main thread reads proxy log lines; a daemon thread watches the configuration |
| `browser-trace record --url` | a machine exec from outside | uploads one finalized recording and exits |
| Chrome, tinyproxy, otelcol, Xvnc, ... | s6 | the environment |

### Components

| component | state it keeps | operations | must be true |
|---|---|---|---|
| recording.py | `_active_recording_by_session`, per recording its frames directory, frame times, meta, watchdog task; `_recordings_dir` | `start_recording`, `handle_screencast_frame`, `stop_recording`, `stop_all`, `_recording_watchdog`, `configure` | one task finishes a recording; nothing captured is lost or left on disk; a tab is recorded for as long as it lives; a video and its sidecar are together |
| cdp.py | `_msg_id`, `_awaited`, `_dispatched` | `send`, `call`, `take_reply`, `close` | a call gets its own reply, or an error, in bounded time; tables do not leak |
| traffic.py | open and closed tabs, `_inflight`, process rollups | `open_tab`, `set_tab_url`, `bind_request_host`, `on_*`, `close_tab`, `close_all`, `snapshot` | totals are sums of their parts at every moment; deltas add up; bytes reach the host that served them |
| thumbnail.py | `_source`, `_cache`, `_lock` | `attach`, `detach`, `capture` | Chrome is not asked for the same picture twice; no frame of another connection or tab; every request is answered |
| main.py, navigation and captcha | `sessions`, `target_sessions`, `network_requests`, per session the main frame, pending responses, the probed address and what was reported | `handle_event`, `handle_response`, `probe_captcha`, `flush_pending` | each main-frame load is reported once and in order; requests are forgotten with their tab; a captcha is reported once per page |
| main.py, supervision | `_config`, the tasks | `run`, `connect_cdp`, `watch_config`, `apply_config` | a lost connection leaves nothing behind; SIGTERM drains and ends |
| logs.py, telemetry.py | the logger's handlers, `_path` | `configure`, `read_all`, `create_handler` | every record reaches the file, stdout and the exporter that are configured |
| server.py | none | `GET /health`, `/recordings`, `/recordings/{id}/video`, `/thumbnail`, `/traffic`, `/logs` | shows what is there |
| upload.py | none beyond one run | `newest_recording`, `put_recording` | whole video or nothing; stderr and exit status tell the truth |
| tinyproxy shipper | none | `classify_tinyproxy_line`, `run_tinyproxy` | every line becomes one record |
| container services | s6 dependencies, the state file of `switch-browser.sh`, one shared configuration file | boot, restart, switch | the chosen browser is the one that runs |
| `bench/` | a sandbox per platform, samples, a coprocess with its two pipes | hooks around `bench_main`, drivers, probes, watchdog | a sample is the latency of its own run; no sandbox is left running; the script ends |

### Interaction

`connect_cdp` owns the receive loop: it reads one message, awaits its handler,
reads the next. A handler may suspend in a `send` or, for a detach, in a whole
`stop_recording` with its ffmpeg. Handlers, HTTP requests, watchdogs, probes and
the configuration watcher share `sessions`, the recording registry, the traffic
tables and the `cdp.Connection` without locks; they interleave at awaits only.
The one lock is the thumbnailer's. In tinyproxy mode there are two real threads.
The upload process shares the recordings directory with the cdp process; both
long-lived processes share one log file and one configuration file.

### What is hard here

Order of messages against awaits (the frame tree's answer, responses and
`frameNavigated`; an answer of a probe against the next page), four ways to stop
one recording, cancellation as an exception that is no `Exception`, a timer
against a late reply, a reconnect while a screenshot, an encode or a download is
under way, a full host table, a reload in the middle of a logging call, a crash
between the frames and the video. `PROJECT.json` lists each with its line, and
the properties that cover it.

## The modules

| module | models | notes |
|---|---|---|
| `RecordingLifecycle` | what recording.py promises of a recording | abstract: begun once, finished once, published or dropped, never unpublished |
| `Recording` | recording.py, `connect_cdp`, `run`, the attach, detach and frame handlers | refines `RecordingLifecycle` |
| `CdpConnection` | cdp.py | |
| `Traffic` | traffic.py, `report_traffic` and the network handlers | |
| `Thumbnail` | thumbnail.py, `handle_thumbnail`, tabs and reconnects | |
| `Navigation` | document events, frame tree, captcha probes of main.py | |
| `LogFanout` | the configuration file, its writers and watchers, `apply_config`, `logs.configure` against logging calls | both subcommands, `cmd` tells which |
| `Upload` | upload.py and `run_record`, against a process that moves videos in | |
| `Screencast` | the frames of one recording: writes, acknowledgements, holds | |
| `Delivery` | `Screencast` and `Upload` composed: from frames to the bucket | each step is one of `Upload`'s or leaves it alone |
| `Bench` | `bench/lib.sh` with the drivers of Daytona, Modal and E2B | variables `platform` and `MODE` tell which |
| `RecordingProofs`, `CdpConnectionProofs`, `TrafficProofs`, `ThumbnailProofs`, `NavigationProofs`, `LogFanoutProofs`, `DeliveryProofs`, `BenchProofs` | theorems | each extends the module it is about; `DeliveryProofs` has those of `Upload` and `Screencast` too |
| `MC*` | instances for TLC: symmetry sets and functions given to constants | |

A definition marked `\* mutant` is not part of a model. It stands before the
definition it distorts and states a mistake the code could have contained; with
it in place of the definition, the run named in `PROJECT.json` must fail. That is
how each property is known to say something.

### Recording

An action is the code between two awaits. `loop` says what the receive loop is
suspended in (`enabling`: the three sends of an attach; `starting`: the two of
`start_recording`; `stopping`: the `stop_recording` of a detach; `dropping`:
`drop_session_state`), `main` how far `run` has come in its shutdown, and
`watchdog[r]` the state of a recording's timer. `active` is the registry,
`phase[r]` how far `r` has come:

    none -> starting -> recording -> stopping -> encoding -> stored | failed
                  \-> failed              \-> discarded             (lost)

`stopping` and `encoding` are recordings already popped from the registry, in the
hands of whoever popped them (`loopRec`, `mainRec` or the watchdog). The
synchronous beginning of `stop_recording` is `BeginStop`, used by the detach, the
watchdog, and both `stop_all`s; it goes on to `SendDone`, `EncodeOk` or
`EncodeFails`. `Lose` is what a `CancelledError` does there. `tmpDir`, `video` and
`sidecar` are the disk, which survives `Crash` and `Restart`. Frames are counted,
not drawn. A session id may attach again after its detach. The environment may close the websocket
at any moment. Time is abstract: a watchdog may fire whenever it sleeps. What becomes of one
recording's frames is in `Screencast`. An exception of another kind out of a
handler, which would end `connect_cdp` and with it `run`, is not modelled.

### CdpConnection

A command stands for its message id, which is never reused. `Issue` is
`call` up to its `ws.send`, `SendingDone` and `SendingFails` the end of that
send, `TimerFires` and `Expires` the two halves of `asyncio.wait_for`'s timeout
(the future is cancelled; later the coroutine runs again), `TakeReply` and
`Close` what the receive loop does. Replies in `wire` may still be read after the
socket closed. A call issued after `close` has run is possible: an HTTP handler
may hold the old connection.

### Traffic

Handlers run to completion, so an action is one CDP event with its handler:
`Start`, `Redirect`, `Respond`, `Data`, `Finish`, `Fail`, `Navigate`, `Attach`,
`Detach`, `Drop`, `ReportTraffic`. `served[h]` is what host `h` really sent: the
yardstick for the sums. Before `Network.enable` arrives Chrome may start any request, to any
host, and redirect it: its first event is then any of them, and its bytes go to the tab's own
host (`FallbackHost`), or to the hop before, until a response names it. `seen` tells whether the URL of a request's
current hop was reported, `blind` counts the bytes that came while it was not. `CanReconnect`
lets requests outlive a connection.

### Thumbnail

`capture` is split at its awaits: the lock, the layout metrics, the screenshot.
`chosen[q]` are the local variables `source` and `session_id` read before the
lock. `rendering` are the screenshots Chrome works on: a call that times out gives up the reply and the
lock, but not Chrome's work (`CallFails`), so `Shoot` may still render for a request that has been answered,
and drops that frame. `answer[q]` is what the client got: the status, the frame with its tab, and
whether it came from the cache.
A command on a closed socket raises an exception no handler names: status 500.

### Navigation

An action is one thing Chrome does, together with the handlers of the message it
sends. Commands (`Network.enable`, `Page.getFrameTree`, `Runtime.evaluate`)
arrive later, which is where the orders come from. `reported`, `failed`
and `detected` are what was emitted, never reset; `seen` what there was to emit. A detection says of which
document it is and whether it came `early`, before that document's DOMContentLoaded. `Drop` clears the
sessions in one step, although in the code `stop_all` runs first; handlers do not
run in between, and probes that do are still for sessions that end with it.

### LogFanout

`file` is the configuration file with its mtime; an operator writes, replaces or
deletes it (`Edit`, `Delete`), and so does the sibling service's `sed -i`, which
reads first and replaces later (`SedReads`, `SedReplaces`). A write may say a port
that is no number or a log path that cannot be opened. The watcher looks at the
mtime (`Poll`), reads and parses (`Load`), then `configure` removes and adds
handlers one by one (`Remove`, `Add`); `reload` tells how far it is, or that an
exception has killed it. `callHandlers` walks the same list by index (`Log`,
`Take`, `Handle`, `Done`). In tinyproxy mode (`cmd`) the two are threads and
interleave freely; in cdp mode a reload and a logging call exclude each other.
`spoiled` remembers that a write was one the watcher cannot follow: unusable, in
the same tick of the clock as the one before, or a removal before the first poll.

### Screencast

Chrome numbers its frames and has at most `Window` of them unacknowledged.
`Written`, `WriteFails` and `Ignored` are `handle_screencast_frame`; a failed write may
leave a file under the number the next frame will take. An acknowledgement is a
task of its own (`acking`, `AckSent`), so it may still be sent after the stop.
`Stop`, `StopSent` and `Encoded` are `stop_recording`: files and times are paired in
order, the holds clamped on both sides.

### Upload

The cdp process goes on finalizing recordings in any order (`Finalize`), by a
rename or, between two file systems, by a copy that grows (`Copy`), while the
upload picks one by name order, i.e. by start. A copy need not go on: that is a crash.
The body is a sequence of chunks and an attempt may break at any of them, or after
the server has stored the object.

### Delivery

`Move` joins the two: ffmpeg's output is moved into the directory the upload reads.
The other recordings arrive next to it.

### Bench

The shell (`pc`: the hook it is in), the driver and the provider run side by
side. A hook is the sequence of commands it writes (`todo`); `Issue` writes one,
`Read` takes a line off the other pipe and judges it by `Accepted`, which is
where the platforms differ: `ctl` takes any line that begins with OK
(daytona.sh:68), modal.sh compares the line with the one it expects. E2B has no
coprocess: a command is a process, its answer the exit status, and the shell
waits for it without a limit; a signal is handled when it has ended (`Interrupted`).
`ReadTimesOut` is `read -t`: the answer will still come, and `late` counts those
nobody waits for. `Failed` is what `set -e`, `||` and `if` make of a failure in
each hook. A call is `Take`, what the provider does for it (`DaytonaWork`, `ModalWork`, `E2BWork`), then
`Answer`; an error may come with
the work done or not, and a call may hang before or after it. On Modal the setup, the first snapshot and every
trigger create a sandbox: setup ends its own (`WarmedUp`), the snapshot too (`cmd_snapshot`, or
`Discard` after a failure was told), and a trigger begins with `_terminate_current`, whose errors are
swallowed. `box` is the latest sandbox, `stray` that an earlier one still runs. `CreateSandbox` and `_record`
are the two steps of a creation, `named` says whether `_state["current"]`, or for E2B the state file,
holds the sandbox, `missed` whether one was created and not recorded, or an end of one failed. A probe over the
public address has the coprocess pipes closed but keeps the pipe of its own
`$(_spawn_probe ...)` open, so the two such probes run one after the other
(`External`, `Novnc`). The EXIT trap exists from the end of `bp_setup` on (lib.sh:262).
`WatchdogFires`, `WatchdogTerminates` and `WatchdogKills` are the three signals of
`_install_watchdog`.

## The runs

`tlc -config X.cfg MCmodule` in this directory. "States" are distinct states.

| cfg | checks | bounds | states |
|---|---|---|---|
| `MCRecording` | type and eight safety properties, the refinement | 2 sessions, 2 recordings, 2 directories, 1 frame, crashes | 108 275 |
| `MCRecordingLive` | `ComesToRest` (`EverySettles`, `ShutdownCompletes`) under `FairSpec` | as above, 1 directory, no crash | 285 382 |
| `MCCdpConnection` | `WaitersReachable`, `OwnReply`, `TablesBounded`, `FutureSetOnce`, `EveryCallEnds` | 2 calls, 2 sends | 468 234 |
| `MCTraffic` | `Conservation`, `DeltasAddUp`, `InflightScoped`, `HostFloor` | 2 tabs, 2 requests of 2 hops, 2 hosts and room for 1, bytes 0 or 1 | 1 276 337 |
| `MCLogFanout` | `DeliveredAsConfigured` in cdp mode, `AppendedAtMostOnce` in both, `LatestApplied` | 1 record, 2 paths, 2 writes of the file and the sibling's `sed` | 1 791 204 |
| `MCThumbnail` | `NoStampede`, `CacheOfConnection`, `ShowsChosenTab`, `EveryRequestAnswered` | 2 requests, 2 tabs, 2 connections, 1 tick | 78 600 |
| `MCNavigation` | `NavigationsExact`, `LoadedOrFailed`, `RequestsScoped`, `OncePerPage` | 1 tab, 3 documents of 2 addresses, 1 vendor, 2 probes | 1 312 765 |
| `MCUpload` (module `Delivery`) | `VideoIsCapture`, `TimelineKept`, `StallsOnlyByFailure`, `TellsTheTruth`, `Ends` | 3 frames, window 2, holds 1 to 2, 3 ticks; 2 recordings of 2 chunks, 2 attempts | 1 000 730 |
| `MCBench` | `InStep`, `SampleOfRun`, `TornDown`, `BenchEnds` | 3 platforms, 2 modes, 2 timed runs, 2 late answers | 471 895 |
| `MCRecordingLost` | `CapturedIsFinalized`, violated | 1 session, 1 recording | - |
| `MCTrafficFloor` | `Floor`, violated | as `MCTraffic`, with reconnects (`CanReconnect`) | - |
| `MCLogFanoutLost` | `EveryRecordAppended`, violated | as `MCLogFanout`, 1 write | - |

Why the bounds are enough. Two recordings and two sessions let one recording end
while another runs, one session be recorded twice and a watchdog outlive its
recording; two frames are no different from one there, since only "none" and "some"
are told apart. Two calls and two sends let replies come in either order and a call
overtake another. Two hosts with room for one fill the table; two hops are a redirect; a
byte is enough to see a sum differ. Two requests give one that holds the lock and
one that waits, or that arrives when the first is gone. Three documents are a page, its
reload (same address) and an iframe or another page. One record is enough for the logs, since
logging calls follow one another and leave nothing behind for the next; two writes and the `sed`
put three versions of the file between a poll and its load, and let a reload follow one that failed.
Three frames with a window of two stall Chrome, and have a first, a middle and a
last frame with gaps below, within and above the holds; one retry has all an attempt
can find left by an earlier one (the code makes three attempts). Two timed
runs let an answer of one be read in the next, and two late
answers put the pipes two lines out of step. The
proofs below remove the bounds for the properties they cover.

`MCRecording` and its two sisters check for deadlock: a service that runs for ever. The
other models are finite episodes (identifiers are used up), so their runs say
`CHECK_DEADLOCK FALSE`.

Symmetry is used where sessions, recordings, requests and the like are
interchangeable, and never in a run that checks liveness, which is why the
connection and the thumbnail are checked without it.

### Fairness

`Recording!Fairness`. The loop runs every task that is ready (weak fairness of
`LoopStep`, `MainStep`). A send that is suspended returns or raises in the end,
because `websockets` pings its peer and closes a dead link (its default
keepalive, which main.py:623 leaves on). ffmpeg ends: its input is a finite list
of files. A watchdog's sleep expires. A cancellation is thrown at whatever await the
task stands at: as the loop may go from one await to the next before `run` gets
there, the four `Cancel` actions together are strongly fair; `Task.cancel` is
called once and always hits. Not assumed: that Chrome connects, that tabs open
or close, that the websocket closes, that a SIGTERM comes.

`CdpConnection!FairSpec`. A call that can run does, and its timer fires; nothing
is assumed of Chrome. `Thumbnail!FairSpec`: each request's commands end
within their timeout (which `CdpConnection` establishes) and the loop wakes the first in the queue.
`Delivery!FairSpec`: an attempt ends, by aiohttp's total timeout (upload.py:25); nothing
is assumed of the recording. `LogFanout!FairSpec`: the watcher polls (every second,
main.py:562) and a logging call goes on; nothing is assumed of those who write the file.
`Bench!FairSpec`: the shell reads and writes on, and the watchdog's three sleeps
expire (lib.sh:224-234), one fairness condition each since a process that answers for ever must not
hide them; nothing is assumed of driver, provider or probes.

## The proofs

`tlapm M.tla` for each `M` of `*Proofs`. The theorems hold for
every value of the constants that meets the named assumption of the module: null values
are no members of their sets, bounds are numbers, a limit that must not be zero is not, and tabs, requests and hosts
of `Traffic`, which it sums over, are finite sets. Each
safety theorem comes from an inductive invariant that is stronger than the property; what
it adds is what the property silently relies on.

| theorems | property |
|---|---|
| `RecordingProofs`: `TypeCorrect`, `ActiveExact`, `OneFinisherAtATime`, `WatchdogGuards`, `CleanReconnect`, `CastConsumed`, `FramesReclaimed`, `SidecarWithVideo`, `WholeLifetime`; `Refinement` | `TypeOK`, `ActiveIsExact`, `OneFinisher`, `WatchdogExact`, `NothingSurvivesDisconnect`, `ScreencastConsumed`, `FramesDirReclaimed`, `SidecarBesideVideo`, `RecordsWholeLifetime`; `ImplementsLifecycle` |
| `CdpConnectionProofs`: `WaitersAlwaysReachable`, `RepliesMatch`, `TablesDoNotLeak`, `FuturesSetOnce` | `WaitersReachable`, `OwnReply`, `TablesBounded`, `FutureSetOnce` |
| `TrafficProofs`: `TypeCorrect`, `EntriesGoWithTheirTab`, `DeltasSum`, `CountsAgree`, `HostsNotOverbilled` | `TypeOK`, `InflightScoped`, `DeltasAddUp`, `Conservation`, `HostFloor` |
| `ThumbnailProofs`: `NoSecondRender`, `CacheFollowsConnection`, `ChosenTabShown` | `NoStampede`, `CacheOfConnection`, `ShowsChosenTab` |
| `NavigationProofs`: `NavigationsInOrder`, `NeverBoth`, `RequestsStayScoped`, `CaptchaOncePerPage` | `NavigationsExact`, `LoadedOrFailed`, `RequestsScoped`, `OncePerPage` |
| `LogFanoutProofs`: `TypeCorrect`, `AppendedOnce`, `Delivered` | `TypeOK`, `AppendedAtMostOnce`, `DeliveredAsConfigured` |
| `DeliveryProofs`: `Truthful` of `Upload`, `DeliveryTruthful` of `Delivery` | `TellsTheTruth` |
| `DeliveryProofs`: `CapturedInOrder`, `PlaysAsLong`, `OnlyFailuresStall`; `DeliveryIsUpload` | `VideoIsCapture`, `TimelineKept`, `StallsOnlyByFailure`; `UploadSpec` |
| `BenchProofs`: `CommandsAnsweredInStep`, `SamplesOfTheirRun`, `NothingLeftRunning` | `InStep`, `SampleOfRun`, `TornDown` |

**Recording.** `TypeCorrect` is inductive by itself. The safety invariants are
not: that a recording has one finisher depends on the registry, on what the
receive loop has in hand in each of its states, and on `run` starting its own
`stop_all` only when the loop has ended. `IInv` adds

- `Registry`: a registered recording belongs to its session and is starting or running, and conversely;
- `LoopControl`, `MainControl`: what `loopRec`, `mainRec` and `tab` may be in each control state;
- `Disconnected`: what is left when the connection is gone;
- `Handed`: who holds a recording that was popped, and that nobody else does.

`Invariance` has a lemma per task (`LoopStepInv`, `StopStepInv`,
`WatchdogStepInv`, `FinishStepInv`, `MainStepInv`, `OtherStepInv`); what the
four callers of `stop_recording` share is in `StopTypes`, `StopEffect` and
`StopKeeps`. From `IInv` follow the safety theorems; those of the disk, `FramesReclaimed` and
`SidecarWithVideo`, need one more invariant on top of it, `OnDisk`, which ties each
recording's phase to its directory, video and sidecar (`DiskOf`), and holds step by step given
who holds the recording. `WholeLifetime` rests on `Unmarked`: a recording is marked as timed out only
when it is stopped for that. `Refinement` shows that a
step of `Recording` is a step of `RecordingLifecycle` or a stutter: a recording
changes stage alone (`OneMoves`) except when a cancellation, an exit or a crash
gives up several at once (`ManyLost`), which `Drop(S)` is for.

**CdpConnection.** `IInv` adds to the checked properties that a command is answered at
most once (`AnsweredOnce`: it is at Chrome, on the wire or taken, never two of
these) and that the state of a call's future agrees with what has been answered
(`OwnFuture`). `RepliesMatch` needs both. `FuturesSetOnce` is an action property from the same
invariant.

**Traffic.** `Counted` says what the deltas rest on: of each tab what was emitted is what
is marked as reported, never more than was pulled, and all of it once the tab is closed.

`CountsAgree` is about sums over tables whose rows come and go: `SumIsPart`, `SumGrows`, `SumChange`
and `SumMonotonic` say what a sum over a finite set does when one row is added, changes, or all
grow. They are proved once, by well-founded induction on the set itself (`SubsetInd`), and `AddedTable`
applies them to the three tables an event is booked in. `Conservation` is not inductive: that no tab
saw more of a host than the rollup that names it needs `HostsTracked`, that a host in a tab's table is in
the rollup's too unless the rollup was full before; otherwise the rollup could take a host up late that
a tab has counted already. The sums are finite because the tabs, requests and hosts of one process are, which
`TrafficAssumption` says.

`HostsNotOverbilled` says two things: the process total is never more than what was served, so no byte is
counted twice; and no host's total is more than it served and the `blind` bytes together. Those bytes
are an exception of the code, not of the model: a tab opened onto an address that redirects, or requests already
under way when the service attaches, are billed to the tab's own host or to the first hop (traffic.py:325-337),
and the property says that nothing else is. At any moment the rollup
may be behind, so the invariant `Covered` adds to a total what `loadingFinished` will still book for
the requests under way (`Owed`, which counts a request nobody has seen against every host): the sum stays below
what is on the wire. `Attributed` says which host a request's bytes go to: that of the hop, once it was seen,
by its in-flight entry. The theorem assumes that no page outlives
its connection (`~CanReconnect`), as `MCTraffic` does: it holds when the connection ends because Chrome
exits. A page that does outlive it is a new tab to the next connection, with what is still under way
counted from its start; `MCTrafficFloor` shows what that does to the sums.

**Thumbnail.** `NoSecondRender` is not that Chrome draws one screenshot at a time: it may be at several once
calls have timed out, since each gives up the lock and not the rendering. What holds is that two at once take
a timeout, and that none is asked for while a fresh one is cached. `Held` says that only the lock's holder waits
for Chrome, `Drawn` that whatever else Chrome is at was given up by a timeout or with its connection,
`Missed` that the holder found nothing cached. The lock's queue holds each waiting request once and no other
(`QueueExact`), so that a wake-up hands the lock to one; and `Progress` says what a request has in hand
by how far it has come (`Progress`), so that the frame which is cached or served is one of its own
source and tab.

**Navigation.** `Tracked` says that a tracked request is of an open session with Network enabled,
`Remembered` that of each detection so far, as long as its document is shown, the session still remembers the kind if
it was reported since the latest arming (`Noted`). `OncePerPage` alone is not inductive: it does not say why a
late answer of an earlier probe adds nothing. It allows one early and one late report of a captcha, as the
code does (see below).
For the navigations `Told` adds that pending and reported responses are of documents that answered and were
not reported as failed (`Reportable`), that an open tab whose main frame is unknown has reported nothing, and one
whose main frame is known holds nothing back. What the loop of `flush_pending` keeps is the recursive function
in `OnlyIn`; that it exists, and that it follows a response appended to the queue (`OnlyInAppend`), is
proved by induction on the number of responses it has seen.

**LogFanout.** `Listed` says what `logger.handlers` can be at each step of a reload: the handlers of the
configuration in force, what is left of the old ones, or the first of the new ones, in the order `configure`
adds them and never a mixture. So a file handler is only ever first (`HandlersOrdered`), and a loop
that is past the first index meets no other; `Emitted` says that a record whose file
handler is about to be used has no line yet. `Exact` says how far down the list a call of the cdp subcommand
has got, which is enough as no step of a reload comes between two of its steps (`Delivering`).

**Upload, Delivery.** `Pieces` says that what has gone out in an attempt and what is still
to go make up the file as it was picked. `DeliveryProofs` has the invariants of `Screencast`:
`Wired` (frames are handled in order), `Accounted` (where each unacknowledged frame is) and
`Filing` (the first `count` files are the written frames, and at most one more is what a failed write
left). `TimeInv` adds that frames are stamped in order and that each is held as long as the gap to the next, within the
limits; `PlaysAsLong` sums these by induction on the frames: the holds up to a frame are at most the time to it and
one least hold each, and as long as no gap is cut, no less. `DeliveryIsUpload` then gives `DeliveryTruthful` from `Truthful`.

**Bench.** `Shell` and `Pipes` are types, with the commands each hook may issue;
with them `InStep` is inductive. For `SampleOfRun` what is in the pipes must be tied to the
run: while no answer is late, everything in them is the command the shell waits for, of this run
(`Alone`); with late answers on Modal the shell either still probes the boot whose
probe was late (`Probing`), or the next answer it reads is one that names a probe, which it rejects, so
that it will not get to a sample (`Doomed`); `Triggered` and `Up` carry the run from the
trigger's work to the probe's. `NothingLeftRunning` needs two arguments. On Modal and E2B, where one late
answer already defeats the teardown, `TInv` covers the case that none is: one command is out, in one place
(`OneOut`); the teardown has ended the sandbox once its command has been carried out (`Ending`, `Gone`); and a
sandbox that runs is the one written down, or just being created, warmed up or thrown away (`Recorded`,
`Making`). On Daytona one answer may be late: `DInv` follows the delete through the pipes (`Closing`: it is
carried out, answered, or ahead of the quit by as many answers as are late), so that by the time the shell has read an answer
to `quit` the delete has been carried out (`Closed`); `Warns` says that a delete that failed is told.

Model-checked only:

- liveness (`ComesToRest`, `EveryCallEnds`, `EveryRequestAnswered`, `LatestApplied`, `Ends`,
  `BenchEnds`): fairness and ENABLED are beyond the prover.

Every invariant and every action property that a run checks is also proved.

## Where comments and code disagree

Each of these has a run that TLC must find violated; the quotations are in `PROJECT.json`.

1. `MCRecordingLost`: a SIGTERM during a stop or an encode loses the recording,
   while a recording nobody has begun to stop is finalized properly.
2. `MCTrafficFloor`: after a reconnect a request still loading is counted
   twice, so the totals are no floor.
3. `MCLogFanoutLost`: in tinyproxy mode a line logged during a reload is not appended; the
   watcher's first poll, which always reloads, is enough.

Noticed while modelling, in the models but without a property of their own:

- the first load of a tab, when it fails before the frame tree has answered, is
  tagged as an iframe's (main.py:536-537, 553): a failure is not held back as a response is;
- after one read of Daytona's driver has timed out, every command takes the answer of
  the command before it, and a run can be reported as ready while its
  `stop` is under way (daytona.sh:59-69); the storage probe of the setup may time
  out without ending the script, since both limits are 60 s. `SampleOfRun` leaves
  this case out for Daytona, and holds for Modal without exception;
- a bench that fails or is timed out in `bp_setup` says that it tears down
  (lib.sh:240) but has no trap yet: the sandbox stays;
- the two probes over the public address are not concurrent (lib.sh:106-116, 160-161);
- the sidecar of a timed-out recording without frames (recording.py:262) is
  listed nowhere, since `GET /recordings` goes by the videos (server.py:53);
- `call` on a closed socket raises a third exception (cdp.py:67) than the two its
  docstring names (cdp.py:59-61), and `GET /thumbnail` answers 500 for it;
- the bytes and the count of a redirected request are on different hosts
  (traffic.py:139, 301-302);
- a request that chose its tab, then waited for the lock while another tab came in
  front, is served the old one's cached frame (thumbnail.py:60-70 against 64);
- a captcha that an older page's probe reports between a page's commit and its DOMContentLoaded is reported
  once more by the page's own probes, since `schedule_captcha_probe` forgets what was reported
  (main.py:289-294 against "at most once per navigation" of 131-133); `OncePerPage` tells the two apart;
- a thumbnail whose call timed out leaves Chrome rendering, and the next request starts a second
  screenshot of the slow tab (cdp.py:67-70, thumbnail.py:62-73);
- bytes of a request whose URL was not reported, because it began or was redirected before `Network.enable`,
  are billed to the tab's own host or to the hop before (traffic.py:148, 165, 325-337): `blind` in `HostFloor`;
- an upload from a directory that is another file system than the recordings' temporary one may pick a video that is
  still being copied, and exits 0 (recording.py:353, upload.py:52-66, README.md:85);
- a captcha is reported with the address of the last page probed when the answer
  arrives, which may be empty or another page's (main.py:239-240, 398);
- the upload takes the recording started last, which need not be the one
  "most recently finalized" of its docstring (upload.py:33-35);
- README.md:49 has the configuration polled every 2 seconds, the code every 1.0 (main.py:562);
- a configuration file removed before the watcher's first poll leaves its configuration in force,
  since `last_mtime` is still None (main.py:572-575), and one written twice within a tick of
  the clock is read once;
- a configuration whose port is no number, or whose log path cannot be opened, ends the
  watcher without a word until the shutdown: then `await watcher` raises in `run`'s `finally`
  (main.py:666-671), the recordings are still finished, by `connect_cdp`'s own `finally`,
  but the HTTP server's cleanup is skipped and the exit status is not 0. In tinyproxy mode a
  log that cannot be opened loses every later line (logs.py:82-105);
- the comment at tinyproxy-log/run:3-5 calls the second `sed -i` a no-op; it gives the file a new
  mtime, and undoes an edit made between its read and its rename;
- when every frame of a recording fails to be written but some left a file, the encoder is given an
  empty list and fails, and a tab that timed out gets no sidecar (recording.py:259-279);
- a burst of frames makes the video longer than the recording, by at most one least hold per
  frame (recording.py:47-50, 289-301; `TimelineKept` states the bound);
- E2B and Modal: the error of a kill is swallowed and the id dropped (e2b_driver.py:103-109,
  modal_bench.py:129-136, 205-210), and a sandbox is created before it is written down (e2b_driver.py:123-125; on
  Modal an error of `_tunnels` or of `terminate` in `cmd_setup` leaves one, 164-167), so that it may run on until `SANDBOX_TIMEOUT` without
  a word; `TornDown` leaves these cases out by `missed`;
- on Modal one read that times out is enough for a leak: the teardown takes the late answer for its own, and
  modal.sh:143 kills the driver before it has ended the sandbox; Daytona takes two.

## What is not modelled

- `captcha_classifier.js`: patterns over a document; in `Navigation` its answer is any vendor a page may show.
- telemetry.py beyond a handler that drops what it gets after it is closed; exporting is the library's.
- The read-only HTTP handlers, ranking and wording of `snapshot`, formatting of times, paths and lines.
- `classify_tinyproxy_line` and the benchmark's `percentile`: pure functions of a line and of a list.
- Lines torn between the two processes that append to one default file (logs.py:91): it depends on the
  sizes at which a stream splits a write; `read_all` skips what does not parse.
- Exceptions of other kinds than `OSError` and `WebSocketException` out of a handler; the start of the HTTP
  server and `run`'s exit status.
- The browser switch (`switch-browser.sh`, `chromium/run`): one file read with a default, a kill and a
  restart by s6. What the service sees of it is that Chrome closes the connection, which `Recording`,
  `CdpConnection`, `Thumbnail` and `Navigation` have at any moment.
- Dockerfile, workflows, otelcol.yaml, tinyproxy.conf, `hosts-to-filter.awk`, policies: declarations, or filters
  without state; of the s6 services only the two `sed -i` on the shared file and the restart.
- The Fly and Northflank hooks of `bench/`: a command line tool or a curl per hook, nothing kept between two
  of them, so that the harness is all there is. `BENCH_TIMEOUT=0`, which installs no watchdog (lib.sh:221). E2B's state file of an earlier benchmark and `e2b_build.py`. Four
  `lib.sh` copies in the platforms' directories are sourced by no script.

## The plan

1. Done: `RecordingLifecycle`, `Recording`, `CdpConnection`, `Traffic`,
   `Thumbnail`, `Navigation`, `LogFanout` with the watcher and the writers of its file,
   `Screencast`, `Upload`, `Delivery`, `Bench` with three platforms; the proofs above.
2. `BrowserTrace`: connection and recording composed: replies not read while a
   detach encodes, thumbnails timing out behind it; a dead watcher against the shutdown.
3. `percentile` and `classify_tinyproxy_line` as operators against reference definitions.
4. Proofs: what a progress argument needs short of fairness, a measure that each step of a call, a stop or an
   upload lowers.
