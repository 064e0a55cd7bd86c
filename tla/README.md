# HorizonCast in TLA+

HorizonCast finds TVs on the local network and casts a file, a link or the
computer's screen to one of them over DLNA. This directory holds TLA+ models of
its parts, TLC configurations that check them on small instances, and TLAPS
proofs of the properties that matter most. Paths below are relative to
`src/crates/`.

1. [Inventory](#1-inventory): the parts, their state, how they interact
2. [Modules](#2-modules): what is modelled where, and by which run it is checked
3. [Cast control](#3-cast-control-castcontroltla)
4. [Device list](#4-device-list-devicelisttla)
5. [Live stream](#5-live-stream-livestreamtla-lossyfifotla)
6. [Discovery](#6-discovery-deviceregistrytla-registrycallstla-discoverytla)
7. [Command line tool](#7-command-line-tool-clitla)
8. [The parts that keep to themselves](#8-the-parts-that-keep-to-themselves-mcpartstla)
9. [Proofs](#9-proofs)
10. [Findings](#10-findings)
11. [Only model-checked, and not modelled](#11-only-model-checked-and-not-modelled)
12. [Running it](#12-running-it)

## 1. Inventory

### How a cast happens

The desktop app has a **window** (the main thread, a Slint event loop) and a
**runtime** (a background thread that runs tokio). They share a *snapshot* of
the devices behind a mutex, an unbounded *command channel* (window to runtime)
and the *event loop's queue* of closures (runtime to window).

```
 Discovery ──watch──▶ command loop ──invoke_from_event_loop──▶ window
                          ▲   │                                  │
                          │   └── snapshot (mutex) ◀──read───────┤
                          └────────── commands ◀─────send────────┘
 command loop: teardown(old cast) ; start_media / start_mirror
     mirror:  capture thread ──channel of 120──▶ pump task ──▶ LiveStream
     file:    MediaServer                  (HTTP)  │
     renderer ◀── SOAP SetAVTransportURI, Play, Stop; fetches from the server
```

### Parts

| Part | State | Operations | What is hard | What makes it correct |
|---|---|---|---|---|
| **Cast control** `hc-app/src/main.rs` | `active`, the command queue, `casting` and `now_casting`, the snapshot, per mirror a pump task, a stop signal, a capture thread and its channel | the window's handlers, `Cmd` arms, `teardown`, `start_media`, `start_mirror`, the pump's loop, `capture_encode_loop` | the loop awaits whole teardowns and starts while commands queue up; the window changes before the cast does; a mirror ends by itself; SOAP calls time out and are applied later | one cast at a time; LIVE is true; no orphaned playback without a fault; Stop frees everything; every press is answered |
| **Window and device list** `hc-app/src/main.rs`, `ui/app.slint` | devices shown, selected row, spinner | list updates, select, press, rescan | the snapshot, the event loop's queue and the screen change at three different moments; the selection is a row | the screen follows the snapshot; a press means the highlighted row |
| **DLNA sessions** `hc-sink/src/dlna.rs` | control URL, server or stream | `cast_file`, `cast_url`, `LiveMirrorSession::start`, `push_access_unit`, `stop` | a start fails half-way; Stop's result is ignored | a failed start leaves no server; stop tells the renderer, then stops serving |
| **Live stream server** `hc-net/src/live_stream.rs` | a broadcast ring of 512 chunks, one receiver per connection, the muxer | `start`, `push_access_unit`, `serve`, `stop` | slow renderers, reconnecting ones, graceful shutdown | chunks in order, loss only by lagging, stop returns |
| **Media server** `hc-net/src/media_server.rs` | the file served, the shutdown signal | `start`, `serve`, `stop`; range parsing | empty files, suffix ranges, last byte; the file changes between its size and its bytes | the body is exactly the range asked for |
| **UPnP client** `hc-net/src/upnp.rs` | none | `fetch_description`, `send_soap_action`, building and parsing XML | time limits; services in any order, nested or cut off | three outcomes: answered, refused, timed out; the control URL is AVTransport's |
| **Device registry** `hc-discovery/src/registry.rs` | observations by protocol and address | `observe`, `expire`, `devices`, `merge_group`, `find` | one TV is seen by several protocols; grouping is transitive; ids change as identities are learnt | grouping is a partition, order is total, nothing seen within the TTL disappears |
| **Discovery service** `hc-discovery/src/{service,ssdp,mdns}.rs` | registry (mutex), watch channel, stop flag | mDNS thread, SSDP pass, enrichment, expiry, publish, `stop` | two browsers write at once, clocks read outside the lock, a pass outlasts a stop | the published list is the registry's; a device survives one missed pass |
| **MPEG-TS muxer** `hc-net/src/mpegts.rs` | continuity counters | `push_access_unit`, `push_audio`, packet, PES, PCR, CRC | stuffing of 1 and 2 bytes, 4-bit counters, 33-bit time stamps, renderers that miss chunks | packets of 188 bytes with true headers, counters without gaps, no splice of two units, joining at a key frame |
| **RTSP client** `hc-net/src/rtsp.rs`, `bplist.rs` | CSeq, read buffer | `request`, response parsing | a request cancelled between write and read; responses in pieces | a response belongs to its request; none is returned twice or spliced |
| **Command line tool** `hc-cli/src/main.rs` | one session, one capture thread, one channel | `cast`, `mirror`, `devices`, `capture-test` | Ctrl-C against frames, a full channel and capture end | nothing is lost on the way; everything is stopped before exit |
| **Core types** `hc-core` | session state, time-stamp clock | `transition`, `PtsClock::pts` | events out of order | illegal transitions are refused |
| **Screen capture** `hc-capture` | OS capturer, its frame channel | `start`, `next_frame`, `stop`; BGRA to NV12 | odd sizes, the OS callback's thread | each byte comes from its own pixels, at any size and padding |
| **Video encoder** `hc-encode` | OS encoder, its output queue | `new`, `encode`, `finish` | the callback's thread, frames of another size than the first | units in order, none lost; no read past a frame that is not smaller |

The update check and the button that opens the repository in a browser change no
state that any part above reads.

### Hard behaviours

`PROJECT.json` lists each hazard at the line where it bites. Most come from
three places: a queue between two threads whose content is stale when it is
served (`hc-app/src/main.rs:104`, `:383`); a wait on somebody who may never answer
(`live_stream.rs:104`, `hc-app/src/main.rs:122-124`); and a step that fails after an
earlier one took effect (`dlna.rs:58`, `dlna.rs:134`). The rest are boundaries:
packets that just fit, ranges at the last byte, odd sizes, counters that wrap, and
documents or responses that break off anywhere.

## 2. Modules

| Module | Models | Runs | Proofs |
|---|---|---|---|
| `CastControl` | the window's handlers, the command loop, teardown and start, pumps, captures, the renderer as environment | `cast_safety`, `cast_liveness`, `cast_shown` | `CastControlProofs` |
| `DeviceList` | how lists reach the screen, and what a press means | `list_shown`, `list_picked` | `DeviceListProofs` |
| `LossyFifo` | abstract: what a live stream promises | | |
| `LiveStream` | the broadcast ring and graceful shutdown; refines `LossyFifo` | `live_stream`, `live_hang` | `LiveStreamProofs` |
| `DeviceRegistry`, `RegistryCalls` | the registry's operations; the registry alone under every sequence of calls | `parts` | `RegistryProofs` |
| `Discovery` | scan loop, both browsers, fetches, time, TTL, stop; composes `DeviceRegistry` | `discovery`, `disc_apart` | `DiscoveryProofs` |
| `Cli` | the command line tool with session, channel, capture thread and encoder | `cli` | `CliProofs` |
| `MpegTs` | the muxer, and a renderer's demultiplexer behind a lossy connection | `parts` | `PartsProofs` |
| `MediaServer` | requests, ranges and bodies of a file that changes, graceful stop | `parts`, `media_malformed` | `ProtocolProofs` |
| `Session` | the session state machine | `parts` | `ProtocolProofs` |
| `Rtsp` | the RTSP connection and its response parser | `parts` | `ProtocolProofs` |
| `Description` | the device description parser | `parts` | `ProtocolProofs` |
| `Frames` | a frame's pixels on their way into the encoder | `parts` | `PartsProofs` |
| `MC...` | instances for TLC; `MCParts` puts seven components side by side | | `PartsProofs` |

How they compose: `Discovery` extends `DeviceRegistry` and its published list is what
`DeviceList!Publish` lets the app see; a snapshot is what `CastControl` picks from; a
server that `CastControl` or `Cli` opens is a `MediaServer` or a `LiveStream`; a chunk
of `LiveStream` is the output of one call of `MpegTs`, and `MpegTs` lets its renderer
miss exactly what `LossyFifo` lets a stream lose: whole chunks; a frame of `Cli` is
converted by `Frames`.

## 3. Cast control (`CastControl.tla`)

A cast is named by the number of the button press that asked for it. That is the
model's main abstraction: a device id, a path and a link are what `req[c]`
records about press `c`.

### State and code

| Variables | Code |
|---|---|
| `open`, `casting`, `now`, `dialog` | the window; its properties `casting`, `now_casting`; a file dialog, during which the event loop is inside the handler |
| `posted` | closures that `clear_casting` queued (`main.rs:100`), by the cast that queued them |
| `cmds` | `cmd_tx` and `cmd_rx`, an unbounded channel |
| `snapshot` | `Arc<Mutex<Vec<Device>>>`, as a set |
| `pc`, `cur`, `active`, `closing` | where the command loop awaits, the command served, `active`, and the session moved into `teardown` |
| `server`, `pump`, `stopSent`, `cap`, `chan` | per cast: HTTP server, pump task, oneshot signal, capture thread, channel |
| `uri`, `playing`, `conns`, `late` | the renderers (external) |
| `req`, `faulty` | history: what was pressed, whose SOAP calls failed |

Every `pc` value is one `.await` of the loop, so anything may happen between two
of its steps. A SOAP call has three outcomes: it is applied; it is refused or
lost; or it times out at the app and is applied by the renderer at any later
time, in any order (`late`, `TvLate`).

| Actions | Code |
|---|---|
| `UiMirror`, `UiCastUrl`, `UiPickFile`, `UiFilePicked`, `UiFileCancelled`, `UiStop` | the callbacks of `main.rs:253-365`, guarded by the buttons `app.slint` shows |
| `UiClear` | the closure of `clear_casting` runs |
| `UiQuit`, `ProcessExit` | `app.run()` returns; `main` returns without joining the runtime, which may or may not notice the closed channel before |
| `RtDevices` | the `changed()` branch |
| `RtRecv`, `RtClosed`, `RtTeardown...`, `RtDrained`, `RtPumpJoined`, `RtCaptureJoined` | the `recv()` branch and `teardown` with the sessions' `stop` |
| `RtFind`, `RtResolve`, `RtServe`, `RtSetUri`, `RtPlay`, `RtAborted` | `start_media` and `start_mirror` with `cast_file`, `cast_url`, `LiveMirrorSession::start` |
| `Pump...` | the task spawned at `main.rs:458`, then `LiveMirrorSession::stop` |
| `Cap...` | `capture_encode_loop`; a frame stands for one encoded unit |
| `Tv...` | the renderer: fetches its URL, hangs up, ends, applies a late request |

### Runs

| Run | Instance | Shows |
|---|---|---|
| `cast_safety` | 2 renderers, 2 presses, channel of 1, 1 late request; 770 thousand states | `OneCastAtATime`, `CastingIsLive`, `OrphanNeedsFault`, and the inductive invariant `IInv` of the proofs, which holds the type invariant |
| `cast_liveness` | 1 renderer, 2 presses, channel of 2 | `StopReleases`, `PressAnswered` |
| `cast_shown` | 1 renderer, 2 presses | the window does not always offer Stop while a cast runs (finding 1) |

- `OneCastAtATime`: of two casts, at most one has a server, a pump or a capture
  thread on this computer. It relates the command loop's joins to three tasks
  that each end on their own.
- `CastingIsLive`: when nothing is queued and the window says LIVE, the newest
  press is the active cast, on the device named, and its pump still feeds it.
- `OrphanNeedsFault`: a renderer plays a cast the app has given up only if one of
  the SOAP calls to that renderer failed.
- `StopReleases`, `PressAnswered`: no teardown hangs, with a full channel, a
  capture thread waiting for room, and connections that outlive the stop signal.

**Bounds.** Two presses are one cast and its successor, which is what
`OneCastAtATime` relates; with the Stop between them three commands may be
queued at once. A channel of 1 or 2 units fills, where 120 would hide the
blocked send. One late request is enough for a stale Play after a Stop. Two
renderers let a cast move from one to the other. The proofs of section 9 drop
all of these bounds.

**Fairness.** The runtime, the pump and the capture thread are scheduled
(`WF` on `Teardown`, `Start`, `Pump`, `Capture`), as is the event loop
(`UiClear`). `tokio::select!` polls its ready branches in random order, so the
stop signal, once sent, is taken although units keep coming: `WF(PumpStop)`.
Two assumptions concern the outside. A started capture keeps producing frames or
ends (`next_frame` blocks without a time limit): on a screen that never changes
teardown would wait for the next frame. And a renderer whose server has begun to
shut down closes its connection sooner or later: without this `StopReleases`
fails, which is finding 3. Nothing is assumed of the user, of discovery or of
the renderer's answers.

## 4. Device list (`DeviceList.tla`)

Discovery publishes lists on a watch channel, which keeps only the newest. The
runtime stores a list as the `snapshot`, under the snapshot's own lock, and then posts
a closure that shows it. The window keeps the clicked *row*; a press looks that row up
in the *snapshot* (`selected_device`, `main.rs:378`). The window's thread may press at
any moment, also after the store and before the posting.

| Actions | Code |
|---|---|
| `Publish` | discovery (`service.rs`), by what the watch channel lets the app see |
| `RtStore`, `RtPost` | the `changed()` branch: `main.rs:215`, then `main.rs:218` |
| `RtServe`, `RtServed` | the `recv()` branch, whose teardown and start are `CastControl`'s; until it is over no list is stored |
| `UiDevices` | the posted closure |
| `UiSelect`, `UiPress`, `UiStop`, `UiRescan` | the window's handlers |

`rt` is where the runtime stands, `commands` how many commands wait. `choice` and
`target` are history: which device the user clicked, which one the press meant. Press is
left enabled while a cast runs, which `CastControl` rules out: here it only adds
behaviours.

| Run | Instance | Shows |
|---|---|---|
| `list_shown` | 3 devices, 3 lists, 1 command waiting; 758 thousand states | `WindowFollowsSnapshot`: unless the runtime is between store and posting, the last closure queued shows exactly the snapshot. `PressMeansHighlighted`: with no list stored or posted on its way to the window, a press means the highlighted row. `ListArrives`: the newest list gets on screen though the channel drops lists and commands are served meanwhile |
| `list_picked` | 2 devices, 2 lists | a press does not always mean the device clicked (finding 2) |

The premise `rt # "stored"` is needed: between `main.rs:215` and `main.rs:218` the
snapshot is new, nothing is queued, and a press means a row of a list that the window has
not been sent. That is one more way to finding 2.

**Bounds.** Three devices allow a list to lose, gain and reorder rows around the
selection; three lists let one be dropped by the watch channel while another waits in
the event loop. One command waits at most (`MaxCommands`), another may be in service, and
there is no end to them.

**Fairness.** The runtime and the event loop are scheduled, and `select!`, which polls in
random order, does not prefer commands for ever: `SF(RtStore)`. That a command comes to
its end, `WF(RtServed)`, is an assumption on renderers, not a fact of the code: a teardown
waits for a renderer that keeps its connection (finding 3), and as long as it does no
list reaches the window. `CastControl` makes the same assumption for `PressAnswered`.

## 5. Live stream (`LiveStream.tla`, `LossyFifo.tla`)

`LossyFifo` is what a live stream promises a renderer: what is published while it
is connected arrives in order; a renderer more than `Capacity` behind may lose
the oldest chunks and only those; publishing never waits.

`LiveStream` is what the code does: a tokio broadcast ring, a cursor per
connection, `Lagged` errors dropped by the body's `filter_map`, and `stop()`,
which sends the graceful-shutdown signal and awaits the server task. Chunks are
numbered; muxing is another module's concern. A connection is one HTTP request; a
renderer that reconnects is another connection.

| Run | Instance | Shows |
|---|---|---|
| `live_stream` | 2 connections, ring of 2, 6 chunks | `InOrderAndWhole` and the inductive invariant `IInv`: order, no duplicates, nothing from before the connection, and gaps only for a connection that itself was more than the ring behind. `ImplementsFifo`: every step is a step of `LossyFifo` or changes nothing it sees. `CatchesUp` and `StopFinishes`, if renderers hang up once the stream is being stopped |
| `live_hang` | 1 connection | without that assumption `stop()` need not return (finding 3) |

The refinement mapping gives a connection the queue between its cursor and the
newest chunk, overwritten or not; `Overrun` then is the moment the receiver
notices. A ring of 2 is overrun twice by 6 chunks, once by each of two
connections at different moments. Publication is bounded by `MaxChunks`: `CatchesUp` says that a
reader gets to the end of a stream that ends, not that a slow one keeps up with one that
does not.

`FairSpec` schedules the server task and lets renderers read what arrives;
`PoliteSpec` adds that a renderer hangs up once `stop()` was called. The code
justifies the first; the second is a fact about renderers that are told to Stop
before (`dlna.rs:166`), and `live_hang` shows what hangs on it.

## 6. Discovery (`DeviceRegistry.tla`, `RegistryCalls.tla`, `Discovery.tla`)

`DeviceRegistry` is `registry.rs`: `Merge` and `Observe`, `Expired`, and
`Devices` with its union-find (`Union` and `Find` over `Links`, the pairs of an address
and an identity in the order the code iterates them, followed one after the other by
the recursive function `Joined`), `MergeGroup` and the list's order. `Sorted` puts each
member of a set at the place that the number of its predecessors gives, where the
community modules' sort would be a `CHOOSE` of a sequence that no proof can look into.
An entry keeps its *age* instead of `last_seen`, so that time needs no absolute
clock; ages beyond the TTL are one value. Names, URLs, ports and identities are
numbers in the order the code compares them; 0 is none and empty, which `observe`
treats alike.

`RegistryCalls` calls it in any order (run `parts`). `Discovery` is the service that writes to it:

| Actions | Code |
|---|---|
| `StartPass`, `Stopped`, `EndPass`, `Stop` | the loop of `run` (`service.rs:84`), `stop` |
| `MdnsRead`, `MdnsObserve`, `MdnsEnd` | `browse_blocking`: the event and the clock are read before the registry is locked, so a sighting may be `lag` old when it is written |
| `SsdpAnswer`, `SsdpEnd` | `search`; a failed bind, a failed receive and the end of the window all lead to the fetches |
| `FetchOk`, `FetchFail`, `Enriched` | `enrich_names` and its tasks |
| `Tick` | time during a pass; it stops where a time limit must act first |
| `TvMoves` | the environment: a TV is switched on or off, or gets another address |

`waited`, `missed` and `settled` are history: time since `stop()`, passes since an
address was last seen, time since a TV last moved.

| Run | Instance | Shows |
|---|---|---|
| `parts` | 4 addresses, 3 identities; every grouping | `GroupsAreComponents`: groups are the connected components of sharing an identity. `ListIsUnambiguous`: no two devices share an id, and the list has one order although it comes from a hash map |
| `discovery` | 1 TV on an IPv4 and a link-local address, switched on and off at any moment; 231 thousand states | `PublishedIsRegistry`: no late write of a browser or a fetch escapes the list. `StopIsBounded`: stop() takes at most the longest pass. `SurvivesAMissedPass`: an address is dropped only after two passes without it. `GoneIsDropped`: an address at which nobody answers any more leaves the list |
| `disc_apart` | 2 TVs, 2 addresses, mDNS only | two TVs may become one device (finding 4) |

**Bounds.** Lengths keep the code's proportions: a window of 1 and a fetch of at
most 1 stand for 3 s and 3 s, and the TTL of 4 is the least `DiscoveryAssumption`
allows, tighter than the code's 15 s against 2 * 6 s. Four addresses make a chain
of three shared identities, which union-find may meet in any order; `Devices`
depends on the contents of the entries only, so a TTL of 0 suffices there. An
address is forgotten after two missed passes at the earliest, so `missed` stops
at 2. `Settle` is 0 where `settled` is not looked at.

**Fairness** (`discovery`). The tasks run (the loop's steps are told by `phase` alone, so
that TLC need not compute the list to know whether one is enabled) and time passes, strongly fair because
zero-length passes (both browsers fail at once) interrupt it for ever otherwise; a
window or a fetch that is over ends. Nobody has to answer, to move or to stop.

## 7. Command line tool (`Cli.tla`)

`run_cast` and `run_mirror` (`hc-cli/src/main.rs`) from finding the device to the exit,
with the session calls of `dlna.rs`, the capture thread, the encoder and the channel of
120 units. A unit is its frame's number, when the frame was captured, and its time stamp.

| Variables | Code |
|---|---|
| `command`, `platform`, `counting` | the subcommand; whose encoder runs; a bound, see below |
| `main`, `unit` | where the main task awaits, and the unit it received |
| `tv`, `server`, `callFailed` | the renderer, the file or stream server; history: a SOAP call failed, before or after the renderer heard it |
| `installed`, `listening`, `signal` | tokio's handler of Ctrl-C, the `ctrl_c()` future polled and not dropped, the signal |
| `queue`, `capture`, `frame`, `base`, `batch` | the channel; the capture thread, its frame, the clock's anchor, units being sent |
| `held`, `output`, `failed` | frames inside the encoder, units it has answered; frames it failed on |
| `pushed` | history: what the renderer was sent |

`Main` is the main task: `Find`, `Resolve`, `Serve`, `SetUri`, `Play` and, after `Poll`
(one `select!` iteration begins), `TakeUnit`, `PushUnit`, `CtrlC`, `CaptureEnded`, then
`StopRenderer`, `CloseServer`, `Join`. `Thread` is `capture_encode_loop`. On macOS the
hardware answers on its own thread at any time (`Produce`, `FailToProduce`); on Windows
`Drain` takes what is ready. `DropFuture` is what the end of an iteration does to the
signal: a Ctrl-C that was raised but not yet broadcast finds no listener.

| Run | Instance | Shows |
|---|---|---|
| `cli` | channel of 1, 3 frames told apart or any number of alike ones, encoder that holds 2; 127 thousand states | the inductive invariant `CliInv` of the proofs. `NothingIsLost`: every frame but those that the hardware failed is somewhere between capture and renderer, once and in order. `StampsFollowTheClock`: stamps begin at 0, are in the order of the capture times, and are less than a tick (on Windows two) behind them. `ExitLeavesNothing`: on return the thread is over, the server down, and a playing renderer means that a call failed. `CaptureEndStops`, `CtrlCStops` |

**The clock.** Capture times are nanoseconds. `Elapsed` is `saturating_sub`, `Ticks` the
division of `clock.rs:30`, and `Stamp` what Media Foundation's units of 100 ns make of a
stamp on the way in (`mediafoundation.rs:205`) and out (`:292`). Each rounds down: 22222 ns
are 1.99998 ticks, one tick for the clock, and none after Windows' detour. The steps of
`MCSteps` are that one, nine ticks exactly, and one backwards, to before the first frame
or not.

**Bounds.** A channel of 1 blocks the thread while the main task stops; two frames in
the encoder and one in the channel let units of earlier frames come with later ones;
a third frame makes the order of three visible. Behaviours with `counting` tell at most
`MaxFrames` frames apart while mirroring and record what was pushed; those without have
any number of frames, all like the first, and record none. The flow of units is checked
on the former; liveness on both, so that a screen that never stops is among what Ctrl-C
must get out of.

**Fairness.** Both tasks are scheduled, the hardware answers, and `select!` polls in
random order (strong fairness of `Poll` and `CtrlC`, since units may interrupt them for
ever). The screen changes and not every frame fails, or `next_frame` would hold the
thread; calls return, and the renderer lets go of the stream (section 5 covers the one
that does not). Nothing makes capture end, except where there is none
(`platform = "none"`).

**Ctrl-C.** Each `select!` iteration makes a new `ctrl_c()` future, so a press is lost when
it is told between two iterations, or when a unit is taken in the iteration that heard it.
One press may thus be lost, although `hc-cli/src/main.rs:193` says "Press Ctrl-C to stop";
with frames that go on, even every press of a user who never gives up may be: with
fairness of `Press` alone TLC finds `installed ~> main = "exited"` violated by a lasso in
which each press is told just while a unit is pushed. `CtrlCStops` therefore grants, as
`SomeAreHeard`, that not all presses and not all of what is told fall into these gaps,
which is likely but nothing the code ensures. What it shows is the rest of the way out: the signal
that is heard, the random choice against ready units, the dropped receiver, the thread
blocked on the full channel, the join. Before the first `ctrl_c()` is polled, Ctrl-C kills
the process (`killed`).

## 8. The parts that keep to themselves (`MCParts.tla`)

Seven components share no state with each other at this level. One run checks them
all: `part` is chosen initially and only that component moves, so the run is the union
of seven independent models (426 thousand states), each with its own invariants.

| Part | What it models | Properties | Instance |
|---|---|---|---|
| registry | section 6 | `GroupsAreComponents`, `ListIsUnambiguous` | 4 addresses, 3 identities, 1 name |
| `MpegTs` | `push_access_unit` and `push_audio_access_unit`, packet by packet: tables before key frames, counters, stuffing, PCR, PES headers with their time stamps and length. Behind it a renderer's demultiplexer (external); a call's output reaches it whole or not at all | `PacketsWellFormed`, `CountersContinue`, `UnitsArriveWhole`, `JoinsAtKeyframe` | units of 0 to 3100 bytes that just fit a packet, or leave 1 byte of stuffing; 17 packets wrap a counter; stamps with bits above 33 |
| `MediaServer` | a request from its header to the end of its body, while the file grows, shrinks, goes and comes back; an open, a size, a seek or a read that fails (404, 500, a body cut short); graceful stop | `FirstRangeAsRfc`, `BodyIsTheRange` | files of 0 to 3 bytes, every header of one range up to 4, well-formed or not, lists of two |
| `Rtsp` | `request` await by await, `parse`, a receiver that answers late, in pieces, malformed, or closes; a caller that drops the future | `OwnAnswer`, `AnswersInOrder` | 3 requests, bodies of 0 to 2 pieces |
| `Description` | `parse_device_description`, one action per XML event; nested services, missing parts, an end anywhere | `ControlIsTheServices` | 3 services, texts blank, AVTransport or other |
| `Session` | `SessionState::next` and any caller | `NoStreamUnprepared` | every sequence of events, 2 reasons |
| `Frames` | BGRA to NV12, delivery as YUV in rows with padding, the copies into the encoder's buffer. A byte is where it came from | `PictureArrives`, `PanicsOnlyWhenSmaller` | every size up to 5 by 5, paddings 0 and 1, every pair of first and later size |

What these say, and what was found on the way:

- `MpegTs`. A lost call may take a multiple of 16 packets with it, which counters do
  not show; `UnitsArriveWhole` holds all the same because a unit begins with a packet
  that says so. Counters, stuffing and the PCR share the adaptation field, whose
  length byte `PacketsWellFormed` recomputes from what a renderer would read.
- `MediaServer`. A header is a list of ranges of which the server looks at the first
  alone (`media_server.rs:198`, `:257`), so `FirstRangeAsRfc` speaks of that one.
  RFC 7233 has the server consider them all: `bytes=500-600,0-10` gets 416 from a file of
  100 bytes, though its second range could be served. A range without a dash, or with ends
  that are no numbers (`Bad`), is malformed, and so are reversed ends; it never gets a part
  of the file. It is ignored, unless it begins past the end of the file: then it is
  refused (finding 5). The size is read once, the bytes later: `BodyIsTheRange` says that
  a body ends short only if somebody truncated the file meanwhile, or a seek or a read
  failed. In the latter cases the promised `Content-Length` is broken and the renderer sees
  the connection close (`media_server.rs:216-219`: the body is empty).
- `Rtsp`. As long as no request was dropped, an answer is the one to its request.
  After a drop the answer to the dropped request is returned for the next one; what
  stays true is `AnswersInOrder`: none twice, none out of order, none spliced, and
  nothing at all once the stream cannot be parsed. A blank line is a piece of its own,
  so a head may be cut anywhere a read may end.
- `Description`. An entity such as `&amp;` is an event of its own that the parser
  ignores, so a control URL loses it; the friendly name keeps its first piece only.
- `Session`. Nothing in the repository drives this machine yet: callers are any.
  `Failed` is accepted in `Idle` too, where `session.rs:74` speaks of active states.
- `Frames`. The padding is that of the planes macOS delivers and of the encoder's buffer;
  `bgra_to_nv12` takes a row length of its own as well (`src_stride`), for which its only
  caller passes four bytes a pixel. A frame that is narrower and higher than the first is sheared on Windows
  without a panic; `PictureArrives` leaves that case out by its premise, and
  `PanicsOnlyWhenSmaller` says when the thread does panic. `convert.rs:13` says that
  the chroma stride is rounded up; the code rounds down, here and in the reader.

## 9. Proofs

TLAPS checks them for every value of the constants: any number of devices, presses,
chunks, connections, packets and frames, any capacity, file size and time limit. They
assume the `ASSUME`s of each module only: bounds are naturals, capacities are positive,
`NoDevice` is not a device, there are finitely many devices in `DeviceList`, finitely many
addresses and identities in the registry, and the TTL of `Discovery` is at least twice
the longest pass.

| Module | Theorems |
|---|---|
| `CastControlProofs` | `SpecTypeOK`, `SpecIInv`, `SpecOneCastAtATime`, `SpecCastingIsLive`, `SpecOrphanNeedsFault` |
| `DeviceListProofs` | `SpecTypeOK`, `SpecWindowFollowsSnapshot`, `SpecPressMeansHighlighted` |
| `LiveStreamProofs` | `SpecTypeOK`, `SpecIInv`, `SpecInOrderAndWhole`, `SpecImplementsFifo`: the ring refines the lossy FIFO |
| `DiscoveryProofs` | `SpecTypeOK`, `SpecService`, `SpecStopIsBounded`, `SpecSurvivesAMissedPass`, `SpecPublishedIsRegistry`, `SpecListsDevices` |
| `CliProofs` | `SpecCliInv`, `SpecExitLeavesNothing`, `SpecNothingIsLost`, `SpecStampsFollowTheClock` |
| `RegistryProofs` | `CallsEntriesOK`, `CallsGroups`, `CallsList`: after every sequence of calls, groups are components and the list is unambiguous |
| `ProtocolProofs` | `SpecSessionInv`, `SpecNoStreamUnprepared`; `SpecDescInv`, `SpecControlIsTheServices`; `SpecRtspInv`, `SpecOwnAnswer`, `SpecAnswersInOrder`; `SpecMediaInv`, `SpecFirstRangeAsRfc`, `SpecBodyIsTheRange`, `SpecStoppedIsQuiet` |
| `PartsProofs` | `SpecMuxInv`, `SpecPacketsWellFormed`, `SpecCountersContinue`, `SpecUnitsArriveWhole`, `SpecJoinsAtKeyframe`; `SpecFramesInv`, `SpecPictureArrives`, `SpecPanicsOnlyWhenSmaller`; `SpecPartsInv`: the composition that the run checks |

**Cast control.** Neither property is inductive: nothing in "at most one cast runs"
forbids a state in which the loop is about to start a second one. `IInv` says what the
loop knows at each of its waits.

- `PhaseOK` ties the local variables to `pc`: while a command is served `active`
  is empty, and `closing` is the session inside `teardown`.
- `PressedOK`: whatever is spoken of was pressed.
- `OwnedOK` is the heart: whatever runs is *held*, as `active`, as `closing`, or as
  the cast being started after its server came up. At each `pc` at most one of the
  three places is filled, which gives `OneCastAtATime`. It has to know what the
  joins achieved: a mirror past `joinPump` has no pump, and once a mirror was
  spawned its pump owns the server, so when pump and capture are gone nothing is
  left.
- `LiveOK` says where the newest press is while the window says LIVE: queued,
  served, active, or its `clear_casting` is queued. When all is settled the last
  three shrink to "active", which gives `CastingIsLive`.
- `CallsOK` and `TvOK` follow the renderers: one that no failed call concerns plays
  only what is *unstopped*, that is a mirror whose pump has yet to send Stop, or media
  that is active or about to be torn down. A late request is always one of a cast
  already counted as faulty. What is unstopped is not over, hence `OrphanNeedsFault`.

**Device list.** `WindowFollowsSnapshot` is inductive given the types: a store makes its
premise false, the posting appends the very snapshot, and a closure that runs moves the last
list from the queue to the screen or leaves it where it is. With nothing on its way, screen
and snapshot are one list, in which a row means one device: `PressMeansHighlighted`.

**Live stream.** Order alone is not inductive: a cursor that moved back would deliver a
chunk twice. `CursorOK` bounds each cursor by the first chunk of its connection and by
the newest one, and says that `behind` covers what is unread now, so that a jump of the
cursor shows that `behind` exceeded the ring. The refinement needs of it only that a
cursor never passes the newest chunk; the lemmas on `Chunks` say what appending to,
taking from and cutting a backlog gives.

**Registry.** What union-find and sorting compute is a matter of induction over the
entries. `SetInduction` does it without an operator parameter: a *set* that contains 0
and the successor of each number in it contains all of `Nat` (by the pigeonhole
principle, from the library's facts on finite sets).

- A rank is the number of smaller members. Ranks in a strict order are one to one and
  leave no gap (`Ranks`), hence `SortedIs`: `Sorted` lists each member once, in order.
- The parents form a *forest*: there are a root for each address and a depth
  that falls on the way to it (`ForestInduction`, `FindIs`). Joining two roots
  makes one tree of two and leaves the others alone (`JoinTrees`).
- `Good` is the loop invariant of the links followed so far: the owner of an identity
  is an address that has it, each link followed joins its address to the owner's tree,
  and a set of addresses that no followed link leads out of is a union of trees. Once
  all links are followed (`AllJoined`), two addresses are in one tree exactly if a
  chain of shared identities connects them: `Components`.
- Two groups share no identity (`GroupsApart`), so no id, and no address either; so
  the order of protocol, name and address is strict on the devices and total, and their
  sorted list is the only one: `Unambiguous`. Both hold of any well-typed entries, whatever was called.

**Discovery.** `PassOK` says how long each stage of a pass may have lasted and that no
browser outlives its pass. `WaitOK` compares the time since stop() with the pass in
which it was called. `AgeOK` bounds ages: an address seen in this pass is no older than
the pass, one seen in the pass before no older than both; two passes do not exceed the
TTL, so what expires was missed twice. `SpecPublishedIsRegistry` starts from the empty
registry, which lists as the empty list (`NothingListed`), and every step that changes
the entries publishes. `SpecListsDevices` carries the registry's two results over: what
the service keeps is well-typed at every step.

**Command line tool.** `StageInv` says at each stage of the main task what is up: no
server before `serve`, no thread before `select`, none that plays once the renderer was
told to stop unless a call failed. `CliInv` follows the units. `Underway` is everything
between encoder and renderer as one sequence, from what was pushed to what the encoder
holds; each step moves a unit across a boundary inside it, appends a frame or cuts a
failed one out, and the lemmas on sequences say what those three do. `FlowInv` knows
that each unit carries the stamp of its own capture time, `ClockInv` that the clock's
anchor is the first frame's. `TicksRoundDown` and `StampsRoundDown` say what each of the two
roundings keeps and loses, and `Stamps` adds them up: never ahead, in order, less than one
tick behind, or two.

**Muxer.** `MuxInv` adds to the types: `CallOK`, the position of the call; `CountersOK`,
each counter is the successor of the last one sent; and `ReceivedOK`, what the renderer
has of the unit in flight is exactly what the call has written of it, and whatever else
it has is whole. Without the latter a lost call could leave the half of a unit behind.

**Frames.** `PlanesOK` says that the planes hold the picture in rows of their stride:
a byte at `i` belongs to row `i \div stride` and column `i % stride`. The proof is about
division: rows of the stride do not overlap, halves of even numbers are exact, and what
`copy_plane` cuts at the end of a shorter buffer is whole rows.

**Media server.** `MediaInv` adds that a body covers bytes the file still has unless it
shrank, and that nothing is sent before the answer. `SpecStoppedIsQuiet`: once stop() has returned no response is open.

**Session.** `Prepared` says, state by state, how far a session must have come.

**Description.** `NestingOK` says that open services contain one another and that each
service is either open or closed; `ReadingOK` that the parser is within a service
exactly as long as none began or ended inside that one, and that what it has collected
is then what the service says. With these, what it takes at a service's end is that
service's own URL, and the first one that qualifies stays: `ControlIsTheServices`.

**RTSP.** Bytes in the connection and in the client's buffer are one `Stream`.
`StreamOK` says that responses follow one another in it, each of them whole, and so
that the parser, wherever it stands, stands at the beginning of one. `OrderOK` orders
answers returned, responses on their way and requests by their CSeq. Both hold however
many requests were dropped, which gives `AnswersInOrder`. `RequestOK` adds what holds
until one is dropped: at most one answer is on its way, and it is the one the client
waits for, hence `OwnAnswer`.

**The parts together.** The steps of one part leave the variables of the others alone, so
the theorems about each part hold of the composition that TLC checks: `SpecPartsInv`.

The inductive invariants are invariants of the runs as well: `IInv` of `cast_safety` and
`live_stream`, `CliInv` of `cli`, and `PartsInv`, which names those of the parts. Each step
lemma has one case per action or per group of actions that touch the same variables.

## 10. Findings

1. **A late `clear_casting` hides a running cast** (`cast_shown`).
   `clear_casting` posts a closure that resets the window whatever is casting when
   it runs. Press Cast; the start fails slowly; press Stop and Cast again
   meanwhile: the first cast's closure hides the second one, which then runs with no
   Stop button. `README.md:29` says "Press **Stop casting** when you are done."
2. **A press may mean another TV** (`list_picked`). The selection is a row number,
   resolved in a list newer than the one clicked. `README.md:27`: "pick your TV
   from the list."
3. **`stop()` waits for the renderer to hang up** (`live_hang`). The body of a
   response ends only when all senders are dropped, and `stop()` holds them while it
   waits. `live_stream.rs:99`: "Shut the server down and wait for it to finish."
   The pump, the teardown and the command loop wait behind it.
4. **Two TVs become one device** (`disc_apart`). An entry never forgets an identity
   while somebody answers at its address. If TV A moves to another address and TV B
   gets A's old one within the TTL, both addresses carry A's identity and are
   coalesced for as long as both TVs answer, also once every sighting from before the
   move is out of date. The test `distinct_devices_are_not_coalesced`
   (`registry.rs:521`) tries fresh addresses only.
5. **A malformed range is refused** (`media_malformed`). `range_is_unsatisfiable` does not
   parse the end of a range that has a beginning: `bytes=500-abc` and `bytes=500-400` get
   416 from a file of at most 500 bytes, and the whole file from a longer one. The comment
   at `media_server.rs:191-193` says "well-formed" and that malformed headers return false,
   "(we ignore them and serve the whole file instead".

Also met: a device's id is the smallest identity known at the moment, so it may change
while one watches, against `hc-core/src/types.rs:24`, "Stable identifier (e.g. mDNS/USN
name)"; a TV that SSDP finds before mDNS does is renamed when mDNS finds it, and a
command queued with the old id finds no device (`RtFind`). Section 8 names the smaller
ones.

## 11. Only model-checked, and not modelled

Only model-checked is liveness, which TLAPS does not reach: `StopReleases`,
`PressAnswered`, `ListArrives`, `CatchesUp`, `StopFinishes`, `GoneIsDropped`,
`CaptureEndStops`, `CtrlCStops`. Every invariant and every action property that a passing
run checks is proved. What the five runs of section 10 refute rests on TLC's
counterexamples.

Hazards without a property (`PROJECT.json` says why at each): the process that exits
while a renderer plays, Rescan on a quiet network, a renderer that restarts on another
port, passes that take no time.

Not modelled: the text of SOAP, DIDL, HTTP headers, XML tokens and RTSP header fields;
the property-list codec; the tables' bytes and CRC of the muxer; setting up codecs and
the Annex-B conversion; colours; the one-shot `discover`; layout and wording of the
window, settings, the update check and the repository link; the commands of the tool
that only print. They are formatting or I/O, keep no state, and no property depends on
them.

## 12. Running it

    tlc -config cast_safety.cfg MCCastControl.tla
    tlapm CastControlProofs.tla

Deadlock checking is off in every configuration: counters are bounded, the process
may exit and a stream may stop, so all behaviours may end.
