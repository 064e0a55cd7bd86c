---------------------------- MODULE CastControl ----------------------------
(***************************************************************************)
(* Cast control of the desktop app (hc-app): the window's event loop, the  *)
(* command queue, the background runtime that tears one cast down before   *)
(* it starts the next, and, for a screen mirror, the frame pump and the    *)
(* capture thread it spawns.  The renderer is external: it is told what to *)
(* do by SOAP calls that may be refused or applied after they timed out.   *)
(*                                                                         *)
(* A cast is named by the number of the button press that asked for it.    *)
(* Which row of the list a press resolves to is the module DeviceList's    *)
(* business; here a press picks any device the app knows.                  *)
(***************************************************************************)
EXTENDS Integers, Sequences, FiniteSets

CONSTANTS
    Device,     \* the renderers on the network
    NoDevice,   \* "" and None where the code has a name or a device
    MaxCasts,   \* bound: how many times the user presses a cast button
    QueueCap,   \* capacity of the capture-to-pump channel (120 in the code)
    MaxLate     \* bound: SOAP requests in flight after their timeout

ASSUME NoDeviceAssumption == NoDevice \notin Device
ASSUME BoundAssumption ==
    /\ MaxCasts \in Nat
    /\ QueueCap \in Nat \ {0}
    /\ MaxLate \in Nat

VARIABLES
    \* the window (main thread)
    open,       \* the window is open: app.run() has not returned
    casting,    \* the casting property: Stop is shown instead of Cast
    now,        \* the now_casting property, NoDevice when empty
    dialog,     \* the device captured by an open file dialog, else NoDevice
    posted,     \* clear_casting closures queued on the event loop, by cast
    \* between the window and the runtime
    cmds,       \* the unbounded command channel: cast numbers and Stop
    req,        \* what each press so far asked for, in press order
    \* the runtime task
    snapshot,   \* the devices of the latest published list
    pc, cur,    \* where the command loop is, and the command it serves
    active,     \* the cast held in the variable active, or NoCast
    closing,    \* the cast moved into teardown(), or NoCast
    \* what each cast runs
    server,     \* its local HTTP server (media server or live stream)
    pump,       \* its frame pump task
    stopSent,   \* its oneshot stop signal was sent
    cap,        \* its capture-encode thread
    chan,       \* access units in its channel
    \* the renderers (external)
    uri,        \* the cast whose URL the renderer was last given
    playing,    \* the cast whose URL it plays
    conns,      \* casts whose server holds an open renderer connection
    late,       \* requests given up by the app that may still be applied
    faulty      \* history: casts some SOAP call of which failed

uiVars   == <<open, casting, now, dialog>>
taskVars == <<server, pump, stopSent, cap, chan>>
tvVars   == <<uri, playing, conns, late, faulty>>
rtVars   == <<snapshot, pc, cur, active, closing>>
vars     == <<uiVars, posted, cmds, req, rtVars, taskVars, tvVars>>

Cast   == 1..MaxCasts
NoCast == 0
Stop   == 0     \* the command Stop; any other command is the cast's number
Quit   == -1    \* recv() returned None: every sender is gone

Kind    == {"file", "url", "mirror"}
Request == [kind: Kind, device: Device]
Outcome == {"ok", "refused", "late"}
SoapOp  == {"uri", "play", "stop"}

TeardownPcs == {"teardown", "drain", "joinPump", "joinCapture"}
StartPcs    == {"find", "resolve", "serve", "uri", "play", "abort"}
Pcs         == {"select", "exited", "killed"} \cup TeardownPcs \cup StartPcs

KindOf(c) == req[c].kind
Target(c) == req[c].device
Last(s)   == s[Len(s)]

TypeOK ==
    /\ open \in BOOLEAN /\ casting \in BOOLEAN
    /\ now \in Device \cup {NoDevice}
    /\ dialog \in Device \cup {NoDevice}
    /\ posted \in Seq(Cast)
    /\ cmds \in Seq(Cast \cup {Stop})
    /\ req \in Seq(Request) /\ Len(req) <= MaxCasts
    /\ snapshot \subseteq Device
    /\ pc \in Pcs
    /\ cur \in Cast \cup {Stop, Quit}
    /\ active \in Cast \cup {NoCast}
    /\ closing \in Cast \cup {NoCast}
    /\ server \in [Cast -> {"off", "open", "closing"}]
    /\ pump \in [Cast -> {"off", "run", "stop", "drain"}]
    /\ stopSent \in [Cast -> BOOLEAN]
    /\ cap \in [Cast -> {"off", "start", "wait", "send"}]
    /\ chan \in [Cast -> 0..QueueCap]
    /\ uri \in [Device -> Cast \cup {NoCast}]
    /\ playing \in [Device -> Cast \cup {NoCast}]
    /\ conns \subseteq Cast
    /\ late \subseteq SoapOp \X Cast
    /\ faulty \subseteq Cast

Init ==
    /\ open = TRUE /\ casting = FALSE /\ now = NoDevice /\ dialog = NoDevice
    /\ posted = <<>> /\ cmds = <<>> /\ req = <<>>
    /\ snapshot = {} /\ pc = "select" /\ cur = Stop
    /\ active = NoCast /\ closing = NoCast
    /\ server = [c \in Cast |-> "off"]
    /\ pump = [c \in Cast |-> "off"]
    /\ stopSent = [c \in Cast |-> FALSE]
    /\ cap = [c \in Cast |-> "off"]
    /\ chan = [c \in Cast |-> 0]
    /\ uri = [d \in Device |-> NoCast]
    /\ playing = [d \in Device |-> NoCast]
    /\ conns = {} /\ late = {} /\ faulty = {}

-----------------------------------------------------------------------------
(* The renderer.  A SOAP call is answered, refused (or lost on the way), or *)
(* times out at the app and is applied by the renderer at any later time.   *)

Apply(op, c) ==
    LET d == Target(c) IN
    /\ uri' = IF op = "uri" THEN [uri EXCEPT ![d] = c] ELSE uri
    /\ playing' = CASE op = "play" -> [playing EXCEPT ![d] = uri[d]]
                    [] op = "stop" -> [playing EXCEPT ![d] = NoCast]
                    [] OTHER       -> playing

Soap(op, c, result) ==
    /\ IF result = "ok" THEN Apply(op, c) ELSE UNCHANGED <<uri, playing>>
    /\ late' = IF result = "late" THEN late \cup {<<op, c>>} ELSE late
    /\ faulty' = IF result = "ok" THEN faulty ELSE faulty \cup {c}
    /\ result = "late" => Cardinality(late) < MaxLate
    /\ UNCHANGED conns

TvLate(op, c) ==
    /\ <<op, c>> \in late
    /\ late' = late \ {<<op, c>>}
    /\ Apply(op, c)
    /\ UNCHANGED <<uiVars, posted, cmds, req, rtVars, taskVars, conns, faulty>>

\* The renderer fetches the URL it was given, while the server accepts.
TvConnect(c) ==
    /\ c <= Len(req) /\ server[c] = "open" /\ uri[Target(c)] = c
    /\ c \notin conns
    /\ conns' = conns \cup {c}
    /\ UNCHANGED <<uiVars, posted, cmds, req, rtVars, taskVars,
                   uri, playing, late, faulty>>

TvDisconnect(c) ==
    /\ c \in conns
    /\ conns' = conns \ {c}
    /\ UNCHANGED <<uiVars, posted, cmds, req, rtVars, taskVars,
                   uri, playing, late, faulty>>

\* The media ends, or somebody uses the renderer's own remote control.
TvEnds(d) ==
    /\ playing[d] # NoCast
    /\ playing' = [playing EXCEPT ![d] = NoCast]
    /\ UNCHANGED <<uiVars, posted, cmds, req, rtVars, taskVars,
                   uri, conns, late, faulty>>

-----------------------------------------------------------------------------
(* The window.  Its handlers run one at a time on the main thread; while a  *)
(* file dialog is up, that thread is inside the Cast handler.               *)

Press(k, d) ==
    /\ casting' = TRUE /\ now' = d /\ dialog' = NoDevice
    /\ req' = Append(req, [kind |-> k, device |-> d])
    /\ cmds' = Append(cmds, Len(req) + 1)
    /\ UNCHANGED <<open, posted, rtVars, taskVars, tvVars>>

\* The Cast button is there, the event loop is free, and d is in the snapshot.
CanPick(d) ==
    /\ open /\ dialog = NoDevice /\ ~casting
    /\ Len(req) < MaxCasts
    /\ d \in snapshot

UiMirror(d)   == CanPick(d) /\ Press("mirror", d)
UiCastUrl(d)  == CanPick(d) /\ Press("url", d)

UiPickFile(d) ==
    /\ CanPick(d)
    /\ dialog' = d
    /\ UNCHANGED <<open, casting, now, posted, cmds, req, rtVars, taskVars, tvVars>>

UiFilePicked  == dialog # NoDevice /\ Press("file", dialog)

UiFileCancelled ==
    /\ dialog # NoDevice
    /\ dialog' = NoDevice
    /\ UNCHANGED <<open, casting, now, posted, cmds, req, rtVars, taskVars, tvVars>>

UiStop ==
    /\ open /\ dialog = NoDevice /\ casting
    /\ casting' = FALSE /\ now' = NoDevice
    /\ cmds' = Append(cmds, Stop)
    /\ UNCHANGED <<open, dialog, posted, req, rtVars, taskVars, tvVars>>

\* The event loop runs the next closure clear_casting posted.
UiClear ==
    /\ open /\ dialog = NoDevice /\ posted # <<>>
    /\ posted' = Tail(posted)
    /\ casting' = FALSE /\ now' = NoDevice
    /\ UNCHANGED <<open, dialog, cmds, req, rtVars, taskVars, tvVars>>

\* The window is closed: app.run() returns and the event loop is gone.
UiQuit ==
    /\ open /\ dialog = NoDevice
    /\ open' = FALSE
    /\ UNCHANGED <<casting, now, dialog, posted, cmds, req, rtVars, taskVars, tvVars>>

\* main() returns without joining the background thread: the process dies
\* wherever the runtime is.
ProcessExit ==
    /\ ~open /\ pc # "killed"
    /\ pc' = "killed" /\ cur' = Stop /\ active' = NoCast /\ closing' = NoCast
    /\ posted' = <<>> /\ cmds' = <<>> /\ conns' = {}
    /\ server' = [c \in Cast |-> "off"]
    /\ pump' = [c \in Cast |-> "off"]
    /\ cap' = [c \in Cast |-> "off"]
    /\ UNCHANGED <<uiVars, req, snapshot, stopSent, chan, uri, playing, late, faulty>>

-----------------------------------------------------------------------------
(* The runtime's command loop.  Every pc is a point where it awaits.        *)

\* Discovery published a list: the snapshot is replaced.
RtDevices(devices) ==
    /\ pc = "select" /\ devices # snapshot
    /\ snapshot' = devices
    /\ UNCHANGED <<uiVars, posted, cmds, req, pc, cur, active, closing,
                   taskVars, tvVars>>

\* teardown(mem::replace(&mut active, None)) begins for command x.
BeginTeardown(x) ==
    /\ pc = "select"
    /\ pc' = "teardown" /\ cur' = x
    /\ closing' = active /\ active' = NoCast
    /\ UNCHANGED <<uiVars, posted, req, snapshot, taskVars, tvVars>>

RtRecv   == cmds # <<>> /\ BeginTeardown(Head(cmds)) /\ cmds' = Tail(cmds)
RtClosed == ~open /\ cmds = <<>> /\ BeginTeardown(Quit) /\ UNCHANGED cmds

\* teardown() returns: exit the loop, wait again, or start the cast asked for.
EndTeardown ==
    /\ closing' = NoCast
    /\ pc' = CASE cur = Quit -> "exited" [] cur = Stop -> "select" [] OTHER -> "find"
    /\ UNCHANGED <<uiVars, posted, cmds, req, snapshot, cur, active>>

RtTeardownNone ==
    /\ pc = "teardown" /\ closing = NoCast
    /\ EndTeardown
    /\ UNCHANGED <<taskVars, tvVars>>

\* Mutant of RtTeardownMedia: the server task is awaited but never told to stop.
RtTeardownMediaNoShutdown(result) ==
    /\ pc = "teardown" /\ closing # NoCast /\ KindOf(closing) # "mirror"
    /\ Soap("stop", closing, result)
    /\ pc' = "drain"
    /\ UNCHANGED <<uiVars, posted, cmds, req, snapshot, cur, active, closing, taskVars>>

\* MediaCastSession::stop: SOAP Stop, its result ignored, then the server.
RtTeardownMedia(result) ==
    /\ pc = "teardown" /\ closing # NoCast /\ KindOf(closing) # "mirror"
    /\ Soap("stop", closing, result)
    /\ pc' = "drain"
    /\ server' = IF KindOf(closing) = "file"
                 THEN [server EXCEPT ![closing] = "closing"] ELSE server
    /\ UNCHANGED <<uiVars, posted, cmds, req, snapshot, cur, active, closing,
                   pump, stopSent, cap, chan>>

\* Graceful shutdown ends when the renderer has no connection left.
RtDrained ==
    /\ pc = "drain" /\ closing \notin conns
    /\ server' = [server EXCEPT ![closing] = "off"]
    /\ EndTeardown
    /\ UNCHANGED <<pump, stopSent, cap, chan, tvVars>>

RtTeardownMirror ==
    /\ pc = "teardown" /\ closing # NoCast /\ KindOf(closing) = "mirror"
    /\ stopSent' = [stopSent EXCEPT ![closing] = TRUE]
    /\ pc' = "joinPump"
    /\ UNCHANGED <<uiVars, posted, cmds, req, snapshot, cur, active, closing,
                   server, pump, cap, chan, tvVars>>

\* Mutant of RtPumpJoined: the pump is told to stop, not awaited.
RtPumpNotJoined ==
    /\ pc = "joinPump"
    /\ pc' = "joinCapture"
    /\ UNCHANGED <<uiVars, posted, cmds, req, snapshot, cur, active, closing,
                   taskVars, tvVars>>

RtPumpJoined ==
    /\ pc = "joinPump" /\ pump[closing] = "off"
    /\ pc' = "joinCapture"
    /\ UNCHANGED <<uiVars, posted, cmds, req, snapshot, cur, active, closing,
                   taskVars, tvVars>>

\* Mutant of RtCaptureJoined: teardown() forgets the capture thread.
RtCaptureNotJoined ==
    /\ pc = "joinCapture"
    /\ EndTeardown
    /\ UNCHANGED <<taskVars, tvVars>>

RtCaptureJoined ==
    /\ pc = "joinCapture" /\ cap[closing] = "off"
    /\ EndTeardown
    /\ UNCHANGED <<taskVars, tvVars>>

-----------------------------------------------------------------------------
(* start_media and start_mirror.  Both resolve the device, start the server *)
(* a file or a mirror needs, and drive the renderer; any failure stops that *)
(* server, posts clear_casting and leaves nothing active.                   *)

Fail == posted' = Append(posted, cur) /\ pc' = "select" /\ cur' = Stop

\* find_device: the id may have left the snapshot since it was pressed.
RtFind ==
    /\ pc = "find"
    /\ IF Target(cur) \in snapshot
       THEN pc' = "resolve" /\ UNCHANGED <<posted, cur>>
       ELSE Fail
    /\ UNCHANGED <<uiVars, cmds, req, snapshot, active, closing, taskVars, tvVars>>

\* control_url: discovered with the device, or fetched from its description.
RtResolve(ok) ==
    /\ pc = "resolve"
    /\ IF ok THEN pc' = "serve" /\ UNCHANGED <<posted, cur>> ELSE Fail
    /\ UNCHANGED <<uiVars, cmds, req, snapshot, active, closing, taskVars, tvVars>>

\* local_ip_for, then MediaServer::start or LiveStream::start; no server for a link.
RtServe(ok) ==
    /\ pc = "serve"
    /\ KindOf(cur) = "url" => ok
    /\ IF ok THEN pc' = "uri" /\ UNCHANGED <<posted, cur>> ELSE Fail
    /\ server' = IF ok /\ KindOf(cur) # "url"
                 THEN [server EXCEPT ![cur] = "open"] ELSE server
    /\ UNCHANGED <<uiVars, cmds, req, snapshot, active, closing,
                   pump, stopSent, cap, chan, tvVars>>

\* A SOAP call of the start failed: stop the server before returning the error.
GiveUp ==
    IF KindOf(cur) = "url"
    THEN Fail /\ UNCHANGED server
    ELSE /\ server' = [server EXCEPT ![cur] = "closing"]
         /\ pc' = "abort"
         /\ UNCHANGED <<posted, cur>>

RtSetUri(result) ==
    /\ pc = "uri"
    /\ Soap("uri", cur, result)
    /\ IF result = "ok" THEN pc' = "play" /\ UNCHANGED <<posted, cur, server>> ELSE GiveUp
    /\ UNCHANGED <<uiVars, cmds, req, snapshot, active, closing,
                   pump, stopSent, cap, chan>>

\* The session is held in active; a mirror also spawns its pump and its capture.
Started ==
    /\ active' = cur /\ pc' = "select" /\ cur' = Stop
    /\ IF KindOf(cur) = "mirror"
       THEN /\ pump' = [pump EXCEPT ![cur] = "run"]
            /\ stopSent' = [stopSent EXCEPT ![cur] = FALSE]
            /\ cap' = [cap EXCEPT ![cur] = "start"]
            /\ chan' = [chan EXCEPT ![cur] = 0]
       ELSE UNCHANGED <<pump, stopSent, cap, chan>>
    /\ UNCHANGED <<posted, server>>

RtPlay(result) ==
    /\ pc = "play"
    /\ Soap("play", cur, result)
    /\ IF result = "ok"
       THEN Started
       ELSE GiveUp /\ UNCHANGED <<active, pump, stopSent, cap, chan>>
    /\ UNCHANGED <<uiVars, cmds, req, snapshot, closing>>

RtAborted ==
    /\ pc = "abort" /\ cur \notin conns
    /\ server' = [server EXCEPT ![cur] = "off"]
    /\ Fail
    /\ UNCHANGED <<uiVars, cmds, req, snapshot, active, closing,
                   pump, stopSent, cap, chan, tvVars>>

-----------------------------------------------------------------------------
(* The frame pump of a mirror: select! over the stop signal and the channel, *)
(* then LiveMirrorSession::stop.  Its receiver lives until the task ends.    *)

PumpStop(c) ==
    /\ pump[c] = "run" /\ stopSent[c]
    /\ pump' = [pump EXCEPT ![c] = "stop"]
    /\ UNCHANGED <<uiVars, posted, cmds, req, rtVars, server, stopSent, cap, chan, tvVars>>

PumpUnit(c) ==
    /\ pump[c] = "run" /\ chan[c] > 0
    /\ chan' = [chan EXCEPT ![c] = @ - 1]
    /\ UNCHANGED <<uiVars, posted, cmds, req, rtVars, server, pump, stopSent, cap, tvVars>>

\* Mutant of PumpEnded: the end of the mirror is not reported to the window.
PumpEndedSilently(c) ==
    /\ pump[c] = "run" /\ chan[c] = 0 /\ cap[c] = "off"
    /\ pump' = [pump EXCEPT ![c] = "stop"]
    /\ UNCHANGED <<uiVars, posted, cmds, req, rtVars, server, stopSent, cap, chan, tvVars>>

\* recv() is None: the capture thread is gone and the channel is empty.
PumpEnded(c) ==
    /\ pump[c] = "run" /\ chan[c] = 0 /\ cap[c] = "off"
    /\ posted' = Append(posted, c)
    /\ pump' = [pump EXCEPT ![c] = "stop"]
    /\ UNCHANGED <<uiVars, cmds, req, rtVars, server, stopSent, cap, chan, tvVars>>

\* Mutant of PumpSoapStop: the stream is shut down, the renderer is not told.
PumpStopNoSoap(c, result) ==
    /\ pump[c] = "stop"
    /\ server' = [server EXCEPT ![c] = "closing"]
    /\ pump' = [pump EXCEPT ![c] = "drain"]
    /\ UNCHANGED <<uiVars, posted, cmds, req, rtVars, stopSent, cap, chan, tvVars>>

PumpSoapStop(c, result) ==
    /\ pump[c] = "stop"
    /\ Soap("stop", c, result)
    /\ server' = [server EXCEPT ![c] = "closing"]
    /\ pump' = [pump EXCEPT ![c] = "drain"]
    /\ UNCHANGED <<uiVars, posted, cmds, req, rtVars, stopSent, cap, chan>>

PumpDrained(c) ==
    /\ pump[c] = "drain" /\ c \notin conns
    /\ server' = [server EXCEPT ![c] = "off"]
    /\ pump' = [pump EXCEPT ![c] = "off"]
    /\ UNCHANGED <<uiVars, posted, cmds, req, rtVars, stopSent, cap, chan, tvVars>>

-----------------------------------------------------------------------------
(* The capture thread of a mirror.                                          *)

\* ScreenCapture::start
CapStart(c, ok) ==
    /\ cap[c] = "start"
    /\ cap' = [cap EXCEPT ![c] = IF ok THEN "wait" ELSE "off"]
    /\ UNCHANGED <<uiVars, posted, cmds, req, rtVars, server, pump, stopSent, chan, tvVars>>

\* next_frame() returned a frame that the encoder turned into a unit ...
CapFrame(c) ==
    /\ cap[c] = "wait"
    /\ cap' = [cap EXCEPT ![c] = "send"]
    /\ UNCHANGED <<uiVars, posted, cmds, req, rtVars, server, pump, stopSent, chan, tvVars>>

\* ... or the capture ended, or the encoder failed to start or to encode.
CapEnd(c) ==
    /\ cap[c] = "wait"
    /\ cap' = [cap EXCEPT ![c] = "off"]
    /\ UNCHANGED <<uiVars, posted, cmds, req, rtVars, server, pump, stopSent, chan, tvVars>>

\* Mutant of CapSend: an unbounded channel.
CapSendUnbounded(c) ==
    /\ cap[c] = "send" /\ pump[c] # "off"
    /\ chan' = [chan EXCEPT ![c] = @ + 1]
    /\ cap' = [cap EXCEPT ![c] = "wait"]
    /\ UNCHANGED <<uiVars, posted, cmds, req, rtVars, server, pump, stopSent, tvVars>>

\* blocking_send waits for room, and fails once the pump's receiver is gone.
CapSend(c) ==
    /\ cap[c] = "send" /\ pump[c] # "off" /\ chan[c] < QueueCap
    /\ chan' = [chan EXCEPT ![c] = @ + 1]
    /\ cap' = [cap EXCEPT ![c] = "wait"]
    /\ UNCHANGED <<uiVars, posted, cmds, req, rtVars, server, pump, stopSent, tvVars>>

\* Mutant of CapClosed: the failed send is ignored and capture goes on.
CapClosedIgnored(c) ==
    /\ cap[c] = "send" /\ pump[c] = "off"
    /\ cap' = [cap EXCEPT ![c] = "wait"]
    /\ UNCHANGED <<uiVars, posted, cmds, req, rtVars, server, pump, stopSent, chan, tvVars>>

CapClosed(c) ==
    /\ cap[c] = "send" /\ pump[c] = "off"
    /\ cap' = [cap EXCEPT ![c] = "off"]
    /\ UNCHANGED <<uiVars, posted, cmds, req, rtVars, server, pump, stopSent, chan, tvVars>>

-----------------------------------------------------------------------------

Ui ==
    \/ \E d \in Device : UiMirror(d) \/ UiCastUrl(d) \/ UiPickFile(d)
    \/ UiFilePicked \/ UiFileCancelled
    \/ UiStop \/ UiClear \/ UiQuit \/ ProcessExit

Teardown ==
    \/ RtRecv \/ RtClosed \/ RtTeardownNone
    \/ \E result \in Outcome : RtTeardownMedia(result)
    \/ RtDrained \/ RtTeardownMirror \/ RtPumpJoined \/ RtCaptureJoined

Start ==
    \/ RtFind \/ RtAborted
    \/ \E ok \in BOOLEAN : RtResolve(ok) \/ RtServe(ok)
    \/ \E result \in Outcome : RtSetUri(result) \/ RtPlay(result)

Pump(c) ==
    \/ PumpStop(c) \/ PumpUnit(c) \/ PumpEnded(c) \/ PumpDrained(c)
    \/ \E result \in Outcome : PumpSoapStop(c, result)

Capture(c) ==
    \/ \E ok \in BOOLEAN : CapStart(c, ok)
    \/ CapFrame(c) \/ CapEnd(c) \/ CapSend(c) \/ CapClosed(c)

Renderer ==
    \/ \E op \in SoapOp, c \in Cast : TvLate(op, c)
    \/ \E c \in Cast : TvConnect(c) \/ TvDisconnect(c)
    \/ \E d \in Device : TvEnds(d)

Next ==
    \/ Ui
    \/ \E devices \in SUBSET Device : RtDevices(devices)
    \/ Teardown \/ Start
    \/ \E c \in Cast : Pump(c) \/ Capture(c)
    \/ Renderer

Spec == Init /\ [][Next]_vars

(* Fairness.  The runtime, the pump and the capture thread are scheduled;    *)
(* select! polls its branches in random order, so a stop signal that stays   *)
(* ready is taken even if units keep coming.  Two assumptions are about the  *)
(* outside: frames keep coming while a screen is captured (CapFrame), and a  *)
(* renderer whose server stopped feeding it hangs up in the end.             *)
Fairness ==
    /\ WF_vars(Teardown) /\ WF_vars(Start) /\ WF_vars(UiClear)
    /\ \A c \in Cast :
         /\ WF_vars(PumpStop(c)) /\ WF_vars(Pump(c)) /\ WF_vars(Capture(c))
         /\ WF_vars(server[c] = "closing" /\ TvDisconnect(c))

FairSpec == Spec /\ Fairness

-----------------------------------------------------------------------------
(* Properties.                                                              *)

\* What of cast c still occupies this computer.
Running(c) == server[c] # "off" \/ pump[c] # "off" \/ cap[c] # "off"

\* Never do two casts run at once: before anything of a new cast starts, the
\* previous one's server is shut down, its pump and its capture thread have
\* ended, whichever way it ended ("tear it down cleanly before starting anew").
OneCastAtATime == \A c, d \in Cast : Running(c) /\ Running(d) => c = d

\* The command loop is idle, and nothing is left for it or the window to do.
Settled == open /\ pc = "select" /\ cmds = <<>> /\ posted = <<>>

\* When all is settled and the window says LIVE, that is true: the newest press
\* is the cast held active, on the device the window names, and if it is a
\* mirror its pump still feeds the renderer.  So every failure and every end of
\* a mirror resets the window, and commands are served in the order pressed.
CastingIsLive ==
    Settled /\ casting =>
        /\ active = Len(req) /\ active # NoCast
        /\ now = Target(active)
        /\ KindOf(active) = "mirror" => pump[active] = "run"

\* A cast the app no longer holds, nor starts, nor tears down, nor pumps.
Over(c) ==
    /\ c # active /\ c # closing /\ pump[c] = "off"
    /\ ~(c = cur /\ pc \in StartPcs)
    /\ \A i \in DOMAIN cmds : cmds[i] # c

FaultAt(d) == \E f \in faulty : Target(f) = d

\* A renderer is left playing a cast that is over only if one of its SOAP calls
\* failed; tearing down and failing to start leave no such orphan by themselves.
OrphanNeedsFault ==
    pc # "killed" =>
        \A d \in Device :
            playing[d] # NoCast /\ Over(playing[d]) => FaultAt(d)

\* The last press so far is c, and a Stop was pressed after it.
StoppedAfter(c) == Len(req) = c /\ cmds # <<>> /\ Last(cmds) = Stop

\* Stop casting works: once Stop is pressed, the cast's server, pump and capture
\* thread are all gone some time later (or the process is).
StopReleases ==
    \A c \in Cast : StoppedAfter(c) ~> (pc = "killed" \/ (~Running(c) /\ c # active))

\* Every press is answered: no command is stuck behind a teardown for ever, and
\* one that is served ends in an active cast or in a clear_casting for that cast.
PressAnswered ==
    \A c \in Cast :
        (\E i \in DOMAIN cmds : cmds[i] = c) ~>
            (pc = "killed" \/ active = c \/ \E i \in DOMAIN posted : posted[i] = c)

\* What README.md promises of the window, "Press Stop casting when you are done":
\* while a cast is held and running the window offers Stop.
RunningCastIsShown ==
    Settled /\ active # NoCast
      /\ (KindOf(active) = "mirror" => pump[active] = "run") => casting

-----------------------------------------------------------------------------
(* The inductive invariant behind the safety properties.                    *)

HostPcs == {"uri", "play", "abort"}     \* the starting cast has its server

\* What pc says of the loop's local variables and of the file dialog.
PhaseOK ==
    /\ pc = "select" => cur = Stop /\ closing = NoCast
    /\ pc # "select" => active = NoCast
    /\ pc \in TeardownPcs \ {"teardown"} => closing # NoCast
    /\ pc \notin TeardownPcs => closing = NoCast
    /\ pc \in StartPcs => cur \in Cast
    /\ dialog # NoDevice => Len(req) < MaxCasts /\ ~casting

\* Every cast the system speaks of has been pressed.
PressedOK ==
    /\ cur <= Len(req) /\ active <= Len(req) /\ closing <= Len(req)
    /\ \A i \in DOMAIN cmds : cmds[i] <= Len(req)
    /\ \A c \in Cast : Running(c) => c <= Len(req)

\* The command loop holds whatever runs, in one of three places.
Held(c) == c = active \/ c = closing \/ (c = cur /\ pc \in HostPcs)

OwnedOK ==
    /\ \A c \in Cast : Running(c) => Held(c)
    /\ \A c \in Cast : pump[c] # "off" \/ cap[c] # "off" => KindOf(c) = "mirror"
    /\ \A c \in Cast : server[c] # "off" => KindOf(c) # "url"
    /\ pc \in HostPcs => pump[cur] = "off" /\ cap[cur] = "off"
    /\ pc = "drain" => KindOf(closing) # "mirror"
    /\ pc \in {"joinPump", "joinCapture"} => KindOf(closing) = "mirror"
    /\ pc = "joinCapture" => pump[closing] = "off"
    \* once spawned, a mirror's pump owns its server
    /\ \A c \in {active, closing} \ {NoCast} :
         KindOf(c) = "mirror" /\ server[c] # "off" => pump[c] # "off"

\* Where the newest press is while the window says LIVE.
NewestIsQueued  == cmds # <<>> /\ Last(cmds) = Len(req)
NewestIsServed  == cmds = <<>> /\ pc \in TeardownPcs \cup StartPcs /\ cur = Len(req)
NewestIsActive  ==
    /\ cmds = <<>> /\ active = Len(req)
    /\ KindOf(active) = "mirror" => pump[active] = "run"
NewestIsCleared == cmds = <<>> /\ \E i \in DOMAIN posted : posted[i] = Len(req)

LiveOK ==
    /\ active # NoCast /\ KindOf(active) = "mirror" => ~stopSent[active]
    /\ open /\ casting =>
         /\ req # <<>> /\ now = Target(Len(req))
         /\ NewestIsQueued \/ NewestIsServed \/ NewestIsActive \/ NewestIsCleared

\* Calls that failed or came late are of casts that were pressed, and a renderer
\* only ever hears of casts that were meant for it.
CallsOK ==
    /\ \A c \in faulty : c <= Len(req)
    /\ \A l \in late : l[2] \in faulty
    /\ \A d \in Device :
         /\ uri[d] # NoCast => uri[d] <= Len(req) /\ Target(uri[d]) = d
         /\ playing[d] # NoCast => playing[d] <= Len(req) /\ Target(playing[d]) = d

\* A renderer whose calls have all succeeded plays nothing that has been stopped: it
\* plays a mirror whose pump has yet to send Stop, or media that is active or about
\* to be torn down; and Play starts what SetAVTransportURI has just set.
Unstopped(c) ==
    IF KindOf(c) = "mirror" THEN pump[c] \in {"run", "stop"}
    ELSE c = active \/ (c = closing /\ pc = "teardown")

TvOK ==
    /\ pc = "play" => uri[Target(cur)] = cur \/ FaultAt(Target(cur))
    /\ pc # "killed" =>
         \A d \in Device : playing[d] # NoCast => Unstopped(playing[d]) \/ FaultAt(d)

IInv == TypeOK /\ PhaseOK /\ PressedOK /\ OwnedOK /\ LiveOK /\ CallsOK /\ TvOK

=============================================================================
