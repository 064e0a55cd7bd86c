-------------------------------- MODULE Cli --------------------------------
(***************************************************************************)
(* The command line tool, mirroring the screen or casting a file or a URL: *)
(* the main task that finds the device, starts a session, forwards encoded *)
(* units to it and waits for Ctrl-C; the thread that captures and encodes; *)
(* the encoder's hardware; the bounded channel between them; and the       *)
(* renderer, told what to do by SOAP calls that may fail.  A unit is the   *)
(* number of its frame, when it was captured and its time stamp.           *)
(***************************************************************************)
EXTENDS Integers, SequencesExt

CONSTANTS
    Capacity,    \* units that the channel holds
    MaxFrames,   \* bound: frames that are told apart
    Steps,       \* bound: nanoseconds between the capture times of two frames
    Depth        \* bound: frames inside the encoder

ASSUME CliAssumption ==
    /\ Capacity \in Nat \ {0} /\ MaxFrames \in Nat \ {0} /\ Steps \subseteq Int
    /\ Depth \in Nat \ {0}

Unset == -1

VARIABLES
    command,     \* "mirror", "file" or "url"
    platform,    \* whose encoder it is: "mac", "windows" or none
    counting,    \* bound: at most MaxFrames frames are captured while mirroring; or any
                 \* number of them that look like the first, and pushed leaves them out
    main,        \* the main task: "find", "resolve", "serve", "setUri", "play",
                 \* "select", "push", "wait", "stop", "close", "join", "exited",
                 \* or "killed"
    unit,        \* the unit it has received
    tv,          \* the renderer: "idle", "loaded", "playing"
    callFailed,  \* history: a call to the renderer failed
    server,      \* the live stream server, or the file server, is up
    installed,   \* Ctrl-C has a handler, and no longer kills the process
    listening,   \* a ctrl_c() future has been polled and not dropped
    signal,      \* Ctrl-C: "none", "raised", or "heard" by that future
    queue,       \* the channel
    capture,     \* the thread: "none", "start", "first", "frame", "encode",
                 \* "drain", "send", "ended"
    frame,       \* the frame that the thread holds: its number and when it was captured
    base,        \* the clock's anchor
    held,        \* units inside the encoder
    output,      \* units that it has produced
    batch,       \* units that the thread is sending
    pushed,      \* history: units muxed and published
    failed       \* history: frames that the hardware could not encode

given       == <<command, platform, counting>>
mainVars    == <<main, unit, tv, callFailed, server>>
signalVars  == <<installed, listening, signal>>
threadVars  == <<capture, frame, base, batch>>
encoderVars == <<held, output, failed>>
vars == <<given, mainVars, signalVars, queue, threadVars, encoderVars, pushed>>

Init ==
    /\ command \in {"mirror", "file", "url"}
    /\ platform \in {"mac", "windows", "none"} /\ (command # "mirror" => platform = "none")
    /\ counting \in BOOLEAN
    /\ main = "find" /\ unit = <<>> /\ tv = "idle" /\ callFailed = FALSE /\ server = FALSE
    /\ installed = FALSE /\ listening = FALSE /\ signal = "none"
    /\ queue = <<>> /\ capture = "none"
    /\ frame = [number |-> 0, time |-> 0] /\ base = Unset
    /\ held = <<>> /\ output = <<>> /\ batch = <<>> /\ pushed = <<>> /\ failed = {}

-----------------------------------------------------------------------------
(* The session: start() and stop().                                         *)

Proceeds(ok, next) == main' = IF ok THEN next ELSE "exited"

\* The media is there, and so is the device.
Find(found) ==
    /\ main = "find" /\ Proceeds(found, "resolve")
    /\ UNCHANGED <<given, unit, tv, callFailed, server, signalVars, queue, threadVars,
                   encoderVars, pushed>>

\* Its control URL is known or can be fetched.
Resolve(ok) ==
    /\ main = "resolve" /\ Proceeds(ok, IF command = "url" THEN "setUri" ELSE "serve")
    /\ UNCHANGED <<given, unit, tv, callFailed, server, signalVars, queue, threadVars,
                   encoderVars, pushed>>

Serve(ok) ==
    /\ main = "serve" /\ Proceeds(ok, "setUri") /\ server' = ok
    /\ UNCHANGED <<given, unit, tv, callFailed, signalVars, queue, threadVars,
                   encoderVars, pushed>>

\* A call to the renderer.  Of one that fails, the renderer may have heard and the
\* answer got lost.
Call(heard, ok, becomes) ==
    /\ ok => heard
    /\ tv' = IF heard THEN becomes ELSE tv
    /\ callFailed' = (callFailed \/ ~ok)

\* When it fails the server is stopped.
SetUri(heard, ok) ==
    /\ main = "setUri" /\ Call(heard, ok, "loaded") /\ Proceeds(ok, "play")
    /\ server' = (server /\ ok)
    /\ UNCHANGED <<given, unit, signalVars, queue, threadVars, encoderVars, pushed>>

Play(heard, ok) ==
    /\ main = "play" /\ Call(heard, ok, "playing")
    /\ Proceeds(ok, IF command = "mirror" THEN "select" ELSE "wait")
    /\ server' = (server /\ ok)
    /\ capture' = IF ok /\ command = "mirror" THEN "start" ELSE capture
    /\ UNCHANGED <<given, unit, signalVars, queue, frame, base, batch,
                   encoderVars, pushed>>

StopRenderer(heard, ok) ==
    /\ main = "stop" /\ Call(heard, ok, "idle")
    /\ main' = "close"
    /\ UNCHANGED <<given, unit, server, signalVars, queue, threadVars, encoderVars,
                   pushed>>

\* The renderer lets go of the stream; LiveStream has the case that it does not.
CloseServer ==
    /\ main = "close" /\ server' = FALSE
    /\ main' = IF command = "mirror" THEN "join" ELSE "exited"
    /\ UNCHANGED <<given, unit, tv, callFailed, signalVars, queue, threadVars,
                   encoderVars, pushed>>

\* Mutant of Join: the capture thread is not waited for.
JoinNobody ==
    /\ main = "join" /\ main' = "exited"
    /\ UNCHANGED <<given, unit, tv, callFailed, server, signalVars, queue, threadVars,
                   encoderVars, pushed>>

Join ==
    /\ main = "join" /\ capture = "ended" /\ main' = "exited"
    /\ UNCHANGED <<given, unit, tv, callFailed, server, signalVars, queue, threadVars,
                   encoderVars, pushed>>

-----------------------------------------------------------------------------
(* The main loop.  Its select polls the branches in random order.           *)

Alive     == main \notin {"exited", "killed"}

\* Mutant of RxDropped: the receiver lives until the end.
RxKept    == main \in {"exited", "killed"}

RxDropped == main \in {"stop", "close", "join", "exited", "killed"}

Waiting == main \in {"select", "wait"}

\* ctrl_c() is polled: from now on its future hears the signal.
Poll ==
    /\ Waiting /\ ~listening
    /\ listening' = TRUE /\ installed' = TRUE
    /\ UNCHANGED <<given, mainVars, signal, queue, threadVars, encoderVars, pushed>>

DropFuture ==
    listening' = FALSE /\ signal' = IF signal = "heard" THEN "none" ELSE signal

\* A unit, perhaps before ctrl_c() was polled, or although it has heard the signal:
\* its future is dropped.
TakeUnit ==
    /\ main = "select" /\ queue # <<>>
    /\ main' = "push" /\ unit' = <<Head(queue)>> /\ queue' = Tail(queue)
    /\ DropFuture
    /\ UNCHANGED <<given, tv, callFailed, server, installed, threadVars, encoderVars, pushed>>

PushUnit ==
    /\ main = "push" /\ main' = "select" /\ unit' = <<>>
    /\ pushed' = IF counting THEN pushed \o unit ELSE pushed
    /\ UNCHANGED <<given, tv, callFailed, server, signalVars, queue, threadVars, encoderVars>>

\* Out of the loop, and the receiver is dropped with what is in the channel.
Leave ==
    /\ main' = "stop" /\ DropFuture /\ queue' = <<>>
    /\ UNCHANGED <<given, unit, tv, callFailed, server, installed, threadVars,
                   encoderVars, pushed>>

CtrlC == Waiting /\ signal = "heard" /\ Leave

\* Mutant of CaptureEnded: the end is only noticed with the next signal.
CaptureEndedUnnoticed ==
    main = "select" /\ queue = <<>> /\ capture = "ended" /\ signal = "heard" /\ Leave

CaptureEnded == main = "select" /\ queue = <<>> /\ capture = "ended" /\ Leave

Press ==
    /\ Alive /\ signal = "none"
    /\ IF installed THEN signal' = "raised" /\ UNCHANGED main
                    ELSE main' = "killed" /\ UNCHANGED signal
    /\ UNCHANGED <<given, unit, tv, callFailed, server, installed, listening, queue, threadVars,
                   encoderVars, pushed>>

\* The runtime tells whoever listens; if nobody does, the signal is gone.
Broadcast ==
    /\ Alive /\ signal = "raised"
    /\ signal' = IF listening THEN "heard" ELSE "none"
    /\ UNCHANGED <<given, mainVars, installed, listening, queue, threadVars, encoderVars, pushed>>

-----------------------------------------------------------------------------
(* Capture and encoding.                                                    *)

\* The clock: nanoseconds since its anchor, or 0 before it, in whole ticks of 90 kHz.
Elapsed(t) == IF t < base THEN 0 ELSE t - base
Ticks(ns)  == (ns * 9) \div 100000

\* Media Foundation counts in 100 ns, and Core Media in ticks.
Stamp(p) == IF platform = "windows" THEN (((p * 1000) \div 9) * 9) \div 1000 ELSE p

\* The thread is over: what finish() flushes out of the encoder is not sent.
EndThread == capture' = "ended" /\ batch' = <<>> /\ held' = <<>> /\ output' = <<>>

\* There is no capture, or no first frame, or no encoder; or capture ends; or a
\* frame cannot be encoded, or is smaller than the encoder expects (a panic).
ThreadFails ==
    /\ Alive /\ capture \in {"start", "first", "frame", "encode", "drain"}
    /\ EndThread
    /\ UNCHANGED <<given, mainVars, signalVars, queue, frame, base, failed, pushed>>

StartCapture ==
    /\ Alive /\ capture = "start" /\ platform # "none" /\ capture' = "first"
    /\ UNCHANGED <<given, mainVars, signalVars, queue, frame, base, batch, encoderVars, pushed>>

\* Frames that are told apart.
Told == IF counting THEN MaxFrames ELSE 1

\* Mutant of NextFrame: the clock has no anchor.
NextFrameUnanchored(step) ==
    /\ Alive /\ capture \in {"first", "frame"} /\ frame.number < Told
    /\ frame.time + step >= 0
    /\ frame' = [number |-> frame.number + 1, time |-> frame.time + step]
    /\ base' = 0 /\ capture' = "encode"
    /\ UNCHANGED <<given, mainVars, signalVars, queue, batch, encoderVars, pushed>>

\* The next frame, whose time the clock is asked about.  Those beyond the bound look like
\* the last one; while they are counted there are none until nobody receives.
NextFrame(step) ==
    /\ Alive /\ capture \in {"first", "frame"}
    /\ IF frame.number < Told
       THEN /\ frame.time + step >= 0
            /\ frame' = [number |-> frame.number + 1, time |-> frame.time + step]
       ELSE (counting => RxDropped) /\ UNCHANGED frame
    /\ base' = IF base = Unset THEN frame'.time ELSE base
    /\ capture' = "encode"
    /\ UNCHANGED <<given, mainVars, signalVars, queue, batch, encoderVars, pushed>>

Encode ==
    /\ Alive /\ capture = "encode"
    /\ held' = Append(held, [number |-> frame.number, at |-> frame.time - base,
                             stamp |-> Stamp(Ticks(Elapsed(frame.time)))])
    /\ capture' = "drain"
    /\ UNCHANGED <<given, mainVars, signalVars, queue, frame, base, batch, output, failed, pushed>>

\* The hardware is done with a frame; on a Mac at any time and on another thread.
Produce ==
    /\ Alive /\ held # <<>> /\ (platform = "mac" \/ capture = "drain")
    /\ held' = Tail(held) /\ output' = Append(output, Head(held))
    /\ UNCHANGED <<given, mainVars, signalVars, queue, threadVars, failed, pushed>>

FailToProduce ==
    /\ Alive /\ held # <<>> /\ platform = "mac"
    /\ held' = Tail(held) /\ failed' = failed \cup {Head(held).number}
    /\ UNCHANGED <<given, mainVars, signalVars, queue, threadVars, output, pushed>>

Drain ==
    /\ Alive /\ capture = "drain" /\ Len(held) < Depth
    /\ batch' = output /\ output' = <<>> /\ capture' = "send"
    /\ UNCHANGED <<given, mainVars, signalVars, queue, frame, base, held, failed, pushed>>

\* Mutant of SendUnit: the channel takes any number of units.
SendUnitUnbounded ==
    /\ Alive /\ capture = "send" /\ batch # <<>> /\ ~RxDropped
    /\ queue' = Append(queue, Head(batch)) /\ batch' = Tail(batch)
    /\ UNCHANGED <<given, mainVars, signalVars, capture, frame, base, encoderVars, pushed>>

\* Mutant of SendUnit: a full channel loses the unit.
SendUnitLossy ==
    /\ Alive /\ capture = "send" /\ batch # <<>> /\ ~RxDropped
    /\ queue' = IF Len(queue) < Capacity THEN Append(queue, Head(batch)) ELSE queue
    /\ batch' = Tail(batch)
    /\ UNCHANGED <<given, mainVars, signalVars, capture, frame, base, encoderVars, pushed>>

\* The thread waits for room in the channel.
SendUnit ==
    /\ Alive /\ capture = "send" /\ batch # <<>> /\ ~RxDropped /\ Len(queue) < Capacity
    /\ queue' = Append(queue, Head(batch)) /\ batch' = Tail(batch)
    /\ UNCHANGED <<given, mainVars, signalVars, capture, frame, base, encoderVars, pushed>>

SendFails ==
    /\ Alive /\ capture = "send" /\ batch # <<>> /\ RxDropped
    /\ EndThread
    /\ UNCHANGED <<given, mainVars, signalVars, queue, frame, base, failed, pushed>>

AllSent ==
    /\ Alive /\ capture = "send" /\ batch = <<>> /\ capture' = "frame"
    /\ UNCHANGED <<given, mainVars, signalVars, queue, frame, base, batch, encoderVars, pushed>>

Main   == \/ \E ok \in BOOLEAN : Find(ok) \/ Resolve(ok) \/ Serve(ok)
          \/ \E heard, ok \in BOOLEAN : SetUri(heard, ok) \/ Play(heard, ok) \/ StopRenderer(heard, ok)
          \/ CloseServer \/ Join \/ Poll \/ TakeUnit \/ PushUnit \/ CtrlC \/ CaptureEnded
Thread == \/ StartCapture \/ Encode \/ Drain \/ SendUnit \/ SendFails \/ AllSent
          \/ \E step \in Steps : NextFrame(step)

Next == Main \/ Press \/ Broadcast \/ Thread \/ ThreadFails \/ Produce \/ FailToProduce

Spec == Init /\ [][Next]_vars

\* Both tasks are scheduled, and where there is no capture the thread says so; the screen
\* changes, not every frame fails, calls return and the renderer lets go of the stream;
\* capture need not end.  select! polls in random order, so that no branch is always the
\* second.
FairSpec ==
    /\ Spec /\ WF_vars(Main) /\ WF_vars(Thread) /\ WF_vars(platform = "none" /\ ThreadFails)
    /\ SF_vars(Produce) /\ WF_vars(Broadcast) /\ SF_vars(Poll) /\ SF_vars(CtrlC)

-----------------------------------------------------------------------------
(* Properties.                                                              *)

\* A unit on its way.
Unit == [number: 1..MaxFrames, at: Int, stamp: Nat]

TypeOK ==
    /\ command \in {"mirror", "file", "url"} /\ platform \in {"mac", "windows", "none"}
    /\ counting \in BOOLEAN
    /\ main \in {"find", "resolve", "serve", "setUri", "play", "select", "push", "wait",
                "stop", "close", "join", "exited", "killed"}
    /\ capture \in {"none", "start", "first", "frame", "encode", "drain", "send", "ended"}
    /\ tv \in {"idle", "loaded", "playing"} /\ signal \in {"none", "raised", "heard"}
    /\ {callFailed, server, installed, listening} \subseteq BOOLEAN
    /\ {unit, queue, batch, output, held, pushed} \subseteq Seq(Unit)
    /\ Len(unit) <= 1 /\ (Alive => (main = "push" <=> unit # <<>>))
    /\ Len(queue) <= Capacity /\ Len(held) <= Depth
    /\ frame \in [number: 0..MaxFrames, time: Nat] /\ failed \subseteq 1..MaxFrames

\* Between capture and renderer no unit is lost, repeated or overtaken, however slow
\* the session is and whichever thread the encoder answers on, until mirroring stops:
\* every frame but those that the hardware failed to encode is somewhere on its way.
\* (While frames are counted; once the thread has ended by itself, what its encoder still
\* held is gone.)
Underway   == pushed \o unit \o queue \o batch \o output \o held
Encoded    == IF capture = "encode" THEN frame.number - 1 ELSE frame.number
Numbers(s) == {s[i].number : i \in DOMAIN s}

NothingIsLost ==
    counting /\ ~RxDropped =>
        /\ \A i, j \in DOMAIN Underway : i < j => Underway[i].number < Underway[j].number
        /\ capture # "ended" => Numbers(Underway) = (1 .. Encoded) \ failed

\* "Anchored so the first sample is PTS 0": what the renderer is shown begins at 0, and
\* two frames' stamps are in the order of their capture times.  A stamp is never ahead of
\* the time since the first frame, and less than one tick behind it on a Mac; on Windows,
\* where it is rounded down twice, less than two.  A frame that claims to be older than
\* the first is stamped 0.
StampsFollowTheClock ==
    \A i \in DOMAIN pushed :
        LET u == pushed[i] IN
        /\ u.number = 1 \/ u.at <= 0 => u.stamp = 0
        /\ u.at >= 0 => /\ 100000 * u.stamp <= 9 * u.at
                        /\ 9 * u.at < 100000 * (u.stamp + IF platform = "windows" THEN 2 ELSE 1)
        /\ \A j \in DOMAIN pushed : pushed[j].at <= u.at => pushed[j].stamp <= u.stamp

\* Why they do: the clock's anchor is the first frame, and every unit that is underway
\* carries what the clock makes of its time since then.
ClockInv ==
    /\ base = Unset <=> frame.number = 0
    /\ frame.number > 0 => base \in Nat
    /\ frame.number = 1 => base = frame.time
    /\ capture = "encode" => frame.number > 0

Timed(u) ==
    /\ u.number \in 1 .. frame.number
    /\ u.stamp = Stamp(Ticks(IF u.at < 0 THEN 0 ELSE u.at)) /\ (u.number = 1 => u.at = 0)

\* What the proofs need to know of every state, with the room that the encoder has
\* for a frame before it is given one.
FlowInv ==
    /\ counting => \A i \in DOMAIN Underway : Timed(Underway[i])
    /\ counting /\ ~RxDropped => Numbers(Underway) \cup failed \subseteq 1 .. Encoded
    /\ ~counting => pushed = <<>>
    /\ capture # "send" => batch = <<>>
    /\ capture # "drain" => Len(held) < Depth

CliInv == TypeOK /\ ClockInv /\ FlowInv /\ NothingIsLost

\* When the tool returns, its thread is over and its server is down, and a renderer
\* that was told to play has been told to stop, unless a call failed.  (After a Play
\* that fails none is told.)
ExitLeavesNothing ==
    main = "exited" =>
        /\ capture \in {"none", "ended"} /\ ~server
        /\ tv = "playing" => callFailed

\* "Stops when capture ends": nobody has to press anything.
CaptureEndStops == (main = "select" /\ capture = "ended") ~> ~Alive

\* "Until Ctrl-C": once it has a handler, somebody who presses it again and again gets
\* out, and out through the end of the thread that may be blocked on a full channel.  A
\* signal that is told while no future listens is lost; what has to be granted is that
\* not all presses, and not all of what is told, fall into those gaps.
SomeAreHeard == SF_vars(listening /\ Press) /\ SF_vars(listening /\ Broadcast)
CtrlCStops   == SomeAreHeard => (installed ~> (main = "exited"))

=============================================================================
