----------------------------- MODULE CliProofs -----------------------------
(***************************************************************************)
(* Whichever call fails and whenever capture ends or Ctrl-C comes: when    *)
(* the tool returns its thread is over, its server is down, and a renderer *)
(* that was told to play has been told to stop; and until then every frame *)
(* is on its way to the renderer, in order and with the time at which it   *)
(* was captured.  For any capacity, depth and number of frames.            *)
(***************************************************************************)
EXTENDS Cli, SequenceTheorems, TLAPS

\* The stages of the session: what is running in each of them.
Starting == {"find", "resolve", "serve", "setUri", "play"}
Stages   == Starting \cup {"select", "push", "wait", "stop", "close", "join", "exited", "killed"}

StageInv ==
    /\ main \in Stages /\ command \in {"mirror", "file", "url"}
    /\ {server, callFailed} \subseteq BOOLEAN
    /\ main \in Starting \/ command # "mirror" => capture = "none"
    /\ main \in {"find", "resolve", "serve"} => ~server
    /\ main \in Starting => tv # "playing"
    /\ main = "join" => ~server
    /\ main \in {"close", "join"} => (tv = "playing" => callFailed)
    /\ ExitLeavesNothing

\* Nothing runs in the initial state.
LEMMA InitStage == Init => StageInv
BY DEF Init, StageInv, ExitLeavesNothing, Stages, Starting

\* The main task's calls and what they start and end.
LEMMA SessionSteps ==
    ASSUME StageInv, NEW ok \in BOOLEAN, NEW heard \in BOOLEAN,
           \/ Find(ok) \/ Resolve(ok) \/ Serve(ok) \/ SetUri(heard, ok) \/ Play(heard, ok)
           \/ StopRenderer(heard, ok) \/ CloseServer \/ Join
    PROVE  StageInv'
<1> USE DEF StageInv, ExitLeavesNothing, Stages, Starting
<1>1. CASE Find(ok)
  BY <1>1 DEF Find, Proceeds, given, threadVars
<1>2. CASE Resolve(ok)
  BY <1>2 DEF Resolve, Proceeds, given, threadVars
<1>3. CASE Serve(ok)
  BY <1>3 DEF Serve, Proceeds, given, threadVars
<1>4. CASE SetUri(heard, ok)
  BY <1>4 DEF SetUri, Call, Proceeds, given, threadVars
<1>5. CASE Play(heard, ok)
  BY <1>5 DEF Play, Call, Proceeds, given
<1>6. CASE StopRenderer(heard, ok)
  BY <1>6 DEF StopRenderer, Call, given, threadVars
<1>7. CASE CloseServer
  BY <1>7 DEF CloseServer, given, threadVars
<1>8. CASE Join
  BY <1>8 DEF Join, given, threadVars
<1> QED BY <1>1, <1>2, <1>3, <1>4, <1>5, <1>6, <1>7, <1>8

\* The loop of the main task leaves it only to stop the renderer.
LEMMA LoopSteps ==
    ASSUME StageInv,
           Poll \/ TakeUnit \/ PushUnit \/ CtrlC \/ CaptureEnded \/ Press \/ Broadcast
    PROVE  StageInv'
<1> USE DEF StageInv, ExitLeavesNothing, Stages, Starting
<1>1. CASE Poll
  BY <1>1 DEF Poll, given, mainVars, threadVars
<1>2. CASE TakeUnit
  BY <1>2 DEF TakeUnit, given, threadVars
<1>3. CASE PushUnit
  BY <1>3 DEF PushUnit, given, threadVars
<1>4. CASE CtrlC \/ CaptureEnded
  BY <1>4 DEF CtrlC, CaptureEnded, Waiting, Leave, given, threadVars
<1>5. CASE Press
  BY <1>5 DEF Press, given, threadVars
<1>6. CASE Broadcast
  BY <1>6 DEF Broadcast, given, mainVars, threadVars
<1> QED BY <1>1, <1>2, <1>3, <1>4, <1>5, <1>6

\* The thread is started by Play alone, and is over once it has ended.
LEMMA ThreadSteps ==
    ASSUME StageInv, NEW step \in Int,
           \/ StartCapture \/ NextFrame(step) \/ Encode \/ Drain \/ SendUnit \/ SendFails
           \/ AllSent \/ ThreadFails \/ Produce \/ FailToProduce
    PROVE  StageInv'
<1>1. UNCHANGED <<command, main, tv, callFailed, server>>
  BY DEF StartCapture, NextFrame, Encode, Drain, SendUnit, SendFails, AllSent, ThreadFails,
         Produce, FailToProduce, given, mainVars
<1>2. main # "exited"
  BY DEF StartCapture, NextFrame, Encode, Drain, SendUnit, SendFails, AllSent, ThreadFails,
         Produce, FailToProduce, Alive
<1>3. capture = "none" => capture' = "none"
  BY DEF StartCapture, NextFrame, Encode, Drain, SendUnit, SendFails, AllSent, ThreadFails,
         Produce, FailToProduce, threadVars
<1> QED BY <1>1, <1>2, <1>3 DEF StageInv, ExitLeavesNothing

\* Every step keeps the stages.
LEMMA StepStage == StageInv /\ [Next]_vars => StageInv'
<1> SUFFICES ASSUME StageInv, [Next]_vars PROVE StageInv'
  OBVIOUS
<1>1. CASE Main
  BY <1>1, SessionSteps, LoopSteps DEF Main
<1>2. CASE Press \/ Broadcast
  BY <1>2, LoopSteps
<1>3. CASE Thread \/ ThreadFails \/ Produce \/ FailToProduce
  <2>1. 0 \in Int /\ Steps \subseteq Int
    BY CliAssumption
  <2> QED BY <1>3, <2>1, ThreadSteps DEF Thread
<1>4. CASE UNCHANGED vars
  BY <1>4 DEF vars, given, mainVars, threadVars, StageInv, ExitLeavesNothing
<1> QED BY <1>1, <1>2, <1>3, <1>4 DEF Next

\* When the tool returns, nothing that it started is left, unless a call failed.
THEOREM SpecExitLeavesNothing == Spec => []ExitLeavesNothing
<1>1. Init => StageInv
  BY InitStage
<1>2. StageInv /\ [Next]_vars => StageInv'
  BY StepStage
<1>3. StageInv => ExitLeavesNothing
  BY DEF StageInv
<1> QED BY <1>1, <1>2, <1>3, PTL DEF Spec

-----------------------------------------------------------------------------
(* Types.                                                                   *)

\* Nothing is underway in the initial state.
LEMMA InitCli == Init => CliInv
<1> SUFFICES ASSUME Init PROVE CliInv
  OBVIOUS
<1>1. /\ pushed = <<>> /\ unit = <<>> /\ queue = <<>> /\ batch = <<>> /\ output = <<>>
      /\ held = <<>> /\ failed = {} /\ frame = [number |-> 0, time |-> 0] /\ base = Unset
      /\ main = "find" /\ capture = "none"
  BY DEF Init
<1>2. Underway = <<>> /\ DOMAIN Underway = {} /\ Numbers(Underway) = {}
  BY <1>1 DEF Underway, Numbers
<1>3. TypeOK
  <2>1. <<>> \in Seq(Unit) /\ Len(<<>>) = 0
    OBVIOUS
  <2>2. frame \in [number: 0..MaxFrames, time: Nat] /\ failed \subseteq 1..MaxFrames
    BY <1>1, CliAssumption
  <2>3. {callFailed, server, installed, listening} \subseteq BOOLEAN
    BY DEF Init
  <2>4. counting \in BOOLEAN
    BY DEF Init
  <2> QED BY <1>1, <2>1, <2>2, <2>3, <2>4, CliAssumption DEF Init, TypeOK, Alive
<1>4. ClockInv
  BY <1>1 DEF ClockInv, Unset
<1>5. FlowInv
  BY <1>1, <1>2, CliAssumption DEF FlowInv, Encoded
<1>6. NothingIsLost
  BY <1>1, <1>2 DEF NothingIsLost, Encoded
<1> QED BY <1>3, <1>4, <1>5, <1>6 DEF CliInv

\* Taking the head off a sequence and adding an element keep their types.
LEMMA SeqTypes ==
    ASSUME NEW S, NEW s \in Seq(S)
    PROVE  /\ Len(s) \in Nat /\ DOMAIN s = 1 .. Len(s)
           /\ \A i \in DOMAIN s : s[i] \in S
           /\ \A x \in S : Append(s, x) \in Seq(S) /\ Len(Append(s, x)) = Len(s) + 1
           /\ \A x \in S : <<x>> \in Seq(S) /\ Len(<<x>>) = 1
           /\ \A t \in Seq(S) : s \o t \in Seq(S) /\ Len(s \o t) = Len(s) + Len(t)
           /\ s # <<>> => /\ Head(s) \in S /\ Tail(s) \in Seq(S)
                          /\ Len(Tail(s)) = Len(s) - 1
OBVIOUS

\* The main task's calls and its loop keep the types.
LEMMA MainTypes ==
    ASSUME TypeOK, NEW ok \in BOOLEAN, NEW heard \in BOOLEAN,
           \/ Find(ok) \/ Resolve(ok) \/ Serve(ok) \/ SetUri(heard, ok) \/ Play(heard, ok)
           \/ StopRenderer(heard, ok) \/ CloseServer \/ Join
           \/ Poll \/ TakeUnit \/ PushUnit \/ CtrlC \/ CaptureEnded \/ Press \/ Broadcast
    PROVE  TypeOK'
<1> USE DEF TypeOK, Alive
<1>1. CASE Find(ok)
  BY <1>1 DEF Find, Proceeds, given, threadVars, signalVars, encoderVars
<1>2. CASE Resolve(ok)
  BY <1>2 DEF Resolve, Proceeds, given, threadVars, signalVars, encoderVars
<1>3. CASE Serve(ok)
  BY <1>3 DEF Serve, Proceeds, given, threadVars, signalVars, encoderVars
<1>4. CASE SetUri(heard, ok)
  BY <1>4 DEF SetUri, Call, Proceeds, given, threadVars, signalVars, encoderVars
<1>5. CASE Play(heard, ok)
  BY <1>5 DEF Play, Call, Proceeds, given, signalVars, encoderVars
<1>6. CASE StopRenderer(heard, ok)
  BY <1>6 DEF StopRenderer, Call, given, threadVars, signalVars, encoderVars
<1>7. CASE CloseServer
  BY <1>7 DEF CloseServer, given, threadVars, signalVars, encoderVars
<1>8. CASE Join
  BY <1>8 DEF Join, given, threadVars, signalVars, encoderVars
<1>9. CASE Poll
  BY <1>9 DEF Poll, given, mainVars, threadVars, encoderVars
<1>10. CASE TakeUnit
  <2>1. /\ Head(queue) \in Unit /\ Tail(queue) \in Seq(Unit)
        /\ Len(Tail(queue)) <= Capacity /\ <<Head(queue)>> \in Seq(Unit)
        /\ Len(<<Head(queue)>>) = 1 /\ <<Head(queue)>> # <<>>
    BY <1>10, SeqTypes, CliAssumption DEF TakeUnit
  <2>2. {unit', queue', batch', output', held', pushed'} \subseteq Seq(Unit)
    BY <1>10, <2>1 DEF TakeUnit, threadVars, encoderVars
  <2>3. /\ Len(unit') <= 1 /\ main' = "push" /\ unit' # <<>>
        /\ Len(queue') <= Capacity /\ Len(held') <= Depth
    BY <1>10, <2>1 DEF TakeUnit, encoderVars
  <2>4. /\ signal' \in {"none", "raised", "heard"}
        /\ {callFailed, server, installed, listening}' \subseteq BOOLEAN
    BY <1>10 DEF TakeUnit, DropFuture
  <2> QED BY <1>10, <2>2, <2>3, <2>4 DEF TakeUnit, given, threadVars, encoderVars
<1>11. CASE PushUnit
  <2>1. pushed' \in Seq(Unit) /\ <<>> \in Seq(Unit) /\ Len(<<>>) = 0
    BY <1>11, SeqTypes DEF PushUnit
  <2> QED BY <1>11, <2>1 DEF PushUnit, given, signalVars, threadVars, encoderVars
<1>12. CASE CtrlC \/ CaptureEnded
  <2>1. <<>> \in Seq(Unit) /\ Len(<<>>) = 0
    OBVIOUS
  <2>2. Leave /\ unit = <<>>
    BY <1>12 DEF CtrlC, CaptureEnded, Waiting
  <2>3. {unit', queue', batch', output', held', pushed'} \subseteq Seq(Unit)
    BY <2>1, <2>2 DEF Leave, threadVars, encoderVars
  <2>4. Len(queue') <= Capacity /\ Len(held') <= Depth /\ Len(unit') <= 1
    BY <2>1, <2>2, CliAssumption DEF Leave, encoderVars
  <2>5. /\ signal' \in {"none", "raised", "heard"}
        /\ {callFailed, server, installed, listening}' \subseteq BOOLEAN
    BY <2>2 DEF Leave, DropFuture
  <2> QED BY <2>2, <2>3, <2>4, <2>5 DEF Leave, given, threadVars, encoderVars
<1>13. CASE Press
  BY <1>13 DEF Press, given, threadVars, encoderVars
<1>14. CASE Broadcast
  BY <1>14 DEF Broadcast, given, mainVars, threadVars, encoderVars
<1> QED BY <1>1, <1>2, <1>3, <1>4, <1>5, <1>6, <1>7, <1>8, <1>9, <1>10, <1>11, <1>12, <1>13, <1>14

\* The stamp that a frame gets which was captured ns after the first.
StampAt(ns) == Stamp(Ticks(IF ns < 0 THEN 0 ELSE ns))

\* A time in whole ticks is the time rounded down, and grows with it.
LEMMA TicksRoundDown ==
    /\ \A a \in Nat : /\ Ticks(a) \in Nat /\ (a = 0 => Ticks(a) = 0)
                       /\ 100000 * Ticks(a) <= 9 * a
                       /\ 9 * a < 100000 * (Ticks(a) + 1)
    /\ \A a, b \in Nat : a <= b => Ticks(a) <= Ticks(b)
BY DEF Ticks

\* What an encoder makes of it is no more, at most a tick less, and grows with it.
LEMMA StampsRoundDown ==
    ASSUME NEW p \in Nat, NEW q \in Nat
    PROVE  /\ Stamp(p) \in Nat /\ (p = 0 => Stamp(p) = 0) /\ Stamp(p) <= p
           /\ p <= Stamp(p) + IF platform = "windows" THEN 1 ELSE 0
           /\ p <= q => Stamp(p) <= Stamp(q)
<1>1. CASE platform = "windows"
  BY <1>1 DEF Stamp
<1>2. CASE platform # "windows"
  BY <1>2 DEF Stamp
<1> QED BY <1>1, <1>2

\* A time stamp is 0 up to the first frame, and then less than one tick behind the time,
\* or two; and it grows with the time.
LEMMA Stamps ==
    ASSUME NEW a \in Int, NEW b \in Int
    PROVE  /\ StampAt(a) \in Nat /\ (a <= 0 => StampAt(a) = 0)
           /\ a >= 0 => /\ 100000 * StampAt(a) <= 9 * a
                        /\ 9 * a < 100000 * (StampAt(a) + IF platform = "windows" THEN 2 ELSE 1)
           /\ a <= b => StampAt(a) <= StampAt(b)
<1> DEFINE x == IF a < 0 THEN 0 ELSE a
           y == IF b < 0 THEN 0 ELSE b
           p == Ticks(x)
           q == Ticks(y)
<1>1. x \in Nat /\ y \in Nat /\ (a <= b => x <= y) /\ (a <= 0 => x = 0) /\ (a >= 0 => x = a)
  OBVIOUS
<1> HIDE DEF x, y
<1>2. /\ p \in Nat /\ q \in Nat /\ (x = 0 => p = 0) /\ (x <= y => p <= q)
      /\ 100000 * p <= 9 * x /\ 9 * x < 100000 * (p + 1)
  BY <1>1, TicksRoundDown
<1> HIDE DEF p, q
<1>3. /\ Stamp(p) \in Nat /\ Stamp(q) \in Nat /\ (p = 0 => Stamp(p) = 0) /\ Stamp(p) <= p
      /\ p <= Stamp(p) + IF platform = "windows" THEN 1 ELSE 0
      /\ p <= q => Stamp(p) <= Stamp(q)
  BY <1>2, StampsRoundDown
<1>4. StampAt(a) = Stamp(p) /\ StampAt(b) = Stamp(q)
  BY DEF StampAt, p, q, x, y
<1>5. platform = "windows" => p <= Stamp(p) + 1
  BY <1>3
<1>6. platform # "windows" => p <= Stamp(p)
  BY <1>2, <1>3
<1>7. ASSUME a >= 0
      PROVE  9 * a < 100000 * (Stamp(p) + IF platform = "windows" THEN 2 ELSE 1)
  BY <1>1, <1>2, <1>3, <1>5, <1>6, <1>7
<1>8. a >= 0 => 100000 * Stamp(p) <= 9 * a
  BY <1>1, <1>2, <1>3
<1> QED BY <1>1, <1>2, <1>3, <1>4, <1>7, <1>8

\* The unit that the encoder is given.
NewUnit == [number |-> frame.number, at |-> frame.time - base,
            stamp |-> Stamp(Ticks(Elapsed(frame.time)))]

LEMMA NewUnitType ==
    ASSUME TypeOK, ClockInv, capture = "encode"
    PROVE  NewUnit \in Unit /\ Timed(NewUnit) /\ NewUnit.number = frame.number
<1> DEFINE d == frame.time - base
<1>1. /\ frame.number \in 1..MaxFrames /\ base \in Nat /\ frame.time \in Nat
      /\ frame.number = 1 => base = frame.time
  BY CliAssumption DEF TypeOK, ClockInv
<1>2. d \in Int /\ (frame.number = 1 => d = 0)
      /\ Elapsed(frame.time) = IF d < 0 THEN 0 ELSE d
  BY <1>1 DEF Elapsed
<1>3. NewUnit = [number |-> frame.number, at |-> d, stamp |-> StampAt(d)]
  BY <1>2 DEF NewUnit, StampAt
<1> HIDE DEF d
<1>4. StampAt(d) \in Nat
  BY <1>2, Stamps
<1> QED BY <1>1, <1>2, <1>3, <1>4 DEF Unit, Timed, StampAt

\* The thread and the encoder keep the types, their queues at most full.
LEMMA ThreadTypes ==
    ASSUME TypeOK, ClockInv, FlowInv, NEW step \in Int,
           \/ StartCapture \/ NextFrame(step) \/ Encode \/ Drain \/ SendUnit \/ SendFails
           \/ AllSent \/ ThreadFails \/ Produce \/ FailToProduce
    PROVE  TypeOK'
<1> USE DEF TypeOK, Alive
<1>1. CASE StartCapture
  BY <1>1 DEF StartCapture, given, mainVars, signalVars, encoderVars
<1>2. CASE NextFrame(step)
  <2>1. frame' \in [number: 0..MaxFrames, time: Nat]
    BY <1>2, CliAssumption DEF NextFrame, Told
  <2> QED BY <1>2, <2>1 DEF NextFrame, given, mainVars, signalVars, encoderVars
<1>3. CASE Encode
  <2>1. held' = Append(held, NewUnit) /\ Len(held) < Depth
    BY <1>3 DEF Encode, NewUnit, FlowInv
  <2>2. NewUnit \in Unit
    BY <1>3, NewUnitType DEF Encode
  <2>3. held' \in Seq(Unit) /\ Len(held') <= Depth
    BY <2>1, <2>2, SeqTypes, CliAssumption
  <2> QED BY <1>3, <2>3 DEF Encode, given, mainVars, signalVars
<1>4. CASE Drain
  <2>1. <<>> \in Seq(Unit)
    OBVIOUS
  <2> QED BY <1>4, <2>1 DEF Drain, given, mainVars, signalVars
<1>5. CASE SendUnit
  <2>1. /\ Head(batch) \in Unit /\ Tail(batch) \in Seq(Unit)
    BY <1>5, SeqTypes DEF SendUnit
  <2>2. Append(queue, Head(batch)) \in Seq(Unit) /\ Len(queue') <= Capacity
    BY <1>5, <2>1, SeqTypes, CliAssumption DEF SendUnit
  <2> QED BY <1>5, <2>1, <2>2 DEF SendUnit, given, mainVars, signalVars, encoderVars
<1>6. CASE SendFails \/ ThreadFails
  <2>1. <<>> \in Seq(Unit) /\ Len(<<>>) <= Depth
    BY CliAssumption
  <2>2. EndThread /\ UNCHANGED <<given, mainVars, signalVars, queue, frame, failed, pushed>>
    BY <1>6 DEF SendFails, ThreadFails
  <2> QED BY <2>1, <2>2 DEF EndThread, given, mainVars, signalVars
<1>7. CASE AllSent
  BY <1>7 DEF AllSent, given, mainVars, signalVars, encoderVars
<1>8. CASE Produce
  <2>1. /\ Head(held) \in Unit /\ Tail(held) \in Seq(Unit) /\ Len(Tail(held)) <= Depth
    BY <1>8, SeqTypes, CliAssumption DEF Produce
  <2>2. Append(output, Head(held)) \in Seq(Unit)
    BY <2>1, SeqTypes
  <2> QED BY <1>8, <2>1, <2>2 DEF Produce, given, mainVars, signalVars, threadVars
<1>9. CASE FailToProduce
  <2>1. /\ Head(held) \in Unit /\ Tail(held) \in Seq(Unit) /\ Len(Tail(held)) <= Depth
    BY <1>9, SeqTypes, CliAssumption DEF FailToProduce
  <2>2. failed' \subseteq 1..MaxFrames
    BY <1>9, <2>1 DEF FailToProduce, Unit
  <2> QED BY <1>9, <2>1, <2>2 DEF FailToProduce, given, mainVars, signalVars, threadVars
<1> QED BY <1>1, <1>2, <1>3, <1>4, <1>5, <1>6, <1>7, <1>8, <1>9

\* The clock is anchored by the first frame, and nothing else touches it.
LEMMA StepClock ==
    ASSUME TypeOK, ClockInv, [Next]_vars
    PROVE  ClockInv'
<1> USE DEF ClockInv, TypeOK
<1>1. ASSUME NEW step \in Steps, NextFrame(step) PROVE ClockInv'
  <2>1. /\ step \in Int /\ frame.number \in Nat /\ frame.time \in Nat /\ MaxFrames \in Nat \ {0}
    BY CliAssumption
  <2>2. CASE frame.number < Told
    BY <1>1, <2>1, <2>2, SMTT(30) DEF NextFrame, Unset
  <2>3. CASE ~(frame.number < Told)
    <3>1. frame.number > 0
      BY <2>1, <2>3 DEF Told
    <3> QED BY <1>1, <2>1, <2>3, <3>1, SMTT(30) DEF NextFrame, Unset
  <2> QED BY <2>2, <2>3
<1>2. CASE /\ \A step \in Steps : ~NextFrame(step)
           /\ Next
  <2>1. UNCHANGED <<frame, base>> /\ (capture' = "encode" => capture = "encode")
    BY <1>2 DEF Next, Main, Thread, Find, Resolve, Serve, SetUri, Play, StopRenderer, CloseServer,
       Join, Poll, TakeUnit, PushUnit, CtrlC, CaptureEnded, Leave, Press, Broadcast, StartCapture,
       Encode, Drain, SendUnit, SendFails, AllSent, ThreadFails, EndThread, Produce,
       FailToProduce, threadVars
  <2> QED BY <2>1
<1>3. CASE UNCHANGED vars
  BY <1>3 DEF vars, threadVars
<1> QED BY <1>1, <1>2, <1>3

-----------------------------------------------------------------------------
(* What is underway, and in which order.                                    *)

\* t is s without some of its elements.
Kept(t, s) ==
    /\ DOMAIN t \subseteq Nat
    /\ \E f \in [DOMAIN t -> DOMAIN s] :
        /\ \A i, j \in DOMAIN t : i < j => f[i] < f[j]
        /\ \A i \in DOMAIN t : t[i] = s[f[i]]

\* A stretch in the middle is left out.
LEMMA Cut ==
    ASSUME NEW S, NEW a \in Seq(S), NEW b \in Seq(S), NEW c \in Seq(S)
    PROVE  Kept(a \o c, (a \o b) \o c)
<1> DEFINE t == a \o c    s == (a \o b) \o c
           f == [i \in 1 .. Len(t) |-> IF i <= Len(a) THEN i ELSE i + Len(b)]
<1>1. /\ Len(a) \in Nat /\ Len(b) \in Nat /\ Len(c) \in Nat
      /\ t \in Seq(S) /\ Len(t) = Len(a) + Len(c) /\ DOMAIN t = 1 .. Len(t)
      /\ a \o b \in Seq(S) /\ Len(a \o b) = Len(a) + Len(b)
      /\ s \in Seq(S) /\ Len(s) = Len(a) + Len(b) + Len(c) /\ DOMAIN s = 1 .. Len(s)
  BY ConcatProperties, LenProperties
<1>2. \A i \in 1 .. Len(t) : t[i] = IF i <= Len(a) THEN a[i] ELSE c[i - Len(a)]
  BY <1>1, ConcatProperties
<1>3. \A i \in 1 .. Len(s) : s[i] = IF i <= Len(a) + Len(b) THEN (a \o b)[i]
                                   ELSE c[i - (Len(a) + Len(b))]
  BY <1>1, ConcatProperties
<1>4. \A i \in 1 .. Len(a) + Len(b) : i <= Len(a) => (a \o b)[i] = a[i]
  BY <1>1, ConcatProperties
<1> HIDE DEF t, s
<1>5. f \in [DOMAIN t -> DOMAIN s]
  BY <1>1
<1>6. \A i, j \in DOMAIN t : i < j => f[i] < f[j]
  BY <1>1
<1>7. \A i \in DOMAIN t : t[i] = s[f[i]]
  <2> SUFFICES ASSUME NEW i \in 1 .. Len(t) PROVE t[i] = s[f[i]]
    BY <1>1
  <2>1. CASE i <= Len(a)
    <3>1. f[i] = i /\ i \in 1 .. Len(s) /\ i \in 1 .. Len(a) + Len(b)
      BY <2>1, <1>1
    <3>2. s[i] = (a \o b)[i]
      BY <3>1, <1>1, <1>3
    <3> QED BY <2>1, <3>1, <3>2, <1>2, <1>4
  <2>2. CASE i > Len(a)
    <3>1. f[i] = i + Len(b) /\ f[i] \in 1 .. Len(s) /\ f[i] > Len(a) + Len(b)
      BY <2>2, <1>1
    <3>2. s[f[i]] = c[f[i] - (Len(a) + Len(b))]
      BY <3>1, <1>1, <1>3
    <3>3. f[i] - (Len(a) + Len(b)) = i - Len(a)
      BY <3>1, <1>1
    <3> QED BY <2>2, <3>2, <3>3, <1>1, <1>2
  <2> QED BY <2>1, <2>2, <1>1
<1>8. DOMAIN t \subseteq Nat
  BY <1>1
<1> QED BY <1>5, <1>6, <1>7, <1>8 DEF Kept, t, s

\* Whoever takes the head of one queue and adds it to the one in front moves nothing.
LEMMA MoveHead ==
    ASSUME NEW x \in Seq(Unit), NEW q \in Seq(Unit), NEW b \in Seq(Unit), b # <<>>
    PROVE  (x \o Append(q, Head(b))) \o Tail(b) = (x \o q) \o b
<1>1. /\ Head(b) \in Unit /\ Tail(b) \in Seq(Unit) /\ <<Head(b)>> \in Seq(Unit)
      /\ Append(q, Head(b)) \in Seq(Unit) /\ Append(q, Head(b)) = q \o <<Head(b)>>
      /\ b = <<Head(b)>> \o Tail(b)
  <2>1. /\ Head(b) \in Unit /\ Tail(b) \in Seq(Unit) /\ Len(Tail(b)) = Len(b) - 1
        /\ \A i \in 1 .. Len(Tail(b)) : Tail(b)[i] = b[i + 1]
    BY HeadTailProperties
  <2>2. <<Head(b)>> \in Seq(Unit) /\ Len(<<Head(b)>>) = 1 /\ <<Head(b)>>[1] = b[1]
    BY <2>1
  <2>3. b = <<Head(b)>> \o Tail(b)
    <3> DEFINE h == <<Head(b)>>    t == Tail(b)
    <3>1. /\ h \o t \in Seq(Unit) /\ Len(h \o t) = Len(h) + Len(t)
          /\ \A i \in 1 .. Len(h) + Len(t) : (h \o t)[i] = IF i <= Len(h) THEN h[i]
                                                         ELSE t[i - Len(h)]
      BY <2>1, <2>2, ConcatProperties
    <3>2. Len(b) \in Nat /\ b \in Seq(Unit)
      OBVIOUS
    <3> HIDE DEF h, t
    <3>3. Len(h \o t) = Len(b) /\ \A i \in 1 .. Len(b) : (h \o t)[i] = b[i]
      BY <2>1, <2>2, <3>1, <3>2 DEF h, t
    <3> QED BY <3>1, <3>2, <3>3, SeqEqual DEF h, t
  <2> QED BY <2>1, <2>2, <2>3, AppendIsConcat, AppendProperties
<1>2. x \o (q \o <<Head(b)>>) = (x \o q) \o <<Head(b)>>
  BY <1>1, ConcatAssociative
<1>3. x \o q \in Seq(Unit)
  BY ConcatProperties
<1>4. ((x \o q) \o <<Head(b)>>) \o Tail(b) = (x \o q) \o (<<Head(b)>> \o Tail(b))
  BY <1>1, <1>3, ConcatAssociative
<1> QED BY <1>1, <1>2, <1>4

\* Concatenating four sequences, from the left or the right.
LEMMA Associate ==
    ASSUME NEW x \in Seq(Unit), NEW b \in Seq(Unit), NEW o \in Seq(Unit), NEW h \in Seq(Unit)
    PROVE  ((x \o b) \o o) \o h = x \o ((b \o o) \o h)
<1>1. b \o o \in Seq(Unit)
  BY ConcatProperties
<1>2. (x \o b) \o o = x \o (b \o o)
  BY ConcatAssociative, SMTT(30)
<1>3. (x \o (b \o o)) \o h = x \o ((b \o o) \o h)
  <2> DEFINE y == b \o o
  <2>1. y \in Seq(Unit)
    BY <1>1
  <2> HIDE DEF y
  <2>2. (x \o y) \o h = x \o (y \o h)
    BY <2>1, ConcatAssociative, SMTT(30)
  <2> QED BY <2>2 DEF y
<1> QED BY <1>2, <1>3

\* The same with concatenation left unexpanded, which the provers then only substitute.
Cat(x, y) == x \o y

LEMMA CatProperties ==
    ASSUME NEW x \in Seq(Unit), NEW y \in Seq(Unit)
    PROVE  /\ Cat(x, y) \in Seq(Unit) /\ Len(x) \in Nat /\ Len(y) \in Nat
           /\ Len(Cat(x, y)) = Len(x) + Len(y) /\ DOMAIN Cat(x, y) = 1 .. Len(x) + Len(y)
           /\ \A i \in 1 .. Len(x) + Len(y) :
                Cat(x, y)[i] = IF i <= Len(x) THEN x[i] ELSE y[i - Len(x)]
BY ConcatProperties, LenProperties DEF Cat

LEMMA CatAppend ==
    ASSUME NEW x \in Seq(Unit), NEW h \in Seq(Unit), NEW e \in Unit
    PROVE  Cat(x, Append(h, e)) = Append(Cat(x, h), e)
<1>1. Append(h, e) = h \o <<e>> /\ <<e>> \in Seq(Unit) /\ x \o h \in Seq(Unit)
  BY AppendIsConcat, ConcatProperties
<1>2. x \o (h \o <<e>>) = (x \o h) \o <<e>>
  BY <1>1, ConcatAssociative
<1>3. Append(x \o h, e) = (x \o h) \o <<e>>
  <2> DEFINE y == x \o h
  <2>1. y \in Seq(Unit)
    BY <1>1
  <2> HIDE DEF y
  <2>2. Append(y, e) = y \o <<e>>
    BY <2>1, AppendIsConcat
  <2> QED BY <2>2 DEF y
<1> QED BY <1>1, <1>2, <1>3 DEF Cat

LEMMA CatAssociate ==
    \A x, b, o, h \in Seq(Unit) : Cat(Cat(Cat(x, b), o), h) = Cat(x, Cat(Cat(b, o), h))
BY Associate DEF Cat

LEMMA CatMoveHead ==
    \A x, q, b \in Seq(Unit) :
        b # <<>> => Cat(Cat(x, Append(q, Head(b))), Tail(b)) = Cat(Cat(x, q), b)
BY MoveHead DEF Cat

\* The thread's own queues, and the encoder's, follow what has been sent.
Sent    == pushed \o unit \o queue
Unsent == batch \o output \o held

LEMMA Regroup ==
    ASSUME TypeOK
    PROVE  /\ pushed \o unit \in Seq(Unit) /\ Sent \in Seq(Unit) /\ Unsent \in Seq(Unit)
           /\ Sent \o batch \in Seq(Unit) /\ Sent \o batch \o output \in Seq(Unit)
           /\ Underway \in Seq(Unit) /\ DOMAIN Underway = 1 .. Len(Underway) /\ Len(Underway) \in Nat
           /\ Underway = Sent \o Unsent
<1>1. /\ pushed \in Seq(Unit) /\ unit \in Seq(Unit) /\ queue \in Seq(Unit)
      /\ batch \in Seq(Unit) /\ output \in Seq(Unit) /\ held \in Seq(Unit)
  BY DEF TypeOK
<1>2. pushed \o unit \in Seq(Unit) /\ Sent \in Seq(Unit)
  BY <1>1, ConcatProperties DEF Sent
<1>3. Underway = Sent \o batch \o output \o held
  BY DEF Underway, Sent
<1> HIDE DEF Sent
<1>4. batch \o output \in Seq(Unit) /\ Sent \o batch \in Seq(Unit)
  BY <1>1, <1>2, ConcatProperties
<1>5. Unsent \in Seq(Unit) /\ Sent \o batch \o output \in Seq(Unit)
  BY <1>1, <1>4, ConcatProperties DEF Unsent
<1>6. Underway \in Seq(Unit)
  BY <1>1, <1>3, <1>5, ConcatProperties
<1>7. Underway = Sent \o Unsent
  <2>1. Sent \in Seq(Unit) /\ batch \in Seq(Unit) /\ output \in Seq(Unit) /\ held \in Seq(Unit)
    BY <1>1, <1>2
  <2>2. Cat(Cat(Cat(Sent, batch), output), held) = Cat(Sent, Cat(Cat(batch, output), held))
    BY <2>1, CatAssociate
  <2> QED BY <1>3, <2>2 DEF Unsent, Cat
<1>8. DOMAIN Underway = 1 .. Len(Underway) /\ Len(Underway) \in Nat
  <2> HIDE DEF Underway
  <2> QED BY <1>6, LenProperties
<1> QED BY <1>2, <1>4, <1>5, <1>6, <1>7, <1>8

\* From one queue to the next no unit changes its place.
LEMMA MoveSteps ==
    ASSUME TypeOK, FlowInv, counting, TakeUnit \/ PushUnit \/ SendUnit \/ Drain \/ Produce
    PROVE  Underway' = Underway
<1>1. /\ pushed \in Seq(Unit) /\ unit \in Seq(Unit) /\ queue \in Seq(Unit)
      /\ batch \in Seq(Unit) /\ output \in Seq(Unit) /\ held \in Seq(Unit)
  BY DEF TypeOK
<1>2. CASE TakeUnit
  <2>1. unit = <<>> /\ unit' = Append(unit, Head(queue)) /\ queue # <<>>
    BY <1>2 DEF TakeUnit, TypeOK, Alive
  <2>2. (pushed \o unit') \o Tail(queue) = (pushed \o unit) \o queue
    BY <1>1, <2>1, MoveHead
  <2> QED BY <1>2, <2>2 DEF TakeUnit, Underway, threadVars, encoderVars
<1>3. CASE PushUnit
  <2>1. (pushed \o unit) \o <<>> = pushed \o unit
    BY Regroup, ConcatEmptySeq
  <2> QED BY <1>3, <2>1 DEF PushUnit, Underway, threadVars, encoderVars
<1>4. CASE SendUnit
  <2> DEFINE x == pushed \o unit
  <2>1. x \in Seq(Unit) /\ batch # <<>>
    BY <1>4, Regroup DEF SendUnit
  <2>2. Cat(Cat(x, Append(queue, Head(batch))), Tail(batch)) = Cat(Cat(x, queue), batch)
    <3> HIDE DEF x
    <3> QED BY <1>1, <2>1, CatMoveHead
  <2>3. (x \o Append(queue, Head(batch))) \o Tail(batch) = (x \o queue) \o batch
    BY <2>2 DEF Cat
  <2> QED BY <1>4, <2>3 DEF SendUnit, Underway, mainVars, encoderVars
<1>5. CASE Drain
  <2>1. batch = <<>>
    BY <1>5 DEF Drain, FlowInv
  <2> DEFINE x == pushed \o unit \o queue
  <2>2. x \o <<>> = x /\ x \o output \in Seq(Unit)
    BY <1>1, Regroup, ConcatEmptySeq, ConcatProperties DEF Sent
  <2>3. (x \o output) \o <<>> = x \o output
    BY <2>2, ConcatEmptySeq
  <2> HIDE DEF x
  <2>4. Underway = ((x \o batch) \o output) \o held
    BY DEF Underway, x
  <2>5. Underway' = ((x \o output) \o <<>>) \o held
    BY <1>5 DEF Drain, Underway, x, mainVars
  <2> QED BY <2>1, <2>2, <2>3, <2>4, <2>5
<1>6. CASE Produce
  <2> DEFINE x == pushed \o unit \o queue \o batch
  <2>1. x \in Seq(Unit) /\ held # <<>>
    BY <1>6, Regroup DEF Produce, Sent
  <2>2. Cat(Cat(x, Append(output, Head(held))), Tail(held)) = Cat(Cat(x, output), held)
    <3> HIDE DEF x
    <3> QED BY <1>1, <2>1, CatMoveHead
  <2>3. (x \o Append(output, Head(held))) \o Tail(held) = (x \o output) \o held
    BY <2>2 DEF Cat
  <2> QED BY <1>6, <2>3 DEF Produce, Underway, mainVars, threadVars
<1> QED BY <1>2, <1>3, <1>4, <1>5, <1>6

\* Out of the loop, and when the thread ends, units are given up and nothing else.
LEMMA EndSteps ==
    ASSUME TypeOK, CtrlC \/ CaptureEnded \/ ThreadFails \/ SendFails
    PROVE  Kept(Underway', Underway) /\ (RxDropped' \/ capture' = "ended")
<1>1. /\ pushed \in Seq(Unit) /\ unit \in Seq(Unit) /\ queue \in Seq(Unit) /\ <<>> \in Seq(Unit)
      /\ batch \in Seq(Unit) /\ output \in Seq(Unit) /\ held \in Seq(Unit)
  BY DEF TypeOK
<1> DEFINE x == pushed \o unit
<1>2. /\ x \in Seq(Unit) /\ Unsent \in Seq(Unit) /\ Sent = x \o queue /\ Sent \in Seq(Unit)
      /\ Underway = Sent \o Unsent
  BY Regroup DEF Sent
<1> HIDE DEF x
<1>3. CASE CtrlC \/ CaptureEnded
  <2>1. Leave
    BY <1>3 DEF CtrlC, CaptureEnded
  <2>2. /\ UNCHANGED <<pushed, unit, batch, output, held>> /\ queue' = <<>> /\ RxDropped'
    BY <2>1 DEF Leave, threadVars, encoderVars, RxDropped
  <2>3. Underway' = (((x \o <<>>) \o batch) \o output) \o held
    BY <2>2 DEF Underway, x
  <2>4. x \o <<>> = x
    BY <1>2, ConcatEmptySeq
  <2>5. ((x \o batch) \o output) \o held = x \o Unsent
    <3>1. Cat(Cat(Cat(x, batch), output), held) = Cat(x, Cat(Cat(batch, output), held))
      BY <1>1, <1>2, CatAssociate
    <3> QED BY <3>1 DEF Unsent, Cat
  <2>6. Kept(x \o Unsent, (x \o queue) \o Unsent)
    BY <1>1, <1>2, Cut
  <2> QED BY <1>2, <2>2, <2>3, <2>4, <2>5, <2>6
<1>4. CASE ThreadFails \/ SendFails
  <2>1. EndThread /\ UNCHANGED <<pushed, unit, queue>>
    BY <1>4 DEF ThreadFails, SendFails, mainVars
  <2>2. /\ Sent \o <<>> = Sent /\ (Sent \o Unsent) \o <<>> = Sent \o Unsent
    BY <1>2, ConcatEmptySeq, ConcatProperties
  <2>3. Underway' = ((Sent \o <<>>) \o <<>>) \o <<>>
    BY <2>1 DEF EndThread, Underway, Sent
  <2>4. Kept(Sent \o <<>>, (Sent \o Unsent) \o <<>>)
    BY <1>1, <1>2, Cut
  <2>5. capture' = "ended"
    BY <2>1 DEF EndThread
  <2> QED BY <1>2, <2>2, <2>3, <2>4, <2>5
<1> QED BY <1>3, <1>4

\* What does not move a unit does not lose one, nor do frames and failures change
\* behind the back of the loop.
LEMMA QuietSteps ==
    ASSUME TypeOK, FlowInv, StageInv, counting, [Next]_vars,
           ~Encode, ~FailToProduce, ~(CtrlC \/ CaptureEnded \/ ThreadFails \/ SendFails)
    PROVE  /\ Underway' = Underway /\ failed' = failed
           /\ capture' = "ended" <=> capture = "ended"
           /\ ~RxDropped' => ~RxDropped /\ Encoded' = Encoded
<1> USE DEF RxDropped, Encoded
<1>1. CASE TakeUnit \/ PushUnit \/ SendUnit \/ Drain \/ Produce
  <2>1. Underway' = Underway
    BY <1>1, MoveSteps
  <2> QED BY <1>1, <2>1 DEF TakeUnit, PushUnit, SendUnit, Drain, Produce, Alive, mainVars,
             threadVars, encoderVars
<1>2. CASE \E step \in Steps : NextFrame(step)
  <2>1. PICK step \in Steps : NextFrame(step)
    BY <1>2
  <2>2. UNCHANGED <<main, unit, queue, batch, held, output, failed, pushed>>
    BY <2>1 DEF NextFrame, mainVars, encoderVars
  <2>3. Underway' = Underway
    BY <2>2 DEF Underway
  <2>4. ~RxDropped' => Encoded' = Encoded
    <3>1. CASE frame.number < Told
      BY <2>1, <3>1 DEF NextFrame, TypeOK
    <3>2. CASE ~(frame.number < Told)
      BY <2>1, <2>2, <3>2 DEF NextFrame
    <3> QED BY <3>1, <3>2
  <2> QED BY <2>1, <2>2, <2>3, <2>4 DEF NextFrame
<1>3. CASE /\ Next /\ \A step \in Steps : ~NextFrame(step)
           /\ ~(TakeUnit \/ PushUnit \/ SendUnit \/ Drain \/ Produce)
  <2>1. \/ \E ok \in BOOLEAN : Find(ok) \/ Resolve(ok) \/ Serve(ok)
        \/ \E heard, ok \in BOOLEAN : SetUri(heard, ok) \/ Play(heard, ok) \/ StopRenderer(heard, ok)
        \/ CloseServer \/ Join \/ Poll \/ Press \/ Broadcast \/ StartCapture \/ AllSent
    BY <1>3 DEF Next, Main, Thread
  <2>2. UNCHANGED <<unit, queue, batch, held, output, failed, pushed, frame>>
    BY <2>1 DEF Find, Resolve, Serve, SetUri, Play, StopRenderer, CloseServer, Join, Poll, Press,
       Broadcast, StartCapture, AllSent, mainVars, threadVars, encoderVars
  <2>3. /\ capture' = "ended" <=> capture = "ended"
        /\ capture' = "encode" <=> capture = "encode"
    BY <2>1 DEF StageInv, Starting, Find, Resolve, Serve, SetUri, Play, StopRenderer, CloseServer,
       Join, Poll, Press, Broadcast, StartCapture, AllSent, threadVars
  <2>4. ~RxDropped' => ~RxDropped
    BY <2>1 DEF Find, Resolve, Serve, SetUri, Play, StopRenderer, CloseServer, Join, Poll, Press,
       Broadcast, StartCapture, AllSent, mainVars, Proceeds
  <2> QED BY <2>2, <2>3, <2>4 DEF Underway
<1>4. CASE UNCHANGED vars
  BY <1>4 DEF vars, mainVars, threadVars, encoderVars, Underway
<1> QED BY <1>1, <1>2, <1>3, <1>4

\* A failure of the hardware takes one unit from the middle, and its number is noted.
LEMMA FailStep ==
    ASSUME TypeOK, FailToProduce
    PROVE  /\ Kept(Underway', Underway)
           /\ \E k \in DOMAIN Underway :
                /\ failed' = failed \cup {Underway[k].number}
                /\ \A i \in DOMAIN Underway : i # k => \E j \in DOMAIN Underway' :
                                                       Underway'[j] = Underway[i]
                /\ \A j \in DOMAIN Underway' : \E i \in DOMAIN Underway :
                                                 i # k /\ Underway'[j] = Underway[i]
<1> DEFINE x == Sent \o batch \o output
           n == Len(x)
           t == Tail(held)
<1>1. /\ x \in Seq(Unit) /\ held \in Seq(Unit) /\ held # <<>> /\ Underway \in Seq(Unit)
      /\ Underway = Cat(x, held) /\ Underway' = Cat(x, t)
  BY Regroup DEF TypeOK, FailToProduce, Underway, Sent, Cat, mainVars, threadVars
<1>2. /\ Head(held) \in Unit /\ t \in Seq(Unit) /\ Len(t) = Len(held) - 1 /\ Head(held) = held[1]
      /\ \A i \in 1 .. Len(t) : t[i] = held[i + 1]
  BY <1>1, HeadTailProperties
<1>3. failed' = failed \cup {held[1].number}
  BY <1>2 DEF FailToProduce
<1> HIDE DEF x, t
<1>4. /\ DOMAIN Underway = 1 .. n + Len(held) /\ n \in Nat /\ Len(held) \in Nat /\ Len(held) > 0
      /\ \A i \in 1 .. n + Len(held) : Underway[i] = IF i <= n THEN x[i] ELSE held[i - n]
  <2>1. Len(held) > 0
    BY <1>1
  <2> QED BY <1>1, <2>1, CatProperties
<1>5. /\ DOMAIN Cat(x, t) = 1 .. n + Len(t)
      /\ \A i \in 1 .. n + Len(t) : Cat(x, t)[i] = IF i <= n THEN x[i] ELSE t[i - n]
  BY <1>1, <1>2, CatProperties
<1> DEFINE y == Cat(x, t)    m == n + 1    u == Underway
           f == [i \in 1 .. n + Len(t) |-> IF i <= n THEN i ELSE i + 1]
<1>6. /\ DOMAIN y = 1 .. n + Len(t) /\ DOMAIN u = 1 .. n + Len(t) + 1 /\ m \in DOMAIN u
      /\ Underway' = y /\ Len(t) \in Nat
  BY <1>1, <1>2, <1>4, <1>5
<1>7. \A i \in 1 .. n + Len(t) : y[i] = u[f[i]] /\ f[i] # m /\ f[i] \in DOMAIN u
  <2> SUFFICES ASSUME NEW i \in 1 .. n + Len(t) PROVE y[i] = u[f[i]] /\ f[i] # m /\ f[i] \in DOMAIN u
    OBVIOUS
  <2>1. CASE i <= n
    BY <2>1, <1>2, <1>4, <1>5, <1>6
  <2>2. CASE i > n
    <3>1. f[i] = i + 1 /\ i + 1 \in 1 .. n + Len(held) /\ ~(i + 1 <= n) /\ i - n \in 1 .. Len(t)
      BY <2>2, <1>2, <1>4, <1>6
    <3>2. u[i + 1] = held[(i + 1) - n] /\ (i + 1) - n = (i - n) + 1
      BY <3>1, <1>4
    <3>3. y[i] = t[i - n]
      BY <2>2, <1>4, <1>5, <1>6
    <3>4. t[i - n] = held[(i - n) + 1]
      BY <3>1, <1>2
    <3>5. y[i] = u[i + 1] /\ i + 1 # m /\ i + 1 \in DOMAIN u
      BY <2>2, <3>1, <3>2, <3>3, <3>4, <1>4
    <3> HIDE DEF f, y, u, m
    <3> QED BY <3>1, <3>5
  <2> QED BY <2>1, <2>2, <1>4, <1>6
<1>8. u[m] = held[1]
  <2>1. m \in 1 .. n + Len(held) /\ ~(m <= n) /\ m - n = 1
    BY <1>4
  <2> QED BY <2>1, <1>4
<1>9. f \in [1 .. n + Len(t) -> DOMAIN u] /\ \A i, j \in 1 .. n + Len(t) : i < j => f[i] < f[j]
  BY <1>4, <1>6
<1>10. \A i \in DOMAIN u : i # m => \E j \in 1 .. n + Len(t) : f[j] = i
  <2> SUFFICES ASSUME NEW i \in DOMAIN u, i # m PROVE \E j \in 1 .. n + Len(t) : f[j] = i
    OBVIOUS
  <2>1. CASE i < m
    BY <2>1, <1>4, <1>6
  <2>2. CASE i > m
    <3>1. i - 1 \in 1 .. n + Len(t) /\ ~(i - 1 <= n) /\ (i - 1) + 1 = i
      BY <2>2, <1>4, <1>6
    <3> QED BY <3>1
  <2> QED BY <2>1, <2>2, <1>4, <1>6
<1> HIDE DEF f, y, m, u
<1>11. Kept(y, u)
  <2>1. DOMAIN y \subseteq Nat
    BY <1>4, <1>6
  <2>2. f \in [DOMAIN y -> DOMAIN u] /\ \A i, j \in DOMAIN y : i < j => f[i] < f[j]
    BY <1>6, <1>9
  <2>3. \A i \in DOMAIN y : y[i] = u[f[i]]
    BY <1>6, <1>7
  <2> QED BY <2>1, <2>2, <2>3 DEF Kept
<1>12. \A i \in DOMAIN u : i # m => \E j \in DOMAIN y : y[j] = u[i]
  BY <1>6, <1>7, <1>10
<1>13. \A j \in DOMAIN y : \E i \in DOMAIN u : i # m /\ y[j] = u[i]
  BY <1>6, <1>7
<1> QED BY <1>3, <1>6, <1>8, <1>11, <1>12, <1>13 DEF u

\* What holds of all units underway, and of their order, holds of those that are left.
LEMMA KeptFacts ==
    ASSUME NEW t, NEW s \in Seq(Unit), Kept(t, s)
    PROVE  /\ \A i \in DOMAIN t : \E k \in DOMAIN s : t[i] = s[k]
           /\ Numbers(t) \subseteq Numbers(s)
           /\ (\A i, j \in DOMAIN s : i < j => s[i].number < s[j].number)
                => (\A i, j \in DOMAIN t : i < j => t[i].number < t[j].number)
<1> PICK f \in [DOMAIN t -> DOMAIN s] :
            /\ \A i, j \in DOMAIN t : i < j => f[i] < f[j]
            /\ \A i \in DOMAIN t : t[i] = s[f[i]]
  BY DEF Kept
<1>1. \A i \in DOMAIN t : f[i] \in DOMAIN s
  OBVIOUS
<1>2. Numbers(t) \subseteq Numbers(s)
  BY <1>1 DEF Numbers
<1>3. ASSUME NEW i \in DOMAIN t, NEW j \in DOMAIN t, i < j
      PROVE  /\ f[i] \in DOMAIN s /\ f[j] \in DOMAIN s /\ f[i] < f[j]
             /\ t[i] = s[f[i]] /\ t[j] = s[f[j]]
  BY <1>1, <1>3
<1> QED BY <1>1, <1>2, <1>3

\* Frames are numbered upwards, so that what was timely stays so.
LEMMA TimedStays ==
    ASSUME TypeOK, TypeOK', [Next]_vars
    PROVE  \A u \in Unit : Timed(u) => Timed(u)'
<1>1. platform' = platform
  BY DEF Next, Main, Thread, Find, Resolve, Serve, SetUri, Play, StopRenderer, CloseServer,
     Join, Poll, TakeUnit, PushUnit, CtrlC, CaptureEnded, Leave, Press, Broadcast, StartCapture,
     NextFrame, Encode, Drain, SendUnit, SendFails, AllSent, ThreadFails, EndThread, Produce,
     FailToProduce, given, vars
<1>2. frame.number <= frame'.number
  <2>1. CASE \E step \in Steps : NextFrame(step)
    BY <2>1 DEF NextFrame, TypeOK
  <2>2. CASE \A step \in Steps : ~NextFrame(step)
    <3>1. UNCHANGED frame
      BY <2>2 DEF Next, Main, Thread, Find, Resolve, Serve, SetUri, Play, StopRenderer,
         CloseServer, Join, Poll, TakeUnit, PushUnit, CtrlC, CaptureEnded, Leave, Press,
         Broadcast, StartCapture, Encode, Drain, SendUnit, SendFails, AllSent, ThreadFails,
         EndThread, Produce, FailToProduce, threadVars, vars
    <3> QED BY <3>1 DEF TypeOK
  <2> QED BY <2>1, <2>2
<1> SUFFICES ASSUME NEW u \in Unit, Timed(u) PROVE Timed(u)'
  OBVIOUS
<1>3. frame.number \in Nat /\ frame'.number \in Nat
  BY DEF TypeOK
<1>4. u.number \in 1 .. frame'.number
  BY <1>2, <1>3 DEF Timed, Unit
<1>5. \A p : Stamp(p)' = Stamp(p)
  BY <1>1 DEF Stamp
<1> QED BY <1>4, <1>5 DEF Timed

\* The encoder has room for the frame it is given, and the thread sends all it drained.
LEMMA RoomStep ==
    ASSUME TypeOK, FlowInv, StageInv, [Next]_vars
    PROVE  (capture' # "send" => batch' = <<>>) /\ (capture' # "drain" => Len(held') < Depth)
<1> USE DEF TypeOK
<1>1. (capture # "send" => batch = <<>>) /\ (capture # "drain" => Len(held) < Depth)
  BY DEF FlowInv
<1>2. CASE Produce \/ FailToProduce
  <2>1. Len(Tail(held)) < Depth
    BY <1>2, SeqTypes, CliAssumption DEF Produce, FailToProduce
  <2> QED BY <1>1, <1>2, <2>1 DEF Produce, FailToProduce, threadVars
<1>3. CASE ThreadFails \/ SendFails
  BY <1>3, CliAssumption DEF ThreadFails, SendFails, EndThread
<1>4. CASE Encode \/ Drain \/ SendUnit \/ AllSent \/ StartCapture
  BY <1>1, <1>4 DEF Encode, Drain, SendUnit, AllSent, StartCapture, encoderVars
<1>5. CASE \E step \in Steps : NextFrame(step)
  BY <1>1, <1>5 DEF NextFrame, encoderVars
<1>6. CASE Main
  <2>1. UNCHANGED <<batch, held>> /\ (capture' = capture \/ (capture' = "start" /\ capture = "none"))
    BY <1>6 DEF Main, Find, Resolve, Serve, SetUri, Play, StopRenderer, CloseServer, Join, Poll,
       TakeUnit, PushUnit, CtrlC, CaptureEnded, Leave, threadVars, encoderVars, StageInv, Starting
  <2> QED BY <1>1, <2>1
<1>7. CASE Press \/ Broadcast \/ UNCHANGED vars
  BY <1>1, <1>7 DEF Press, Broadcast, vars, threadVars, encoderVars
<1> QED BY <1>2, <1>3, <1>4, <1>5, <1>6, <1>7 DEF Next, Thread

\* A frame that is encoded comes last, after all others.
LEMMA EncodeStep ==
    ASSUME CliInv, counting, Encode
    PROVE  /\ \A i \in DOMAIN Underway' : Timed(Underway'[i])
           /\ ~RxDropped => /\ \A i, j \in DOMAIN Underway' :
                                 i < j => Underway'[i].number < Underway'[j].number
                           /\ Numbers(Underway') = Numbers(Underway) \cup {frame.number}
<1> DEFINE u == Underway    v == Underway'    n == Len(Underway)
<1>1. /\ u \in Seq(Unit) /\ n \in Nat /\ DOMAIN u = 1 .. n /\ NewUnit \in Unit /\ Timed(NewUnit)
      /\ NewUnit.number = frame.number /\ frame.number \in Nat
  BY Regroup, NewUnitType DEF CliInv, Encode, TypeOK
<1>2. v = Append(u, NewUnit)
  <2> DEFINE x == Sent \o batch \o output
  <2>1. x \in Seq(Unit) /\ held \in Seq(Unit) /\ u = x \o held /\ v = x \o Append(held, NewUnit)
    BY Regroup DEF CliInv, TypeOK, Encode, NewUnit, Underway, Sent, mainVars
  <2> HIDE DEF x
  <2>2. Cat(x, Append(held, NewUnit)) = Append(Cat(x, held), NewUnit)
    BY <2>1, <1>1, CatAppend
  <2> QED BY <2>1, <2>2 DEF Cat
<1>3. /\ DOMAIN v = 1 .. n + 1 /\ v[n + 1] = NewUnit /\ \A i \in 1 .. n : v[i] = u[i]
  <2> HIDE DEF u, v
  <2>1. n = Len(u)
    BY DEF u
  <2> QED BY <1>1, <1>2, <2>1, AppendProperties, LenProperties
<1>4. /\ \A i \in 1 .. n : Timed(u[i]) /\ u[i] \in Unit
      /\ ~RxDropped => /\ \A i, j \in 1 .. n : i < j => u[i].number < u[j].number
                      /\ \A i \in 1 .. n : u[i].number \in 1 .. frame.number - 1
  <2>1. \A i \in 1 .. n : Timed(u[i]) /\ u[i] \in Unit
    BY <1>1 DEF CliInv, FlowInv
  <2>3. ~RxDropped => Numbers(u) \subseteq 1 .. frame.number - 1
    BY DEF CliInv, FlowInv, Encoded, Encode
  <2>4. ~RxDropped => \A i, j \in 1 .. n : i < j => u[i].number < u[j].number
    BY <1>1 DEF CliInv, NothingIsLost
  <2>5. \A i \in 1 .. n : u[i].number \in Numbers(u)
    BY <1>1 DEF Numbers
  <2> HIDE DEF u, n
  <2> QED BY <2>1, <2>3, <2>4, <2>5
<1> HIDE DEF u, v, n
<1>5. \A i \in DOMAIN v : Timed(v[i])
  BY <1>1, <1>3, <1>4
<1>7. ASSUME ~RxDropped
      PROVE  /\ \A i, j \in DOMAIN v : i < j => v[i].number < v[j].number
             /\ Numbers(v) = Numbers(u) \cup {frame.number}
  <2>1. ASSUME NEW i \in 1 .. n + 1, NEW j \in 1 .. n + 1, i < j
        PROVE  v[i].number < v[j].number
    <3>1. i \in 1 .. n /\ v[i] = u[i]
      BY <1>1, <1>3, <2>1
    <3>2. CASE j = n + 1
      BY <1>1, <1>3, <1>4, <1>7, <3>1, <3>2
    <3>3. CASE j # n + 1
      <4>1. j \in 1 .. n /\ v[j] = u[j]
        BY <1>1, <1>3, <3>3
      <4> QED BY <1>4, <1>7, <2>1, <3>1, <4>1
    <3> QED BY <3>2, <3>3
  <2>2. \A i \in DOMAIN v : v[i].number \in Numbers(u) \cup {frame.number}
    BY <1>1, <1>3 DEF Numbers
  <2>3. \A i \in DOMAIN u : i \in DOMAIN v /\ v[i] = u[i]
    BY <1>1, <1>3
  <2>4. n + 1 \in DOMAIN v
    BY <1>1, <1>3
  <2> QED BY <1>1, <1>3, <2>1, <2>2, <2>3, <2>4 DEF Numbers
<1> QED BY <1>5, <1>7 DEF u, v

\* Whether frames are counted does not change, and while they are not none is recorded.
LEMMA CountingStays ==
    ASSUME TypeOK, FlowInv, [Next]_vars
    PROVE  counting' = counting /\ (~counting => pushed' = <<>>)
<1>1. counting' = counting
  BY DEF Next, Main, Thread, Find, Resolve, Serve, SetUri, Play, StopRenderer, CloseServer,
     Join, Poll, TakeUnit, PushUnit, CtrlC, CaptureEnded, Leave, Press, Broadcast, StartCapture,
     NextFrame, Encode, Drain, SendUnit, SendFails, AllSent, ThreadFails, Produce,
     FailToProduce, given, vars
<1>2. ~counting => pushed' = pushed
  BY DEF Next, Main, Thread, Find, Resolve, Serve, SetUri, Play, StopRenderer, CloseServer,
     Join, Poll, TakeUnit, PushUnit, CtrlC, CaptureEnded, Leave, Press, Broadcast, StartCapture,
     NextFrame, Encode, Drain, SendUnit, SendFails, AllSent, ThreadFails, Produce,
     FailToProduce, vars
<1> QED BY <1>1, <1>2 DEF FlowInv

\* Numbers that grow are different numbers.
LEMMA GrowingAreDistinct ==
    ASSUME NEW s \in Seq(Unit), NEW k \in DOMAIN s,
           \A i, j \in DOMAIN s : i < j => s[i].number < s[j].number
    PROVE  \A i \in DOMAIN s : i # k => s[i].number # s[k].number
<1> SUFFICES ASSUME NEW i \in DOMAIN s, i # k PROVE s[i].number # s[k].number
  OBVIOUS
<1>1. s[i] \in Unit /\ s[k] \in Unit
  OBVIOUS
<1>2. s[i].number \in Nat /\ s[k].number \in Nat
  BY <1>1, CliAssumption DEF Unit
<1>3. i \in Nat /\ k \in Nat /\ (i < k \/ k < i)
  OBVIOUS
<1>4. s[i].number < s[k].number \/ s[k].number < s[i].number
  BY <1>3
<1> QED BY <1>2, <1>4

\* Every step keeps what is underway complete, in order and timed.
LEMMA CountedFlow ==
    ASSUME CliInv, StageInv, counting, [Next]_vars, TypeOK'
    PROVE  FlowInv' /\ NothingIsLost'
<1>1. /\ TypeOK /\ ClockInv /\ FlowInv /\ NothingIsLost
      /\ (capture' # "send" => batch' = <<>>) /\ (capture' # "drain" => Len(held') < Depth)
  BY RoomStep DEF CliInv
<1>2. /\ Underway \in Seq(Unit) /\ DOMAIN Underway = 1 .. Len(Underway) /\ Len(Underway) \in Nat
      /\ \A i \in DOMAIN Underway : Underway[i] \in Unit
  BY <1>1, Regroup, SeqTypes
<1>3. \A u \in Unit : Timed(u) => Timed(u)'
  BY <1>1, TimedStays
<1>4. PICK l : l = Underway'
  OBVIOUS
<1> DEFINE Numbered == \A i, j \in DOMAIN l : i < j => l[i].number < l[j].number
           Bounded  == ~RxDropped' => Numbers(l) \cup failed' \subseteq 1 .. Encoded'
           Complete == ~RxDropped' /\ capture' # "ended" => Numbers(l) = (1 .. Encoded') \ failed'
<1>5. SUFFICES /\ \A i \in DOMAIN l : Timed(l[i])'
               /\ (~RxDropped' => Numbered) /\ Bounded /\ Complete
  <2>1. (\A i \in DOMAIN Underway : Timed(Underway[i]))'
    BY <1>4 DEF Timed, Stamp
  <2>2. Numbers(Underway)' = Numbers(l)
    BY <1>4 DEF Numbers
  <2>5. counting' = counting
    BY <1>1, CountingStays
  <2>3. FlowInv'
    BY <1>1, <1>4, <2>1, <2>2, <2>5 DEF FlowInv
  <2>4. NothingIsLost'
    BY <1>4, <2>2 DEF NothingIsLost
  <2> QED BY <2>3, <2>4
<1>6. /\ \A i \in DOMAIN Underway : Timed(Underway[i])
      /\ ~RxDropped =>
           /\ Numbers(Underway) \cup failed \subseteq 1 .. Encoded
           /\ \A i, j \in DOMAIN Underway : i < j => Underway[i].number < Underway[j].number
           /\ capture # "ended" => Numbers(Underway) = (1 .. Encoded) \ failed
  BY <1>1 DEF FlowInv, NothingIsLost
<1>7. CASE ~Encode /\ ~FailToProduce /\ ~(CtrlC \/ CaptureEnded \/ ThreadFails \/ SendFails)
  <2>1. /\ l = Underway /\ failed' = failed /\ (capture' = "ended" <=> capture = "ended")
        /\ ~RxDropped' => ~RxDropped /\ Encoded' = Encoded
    BY <1>1, <1>4, <1>7, QuietSteps
  <2>2. \A i \in DOMAIN l : Timed(l[i])'
    <3> SUFFICES ASSUME NEW i \in DOMAIN l PROVE Timed(l[i])'
      OBVIOUS
    <3>1. PICK u \in Unit : u = l[i] /\ Timed(u)
      BY <1>2, <1>6, <2>1
    <3>2. Timed(u)'
      BY <1>3, <3>1
    <3> QED BY <3>1, <3>2
  <2> QED BY <1>6, <2>1, <2>2
<1>8. CASE Encode
  <2>1. /\ \A i \in DOMAIN l : Timed(l[i])
        /\ ~RxDropped => Numbered /\ Numbers(l) = Numbers(Underway) \cup {frame.number}
    BY <1>4, <1>8, EncodeStep
  <2>2. UNCHANGED <<frame, base, platform, main, failed>> /\ capture = "encode" /\ capture' = "drain"
    BY <1>8 DEF Encode, given, mainVars
  <2>3. \A i \in DOMAIN l : Timed(l[i])'
    BY <2>1, <2>2 DEF Timed, Stamp
  <2>4. (RxDropped' <=> RxDropped) /\ Encoded = frame.number - 1 /\ Encoded' = frame.number
    BY <2>2 DEF RxDropped, Encoded
  <2>5. frame.number \in Nat /\ frame.number > 0
    BY <1>1, <2>2 DEF TypeOK, ClockInv
  <2>6. 1 .. frame.number = (1 .. frame.number - 1) \cup {frame.number}
    BY <2>5
  <2>7. ~RxDropped => frame.number \notin failed
    BY <1>6, <2>4, <2>5
  <2> QED BY <1>6, <2>1, <2>2, <2>3, <2>4, <2>6, <2>7
<1>9. CASE FailToProduce
  <2>1. Kept(l, Underway)
    BY <1>1, <1>4, <1>9, FailStep
  <2>2. PICK k \in DOMAIN Underway :
              /\ failed' = failed \cup {Underway[k].number}
              /\ \A i \in DOMAIN Underway : i # k => \E j \in DOMAIN l : l[j] = Underway[i]
              /\ \A j \in DOMAIN l : \E i \in DOMAIN Underway : i # k /\ l[j] = Underway[i]
    BY <1>1, <1>4, <1>9, FailStep
  <2>3. UNCHANGED <<frame, main, capture>> /\ (RxDropped' <=> RxDropped) /\ Encoded' = Encoded
    BY <1>9 DEF FailToProduce, mainVars, threadVars, RxDropped, Encoded
  <2>4. \A i \in DOMAIN l : Timed(l[i])'
    <3> SUFFICES ASSUME NEW i \in DOMAIN l PROVE Timed(l[i])'
      OBVIOUS
    <3>1. PICK u \in Unit : u = l[i] /\ Timed(u)
      BY <1>2, <1>6, <2>2
    <3>2. Timed(u)'
      BY <1>3, <3>1
    <3> QED BY <3>1, <3>2
  <2>5. (~RxDropped => Numbered) /\ Numbers(l) \subseteq Numbers(Underway)
    BY <1>2, <1>6, <2>1, KeptFacts
  <2>6. ~RxDropped => Numbers(l) = Numbers(Underway) \ {Underway[k].number}
    <3> SUFFICES ASSUME ~RxDropped PROVE Numbers(l) = Numbers(Underway) \ {Underway[k].number}
      OBVIOUS
    <3>1. \A i \in DOMAIN Underway : i # k => Underway[i].number # Underway[k].number
      BY <1>2, <1>6, GrowingAreDistinct
    <3> QED BY <2>2, <3>1 DEF Numbers
  <2>7. Underway[k].number \in Numbers(Underway)
    BY DEF Numbers
  <2> QED BY <1>6, <2>2, <2>3, <2>4, <2>5, <2>6, <2>7
<1>10. CASE CtrlC \/ CaptureEnded \/ ThreadFails \/ SendFails
  <2>1. Kept(l, Underway) /\ (RxDropped' \/ capture' = "ended")
    BY <1>1, <1>4, <1>10, EndSteps
  <2>2. /\ failed' = failed /\ frame' = frame
        /\ RxDropped => RxDropped'
    BY <1>10 DEF CtrlC, CaptureEnded, Leave, ThreadFails, SendFails, encoderVars, threadVars,
       mainVars, RxDropped
  <2>3. /\ \A i \in DOMAIN l : \E k \in DOMAIN Underway : l[i] = Underway[k]
        /\ (~RxDropped => Numbered) /\ Numbers(l) \subseteq Numbers(Underway)
    BY <1>2, <1>6, <2>1, KeptFacts
  <2>4. \A i \in DOMAIN l : Timed(l[i])'
    <3> SUFFICES ASSUME NEW i \in DOMAIN l PROVE Timed(l[i])'
      OBVIOUS
    <3>1. PICK u \in Unit : u = l[i] /\ Timed(u)
      BY <1>2, <1>6, <2>3
    <3>2. Timed(u)'
      BY <1>3, <3>1
    <3> QED BY <3>1, <3>2
  <2>5. ~RxDropped' => Encoded' = frame.number /\ 1 .. Encoded \subseteq 1 .. frame.number
    BY <1>1, <2>1, <2>2 DEF Encoded, TypeOK
  <2> QED BY <1>6, <2>1, <2>2, <2>3, <2>4, <2>5
<1> QED BY <1>7, <1>8, <1>9, <1>10

\* And where they are not counted, there is nothing to keep but room.
LEMMA StepFlow ==
    ASSUME CliInv, StageInv, [Next]_vars, TypeOK'
    PROVE  FlowInv' /\ NothingIsLost'
<1>1. CASE counting
  BY <1>1, CountedFlow
<1>2. CASE ~counting
  <2>1. /\ TypeOK /\ FlowInv
        /\ (capture' # "send" => batch' = <<>>) /\ (capture' # "drain" => Len(held') < Depth)
    BY RoomStep DEF CliInv
  <2>2. ~counting' /\ pushed' = <<>>
    BY <1>2, <2>1, CountingStays
  <2> QED BY <2>1, <2>2 DEF FlowInv, NothingIsLost
<1> QED BY <1>1, <1>2 DEF CliInv, TypeOK

\* Every step keeps the invariant of the flow, and that of the stages it relies on.
LEMMA StepCli == CliInv /\ StageInv /\ [Next]_vars => CliInv'
<1> SUFFICES ASSUME CliInv, StageInv, [Next]_vars PROVE CliInv'
  OBVIOUS
<1>1. TypeOK'
  <2>1. 0 \in Int /\ Steps \subseteq Int /\ TRUE \in BOOLEAN
    BY CliAssumption
  <2>2. CASE Main \/ Press \/ Broadcast
    BY <2>1, <2>2, MainTypes DEF CliInv, Main
  <2>3. CASE Thread \/ ThreadFails \/ Produce \/ FailToProduce
    BY <2>1, <2>3, ThreadTypes DEF CliInv, Thread
  <2>4. CASE UNCHANGED vars
    BY <2>4 DEF vars, given, mainVars, threadVars, signalVars, encoderVars, CliInv, TypeOK, Alive
  <2> QED BY <2>2, <2>3, <2>4 DEF Next
<1>2. ClockInv'
  BY StepClock DEF CliInv
<1> QED BY <1>1, <1>2, StepFlow DEF CliInv

\* The types, the clock and the flow in every state.
THEOREM SpecCliInv == Spec => []CliInv
<1>1. Init => CliInv /\ StageInv
  BY InitCli, InitStage
<1>2. CliInv /\ StageInv /\ [Next]_vars => (CliInv /\ StageInv)'
  BY StepCli, StepStage
<1> QED BY <1>1, <1>2, PTL DEF Spec

\* Until mirroring stops every frame that could be encoded is underway, once and in order.
THEOREM SpecNothingIsLost == Spec => []NothingIsLost
<1>1. CliInv => NothingIsLost
  BY DEF CliInv
<1> QED BY <1>1, SpecCliInv, PTL

\* What has been shown is the beginning of what is underway.
LEMMA PushedFirst ==
    ASSUME TypeOK
    PROVE  \A i \in DOMAIN pushed : i \in DOMAIN Underway /\ Underway[i] = pushed[i]
<1>1. /\ pushed \in Seq(Unit) /\ unit \in Seq(Unit) /\ queue \in Seq(Unit)
      /\ batch \in Seq(Unit) /\ output \in Seq(Unit) /\ held \in Seq(Unit)
  BY DEF TypeOK
<1>2. \A x, y \in Seq(Unit) :
        /\ Cat(x, y) \in Seq(Unit)
        /\ \A i \in DOMAIN x : i \in DOMAIN Cat(x, y) /\ Cat(x, y)[i] = x[i]
  <2> SUFFICES ASSUME NEW x \in Seq(Unit), NEW y \in Seq(Unit), NEW i \in DOMAIN x
               PROVE  Cat(x, y) \in Seq(Unit) /\ i \in DOMAIN Cat(x, y) /\ Cat(x, y)[i] = x[i]
    BY CatProperties
  <2>1. i \in 1 .. Len(x) /\ Len(x) \in Nat /\ Len(y) \in Nat
    OBVIOUS
  <2>2. /\ Cat(x, y) \in Seq(Unit) /\ DOMAIN Cat(x, y) = 1 .. Len(x) + Len(y)
        /\ \A k \in 1 .. Len(x) + Len(y) : Cat(x, y)[k] = IF k <= Len(x) THEN x[k] ELSE y[k - Len(x)]
    BY CatProperties
  <2>3. i \in 1 .. Len(x) + Len(y) /\ i <= Len(x)
    BY <2>1
  <2> QED BY <2>2, <2>3
<1> DEFINE a == Cat(pushed, unit)    b == Cat(a, queue)    c == Cat(b, batch)    d == Cat(c, output)
<1>3. Underway = Cat(d, held)
  BY DEF Underway, Cat
<1>4. a \in Seq(Unit) /\ \A i \in DOMAIN pushed : i \in DOMAIN a /\ a[i] = pushed[i]
  BY <1>1, <1>2
<1> HIDE DEF a
<1>5. b \in Seq(Unit) /\ \A i \in DOMAIN a : i \in DOMAIN b /\ b[i] = a[i]
  BY <1>1, <1>2, <1>4
<1> HIDE DEF b
<1>6. c \in Seq(Unit) /\ \A i \in DOMAIN b : i \in DOMAIN c /\ c[i] = b[i]
  BY <1>1, <1>2, <1>5
<1> HIDE DEF c
<1>7. d \in Seq(Unit) /\ \A i \in DOMAIN c : i \in DOMAIN d /\ d[i] = c[i]
  BY <1>1, <1>2, <1>6
<1> HIDE DEF d
<1>8. \A i \in DOMAIN d : i \in DOMAIN Underway /\ Underway[i] = d[i]
  BY <1>1, <1>2, <1>3, <1>7
<1> QED BY <1>4, <1>5, <1>6, <1>7, <1>8

\* The renderer is shown time stamps that begin at 0, are in the order of the capture
\* times, and are behind the time since the first frame by less than one tick, or two.
THEOREM SpecStampsFollowTheClock == Spec => []StampsFollowTheClock
<1>1. CliInv => StampsFollowTheClock
  <2> SUFFICES ASSUME CliInv PROVE StampsFollowTheClock
    OBVIOUS
  <2>1. \A i \in DOMAIN pushed : i \in DOMAIN Underway /\ Underway[i] = pushed[i]
    BY PushedFirst DEF CliInv
  <2>2. \A i \in DOMAIN pushed : pushed[i] \in Unit
    BY SeqTypes DEF CliInv, TypeOK
  <2>3. ASSUME NEW i \in DOMAIN pushed PROVE Timed(pushed[i])
    <3>1. counting
      BY DEF CliInv, TypeOK, FlowInv
    <3> QED BY <2>1, <3>1 DEF CliInv, FlowInv
  <2>4. ASSUME NEW k \in DOMAIN pushed
        PROVE  /\ pushed[k].at \in Int /\ pushed[k].stamp = StampAt(pushed[k].at)
               /\ (pushed[k].number = 1 => pushed[k].at = 0)
    BY <2>2, <2>3 DEF Timed, Unit, StampAt
  <2> SUFFICES ASSUME NEW i \in DOMAIN pushed
               PROVE  LET u == pushed[i] IN
                 /\ u.number = 1 \/ u.at <= 0 => u.stamp = 0
                 /\ u.at >= 0 =>
                      /\ 100000 * u.stamp <= 9 * u.at
                      /\ 9 * u.at < 100000 * (u.stamp + IF platform = "windows" THEN 2 ELSE 1)
                 /\ \A j \in DOMAIN pushed : pushed[j].at <= u.at => pushed[j].stamp <= u.stamp
    BY DEF StampsFollowTheClock
  <2>5. PICK a \in Int : a = pushed[i].at
    BY <2>4
  <2>6. pushed[i].stamp = StampAt(a) /\ (pushed[i].number = 1 => a = 0)
    BY <2>4, <2>5
  <2>7. /\ a <= 0 => StampAt(a) = 0
        /\ a >= 0 => /\ 100000 * StampAt(a) <= 9 * a
                     /\ 9 * a < 100000 * (StampAt(a) + IF platform = "windows" THEN 2 ELSE 1)
    BY Stamps
  <2>8. ASSUME NEW j \in DOMAIN pushed, pushed[j].at <= a PROVE pushed[j].stamp <= StampAt(a)
    <3>1. PICK b \in Int : b = pushed[j].at /\ pushed[j].stamp = StampAt(b)
      BY <2>4
    <3>2. b <= a
      BY <2>8, <3>1
    <3>3. StampAt(b) <= StampAt(a)
      BY <3>2, Stamps
    <3> QED BY <3>1, <3>3
  <2>9. pushed[i].number = 1 \/ a <= 0 => StampAt(a) = 0
    BY <2>6, <2>7
  <2> QED BY <2>5, <2>6, <2>7, <2>8, <2>9
<1> QED BY <1>1, SpecCliInv, PTL
=============================================================================
