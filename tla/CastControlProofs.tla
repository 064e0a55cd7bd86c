------------------------- MODULE CastControlProofs -------------------------
(* Theorems about CastControl, for every set of renderers and every bound.  *)
EXTENDS CastControl, TLAPS

-----------------------------------------------------------------------------
(* Every step preserves the types and what pc says of the loop's variables. *)

LEMMA TypeInit == Init => TypeOK /\ PhaseOK
<1> SUFFICES ASSUME Init PROVE TypeOK /\ PhaseOK
  OBVIOUS
<1> USE BoundAssumption DEF Init, Stop, NoCast
<1>1. PhaseOK BY DEF PhaseOK, TeardownPcs, StartPcs
<1>2. req \in Seq(Request) /\ Len(req) <= MaxCasts
  OBVIOUS
<1>3. posted \in Seq(Cast) /\ cmds \in Seq(Cast \cup {Stop})
  OBVIOUS
<1>4. chan \in [Cast -> 0..QueueCap] /\ pc \in Pcs
  BY DEF Pcs
<1>. QED BY <1>1, <1>2, <1>3, <1>4 DEF TypeOK

\* The window's handlers.
LEMMA TypeUi == TypeOK /\ PhaseOK /\ Ui => (TypeOK /\ PhaseOK)'
<1> SUFFICES ASSUME TypeOK, PhaseOK, Ui PROVE TypeOK' /\ PhaseOK'
  OBVIOUS
<1> USE NoDeviceAssumption, BoundAssumption
    DEF TypeOK, PhaseOK, uiVars, rtVars, taskVars, tvVars, Stop, NoCast
<1>a. CASE \E d \in Device : UiMirror(d) \/ UiCastUrl(d)
  <2>1. PICK d \in Device, k \in {"mirror", "url"} : CanPick(d) /\ Press(k, d)
    BY <1>a DEF UiMirror, UiCastUrl
  <2>2. Len(req) + 1 \in Cast /\ [kind |-> k, device |-> d] \in Request
    BY <2>1 DEF CanPick, Cast, Request, Kind
  <2>. QED BY <2>1, <2>2 DEF CanPick, Press
<1>b. CASE \E d \in Device : UiPickFile(d)
  BY <1>b DEF UiPickFile, CanPick
<1>c. CASE UiFilePicked
  <2>1. Len(req) + 1 \in Cast /\ [kind |-> "file", device |-> dialog] \in Request
    BY <1>c DEF UiFilePicked, Cast, Request, Kind
  <2>. QED BY <1>c, <2>1 DEF UiFilePicked, Press
<1>d. CASE UiFileCancelled BY <1>d DEF UiFileCancelled
<1>e. CASE UiStop
  <2>1. cmds' \in Seq(Cast \cup {Stop})
    BY <1>e DEF UiStop
  <2>. QED BY <1>e, <2>1 DEF UiStop
<1>f. CASE UiClear
  <2>1. posted' \in Seq(Cast)
    BY <1>f DEF UiClear
  <2>. QED BY <1>f, <2>1 DEF UiClear
<1>g. CASE UiQuit BY <1>g DEF UiQuit
<1>h. CASE ProcessExit
  BY <1>h DEF ProcessExit, Pcs, TeardownPcs, StartPcs
<1>. QED BY <1>a, <1>b, <1>c, <1>d, <1>e, <1>f, <1>g, <1>h DEF Ui


\* Applying a request sets one renderer's URI or what it plays.
LEMMA ApplyType ==
    ASSUME uri \in [Device -> Cast \cup {NoCast}],
           playing \in [Device -> Cast \cup {NoCast}],
           NEW op \in SoapOp, NEW c \in Cast, Apply(op, c)
    PROVE  /\ uri' \in [Device -> Cast \cup {NoCast}]
           /\ playing' \in [Device -> Cast \cup {NoCast}]
<1> DEFINE d == Target(c)
<1>1. uri' = uri \/ uri' = [uri EXCEPT ![d] = c]
  BY DEF Apply
<1>2. \/ playing' = playing
      \/ playing' = [playing EXCEPT ![d] = NoCast]
      \/ playing' = [playing EXCEPT ![d] = uri[d]]
  BY DEF Apply, SoapOp
<1>. HIDE DEF d
<1>. QED BY <1>1, <1>2

\* A SOAP call changes the renderer's variables within their types.
LEMMA SoapType ==
    ASSUME TypeOK, NEW op \in SoapOp, NEW c \in Cast, NEW result, Soap(op, c, result)
    PROVE  /\ uri' \in [Device -> Cast \cup {NoCast}]
           /\ playing' \in [Device -> Cast \cup {NoCast}]
           /\ conns' \subseteq Cast
           /\ late' \subseteq SoapOp \X Cast
           /\ faulty' \subseteq Cast
<1>1. uri \in [Device -> Cast \cup {NoCast}] /\ playing \in [Device -> Cast \cup {NoCast}]
  BY DEF TypeOK
<1>2. ASSUME Apply(op, c)
      PROVE  /\ uri' \in [Device -> Cast \cup {NoCast}]
             /\ playing' \in [Device -> Cast \cup {NoCast}]
  BY <1>1, <1>2, ApplyType
<1>. QED BY <1>1, <1>2 DEF TypeOK, Soap

\* The command loop between two commands and in teardown().
LEMMA TypeTeardown == TypeOK /\ PhaseOK /\ Teardown => (TypeOK /\ PhaseOK)'
<1> SUFFICES ASSUME TypeOK, PhaseOK, Teardown PROVE TypeOK' /\ PhaseOK'
  OBVIOUS
<1> USE DEF uiVars, rtVars, taskVars, Stop, NoCast, Quit,
            TeardownPcs, StartPcs, Pcs
<1>1. EndTeardown => /\ pc' \in {"exited", "select", "find"} /\ closing' = NoCast
                     /\ pc' = "select" => cur' = Stop
                     /\ pc' = "find" => cur' \notin {Stop, Quit}
                     /\ UNCHANGED <<uiVars, posted, cmds, req, snapshot, cur, active>>
  BY DEF EndTeardown
<1>a. CASE RtRecv
  <2>1. Head(cmds) \in Cast \cup {Stop} /\ cmds' \in Seq(Cast \cup {Stop})
    BY <1>a DEF RtRecv, TypeOK
  <2>. QED BY <1>a, <2>1 DEF RtRecv, BeginTeardown, TypeOK, PhaseOK, tvVars
<1>b. CASE RtClosed
  BY <1>b DEF RtClosed, BeginTeardown, TypeOK, PhaseOK, tvVars
<1>c. CASE RtTeardownNone
  BY <1>c, <1>1 DEF RtTeardownNone, TypeOK, PhaseOK, tvVars
<1>d. CASE \E result \in Outcome : RtTeardownMedia(result)
  <2>1. PICK result \in Outcome : RtTeardownMedia(result)
    BY <1>d
  <2>2. closing \in Cast /\ "stop" \in SoapOp
    BY <2>1 DEF RtTeardownMedia, TypeOK, SoapOp
  <2>3. Soap("stop", closing, result)
    BY <2>1 DEF RtTeardownMedia
  <2>. HIDE DEF NoCast
  <2>4. /\ uri' \in [Device -> Cast \cup {NoCast}]
        /\ playing' \in [Device -> Cast \cup {NoCast}]
        /\ conns' \subseteq Cast
        /\ late' \subseteq SoapOp \X Cast
        /\ faulty' \subseteq Cast
    BY <2>2, <2>3, SoapType
  <2>. QED BY <2>1, <2>4 DEF RtTeardownMedia, TypeOK, PhaseOK
<1>e. CASE RtDrained
  BY <1>e, <1>1 DEF RtDrained, TypeOK, PhaseOK, tvVars
<1>f. CASE RtTeardownMirror
  BY <1>f DEF RtTeardownMirror, TypeOK, PhaseOK, tvVars
<1>g. CASE RtPumpJoined
  BY <1>g DEF RtPumpJoined, TypeOK, PhaseOK, tvVars
<1>h. CASE RtCaptureJoined
  BY <1>h, <1>1 DEF RtCaptureJoined, TypeOK, PhaseOK, tvVars
<1>. QED BY <1>a, <1>b, <1>c, <1>d, <1>e, <1>f, <1>g, <1>h DEF Teardown

\* start_media and start_mirror.
LEMMA TypeStart == TypeOK /\ PhaseOK /\ Start => (TypeOK /\ PhaseOK)'
<1> SUFFICES ASSUME TypeOK, PhaseOK, Start PROVE TypeOK' /\ PhaseOK'
  OBVIOUS
<1> USE BoundAssumption
    DEF uiVars, rtVars, taskVars, TeardownPcs, StartPcs, Pcs
<1>1. cur \in Cast /\ pc \in StartPcs
  BY DEF Start, RtFind, RtAborted, RtResolve, RtServe, RtSetUri, RtPlay, PhaseOK
<1>2. Fail => /\ posted' \in Seq(Cast)
              /\ pc' = "select" /\ cur' = Stop
  BY <1>1 DEF Fail, TypeOK
<1>3. GiveUp => /\ posted' \in Seq(Cast)
                /\ server' \in [Cast -> {"off", "open", "closing"}]
                /\ \/ pc' = "select" /\ cur' = Stop
                   \/ pc' = "abort" /\ cur' = cur
  BY <1>1, <1>2 DEF GiveUp, TypeOK
<1>a. CASE RtFind
  BY <1>a, <1>1, <1>2 DEF RtFind, TypeOK, PhaseOK, tvVars
<1>b. CASE RtAborted
  BY <1>b, <1>1, <1>2 DEF RtAborted, TypeOK, PhaseOK, tvVars
<1>c. CASE \E ok \in BOOLEAN : RtResolve(ok)
  BY <1>c, <1>1, <1>2 DEF RtResolve, TypeOK, PhaseOK, tvVars
<1>d. CASE \E ok \in BOOLEAN : RtServe(ok)
  BY <1>d, <1>1, <1>2 DEF RtServe, TypeOK, PhaseOK, tvVars
<1>e. CASE \E result \in Outcome : RtSetUri(result)
  <2>1. PICK result \in Outcome : RtSetUri(result)
    BY <1>e
  <2>2. /\ uri' \in [Device -> Cast \cup {NoCast}]
        /\ playing' \in [Device -> Cast \cup {NoCast}]
        /\ conns' \subseteq Cast
        /\ late' \subseteq SoapOp \X Cast
        /\ faulty' \subseteq Cast
    BY <1>1, <2>1, SoapType DEF RtSetUri, SoapOp
  <2>. QED BY <1>1, <1>3, <2>1, <2>2 DEF RtSetUri, TypeOK, PhaseOK
<1>f. CASE \E result \in Outcome : RtPlay(result)
  <2>1. PICK result \in Outcome : RtPlay(result)
    BY <1>f
  <2>2. /\ uri' \in [Device -> Cast \cup {NoCast}]
        /\ playing' \in [Device -> Cast \cup {NoCast}]
        /\ conns' \subseteq Cast
        /\ late' \subseteq SoapOp \X Cast
        /\ faulty' \subseteq Cast
    BY <1>1, <2>1, SoapType DEF RtPlay, SoapOp
  <2>3. CASE Started
    <3>1. /\ pump' \in [Cast -> {"off", "run", "stop", "drain"}]
          /\ stopSent' \in [Cast -> BOOLEAN]
          /\ cap' \in [Cast -> {"off", "start", "wait", "send"}]
          /\ chan' \in [Cast -> 0..QueueCap]
      <4>1. pump' \in [Cast -> {"off", "run", "stop", "drain"}]
        BY <2>3 DEF Started, TypeOK
      <4>2. stopSent' \in [Cast -> BOOLEAN]
        BY <2>3, Zenon DEF Started, TypeOK
      <4>3. cap' \in [Cast -> {"off", "start", "wait", "send"}]
        BY <2>3 DEF Started, TypeOK
      <4>4. chan' \in [Cast -> 0..QueueCap]
        <5>1. chan' = chan \/ chan' = [chan EXCEPT ![cur] = 0]
          BY <2>3 DEF Started
        <5>2. chan \in [Cast -> 0..QueueCap] /\ 0 \in 0..QueueCap
          BY DEF TypeOK
        <5>. QED BY <5>1, <5>2
      <4>. QED BY <4>1, <4>2, <4>3, <4>4
    <3>. QED BY <1>1, <2>1, <2>2, <2>3, <3>1 DEF RtPlay, Started, TypeOK, PhaseOK
  <2>4. CASE GiveUp /\ UNCHANGED <<active, pump, stopSent, cap, chan>>
    BY <1>1, <1>3, <2>1, <2>2, <2>4 DEF RtPlay, TypeOK, PhaseOK
  <2>. QED BY <2>1, <2>3, <2>4 DEF RtPlay
<1>. QED BY <1>a, <1>b, <1>c, <1>d, <1>e, <1>f DEF Start


\* The pump, the capture thread and the renderer move on their own.
LEMMA TypeTasks ==
    TypeOK /\ PhaseOK /\ (\E c \in Cast : Pump(c) \/ Capture(c)) => (TypeOK /\ PhaseOK)'
<1> SUFFICES ASSUME TypeOK, PhaseOK, NEW c \in Cast, Pump(c) \/ Capture(c)
             PROVE  TypeOK' /\ PhaseOK'
  OBVIOUS
<1> USE BoundAssumption DEF uiVars, rtVars
<1>a. CASE PumpStop(c)
  BY <1>a DEF PumpStop, TypeOK, PhaseOK, tvVars
<1>b. CASE PumpUnit(c)
  BY <1>b DEF PumpUnit, TypeOK, PhaseOK, tvVars
<1>c. CASE PumpEnded(c)
  BY <1>c DEF PumpEnded, TypeOK, PhaseOK, tvVars
<1>d. CASE PumpDrained(c)
  BY <1>d DEF PumpDrained, TypeOK, PhaseOK, tvVars
<1>e. CASE \E result \in Outcome : PumpSoapStop(c, result)
  <2>1. PICK result \in Outcome : PumpSoapStop(c, result)
    BY <1>e
  <2>2. /\ uri' \in [Device -> Cast \cup {NoCast}]
        /\ playing' \in [Device -> Cast \cup {NoCast}]
        /\ conns' \subseteq Cast
        /\ late' \subseteq SoapOp \X Cast
        /\ faulty' \subseteq Cast
    BY <2>1, SoapType DEF PumpSoapStop, SoapOp
  <2>. QED BY <2>1, <2>2 DEF PumpSoapStop, TypeOK, PhaseOK
<1>f. CASE \E ok \in BOOLEAN : CapStart(c, ok)
  BY <1>f DEF CapStart, TypeOK, PhaseOK, tvVars
<1>g. CASE CapFrame(c)
  BY <1>g DEF CapFrame, TypeOK, PhaseOK, tvVars
<1>h. CASE CapEnd(c)
  BY <1>h DEF CapEnd, TypeOK, PhaseOK, tvVars
<1>i. CASE CapSend(c)
  BY <1>i DEF CapSend, TypeOK, PhaseOK, tvVars
<1>j. CASE CapClosed(c)
  BY <1>j DEF CapClosed, TypeOK, PhaseOK, tvVars
<1>. QED BY <1>a, <1>b, <1>c, <1>d, <1>e, <1>f, <1>g, <1>h, <1>i, <1>j DEF Pump, Capture

LEMMA TypeRenderer == TypeOK /\ PhaseOK /\ Renderer => (TypeOK /\ PhaseOK)'
<1> SUFFICES ASSUME TypeOK, PhaseOK, Renderer PROVE TypeOK' /\ PhaseOK'
  OBVIOUS
<1> USE DEF uiVars, rtVars, taskVars
<1>a. CASE \E op \in SoapOp, c \in Cast : TvLate(op, c)
  <2>1. PICK op \in SoapOp, c \in Cast : TvLate(op, c)
    BY <1>a
  <2>2. /\ uri' \in [Device -> Cast \cup {NoCast}]
        /\ playing' \in [Device -> Cast \cup {NoCast}]
    BY <2>1, ApplyType DEF TvLate, TypeOK
  <2>. QED BY <2>1, <2>2 DEF TvLate, TypeOK, PhaseOK
<1>b. CASE \E c \in Cast : TvConnect(c) \/ TvDisconnect(c)
  BY <1>b DEF TvConnect, TvDisconnect, TypeOK, PhaseOK
<1>c. CASE \E d \in Device : TvEnds(d)
  BY <1>c DEF TvEnds, TypeOK, PhaseOK, NoCast
<1>. QED BY <1>a, <1>b, <1>c DEF Renderer

LEMMA TypeDevices ==
    TypeOK /\ PhaseOK /\ (\E devices \in SUBSET Device : RtDevices(devices))
      => (TypeOK /\ PhaseOK)'
BY DEF RtDevices, TypeOK, PhaseOK, uiVars, taskVars, tvVars

LEMMA TypeStutter == TypeOK /\ PhaseOK /\ UNCHANGED vars => (TypeOK /\ PhaseOK)'
BY DEF vars, uiVars, rtVars, taskVars, tvVars, TypeOK, PhaseOK

LEMMA TypeStep == TypeOK /\ PhaseOK /\ [Next]_vars => (TypeOK /\ PhaseOK)'
BY TypeUi, TypeTeardown, TypeStart, TypeTasks, TypeRenderer, TypeDevices, TypeStutter
   DEF Next

\* Every variable keeps its type in every reachable state: in particular a
\* channel never holds more access units than its capacity.
THEOREM SpecTypeOK == Spec => []TypeOK
<1>1. Init => TypeOK /\ PhaseOK
  BY TypeInit
<1>2. TypeOK /\ PhaseOK /\ [Next]_vars => (TypeOK /\ PhaseOK)'
  BY TypeStep
<1>. QED BY <1>1, <1>2, PTL DEF Spec

-----------------------------------------------------------------------------
(* Only what the command loop holds is running: the strengthening of        *)
(* OneCastAtATime.  Safe is what the lemmas below may assume and must keep. *)

Safe == TypeOK /\ PhaseOK /\ PressedOK /\ OwnedOK

\* The loop holds at most one cast, in whichever place.
LEMMA HeldIsOne ==
    ASSUME TypeOK, PhaseOK, NEW c \in Cast, NEW d \in Cast, Held(c), Held(d)
    PROVE  c = d
BY DEF TypeOK, PhaseOK, Held, HostPcs, StartPcs, TeardownPcs, Pcs, Cast, NoCast

LEMMA OwnedInit == Init => PressedOK /\ OwnedOK
<1> SUFFICES ASSUME Init PROVE PressedOK /\ OwnedOK
  OBVIOUS
<1>1. \A c \in Cast : ~Running(c)
  BY DEF Init, Running
<1>2. PressedOK
  BY <1>1 DEF Init, PressedOK, Stop, NoCast
<1>3. OwnedOK
  BY <1>1 DEF Init, OwnedOK, Running, HostPcs, NoCast
<1>. QED BY <1>2, <1>3

\* A press only adds to req, so what is said of earlier casts stays.
LEMMA OwnedPress ==
    ASSUME Safe, TypeOK', PhaseOK', NEW k \in Kind, NEW d, Press(k, d)
    PROVE  PressedOK' /\ OwnedOK'
<1>1. /\ Len(req) \in Nat /\ Len(req') = Len(req) + 1
      /\ \A c \in 1..Len(req) : req'[c] = req[c]
  BY DEF Safe, TypeOK, Press
<1>2. /\ Len(cmds') = Len(cmds) + 1 /\ cmds'[Len(cmds) + 1] = Len(req) + 1
      /\ \A i \in DOMAIN cmds : cmds'[i] = cmds[i]
      /\ DOMAIN cmds' = DOMAIN cmds \cup {Len(cmds) + 1}
  <2>1. cmds \in Seq(Int)
    BY DEF Safe, TypeOK, Cast, Stop
  <2>2. cmds' = Append(cmds, Len(req) + 1) /\ Len(req) + 1 \in Int
    BY <1>1 DEF Press
  <2>. QED BY <2>1, <2>2
<1>3. UNCHANGED <<rtVars, taskVars>>
  BY DEF Press
<1>4. \A c \in Cast : Running(c) => c <= Len(req)
  BY DEF Safe, PressedOK
<1>5. \A i \in DOMAIN cmds : cmds[i] <= Len(req) /\ cmds[i] \in Int
  BY DEF Safe, PressedOK, TypeOK, Cast, Stop
<1>6. PressedOK'
  <2>1. cur' <= Len(req') /\ active' <= Len(req') /\ closing' <= Len(req')
    BY <1>1, <1>3 DEF rtVars, Safe, PressedOK, TypeOK, Cast, Stop, Quit, NoCast
  <2>2. \A i \in DOMAIN cmds' : cmds'[i] <= Len(req')
    BY <1>1, <1>2, <1>5
  <2>3. \A c \in Cast : Running(c)' => c <= Len(req')
    BY <1>1, <1>3, <1>4 DEF taskVars, Running, Cast
  <2>. QED BY <2>1, <2>2, <2>3 DEF PressedOK
<1>7. \A c \in Cast : c <= Len(req) => KindOf(c)' = KindOf(c)
  BY <1>1 DEF KindOf, Cast
<1>8. closing # NoCast => KindOf(closing)' = KindOf(closing)
  BY <1>1, <1>3 DEF Safe, TypeOK, PressedOK, KindOf, rtVars, Cast, NoCast
<1>9. active # NoCast => KindOf(active)' = KindOf(active)
  BY <1>1, <1>3 DEF Safe, TypeOK, PressedOK, KindOf, rtVars, Cast, NoCast
<1>. QED
  <2>. USE DEF Safe
  <2>1. \A c \in Cast : Running(c)' => Running(c) /\ KindOf(c)' = KindOf(c)
    BY <1>3, <1>4, <1>7 DEF Running, taskVars
  <2>2. \A c \in Cast : Held(c)' <=> Held(c)
    BY <1>3 DEF Held, rtVars
  <2>3. \A c \in Cast : Running(c)' => Held(c)'
    BY <2>1, <2>2 DEF OwnedOK
  <2>4. \A c \in Cast : /\ pump'[c] # "off" \/ cap'[c] # "off" => KindOf(c)' = "mirror"
                        /\ server'[c] # "off" => KindOf(c)' # "url"
    BY <1>3, <2>1 DEF OwnedOK, Running, taskVars
  <2>5. /\ pc' \in HostPcs => pump'[cur'] = "off" /\ cap'[cur'] = "off"
        /\ pc' = "drain" => KindOf(closing)' # "mirror"
        /\ pc' \in {"joinPump", "joinCapture"} => KindOf(closing)' = "mirror"
        /\ pc' = "joinCapture" => pump'[closing'] = "off"
    BY <1>3, <1>8 DEF OwnedOK, PhaseOK, rtVars, taskVars, TeardownPcs
  <2>6. \A c \in {active', closing'} \ {NoCast} :
           KindOf(c)' = "mirror" /\ server'[c] # "off" => pump'[c] # "off"
    BY <1>3, <1>8, <1>9 DEF OwnedOK, rtVars, taskVars
  <2>. QED BY <1>6, <2>3, <2>4, <2>5, <2>6 DEF OwnedOK

\* Steps of the window, discovery and the renderer that touch neither the loop
\* nor what casts run.
LEMMA OwnedFrame ==
    ASSUME Safe, UNCHANGED <<pc, cur, active, closing, taskVars, req>>,
           \A i \in DOMAIN cmds' : cmds'[i] <= Len(req)
    PROVE  PressedOK' /\ OwnedOK'
<1>. USE DEF Safe, taskVars
<1>1. PressedOK'
  BY DEF PressedOK, Running
<1>2. OwnedOK'
  BY DEF OwnedOK, Running, Held, KindOf
<1>. QED BY <1>1, <1>2

LEMMA OwnedUi == Safe /\ TypeOK' /\ PhaseOK' /\ Ui => PressedOK' /\ OwnedOK'
<1> SUFFICES ASSUME Safe, TypeOK', PhaseOK', Ui PROVE PressedOK' /\ OwnedOK'
  OBVIOUS
<1>1. \A i \in DOMAIN cmds : cmds[i] <= Len(req)
  BY DEF Safe, PressedOK
<1>a. CASE \E d \in Device : UiMirror(d) \/ UiCastUrl(d)
  BY <1>a, OwnedPress DEF UiMirror, UiCastUrl, Kind
<1>b. CASE \E d \in Device : UiPickFile(d)
  BY <1>b, <1>1, OwnedFrame DEF UiPickFile, rtVars, taskVars
<1>c. CASE UiFilePicked
  BY <1>c, OwnedPress DEF UiFilePicked, Kind
<1>d. CASE UiFileCancelled
  BY <1>d, <1>1, OwnedFrame DEF UiFileCancelled, rtVars, taskVars
<1>e. CASE UiStop
  <2>1. cmds \in Seq(Int) /\ cmds' = Append(cmds, 0) /\ req \in Seq(Request)
    BY <1>e DEF UiStop, Safe, TypeOK, Cast, Stop
  <2>2. \A i \in DOMAIN cmds' : cmds'[i] <= Len(req)
    BY <2>1, <1>1
  <2>. QED BY <1>e, <2>2, OwnedFrame DEF UiStop, rtVars
<1>f. CASE UiClear
  BY <1>f, <1>1, OwnedFrame DEF UiClear, rtVars, taskVars
<1>g. CASE UiQuit
  BY <1>g, <1>1, OwnedFrame DEF UiQuit, rtVars, taskVars
<1>h. CASE ProcessExit
  <2>1. \A c \in Cast : ~Running(c)'
    BY <1>h DEF ProcessExit, Running
  <2>2. req \in Seq(Request) /\ cmds' = <<>>
    BY <1>h DEF ProcessExit, Safe, TypeOK
  <2>3. PressedOK'
    BY <1>h, <2>1, <2>2 DEF ProcessExit, PressedOK, Stop, NoCast
  <2>4. OwnedOK'
    BY <1>h, <2>1 DEF ProcessExit, OwnedOK, Running, HostPcs, NoCast
  <2>. QED BY <2>3, <2>4
<1>. QED BY <1>a, <1>b, <1>c, <1>d, <1>e, <1>f, <1>g, <1>h DEF Ui

LEMMA OwnedRenderer == Safe /\ Renderer => PressedOK' /\ OwnedOK'
BY OwnedFrame DEF Renderer, TvLate, TvConnect, TvDisconnect, TvEnds, rtVars,
                  Safe, PressedOK

LEMMA OwnedDevices ==
    Safe /\ (\E devices \in SUBSET Device : RtDevices(devices)) => PressedOK' /\ OwnedOK'
BY OwnedFrame DEF RtDevices, Safe, PressedOK

LEMMA OwnedStutter == Safe /\ UNCHANGED vars => PressedOK' /\ OwnedOK'
BY OwnedFrame DEF vars, rtVars, Safe, PressedOK

\* The pump and the capture thread of a running mirror.
LEMMA OwnedTasks ==
    Safe /\ TypeOK' /\ (\E c \in Cast : Pump(c) \/ Capture(c)) => PressedOK' /\ OwnedOK'
<1> SUFFICES ASSUME Safe, TypeOK', NEW c \in Cast, Pump(c) \/ Capture(c)
             PROVE  PressedOK' /\ OwnedOK'
  OBVIOUS
\* A task only moves while it runs, and only moves its own variables.
<1>0. /\ pump \in [Cast -> {"off", "run", "stop", "drain"}]
      /\ cap \in [Cast -> {"off", "start", "wait", "send"}]
      /\ server \in [Cast -> {"off", "open", "closing"}]
  BY DEF Safe, TypeOK
<1>1. /\ UNCHANGED <<cmds, req, pc, cur, active, closing>>
      /\ pump[c] # "off" \/ cap[c] # "off"
      /\ \A d \in Cast : d # c => /\ pump'[d] = pump[d] /\ cap'[d] = cap[d]
                                  /\ server'[d] = server[d]
      /\ pump[c] = "off" => pump' = pump /\ server' = server
      /\ cap[c] = "off" => cap' = cap
      /\ pump'[c] = "off" /\ pump[c] # "off" => server'[c] = "off"
      /\ Running(c)' => Running(c)
  <2>1. CASE Pump(c)
    BY <1>0, <2>1 DEF Pump, PumpStop, PumpUnit, PumpEnded, PumpDrained, PumpSoapStop,
                      rtVars, Running
  <2>2. CASE Capture(c)
    BY <1>0, <2>2 DEF Capture, CapStart, CapFrame, CapEnd, CapSend, CapClosed,
                      rtVars, Running
  <2>. QED BY <2>1, <2>2
<1>2. c = active \/ c = closing
  BY <1>1 DEF Safe, OwnedOK, Held, Running
<1>3. \A d \in Cast : /\ Running(d)' => Running(d)
                      /\ Held(d)' <=> Held(d)
  BY <1>1 DEF Running, Held
<1>4. \A d : KindOf(d)' = KindOf(d)
  BY <1>1 DEF KindOf
<1>5. PressedOK'
  BY <1>1, <1>3 DEF Safe, PressedOK
<1>6. OwnedOK'
  <2>. USE DEF Safe
  <2>1. \A d \in Cast : Running(d)' => Held(d)'
    BY <1>3 DEF OwnedOK
  <2>2. \A d \in Cast : /\ pump'[d] # "off" \/ cap'[d] # "off" => KindOf(d)' = "mirror"
                        /\ server'[d] # "off" => KindOf(d)' # "url"
    BY <1>1, <1>3, <1>4 DEF OwnedOK
  <2>3. pc' \in HostPcs => pump'[cur'] = "off" /\ cap'[cur'] = "off"
    BY <1>1, <1>2, <1>3 DEF OwnedOK, PhaseOK, TypeOK, HostPcs, StartPcs, TeardownPcs, Cast, NoCast
  <2>4. /\ pc' = "drain" => KindOf(closing)' # "mirror"
        /\ pc' \in {"joinPump", "joinCapture"} => KindOf(closing)' = "mirror"
    BY <1>1 DEF OwnedOK, KindOf
  <2>5. pc' = "joinCapture" => pump'[closing'] = "off"
    BY <1>1, <1>2, <1>3 DEF OwnedOK, PhaseOK, TeardownPcs, TypeOK, NoCast
  <2>6. \A d \in {active', closing'} \ {NoCast} :
           KindOf(d)' = "mirror" /\ server'[d] # "off" => pump'[d] # "off"
    <3> SUFFICES ASSUME NEW d \in {active', closing'} \ {NoCast},
                        KindOf(d)' = "mirror", server'[d] # "off", pump'[d] = "off"
                 PROVE  FALSE
      OBVIOUS
    <3>1. d \in Cast /\ d \in {active, closing} \ {NoCast}
      BY <1>1 DEF TypeOK
    <3>2. KindOf(d) = "mirror"
      BY <1>1 DEF KindOf
    <3>3. server[d] # "off" => pump[d] # "off"
      BY <3>1, <3>2 DEF OwnedOK
    <3>4. CASE d = c
      BY <1>1, <3>3, <3>4
    <3>5. CASE d # c
      BY <1>1, <3>1, <3>3, <3>5
    <3>. QED BY <3>4, <3>5
  <2>. QED BY <2>1, <2>2, <2>3, <2>4, <2>5, <2>6 DEF OwnedOK
<1>. QED BY <1>5, <1>6

\* The loop takes the next command, or tears down for the last time.
LEMMA OwnedBegin ==
    ASSUME Safe, TypeOK', PhaseOK', RtRecv \/ RtClosed
    PROVE  PressedOK' /\ OwnedOK'
<1>1. /\ pc = "select" /\ pc' = "teardown" /\ closing = NoCast
      /\ closing' = active /\ active' = NoCast /\ UNCHANGED <<req, taskVars>>
  BY DEF RtRecv, RtClosed, BeginTeardown, Safe, PhaseOK, taskVars
<1>2. /\ cmds \in Seq(Int) /\ Len(req) \in Nat
      /\ \A i \in DOMAIN cmds : cmds[i] <= Len(req)
  BY DEF Safe, TypeOK, PressedOK, Cast, Stop
<1>3. /\ cur' <= Len(req)
      /\ \A i \in DOMAIN cmds' : cmds'[i] <= Len(req)
  <2>1. CASE RtRecv
    <3>1. cmds # <<>> /\ cur' = Head(cmds) /\ cmds' = Tail(cmds)
      BY <2>1 DEF RtRecv, BeginTeardown
    <3>. QED BY <1>2, <3>1
  <2>2. CASE RtClosed
    BY <1>2, <2>2 DEF RtClosed, BeginTeardown, Quit
  <2>. QED BY <2>1, <2>2
<1>4. PressedOK'
  BY <1>1, <1>2, <1>3 DEF Safe, PressedOK, Running, taskVars, NoCast
<1>5. \A c \in Cast : Running(c)' => Held(c)'
  BY <1>1 DEF Safe, OwnedOK, Running, Held, HostPcs, taskVars, Cast, NoCast
<1>. QED BY <1>1, <1>4, <1>5
         DEF Safe, OwnedOK, Running, KindOf, HostPcs, taskVars

\* teardown() returns once nothing of the cast it was given runs any more.
LEMMA OwnedEnd ==
    ASSUME Safe, TypeOK', PhaseOK', pc \in TeardownPcs, EndTeardown,
           \A c \in Cast : Running(c)' => Running(c) /\ c # closing
    PROVE  PressedOK' /\ OwnedOK'
<1>1. \A c \in Cast : ~Running(c)'
  BY DEF Safe, PhaseOK, OwnedOK, Held, TeardownPcs, HostPcs, Cast, NoCast
<1>2. PressedOK'
  BY <1>1 DEF EndTeardown, Safe, PressedOK, TypeOK, NoCast
<1>3. pc' \notin HostPcs /\ pc' \notin TeardownPcs /\ active' = NoCast /\ closing' = NoCast
  BY DEF EndTeardown, Safe, PhaseOK, TeardownPcs, HostPcs
<1>. QED BY <1>1, <1>2, <1>3 DEF OwnedOK, Running, TeardownPcs

LEMMA OwnedTeardown ==
    Safe /\ TypeOK' /\ PhaseOK' /\ Teardown => PressedOK' /\ OwnedOK'
<1> SUFFICES ASSUME Safe, TypeOK', PhaseOK', Teardown PROVE PressedOK' /\ OwnedOK'
  OBVIOUS
<1>1. /\ pump \in [Cast -> {"off", "run", "stop", "drain"}]
      /\ cap \in [Cast -> {"off", "start", "wait", "send"}]
      /\ server \in [Cast -> {"off", "open", "closing"}]
      /\ closing \in Cast \cup {NoCast} /\ NoCast \notin Cast
  BY DEF Safe, TypeOK, Cast, NoCast
<1>a. CASE RtRecv \/ RtClosed
  BY <1>a, OwnedBegin
<1>b. CASE RtTeardownNone
  <2>1. \A c \in Cast : Running(c)' => Running(c) /\ c # closing
    BY <1>b, <1>1 DEF RtTeardownNone, Running, taskVars
  <2>. QED BY <1>b, <2>1, OwnedEnd DEF RtTeardownNone, TeardownPcs
<1>c. CASE \E result \in Outcome : RtTeardownMedia(result)
  <2>1. /\ pc = "teardown" /\ pc' = "drain" /\ KindOf(closing) # "mirror"
        /\ closing \in Cast
        /\ UNCHANGED <<cmds, req, cur, active, closing, pump, cap>>
        /\ \/ server' = server
           \/ KindOf(closing) = "file" /\ server' = [server EXCEPT ![closing] = "closing"]
    BY <1>c, <1>1 DEF RtTeardownMedia
  <2>2. \A c \in Cast : /\ c # closing => server'[c] = server[c]
                        /\ server'[c] # "off" => KindOf(c) # "url"
    BY <2>1, <1>1 DEF Safe, OwnedOK
  <2>3. closing <= Len(req)
    BY DEF Safe, PressedOK
  <2>4. PressedOK'
    BY <2>1, <2>2, <2>3 DEF Safe, PressedOK, Running
  <2>5. \A c \in Cast : Running(c)' => Held(c)'
    BY <2>1, <2>2 DEF Safe, OwnedOK, Running, Held, HostPcs
  <2>6. active = NoCast
    BY <2>1 DEF Safe, PhaseOK
  <2>. QED BY <2>1, <2>2, <2>4, <2>5, <2>6 DEF Safe, OwnedOK, KindOf, HostPcs
<1>d. CASE RtDrained
  <2>1. \A c \in Cast : Running(c)' => Running(c) /\ c # closing
    BY <1>d, <1>1 DEF RtDrained, Running, Safe, OwnedOK
  <2>. QED BY <1>d, <2>1, OwnedEnd DEF RtDrained, TeardownPcs
<1>e. CASE RtTeardownMirror
  <2>1. /\ pc = "teardown" /\ pc' = "joinPump" /\ KindOf(closing) = "mirror"
        /\ UNCHANGED <<cmds, req, cur, active, closing, pump, cap, server>>
    BY <1>e DEF RtTeardownMirror
  <2>2. PressedOK'
    BY <2>1 DEF Safe, PressedOK, Running
  <2>. QED BY <2>1, <2>2 DEF Safe, OwnedOK, Running, Held, KindOf, HostPcs
<1>f. CASE RtPumpJoined
  <2>1. /\ pc = "joinPump" /\ pc' = "joinCapture" /\ pump[closing] = "off"
        /\ UNCHANGED <<cmds, req, cur, active, closing, pump, cap, server>>
    BY <1>f DEF RtPumpJoined, taskVars
  <2>2. PressedOK'
    BY <2>1 DEF Safe, PressedOK, Running
  <2>. QED BY <2>1, <2>2 DEF Safe, OwnedOK, Running, Held, KindOf, HostPcs
<1>g. CASE RtCaptureJoined
  <2>0. closing # NoCast /\ KindOf(closing) = "mirror" /\ pump[closing] = "off"
    BY <1>g DEF RtCaptureJoined, Safe, OwnedOK, PhaseOK, TeardownPcs
  <2>1. server[closing] = "off"
    BY <2>0 DEF Safe, OwnedOK
  <2>2. \A c \in Cast : Running(c)' => Running(c) /\ c # closing
    BY <1>g, <2>0, <2>1 DEF RtCaptureJoined, Running, taskVars
  <2>. QED BY <1>g, <2>2, OwnedEnd DEF RtCaptureJoined, TeardownPcs
<1>. QED BY <1>a, <1>b, <1>c, <1>d, <1>e, <1>f, <1>g DEF Teardown

\* A start that fails leaves nothing of the cast running.
LEMMA OwnedFail ==
    ASSUME Safe, TypeOK', PhaseOK', pc \in StartPcs, Fail,
           UNCHANGED <<cmds, req, active, closing>>,
           \A c \in Cast : Running(c)' => Running(c) /\ c # cur
    PROVE  PressedOK' /\ OwnedOK'
<1>1. \A c \in Cast : ~Running(c)'
  BY DEF Safe, PhaseOK, OwnedOK, Held, StartPcs, TeardownPcs, Cast, NoCast
<1>2. PressedOK'
  BY <1>1 DEF Fail, Safe, PressedOK, TypeOK, Stop
<1>3. pc' = "select" /\ active' = NoCast /\ closing' = NoCast
  BY DEF Fail, Safe, PhaseOK, StartPcs, TeardownPcs
<1>. QED BY <1>1, <1>2, <1>3 DEF OwnedOK, Running, HostPcs

LEMMA OwnedStart ==
    Safe /\ TypeOK' /\ PhaseOK' /\ Start => PressedOK' /\ OwnedOK'
<1> SUFFICES ASSUME Safe, TypeOK', PhaseOK', Start PROVE PressedOK' /\ OwnedOK'
  OBVIOUS
<1>1. /\ pump \in [Cast -> {"off", "run", "stop", "drain"}]
      /\ cap \in [Cast -> {"off", "start", "wait", "send"}]
      /\ server \in [Cast -> {"off", "open", "closing"}]
  BY DEF Safe, TypeOK
<1>2. /\ pc \in StartPcs /\ cur \in Cast /\ cur <= Len(req)
      /\ active = NoCast /\ closing = NoCast /\ NoCast \notin Cast
  BY DEF Start, RtFind, RtAborted, RtResolve, RtServe, RtSetUri, RtPlay,
         Safe, PhaseOK, PressedOK, StartPcs, TeardownPcs, Cast, NoCast
<1>3. \A c \in Cast : Running(c) => c = cur /\ pc \in HostPcs
  BY <1>2 DEF Safe, OwnedOK, Held
<1>4. UNCHANGED <<cmds, req, closing>>
  BY DEF Start, RtFind, RtAborted, RtResolve, RtServe, RtSetUri, RtPlay
\* Find, resolve: no cast runs yet, and none does after the step.
<1>a. CASE RtFind \/ \E ok \in BOOLEAN : RtResolve(ok)
  <2>1. pc \notin HostPcs /\ UNCHANGED <<taskVars, active>>
    BY <1>a DEF RtFind, RtResolve, HostPcs
  <2>2. \A c \in Cast : ~Running(c)'
    BY <1>3, <2>1 DEF Running, taskVars
  <2>3. CASE Fail
    BY <1>2, <1>4, <2>1, <2>2, <2>3, OwnedFail
  <2>4. CASE pc' \in {"resolve", "serve"} /\ UNCHANGED cur
    <3>1. PressedOK'
      BY <1>4, <2>1, <2>2, <2>4 DEF Safe, PressedOK
    <3>. QED BY <1>2, <1>4, <2>1, <2>2, <2>4, <3>1 DEF OwnedOK, Running, HostPcs
  <2>. QED BY <1>a, <2>3, <2>4 DEF RtFind, RtResolve
<1>b. CASE \E ok \in BOOLEAN : RtServe(ok)
  <2>1. PICK ok \in BOOLEAN : RtServe(ok)
    BY <1>b
  <2>2. pc = "serve" /\ UNCHANGED <<pump, cap, active>>
    BY <2>1 DEF RtServe
  <2>3. \A c \in Cast : pump[c] = "off" /\ cap[c] = "off" /\ server[c] = "off"
    BY <1>3, <2>2 DEF Running, HostPcs
  <2>4. CASE ok
    <3>1. /\ pc' = "uri" /\ UNCHANGED cur
          /\ \/ server' = server
             \/ KindOf(cur) # "url" /\ server' = [server EXCEPT ![cur] = "open"]
      BY <2>1, <2>4 DEF RtServe
    <3>2. \A c \in Cast : /\ pump'[c] = "off" /\ cap'[c] = "off"
                          /\ server'[c] # "off" => c = cur /\ KindOf(c) # "url"
      BY <1>1, <2>2, <2>3, <3>1
    <3>3. PressedOK'
      BY <1>2, <1>4, <2>2, <3>1, <3>2 DEF Safe, PressedOK, Running
    <3>. QED BY <1>2, <1>4, <2>2, <3>1, <3>2, <3>3
             DEF OwnedOK, Running, Held, KindOf, HostPcs
  <2>5. CASE ~ok
    <3>1. Fail /\ UNCHANGED server
      BY <2>1, <2>5 DEF RtServe
    <3>2. \A c \in Cast : ~Running(c)'
      BY <2>2, <2>3, <3>1 DEF Running
    <3>. QED BY <1>2, <1>4, <2>2, <3>1, <3>2, OwnedFail
  <2>. QED BY <2>4, <2>5
\* A failed SOAP call: the server, if there is one, is being shut down.
<1>5. ASSUME pc \in {"uri", "play"}, GiveUp, UNCHANGED <<active, pump, cap>>
      PROVE  PressedOK' /\ OwnedOK'
  <2>1. \A c \in Cast : c # cur => pump[c] = "off" /\ cap[c] = "off" /\ server[c] = "off"
    BY <1>3 DEF Running
  <2>2. pump[cur] = "off" /\ cap[cur] = "off"
    BY <1>5 DEF Safe, OwnedOK, HostPcs
  <2>3. CASE KindOf(cur) = "url"
    <3>1. Fail /\ UNCHANGED server
      BY <1>5, <2>3 DEF GiveUp
    <3>2. \A c \in Cast : ~Running(c)'
      BY <1>5, <2>1, <2>2, <2>3, <3>1, <1>2 DEF Running, Safe, OwnedOK
    <3>. QED BY <1>2, <1>4, <1>5, <3>1, <3>2, OwnedFail
  <2>4. CASE KindOf(cur) # "url"
    <3>1. /\ server' = [server EXCEPT ![cur] = "closing"]
          /\ pc' = "abort" /\ UNCHANGED cur
      BY <1>5, <2>4 DEF GiveUp
    <3>2. \A c \in Cast : /\ pump'[c] = "off" /\ cap'[c] = "off"
                          /\ server'[c] # "off" => c = cur /\ KindOf(c) # "url"
      BY <1>1, <1>5, <2>1, <2>2, <2>4, <3>1
    <3>3. PressedOK'
      BY <1>2, <1>4, <1>5, <3>1, <3>2 DEF Safe, PressedOK, Running
    <3>. QED BY <1>2, <1>4, <1>5, <3>1, <3>2, <3>3
             DEF OwnedOK, Running, Held, KindOf, HostPcs
  <2>. QED BY <2>3, <2>4
<1>c. CASE \E result \in Outcome : RtSetUri(result)
  <2>1. pc = "uri" /\ UNCHANGED <<active, pump, cap>>
    BY <1>c DEF RtSetUri
  <2>2. CASE pc' = "play" /\ UNCHANGED <<posted, cur, server>>
    <3>1. PressedOK'
      BY <1>4, <2>1, <2>2 DEF Safe, PressedOK, Running
    <3>. QED BY <1>2, <1>4, <2>1, <2>2, <3>1
             DEF Safe, OwnedOK, Running, Held, KindOf, HostPcs
  <2>3. CASE GiveUp
    BY <2>1, <2>3, <1>5
  <2>. QED BY <1>c, <2>2, <2>3 DEF RtSetUri
<1>d. CASE \E result \in Outcome : RtPlay(result)
  <2>1. pc = "play"
    BY <1>d DEF RtPlay
  <2>2. CASE GiveUp /\ UNCHANGED <<active, pump, stopSent, cap, chan>>
    BY <2>1, <2>2, <1>5
  <2>3. CASE Started
    <3>1. /\ active' = cur /\ pc' = "select" /\ cur' = Stop /\ server' = server
          /\ \/ KindOf(cur) # "mirror" /\ UNCHANGED <<pump, cap>>
             \/ /\ KindOf(cur) = "mirror"
                /\ pump' = [pump EXCEPT ![cur] = "run"]
                /\ cap' = [cap EXCEPT ![cur] = "start"]
      BY <2>3 DEF Started
    <3>2. \A c \in Cast : c # cur => ~Running(c)'
      BY <1>1, <1>3, <3>1 DEF Running
    <3>3. pump[cur] = "off" /\ cap[cur] = "off"
      BY <2>1 DEF Safe, OwnedOK, HostPcs
    <3>4. /\ pump'[cur] # "off" \/ cap'[cur] # "off" => KindOf(cur) = "mirror"
          /\ KindOf(cur) = "mirror" => pump'[cur] # "off"
          /\ server'[cur] # "off" => KindOf(cur) # "url"
      BY <1>1, <1>2, <3>1, <3>3 DEF Safe, OwnedOK
    <3>5. PressedOK'
      BY <1>2, <1>4, <3>1, <3>2 DEF Safe, PressedOK, TypeOK, Stop
    <3>. QED BY <1>2, <1>4, <3>1, <3>2, <3>4, <3>5
             DEF OwnedOK, Running, Held, KindOf, HostPcs
  <2>. QED BY <1>d, <2>2, <2>3 DEF RtPlay
<1>e. CASE RtAborted
  <2>1. \A c \in Cast : Running(c)' => Running(c) /\ c # cur
    BY <1>e, <1>1, <1>2 DEF RtAborted, Running, Safe, OwnedOK, HostPcs
  <2>. QED BY <1>2, <1>4, <1>e, <2>1, OwnedFail DEF RtAborted
<1>. QED BY <1>a, <1>b, <1>c, <1>d, <1>e DEF Start

LEMMA SafeInit == Init => Safe
BY TypeInit, OwnedInit DEF Safe

LEMMA SafeStep == Safe /\ [Next]_vars => Safe'
<1> SUFFICES ASSUME Safe, [Next]_vars PROVE Safe'
  OBVIOUS
<1>1. TypeOK' /\ PhaseOK'
  BY TypeStep DEF Safe
<1>2. PressedOK' /\ OwnedOK'
  BY <1>1, OwnedUi, OwnedTeardown, OwnedStart, OwnedTasks, OwnedRenderer,
     OwnedDevices, OwnedStutter DEF Next
<1>. QED BY <1>1, <1>2 DEF Safe

\* Whatever the user presses, however SOAP calls fail and whichever thread runs
\* first, a new cast starts only when nothing of the one before it runs.
THEOREM SpecOneCastAtATime == Spec => []OneCastAtATime
<1>1. Safe => OneCastAtATime
  BY HeldIsOne DEF Safe, OwnedOK, OneCastAtATime
<1>. QED BY <1>1, SafeInit, SafeStep, PTL DEF Spec

-----------------------------------------------------------------------------
(* While the window says LIVE, the newest press is queued, served, active   *)
(* or has its clear on the way: the strengthening of CastingIsLive.         *)

\* The second half of LiveOK, by name.
NewestIsSomewhere ==
    NewestIsQueued \/ NewestIsServed \/ NewestIsActive \/ NewestIsCleared

LEMMA LiveInit == Init => LiveOK
BY DEF Init, LiveOK, NoCast

LEMMA LiveFrame ==
    ASSUME LiveOK, UNCHANGED <<open, casting, now, posted, cmds, req, pc, cur, active,
                               pump, stopSent>>
    PROVE  LiveOK'
BY DEF LiveOK, NewestIsQueued, NewestIsServed, NewestIsActive, NewestIsCleared,
       KindOf, Target, Last

LEMMA LivePress ==
    ASSUME Safe, LiveOK, NEW k, NEW d, Press(k, d)
    PROVE  LiveOK'
<1>1. req \in Seq(Request) /\ cmds \in Seq(Cast \cup {Stop})
  BY DEF Safe, TypeOK
<1>2. /\ Len(req') = Len(req) + 1 /\ req'[Len(req) + 1] = [kind |-> k, device |-> d]
      /\ req' # <<>>
  BY <1>1 DEF Press
<1>3. cmds' # <<>> /\ cmds'[Len(cmds')] = Len(req) + 1
  BY <1>1 DEF Press
<1>4. now' = d /\ UNCHANGED <<active, stopSent>>
  BY DEF Press, rtVars, taskVars
<1>5. active # NoCast => KindOf(active)' = KindOf(active)
  <2>1. active # NoCast => active \in 1..Len(req)
    BY DEF Safe, TypeOK, PressedOK, Cast, NoCast
  <2>2. \A c \in 1..Len(req) : req'[c] = req[c]
    BY <1>1 DEF Press
  <2>. QED BY <1>4, <2>1, <2>2 DEF KindOf
<1>. QED BY <1>2, <1>3, <1>4, <1>5 DEF LiveOK, NewestIsQueued, Last, Target

LEMMA LiveUi == Safe /\ LiveOK /\ Ui => LiveOK'
<1> SUFFICES ASSUME Safe, LiveOK, Ui PROVE LiveOK'
  OBVIOUS
<1>a. CASE \E d \in Device : UiMirror(d) \/ UiCastUrl(d)
  BY <1>a, LivePress DEF UiMirror, UiCastUrl
<1>b. CASE \E d \in Device : UiPickFile(d)
  BY <1>b, LiveFrame DEF UiPickFile, rtVars, taskVars
<1>c. CASE UiFilePicked
  BY <1>c, LivePress DEF UiFilePicked
<1>d. CASE UiFileCancelled
  BY <1>d, LiveFrame DEF UiFileCancelled, rtVars, taskVars
<1>e. CASE UiStop \/ UiClear
  BY <1>e DEF UiStop, UiClear, LiveOK, KindOf, rtVars, taskVars
<1>f. CASE UiQuit
  BY <1>f DEF UiQuit, LiveOK, KindOf, rtVars, taskVars
<1>g. CASE ProcessExit
  BY <1>g DEF ProcessExit, LiveOK, uiVars
<1>. QED BY <1>a, <1>b, <1>c, <1>d, <1>e, <1>f, <1>g DEF Ui

LEMMA LiveTeardown == Safe /\ LiveOK /\ Teardown => LiveOK'
<1> SUFFICES ASSUME Safe, LiveOK, Teardown PROVE LiveOK'
  OBVIOUS
<1>1. /\ UNCHANGED <<open, casting, now, posted, req>> /\ active' = NoCast
      /\ pc \in TeardownPcs \cup {"select"}
  BY DEF Teardown, RtRecv, RtClosed, BeginTeardown, RtTeardownNone, RtTeardownMedia,
         RtDrained, RtTeardownMirror, RtPumpJoined, RtCaptureJoined, EndTeardown,
         uiVars, TeardownPcs, Safe, PhaseOK
<1>2. SUFFICES ASSUME open, casting
               PROVE  NewestIsSomewhere'
  BY <1>1 DEF LiveOK, Target, KindOf, NewestIsSomewhere
<1>3. NewestIsSomewhere /\ req # <<>>
  BY <1>2 DEF LiveOK, NewestIsSomewhere
<1>4. Len(req) \in Nat \ {0} /\ cmds \in Seq(Cast \cup {Stop})
  BY <1>3 DEF Safe, TypeOK
<1>a. CASE RtRecv
  <2>1. /\ cmds # <<>> /\ pc' = "teardown" /\ cur' = Head(cmds) /\ cmds' = Tail(cmds)
    BY <1>a DEF RtRecv, BeginTeardown
  <2>2. cmds[Len(cmds)] = Len(req)
    BY <1>3, <2>1 DEF NewestIsSomewhere, NewestIsQueued, NewestIsServed, NewestIsActive,
                      NewestIsCleared, Last
  <2>3. CASE Len(cmds) = 1
    <3>1. cmds' = <<>> /\ cur' = Len(req)
      BY <1>4, <2>1, <2>2, <2>3
    <3>. QED BY <1>1, <2>1, <3>1
             DEF NewestIsSomewhere, NewestIsServed, TeardownPcs
  <2>4. CASE Len(cmds) # 1
    <3>1. cmds' # <<>> /\ cmds'[Len(cmds')] = cmds[Len(cmds)]
      <4>1. Len(cmds) \in Nat /\ Len(cmds) > 1
        <5>1. cmds \in Seq(Cast \cup {Stop}) /\ cmds # <<>>
          BY <1>4, <2>1
        <5>2. Len(cmds) \in Nat /\ Len(cmds) # 0
          BY <5>1
        <5>. QED BY <2>4, <5>2
      <4>2. /\ Len(cmds') = Len(cmds) - 1
            /\ \A i \in 1..(Len(cmds) - 1) : cmds'[i] = cmds[i + 1]
        BY <1>4, <2>1, <4>1
      <4>3. Len(cmds) - 1 \in 1..(Len(cmds) - 1)
        BY <4>1
      <4>. QED BY <4>1, <4>2, <4>3
    <3>. QED BY <1>1, <2>2, <3>1 DEF NewestIsSomewhere, NewestIsQueued, Last
  <2>. QED BY <2>3, <2>4
<1>b. CASE RtClosed
  BY <1>2, <1>b DEF RtClosed
<1>c. CASE ~RtRecv /\ ~RtClosed
  <2>1. pc \in TeardownPcs /\ UNCHANGED <<cmds, cur>>
    BY <1>c DEF Teardown, RtTeardownNone, RtTeardownMedia, RtDrained, RtTeardownMirror,
                RtPumpJoined, RtCaptureJoined, EndTeardown, TeardownPcs
  <2>2. pc' \in TeardownPcs \/ (pc' = "find" \/ cur \in {Stop, Quit})
    BY <1>c DEF Teardown, RtTeardownNone, RtTeardownMedia, RtDrained, RtTeardownMirror,
                RtPumpJoined, RtCaptureJoined, EndTeardown, TeardownPcs
  <2>3. active = NoCast
    BY <2>1 DEF Safe, PhaseOK, TeardownPcs
  <2>. QED BY <1>1, <1>3, <1>4, <2>1, <2>2, <2>3
           DEF NewestIsSomewhere, NewestIsQueued, NewestIsServed, NewestIsActive,
               NewestIsCleared, Last, StartPcs, Stop, Quit, NoCast
<1>. QED BY <1>a, <1>b, <1>c

\* A clear that is on the way stays there when another is posted behind it.
LEMMA ClearAppended ==
    ASSUME posted \in Seq(Cast), NEW c \in Cast, posted' = Append(posted, c)
    PROVE  /\ \A i \in DOMAIN posted : i \in DOMAIN posted' /\ posted'[i] = posted[i]
           /\ \E i \in DOMAIN posted' : posted'[i] = c
<1>1. /\ Len(posted) \in Nat /\ DOMAIN posted' = 1..(Len(posted) + 1)
      /\ posted'[Len(posted) + 1] = c
      /\ \A i \in DOMAIN posted : posted'[i] = posted[i]
      /\ DOMAIN posted = 1..Len(posted)
  OBVIOUS
<1>2. Len(posted) + 1 \in DOMAIN posted'
  BY <1>1
<1>. QED BY <1>1, <1>2

LEMMA LiveStart == Safe /\ LiveOK /\ Start => LiveOK'
<1> SUFFICES ASSUME Safe, LiveOK, Start PROVE LiveOK'
  OBVIOUS
<1>1. /\ UNCHANGED <<open, casting, now, cmds, req>>
      /\ pc \in StartPcs /\ cur \in Cast /\ active = NoCast
  BY DEF Start, RtFind, RtAborted, RtResolve, RtServe, RtSetUri, RtPlay,
         uiVars, Safe, PhaseOK, StartPcs
<1>2. \/ Fail /\ UNCHANGED active
      \/ pc' \in StartPcs /\ UNCHANGED <<posted, cur, active>>
      \/ Started
  BY DEF Start, RtFind, RtAborted, RtResolve, RtServe, RtSetUri, RtPlay, GiveUp, StartPcs
<1>3. active' # NoCast /\ KindOf(active') = "mirror" => ~stopSent'[active']
  <2>1. CASE Started /\ KindOf(cur) = "mirror"
    <3>1. active' = cur /\ stopSent' = [stopSent EXCEPT ![cur] = FALSE]
      BY <2>1 DEF Started
    <3>2. stopSent \in [Cast -> BOOLEAN]
      BY DEF Safe, TypeOK
    <3>. QED BY <1>1, <3>1, <3>2, Zenon
  <2>2. CASE ~(Started /\ KindOf(cur) = "mirror")
    BY <1>1, <1>2, <2>2 DEF Started
  <2>. QED BY <2>1, <2>2
<1>4. SUFFICES ASSUME open, casting
               PROVE  NewestIsSomewhere'
  BY <1>1, <1>3 DEF LiveOK, Target, KindOf, NewestIsSomewhere
<1>5. NewestIsSomewhere /\ req # <<>>
  BY <1>4 DEF LiveOK, NewestIsSomewhere
<1>6. Len(req) \in Nat \ {0} /\ posted \in Seq(Cast)
  BY <1>5 DEF Safe, TypeOK
<1>a. CASE NewestIsQueued
  BY <1>1, <1>a DEF NewestIsQueued, NewestIsSomewhere, Last
<1>b. CASE NewestIsActive
  BY <1>1, <1>6, <1>b DEF NewestIsActive, NoCast
<1>c. CASE NewestIsServed
  <2>1. cur = Len(req) /\ cmds = <<>>
    BY <1>c DEF NewestIsServed
  <2>2. CASE Fail
    <3>1. \E i \in DOMAIN posted' : posted'[i] = cur
      BY <1>1, <1>6, <2>2, ClearAppended DEF Fail
    <3>. QED BY <1>1, <2>1, <3>1 DEF NewestIsSomewhere, NewestIsCleared
  <2>3. CASE pc' \in StartPcs /\ UNCHANGED <<posted, cur, active>>
    BY <1>1, <2>1, <2>3 DEF NewestIsSomewhere, NewestIsServed
  <2>4. CASE Started
    <3>1. active' = Len(req) /\ (KindOf(cur) = "mirror" => pump'[cur] = "run")
      BY <1>1, <2>1, <2>4 DEF Started, Safe, TypeOK
    <3>. QED BY <1>1, <2>1, <3>1 DEF NewestIsSomewhere, NewestIsActive, KindOf
  <2>. QED BY <1>2, <2>2, <2>3, <2>4
<1>d. CASE NewestIsCleared
  <2>1. posted' = posted \/ posted' = Append(posted, cur)
    BY <1>2 DEF Fail, Started
  <2>2. \E i \in DOMAIN posted' : posted'[i] = Len(req)
    BY <1>1, <1>6, <1>d, <2>1, ClearAppended DEF NewestIsCleared
  <2>. QED BY <1>1, <1>d, <2>2 DEF NewestIsSomewhere, NewestIsCleared
<1>. QED BY <1>5, <1>a, <1>b, <1>c, <1>d DEF NewestIsSomewhere

LEMMA LiveTasks ==
    Safe /\ LiveOK /\ (\E c \in Cast : Pump(c) \/ Capture(c)) => LiveOK'
<1> SUFFICES ASSUME Safe, LiveOK, NEW c \in Cast, Pump(c) \/ Capture(c)
             PROVE  LiveOK'
  OBVIOUS
<1>1. UNCHANGED <<open, casting, now, cmds, req, pc, cur, active, stopSent>>
  BY DEF Pump, Capture, PumpStop, PumpUnit, PumpEnded, PumpDrained, PumpSoapStop,
         CapStart, CapFrame, CapEnd, CapSend, CapClosed, uiVars, rtVars
\* Told to stop, or torn down, it is not the active cast's pump that moves.
<1>2. \/ UNCHANGED <<pump, posted>>
      \/ posted' = Append(posted, c)
      \/ stopSent[c] /\ posted' = posted /\ \A d \in Cast : d # c => pump'[d] = pump[d]
      \/ /\ pump[c] \notin {"off", "run"} /\ posted' = posted
         /\ \A d \in Cast : d # c => pump'[d] = pump[d]
  BY DEF Pump, Capture, PumpStop, PumpUnit, PumpEnded, PumpDrained, PumpSoapStop,
         CapStart, CapFrame, CapEnd, CapSend, CapClosed, Safe, TypeOK
<1>3. pump' # pump => \A d \in Cast : d # c => pump'[d] = pump[d]
  BY DEF Pump, Capture, PumpStop, PumpUnit, PumpEnded, PumpDrained, PumpSoapStop,
         CapStart, CapFrame, CapEnd, CapSend, CapClosed, Safe, TypeOK
<1>4. posted' # posted => c = active \/ c = closing
  BY DEF Pump, Capture, PumpStop, PumpUnit, PumpEnded, PumpDrained, PumpSoapStop,
         CapStart, CapFrame, CapEnd, CapSend, CapClosed,
         Safe, OwnedOK, Running, Held
<1>5. SUFFICES ASSUME open, casting
               PROVE  NewestIsSomewhere'
  BY <1>1 DEF LiveOK, Target, KindOf, NewestIsSomewhere
<1>6. NewestIsSomewhere /\ req # <<>>
  BY <1>5 DEF LiveOK, NewestIsSomewhere
<1>7. Len(req) \in Nat \ {0} /\ posted \in Seq(Cast)
  BY <1>6 DEF Safe, TypeOK
<1>a. CASE NewestIsQueued
  BY <1>1, <1>a DEF NewestIsQueued, NewestIsSomewhere, Last
<1>b. CASE NewestIsServed
  BY <1>1, <1>b DEF NewestIsServed, NewestIsSomewhere
<1>c. CASE NewestIsCleared
  <2>1. posted' = posted \/ posted' = Append(posted, c)
    BY <1>2
  <2>2. \E i \in DOMAIN posted' : posted'[i] = Len(req)
    BY <1>7, <1>c, <2>1, ClearAppended DEF NewestIsCleared
  <2>. QED BY <1>1, <1>c, <2>2 DEF NewestIsSomewhere, NewestIsCleared
<1>d. CASE NewestIsActive
  <2>1. /\ cmds = <<>> /\ active = Len(req) /\ active # NoCast
        /\ KindOf(active) = "mirror" => ~stopSent[active]
    BY <1>7, <1>d DEF NewestIsActive, LiveOK, NoCast
  <2>2. active \in Cast /\ (KindOf(active) = "mirror" => pump[active] = "run")
    BY <1>d, <2>1 DEF NewestIsActive, Safe, TypeOK
  <2>3. CASE posted' = Append(posted, c) /\ c = active
    <3>1. \E i \in DOMAIN posted' : posted'[i] = c
      BY <1>7, <2>3, ClearAppended
    <3>. QED BY <1>1, <2>1, <2>3, <3>1 DEF NewestIsSomewhere, NewestIsCleared
  <2>4. CASE KindOf(active) = "mirror" => pump'[active] = "run"
    BY <1>1, <2>1, <2>4 DEF NewestIsSomewhere, NewestIsActive, KindOf
  <2>5. c = active => (KindOf(active) = "mirror" /\ pump[c] = "run") \/ pump' = pump
    BY <2>2 DEF Pump, Capture, PumpStop, PumpUnit, PumpEnded, PumpDrained, PumpSoapStop,
                CapStart, CapFrame, CapEnd, CapSend, CapClosed, Safe, OwnedOK
  <2>6. c # active => pump'[active] = pump[active]
    BY <1>3, <2>2
  <2>. QED BY <1>2, <2>1, <2>2, <2>3, <2>4, <2>5, <2>6
<1>. QED BY <1>6, <1>a, <1>b, <1>c, <1>d DEF NewestIsSomewhere

LEMMA LiveOthers ==
    LiveOK /\ (\/ Renderer
               \/ \E devices \in SUBSET Device : RtDevices(devices)
               \/ UNCHANGED vars) => LiveOK'
BY LiveFrame DEF Renderer, TvLate, TvConnect, TvDisconnect, TvEnds, RtDevices,
                 vars, uiVars, rtVars, taskVars

-----------------------------------------------------------------------------
(* What the renderers play: the strengthening of OrphanNeedsFault.          *)

LEMMA TvInit == Init => CallsOK /\ TvOK
BY DEF Init, CallsOK, TvOK, NoCast

\* A cast that was pressed has a renderer.
LEMMA TargetType ==
    ASSUME TypeOK, NEW c \in Cast, c <= Len(req)
    PROVE  Target(c) \in Device
<1>1. c \in 1..Len(req) /\ req \in Seq(Request)
  BY DEF TypeOK, Cast
<1>2. req[c] \in Request
  BY <1>1
<1>. QED BY <1>2 DEF Target, Request

\* Applying a request leaves a renderer with casts that were meant for it.
LEMMA TvApply ==
    ASSUME TypeOK, CallsOK, NEW op \in SoapOp, NEW c \in Cast, c <= Len(req),
           Apply(op, c), req' = req, NEW d \in Device
    PROVE  /\ uri'[d] # NoCast => uri'[d] <= Len(req) /\ Target(uri'[d]) = d
           /\ playing'[d] # NoCast => playing'[d] <= Len(req) /\ Target(playing'[d]) = d
<1>1. /\ uri \in [Device -> Cast \cup {NoCast}]
      /\ playing \in [Device -> Cast \cup {NoCast}]
  BY DEF TypeOK
<1>2. uri' = uri \/ uri' = [uri EXCEPT ![Target(c)] = c]
  BY DEF Apply
<1>3. \/ playing' = playing
      \/ playing' = [playing EXCEPT ![Target(c)] = NoCast]
      \/ playing' = [playing EXCEPT ![Target(c)] = uri[Target(c)]]
  BY DEF Apply, SoapOp
<1>. HIDE DEF Target, NoCast, Cast
<1>4. uri'[d] = uri[d] \/ (Target(c) = d /\ uri'[d] = c)
  BY <1>1, <1>2
<1>5. playing'[d] \in {playing[d], NoCast, uri[d]}
  BY <1>1, <1>3
<1>. QED BY <1>4, <1>5 DEF CallsOK

\* A call that fails is remembered against its renderer.
LEMMA TvSoap ==
    ASSUME TypeOK, CallsOK, NEW op \in SoapOp, NEW c \in Cast, c <= Len(req),
           NEW result \in Outcome, Soap(op, c, result), req' = req
    PROVE  /\ CallsOK'
           /\ \A d : FaultAt(d) => FaultAt(d)'
           /\ IF result = "ok" THEN Apply(op, c)
              ELSE FaultAt(Target(c))' /\ UNCHANGED <<uri, playing>>
<1>1. /\ \A f \in faulty' : f \in faulty \/ f = c
      /\ \A l \in late' : l \in late \/ (l = <<op, c>> /\ c \in faulty')
      /\ faulty \subseteq faulty'
      /\ result # "ok" => c \in faulty' /\ UNCHANGED <<uri, playing>>
      /\ result = "ok" => Apply(op, c)
  BY DEF Soap
<1>2. \A d : Target(d)' = Target(d)
  BY DEF Target
<1>3. \A d \in Device :
         /\ uri'[d] # NoCast => uri'[d] <= Len(req) /\ Target(uri'[d]) = d
         /\ playing'[d] # NoCast => playing'[d] <= Len(req) /\ Target(playing'[d]) = d
  BY <1>1, TvApply DEF CallsOK
<1>4. CallsOK'
  BY <1>1, <1>2, <1>3 DEF CallsOK
<1>5. \A d : FaultAt(d) => FaultAt(d)'
  BY <1>1, <1>2 DEF FaultAt
<1>6. result # "ok" => FaultAt(Target(c))'
  BY <1>1, <1>2 DEF FaultAt
<1>. QED BY <1>1, <1>4, <1>5, <1>6

\* Steps that call no renderer: it may stop playing by itself, and what it plays
\* stays unstopped.
LEMMA TvFrame ==
    ASSUME TypeOK, CallsOK, TvOK, UNCHANGED <<req, uri, faulty>>, late' \subseteq late,
           \A d \in Device : playing'[d] \in {playing[d], NoCast},
           pc' = "play" => pc = "play" /\ cur' = cur,
           pc' # "killed" => pc # "killed" /\ \A c \in Cast : Unstopped(c) => Unstopped(c)'
    PROVE  CallsOK' /\ TvOK'
<1>1. \A d : /\ Target(d)' = Target(d)
             /\ FaultAt(d)' <=> FaultAt(d)
  BY DEF Target, FaultAt
<1>2. CallsOK'
  BY <1>1 DEF CallsOK
<1>3. (pc = "play" => uri[Target(cur)] = cur \/ FaultAt(Target(cur)))'
  BY <1>1 DEF TvOK, Target
<1>4. ASSUME pc' # "killed", NEW d \in Device, playing'[d] # NoCast
      PROVE  (Unstopped(playing[d]) \/ FaultAt(d))'
  <2>1. playing'[d] = playing[d] /\ playing[d] \in Cast /\ pc # "killed"
    BY <1>4 DEF TypeOK
  <2>2. Unstopped(playing[d]) \/ FaultAt(d)
    BY <1>4, <2>1 DEF TvOK
  <2>3. Unstopped(playing[d]) => Unstopped(playing[d])'
    <3> DEFINE c == playing[d]
    <3>1. c \in Cast /\ c' = c
      BY <2>1
    <3>2. Unstopped(c) => (KindOf(c)' = "mirror" /\ pump'[c] \in {"run", "stop"})
                       \/ (KindOf(c)' # "mirror" /\ (c = active' \/ (c = closing' /\ pc' = "teardown")))
      <4> HIDE DEF c
      <4>. QED BY <1>4, <3>1 DEF Unstopped, KindOf
    <3>. QED BY <3>1, <3>2, <2>1 DEF Unstopped, KindOf
  <2>. QED BY <1>1, <2>2, <2>3
<1>5. TvOK'
  BY <1>3, <1>4 DEF TvOK
<1>. QED BY <1>2, <1>5

\* A press adds a cast; what is said of earlier ones stays.
LEMMA TvPress ==
    ASSUME Safe, CallsOK, TvOK, NEW k \in Kind, NEW e, Press(k, e)
    PROVE  CallsOK' /\ TvOK'
<1>1. /\ Len(req) \in Nat /\ Len(req') = Len(req) + 1
      /\ \A c \in 1..Len(req) : req'[c] = req[c]
      /\ UNCHANGED <<rtVars, taskVars, tvVars>>
  BY DEF Safe, TypeOK, Press
<1>2. \A c \in Cast : c <= Len(req) => /\ KindOf(c)' = KindOf(c)
                                       /\ Target(c)' = Target(c)
                                       /\ c <= Len(req')
  BY <1>1 DEF KindOf, Target, Cast
<1>3. \A d \in Device : uri[d] \in Cast \cup {NoCast} /\ playing[d] \in Cast \cup {NoCast}
  BY DEF Safe, TypeOK
<1>4. \A d : FaultAt(d) => FaultAt(d)'
  BY <1>1, <1>2 DEF FaultAt, CallsOK, tvVars, Safe, TypeOK
<1>5. CallsOK'
  BY <1>1, <1>2, <1>3 DEF CallsOK, tvVars, Safe, TypeOK
<1>6. pc = "play" => Target(cur)' = Target(cur)
  BY <1>1, <1>2 DEF Safe, PhaseOK, PressedOK, StartPcs, rtVars, Target
<1>7. (pc = "play" => uri[Target(cur)] = cur \/ FaultAt(Target(cur)))'
  BY <1>1, <1>4, <1>6 DEF TvOK, rtVars, tvVars
<1>8. ASSUME pc # "killed", NEW d \in Device, playing[d] # NoCast
      PROVE  (Unstopped(playing[d]) \/ FaultAt(d))'
  <2>1. Unstopped(playing[d]) \/ FaultAt(d)
    BY <1>8 DEF TvOK
  <2>2. playing'[d] = playing[d] /\ playing[d] \in Cast /\ playing[d] <= Len(req)
    BY <1>1, <1>3, <1>8 DEF CallsOK, tvVars
  <2>3. KindOf(playing[d])' = KindOf(playing[d])
    BY <1>1, <1>2, <2>2 DEF KindOf, Cast
  <2>. QED BY <1>1, <1>4, <2>1, <2>2, <2>3 DEF Unstopped, rtVars, taskVars
<1>9. TvOK'
  BY <1>1, <1>7, <1>8 DEF TvOK, rtVars, tvVars
<1>. QED BY <1>5, <1>9

LEMMA TvUi == Safe /\ CallsOK /\ TvOK /\ Ui => (CallsOK /\ TvOK)'
<1> SUFFICES ASSUME Safe, CallsOK, TvOK, Ui PROVE CallsOK' /\ TvOK'
  OBVIOUS
<1>. USE DEF Safe
<1>a. CASE \E d \in Device : UiMirror(d) \/ UiCastUrl(d)
  BY <1>a, TvPress DEF UiMirror, UiCastUrl, Kind
<1>b. CASE UiFilePicked
  BY <1>b, TvPress DEF UiFilePicked, Kind
<1>c. CASE \/ \E d \in Device : UiPickFile(d)
           \/ UiFileCancelled \/ UiStop \/ UiClear \/ UiQuit
  BY <1>c, TvFrame DEF UiPickFile, UiFileCancelled, UiStop, UiClear, UiQuit,
                       Unstopped, KindOf, rtVars, taskVars, tvVars
<1>d. CASE ProcessExit
  BY <1>d, TvFrame DEF ProcessExit
<1>. QED BY <1>a, <1>b, <1>c, <1>d DEF Ui

LEMMA TvQuiet ==
    ASSUME Safe, CallsOK, TvOK,
           UNCHANGED vars \/ \E devices \in SUBSET Device : RtDevices(devices)
    PROVE  CallsOK' /\ TvOK'
BY TvFrame DEF RtDevices, Unstopped, KindOf, Safe, vars, rtVars, taskVars, tvVars

\* Whatever the renderer does on its own leaves something a fault explains.
LEMMA TvRenderer == Safe /\ CallsOK /\ TvOK /\ Renderer => (CallsOK /\ TvOK)'
<1> SUFFICES ASSUME Safe, CallsOK, TvOK, Renderer PROVE CallsOK' /\ TvOK'
  OBVIOUS
<1>. USE DEF Safe
<1>1. uri \in [Device -> Cast \cup {NoCast}] /\ playing \in [Device -> Cast \cup {NoCast}]
  BY DEF TypeOK
<1>a. CASE \E c \in Cast : TvConnect(c) \/ TvDisconnect(c)
  BY <1>a, TvFrame DEF TvConnect, TvDisconnect, Unstopped, KindOf, rtVars, taskVars
<1>b. CASE \E d \in Device : TvEnds(d)
  BY <1>1, <1>b, TvFrame DEF TvEnds, Unstopped, KindOf, rtVars, taskVars
<1>c. CASE \E op \in SoapOp, c \in Cast : TvLate(op, c)
  <2>1. PICK op \in SoapOp, c \in Cast : TvLate(op, c)
    BY <1>c
  <2>2. /\ c \in faulty /\ c <= Len(req) /\ Apply(op, c)
        /\ UNCHANGED <<req, rtVars, taskVars, faulty>> /\ late' \subseteq late
    BY <2>1 DEF TvLate, CallsOK
  <2>3. \A d : /\ Target(d)' = Target(d)
               /\ FaultAt(d)' <=> FaultAt(d)
    BY <2>2 DEF Target, FaultAt
  <2>4. FaultAt(Target(c))'
    BY <2>2, <2>3 DEF FaultAt
  <2>5. \A d \in Device : d # Target(c) => uri'[d] = uri[d] /\ playing'[d] = playing[d]
    BY <1>1, <2>2 DEF Apply, SoapOp
  <2>6. CallsOK'
    BY <2>2, <2>3, TvApply DEF CallsOK
  <2>7. (pc = "play" => uri[Target(cur)] = cur \/ FaultAt(Target(cur)))'
    <3>1. pc = "play" => Target(cur) \in Device
      BY TargetType DEF PhaseOK, PressedOK, StartPcs
    <3>. QED BY <2>2, <2>3, <2>4, <2>5, <3>1 DEF TvOK, rtVars
  <2>8. ASSUME pc # "killed", NEW d \in Device, playing'[d] # NoCast
        PROVE  (Unstopped(playing[d]) \/ FaultAt(d))'
    <3>1. CASE d = Target(c)
      BY <2>4, <3>1, <2>3
    <3>2. CASE d # Target(c)
      <4>1. playing'[d] = playing[d]
        BY <2>5, <3>2
      <4>. QED BY <2>2, <2>3, <2>8, <4>1 DEF TvOK, Unstopped, KindOf, rtVars, taskVars
    <3>. QED BY <3>1, <3>2
  <2>9. TvOK'
    BY <2>2, <2>7, <2>8 DEF TvOK, rtVars
  <2>. QED BY <2>6, <2>9
<1>. QED BY <1>a, <1>b, <1>c DEF Renderer

LEMMA TvTeardown ==
    Safe /\ Safe' /\ CallsOK /\ TvOK /\ Teardown => (CallsOK /\ TvOK)'
<1> SUFFICES ASSUME Safe, Safe', CallsOK, TvOK, Teardown PROVE CallsOK' /\ TvOK'
  OBVIOUS
<1>. USE DEF Safe
<1>1. \A c \in Cast : c # NoCast
  BY DEF Cast, NoCast
<1>a. CASE RtRecv \/ RtClosed
  BY <1>1, <1>a, TvFrame
     DEF RtRecv, RtClosed, BeginTeardown, Unstopped, KindOf, taskVars, tvVars
<1>b. CASE RtTeardownNone \/ RtDrained \/ RtCaptureJoined
  <2>1. /\ pc \in TeardownPcs /\ (pc = "teardown" => closing = NoCast)
        /\ EndTeardown /\ UNCHANGED <<pump, tvVars>>
    BY <1>b DEF RtTeardownNone, RtDrained, RtCaptureJoined, TeardownPcs, taskVars
  <2>2. \A c \in Cast : Unstopped(c) => Unstopped(c)'
    BY <1>1, <2>1 DEF EndTeardown, Unstopped, KindOf
  <2>. QED BY <2>1, <2>2, TvFrame DEF EndTeardown, TeardownPcs, tvVars
<1>c. CASE RtTeardownMirror
  <2>1. \A c \in Cast : Unstopped(c) => Unstopped(c)'
    BY <1>c DEF RtTeardownMirror, Unstopped, KindOf
  <2>. QED BY <1>c, <2>1, TvFrame DEF RtTeardownMirror, tvVars
<1>d. CASE RtPumpJoined
  <2>1. \A c \in Cast : Unstopped(c) => Unstopped(c)'
    BY <1>d DEF RtPumpJoined, Unstopped, KindOf, taskVars
  <2>. QED BY <1>d, <2>1, TvFrame DEF RtPumpJoined, tvVars
<1>e. CASE \E result \in Outcome : RtTeardownMedia(result)
  <2>1. PICK result \in Outcome : RtTeardownMedia(result)
    BY <1>e
  <2>2. /\ closing \in Cast /\ closing <= Len(req) /\ KindOf(closing) # "mirror"
        /\ Soap("stop", closing, result)
        /\ pc = "teardown" /\ pc' = "drain"
        /\ UNCHANGED <<req, active, closing, pump>>
    BY <1>1, <2>1 DEF RtTeardownMedia, PressedOK, TypeOK
  <2>3. /\ CallsOK' /\ \A d : FaultAt(d) => FaultAt(d)'
        /\ IF result = "ok" THEN Apply("stop", closing)
           ELSE FaultAt(Target(closing))' /\ UNCHANGED <<uri, playing>>
    BY <2>2, TvSoap DEF SoapOp
  <2>4. ASSUME NEW d \in Device, playing'[d] # NoCast
        PROVE  (Unstopped(playing[d]) \/ FaultAt(d))'
    <3>1. playing'[d] = playing[d] /\ (d = Target(closing) => FaultAt(Target(closing))')
      BY <2>3, <2>4 DEF Apply, TypeOK
    <3>2. playing[d] = closing => d = Target(closing)
      BY <2>4, <3>1 DEF CallsOK
    <3>3. CASE playing[d] = closing
      <4>1. d = Target(closing) /\ FaultAt(Target(closing))'
        BY <3>1, <3>2, <3>3
      <4>2. Target(closing)' = Target(closing)
        BY <2>2 DEF Target
      <4>. QED BY <4>1, <4>2 DEF FaultAt
    <3>4. CASE playing[d] # closing
      <4>1. Unstopped(playing[d]) \/ FaultAt(d)
        BY <2>2, <2>4, <3>1 DEF TvOK
      <4>. QED BY <2>2, <2>3, <3>1, <3>4, <4>1 DEF Unstopped, KindOf, FaultAt
    <3>. QED BY <3>3, <3>4
  <2>. QED BY <2>2, <2>3, <2>4 DEF TvOK
<1>. QED BY <1>a, <1>b, <1>c, <1>d, <1>e DEF Teardown

\* start_media and start_mirror: Play starts the cast that is then held active.
LEMMA TvStart ==
    Safe /\ Safe' /\ CallsOK /\ TvOK /\ Start => (CallsOK /\ TvOK)'
<1> SUFFICES ASSUME Safe, Safe', CallsOK, TvOK, Start PROVE CallsOK' /\ TvOK'
  OBVIOUS
<1>. USE DEF Safe
<1>1. \A c \in Cast : c # NoCast
  BY DEF Cast, NoCast
<1>2. pc \in StartPcs /\ cur \in Cast /\ cur <= Len(req) /\ active = NoCast /\ closing = NoCast
  BY DEF Start, RtFind, RtAborted, RtResolve, RtServe, RtSetUri, RtPlay,
         PhaseOK, PressedOK, StartPcs, TeardownPcs
<1>4. PICK k \in Cast : k = cur
  BY <1>2
<1>3. \A c \in Cast : Unstopped(c) => KindOf(c) = "mirror" /\ pump[c] \in {"run", "stop"}
  BY <1>1, <1>2 DEF Unstopped
<1>a. CASE RtFind \/ RtAborted \/ \E ok \in BOOLEAN : RtResolve(ok) \/ RtServe(ok)
  <2>1. /\ UNCHANGED <<req, pump, tvVars>> /\ pc # "killed"
        /\ pc' \in {"resolve", "select", "serve", "uri"}
    BY <1>a DEF RtFind, RtAborted, RtResolve, RtServe, Fail, taskVars
  <2>2. \A c \in Cast : Unstopped(c) => Unstopped(c)'
    BY <1>3, <2>1 DEF Unstopped, KindOf
  <2>. QED BY <2>1, <2>2, TvFrame DEF tvVars
<1>b. CASE \E result \in Outcome : RtSetUri(result)
  <2>1. PICK result \in Outcome : RtSetUri(result)
    BY <1>b
  <2>2. /\ Soap("uri", k, result) /\ UNCHANGED <<req, pump>>
        /\ pc # "killed" /\ pc' \in {"play", "select", "abort"}
        /\ pc' = "play" => result = "ok" /\ cur' = cur
    BY <1>4, <2>1 DEF RtSetUri, GiveUp, Fail
  <2>3. /\ CallsOK' /\ \A d : FaultAt(d) => FaultAt(d)'
        /\ IF result = "ok" THEN Apply("uri", k)
           ELSE FaultAt(Target(k))' /\ UNCHANGED <<uri, playing>>
    BY <1>2, <1>4, <2>2, TvSoap DEF SoapOp
  <2>4. playing' = playing
    BY <2>3 DEF Apply
  <2>5. (pc = "play" => uri[Target(cur)] = cur)'
    <3>1. Target(cur) \in Device
      BY <1>2, TargetType
    <3>. QED BY <1>4, <2>2, <2>3, <3>1 DEF Apply, TypeOK, Target
  <2>6. ASSUME NEW d \in Device, playing'[d] # NoCast
        PROVE  (Unstopped(playing[d]) \/ FaultAt(d))'
    <3>1. (Unstopped(playing[d]) /\ playing[d] \in Cast) \/ FaultAt(d)
      BY <2>2, <2>4, <2>6 DEF TvOK, TypeOK
    <3>. QED BY <1>3, <2>2, <2>3, <2>4, <3>1 DEF Unstopped, KindOf
  <2>. QED BY <2>3, <2>5, <2>6 DEF TvOK
<1>c. CASE \E result \in Outcome : RtPlay(result)
  <2>1. PICK result \in Outcome : RtPlay(result)
    BY <1>c
  <2>2. /\ Soap("play", k, result) /\ req' = req
        /\ pc = "play" /\ pc' \in {"select", "abort"}
        /\ IF result = "ok" THEN Started ELSE UNCHANGED pump
    BY <1>4, <2>1 DEF RtPlay, GiveUp, Fail, Started
  <2>3. /\ CallsOK' /\ \A d : FaultAt(d) => FaultAt(d)'
        /\ IF result = "ok" THEN Apply("play", k)
           ELSE FaultAt(Target(k))' /\ UNCHANGED <<uri, playing>>
    BY <1>2, <1>4, <2>2, TvSoap DEF SoapOp
  <2>4. uri[Target(k)] = k \/ FaultAt(Target(k))
    BY <1>4, <2>2 DEF TvOK
  <2>5. \A c \in Cast : Unstopped(c) => Unstopped(c)'
    BY <1>3, <1>4, <2>2 DEF Unstopped, KindOf, Started, TypeOK
  <2>6. ASSUME NEW d \in Device, playing'[d] # NoCast
        PROVE  (Unstopped(playing[d]) \/ FaultAt(d))'
    <3>1. CASE result = "ok" /\ d = Target(k) /\ uri[d] = k
      <4>1. playing'[d] = k
        BY <2>3, <3>1 DEF Apply, TypeOK
      <4>2. active' = k /\ (KindOf(k) = "mirror" => pump'[k] = "run")
        BY <1>2, <1>4, <2>2, <3>1 DEF Started, TypeOK
      <4>. QED BY <2>2, <4>1, <4>2 DEF Unstopped, KindOf
    <3>2. CASE d = Target(k) /\ FaultAt(Target(k))
      <4>1. FaultAt(d)
        BY <3>2
      <4>2. FaultAt(d)'
        BY <2>3, <4>1 DEF FaultAt
      <4>. QED BY <4>2
    <3>3. CASE result # "ok" \/ d # Target(k)
      <4>1. playing'[d] = playing[d]
        BY <2>3, <3>3 DEF Apply, TypeOK
      <4>2. (Unstopped(playing[d]) /\ playing[d] \in Cast) \/ FaultAt(d)
        BY <2>2, <2>6, <4>1 DEF TvOK, TypeOK
      <4>. QED BY <2>3, <2>5, <4>1, <4>2 DEF FaultAt
    <3>. QED BY <2>4, <3>1, <3>2, <3>3
  <2>. QED BY <2>2, <2>3, <2>6 DEF TvOK
<1>. QED BY <1>a, <1>b, <1>c DEF Start

\* The pump sends Stop before it is done with its cast.
LEMMA TvTasks ==
    Safe /\ CallsOK /\ TvOK /\ (\E c \in Cast : Pump(c) \/ Capture(c)) => (CallsOK /\ TvOK)'
<1> SUFFICES ASSUME Safe, CallsOK, TvOK, NEW c \in Cast, Pump(c) \/ Capture(c)
             PROVE  CallsOK' /\ TvOK'
  OBVIOUS
<1>. USE DEF Safe
<1>a. CASE Capture(c)
  <2>1. UNCHANGED <<req, rtVars, pump, tvVars>>
    BY <1>a DEF Capture, CapStart, CapFrame, CapEnd, CapSend, CapClosed
  <2>2. \A d \in Cast : Unstopped(d) => Unstopped(d)'
    BY <2>1 DEF Unstopped, KindOf, rtVars
  <2>. QED BY <2>1, <2>2, TvFrame DEF rtVars, tvVars
<1>b. CASE PumpStop(c) \/ PumpUnit(c) \/ PumpEnded(c) \/ PumpDrained(c)
  <2>1. /\ UNCHANGED <<req, rtVars, tvVars>>
        /\ \A d \in Cast : pump[d] \in {"run", "stop"} => pump'[d] \in {"run", "stop"}
    BY <1>b DEF PumpStop, PumpUnit, PumpEnded, PumpDrained, TypeOK
  <2>2. \A d \in Cast : Unstopped(d) => Unstopped(d)'
    BY <2>1 DEF Unstopped, KindOf, rtVars
  <2>. QED BY <2>1, <2>2, TvFrame DEF rtVars, tvVars
<1>c. CASE \E result \in Outcome : PumpSoapStop(c, result)
  <2>1. PICK result \in Outcome : PumpSoapStop(c, result)
    BY <1>c
  <2>2. /\ Soap("stop", c, result) /\ UNCHANGED <<req, rtVars>>
        /\ Running(c) /\ KindOf(c) = "mirror"
        /\ \A d \in Cast : d # c => pump'[d] = pump[d]
    BY <2>1 DEF PumpSoapStop, Running, OwnedOK, TypeOK
  <2>3. c <= Len(req)
    BY <2>2 DEF PressedOK
  <2>4. /\ CallsOK' /\ \A d : FaultAt(d) => FaultAt(d)'
        /\ IF result = "ok" THEN Apply("stop", c)
           ELSE FaultAt(Target(c))' /\ UNCHANGED <<uri, playing>>
    BY <2>2, <2>3, TvSoap DEF SoapOp
  <2>5. uri' = uri
    BY <2>4 DEF Apply
  <2>6. (pc = "play" => uri[Target(cur)] = cur \/ FaultAt(Target(cur)))'
    BY <2>2, <2>4, <2>5 DEF TvOK, rtVars, Target, FaultAt
  <2>7. ASSUME pc' # "killed", NEW d \in Device, playing'[d] # NoCast
        PROVE  (Unstopped(playing[d]) \/ FaultAt(d))'
    <3>1. /\ playing'[d] = playing[d] /\ playing[d] \in Cast
          /\ d = Target(c) => FaultAt(Target(c))'
      BY <2>4, <2>7 DEF Apply, TypeOK
    <3>2. playing[d] = c => d = Target(c)
      BY <2>7, <3>1 DEF CallsOK
    <3>3. CASE playing[d] = c
      <4>1. d = Target(c) /\ FaultAt(Target(c))'
        BY <3>1, <3>2, <3>3
      <4>2. Target(c)' = Target(c)
        BY <2>2 DEF Target
      <4>. QED BY <4>1, <4>2 DEF FaultAt
    <3>4. CASE playing[d] # c
      <4>1. Unstopped(playing[d]) \/ FaultAt(d)
        BY <2>2, <2>7, <3>1 DEF TvOK, rtVars
      <4>. QED BY <2>2, <2>4, <3>1, <3>4, <4>1 DEF Unstopped, KindOf, FaultAt, rtVars
    <3>. QED BY <3>3, <3>4
  <2>. QED BY <2>4, <2>6, <2>7 DEF TvOK
<1>. QED BY <1>a, <1>b, <1>c DEF Pump

LEMMA IInvStep == IInv /\ [Next]_vars => IInv'
<1>1. Safe /\ Safe' /\ CallsOK /\ TvOK /\ [Next]_vars => (CallsOK /\ TvOK)'
  BY TvUi, TvTeardown, TvStart, TvTasks, TvRenderer, TvQuiet DEF Next
<1>. QED BY <1>1, SafeStep, LiveUi, LiveTeardown, LiveStart, LiveTasks, LiveOthers
         DEF IInv, Safe, Next

\* The inductive invariant holds in every reachable state.
THEOREM SpecIInv == Spec => []IInv
<1>1. Init => IInv
  BY SafeInit, LiveInit, TvInit DEF IInv, Safe
<1>. QED BY <1>1, IInvStep, PTL DEF Spec

\* A renderer is left playing a cast that is over only if one of its SOAP calls
\* failed: whatever it plays without a fault is still held active, being torn down
\* or pumped, hence not over.
THEOREM SpecOrphanNeedsFault == Spec => []OrphanNeedsFault
<1>1. IInv => OrphanNeedsFault
  <2> SUFFICES ASSUME IInv, pc # "killed", NEW d \in Device,
                      playing[d] # NoCast, Over(playing[d])
               PROVE  FaultAt(d)
    BY DEF OrphanNeedsFault
  <2>1. ~Unstopped(playing[d])
    BY DEF Over, Unstopped
  <2>. QED BY <2>1 DEF IInv, TvOK
<1>. QED BY <1>1, SpecIInv, PTL

\* When all is settled and the window says LIVE, the newest press is the cast
\* that is active, on the device the window names, its pump still feeding it.
THEOREM SpecCastingIsLive == Spec => []CastingIsLive
<1>1. IInv => CastingIsLive
  <2> SUFFICES ASSUME IInv, Settled, casting
               PROVE  /\ active = Len(req) /\ active # NoCast
                      /\ now = Target(active)
                      /\ KindOf(active) = "mirror" => pump[active] = "run"
    BY DEF CastingIsLive
  <2>1. NewestIsActive
    BY DEF IInv, LiveOK, Settled, NewestIsQueued, NewestIsServed, NewestIsCleared,
           TeardownPcs, StartPcs
  <2>2. Len(req) # 0
    BY DEF IInv, LiveOK, TypeOK, Settled
  <2>. QED BY <2>1, <2>2 DEF IInv, LiveOK, Settled, NewestIsActive, NoCast
<1>. QED BY <1>1, SpecIInv, PTL

=============================================================================
