----------------------------- MODULE PartsProofs -----------------------------
(***************************************************************************)
(* The muxer's packets are well formed and its counters go on, so whatever *)
(* chunks a renderer misses it joins at a key frame and gets whole units;  *)
(* a screen's picture reaches the encoder with every pixel at its place in *)
(* the padded planes; and the parts that keep to themselves, put together, *)
(* keep what each is proved to keep.                                       *)
(***************************************************************************)
EXTENDS MCParts, ProtocolProofs, RegistryProofs, FiniteSetTheorems, TLAPS

-----------------------------------------------------------------------------
(* The muxer, for units of any length and any time stamp.                   *)

\* n bits of x from bit lo; and n bits of a byte, from bit at, that its other bits o
\* leave free.
Segment(x, lo, n) == x \cap (lo .. lo + n - 1)
Free(o, at, n) == o \in SUBSET Int /\ o \cap (at .. at + n - 1) = {}

\* Bits are read back from the place to which they were moved, whatever else the
\* byte holds.
LEMMA BitsBack ==
    ASSUME NEW x \in SUBSET Int, NEW o, NEW lo \in Int, NEW n \in Int, NEW at \in Int,
           Free(o, at, n)
    PROVE  Bits(o \cup Bits(x, lo, n, at), at, n, lo) = Segment(x, lo, n)
<1> DEFINE y == o \cup Bits(x, lo, n, at)
<1>1. ASSUME NEW b \in x \cap (lo .. lo + n - 1) PROVE b \in Bits(y, at, n, lo)
  <2> DEFINE m == b - lo + at
  <2>1. m \in Bits(x, lo, n, at)
    BY DEF Bits
  <2>2. m \in y \cap (at .. at + n - 1) /\ m - at + lo = b
    BY <2>1
  <2> HIDE DEF m, y
  <2> QED BY <2>2 DEF Bits
<1>2. ASSUME NEW b \in Bits(y, at, n, lo) PROVE b \in Segment(x, lo, n)
  <2>1. PICK m \in y \cap (at .. at + n - 1) : b = m - at + lo
    BY DEF Bits
  <2>2. m \in Bits(x, lo, n, at)
    BY <2>1 DEF Free
  <2>3. PICK k \in x \cap (lo .. lo + n - 1) : m = k - lo + at
    BY <2>2 DEF Bits
  <2>4. b = k
    BY <2>1, <2>3
  <2> QED BY <2>4 DEF Segment
<1> QED BY <1>1, <1>2 DEF Segment

\* A time stamp and a clock reference are read back as they were, modulo 2^33.
LEMMA TimesAreRead ==
    ASSUME NEW ts \in SUBSET (0..63)
    PROVE  /\ DecodeTimestamp(EncodeTimestamp(ts)) = ts \cap (0..32)
           /\ DecodePcr(EncodePcr(ts)) = ts \cap (0..32)
<1>0. ts \in SUBSET Int
  OBVIOUS
<1>1. \A b : {} \cup b = b
  OBVIOUS
<1>2. DecodeTimestamp(EncodeTimestamp(ts)) = ts \cap (0..32)
  <2>1. Bits({0, 5} \cup Bits(ts, 30, 3, 1), 1, 3, 30) = Segment(ts, 30, 3)
    <3>1. Free({0, 5}, 1, 3)
      BY DEF Free
    <3> QED BY <1>0, <3>1, BitsBack
  <2>2. Bits({} \cup Bits(ts, 22, 8, 0), 0, 8, 22) = Segment(ts, 22, 8)
    <3>1. Free({}, 0, 8)
      BY DEF Free
    <3> QED BY <1>0, <3>1, BitsBack
  <2>3. Bits({0} \cup Bits(ts, 15, 7, 1), 1, 7, 15) = Segment(ts, 15, 7)
    <3>1. Free({0}, 1, 7)
      BY DEF Free
    <3> QED BY <1>0, <3>1, BitsBack
  <2>4. Bits({} \cup Bits(ts, 7, 8, 0), 0, 8, 7) = Segment(ts, 7, 8)
    <3>1. Free({}, 0, 8)
      BY DEF Free
    <3> QED BY <1>0, <3>1, BitsBack
  <2>5. Bits({0} \cup Bits(ts, 0, 7, 1), 1, 7, 0) = Segment(ts, 0, 7)
    <3>1. Free({0}, 1, 7)
      BY DEF Free
    <3> QED BY <1>0, <3>1, BitsBack
  <2>6. DecodeTimestamp(EncodeTimestamp(ts))
          = Segment(ts, 30, 3) \cup Segment(ts, 22, 8) \cup Segment(ts, 15, 7) \cup Segment(ts, 7, 8) \cup Segment(ts, 0, 7)
    BY <1>1, <2>1, <2>2, <2>3, <2>4, <2>5 DEF DecodeTimestamp, EncodeTimestamp
  <2> QED BY <2>6 DEF Segment
<1>3. DecodePcr(EncodePcr(ts)) = ts \cap (0..32)
  <2>1. Bits({} \cup Bits(ts, 25, 8, 0), 0, 8, 25) = Segment(ts, 25, 8)
    <3>1. Free({}, 0, 8)
      BY DEF Free
    <3> QED BY <1>0, <3>1, BitsBack
  <2>2. Bits({} \cup Bits(ts, 17, 8, 0), 0, 8, 17) = Segment(ts, 17, 8)
    <3>1. Free({}, 0, 8)
      BY DEF Free
    <3> QED BY <1>0, <3>1, BitsBack
  <2>3. Bits({} \cup Bits(ts, 9, 8, 0), 0, 8, 9) = Segment(ts, 9, 8)
    <3>1. Free({}, 0, 8)
      BY DEF Free
    <3> QED BY <1>0, <3>1, BitsBack
  <2>4. Bits({} \cup Bits(ts, 1, 8, 0), 0, 8, 1) = Segment(ts, 1, 8)
    <3>1. Free({}, 0, 8)
      BY DEF Free
    <3> QED BY <1>0, <3>1, BitsBack
  <2>5. Bits((1..6) \cup Bits(ts, 0, 1, 7), 7, 1, 0) = Segment(ts, 0, 1)
    <3>1. Free((1..6), 7, 1)
      BY DEF Free
    <3> QED BY <1>0, <3>1, BitsBack
  <2>6. DecodePcr(EncodePcr(ts))
          = Segment(ts, 25, 8) \cup Segment(ts, 17, 8) \cup Segment(ts, 9, 8) \cup Segment(ts, 1, 8) \cup Segment(ts, 0, 1)
    BY <1>1, <2>1, <2>2, <2>3, <2>4, <2>5 DEF DecodePcr, EncodePcr
  <2> QED BY <2>6 DEF Segment
<1> QED BY <1>2, <1>3

-----------------------------------------------------------------------------
\* A packet that is written carries the next counter, and its receiver stays one.
LEMMA WriteOK ==
    ASSUME MuxTypeOK, CountersOK, NEW p, p.pid \in Pid, p.cc = cc[p.pid], p.to \in Nat,
           p.pusi \in BOOLEAN, Write(p)
    PROVE  /\ cc' \in [Pid -> 0..15] /\ sent' \in [Pid -> Counter] /\ rx' \in Receiver
           /\ CountersOK' /\ sent'[p.pid] = cc[p.pid] /\ sent'[p.pid] # Unset
           /\ sent[p.pid] = Unset \/ p.cc = (sent[p.pid] + 1) % 16
<1>1. cc \in [Pid -> 0..15] /\ sent \in [Pid -> Counter] /\ rx \in Receiver /\ call \in Call
  BY DEF MuxTypeOK
<1>2. cc' = [cc EXCEPT ![p.pid] = (cc[p.pid] + 1) % 16] /\ sent' = [sent EXCEPT ![p.pid] = cc[p.pid]]
  BY DEF Write, TakeCc
<1>3. cc[p.pid] \in 0..15 /\ (cc[p.pid] + 1) % 16 \in 0..15
  BY <1>1
<1>4. cc' \in [Pid -> 0..15] /\ sent' \in [Pid -> Counter]
  BY <1>1, <1>2, <1>3 DEF Counter
<1>5. sent'[p.pid] = cc[p.pid] /\ sent'[p.pid] # Unset
  BY <1>1, <1>2, <1>3 DEF Unset
<1>6. CountersOK'
  BY <1>1, <1>2, <1>3, <1>5 DEF CountersOK
<1>7. sent[p.pid] = Unset \/ p.cc = (sent[p.pid] + 1) % 16
  BY <1>1 DEF CountersOK
<1>8. Demux(rx, p, call) \in Receiver
  <2> DEFINE r == Demux(rx, p, call)
  <2>1. r.last \in [Pid -> Counter]
    BY <1>1, <1>3 DEF Demux, Receiver, Counter
  <2>2. r.pat \in BOOLEAN /\ r.tables \in BOOLEAN /\ r.broken \in BOOLEAN
    BY <1>1 DEF Demux, Receiver
  <2>3. r.joined \in {"no", "key", "other"}
    BY <1>1 DEF Demux, Receiver
  <2>4. r.asm \in [Es -> [unit: Nat, upto: Nat, size: Nat]]
    BY <1>1 DEF Demux, Receiver, Call
  <2>5. r = [last |-> r.last, pat |-> r.pat, tables |-> r.tables, asm |-> r.asm,
             broken |-> r.broken, joined |-> r.joined]
    BY DEF Demux
  <2> HIDE DEF r
  <2>6. [last |-> r.last, pat |-> r.pat, tables |-> r.tables, asm |-> r.asm,
         broken |-> r.broken, joined |-> r.joined] \in Receiver
    BY <2>1, <2>2, <2>3, <2>4 DEF Receiver
  <2>7. r \in Receiver
    BY <2>5, <2>6, Zenon
  <2> QED BY <2>7 DEF r
<1>9. rx' \in Receiver
  BY <1>1, <1>8 DEF Write
<1> QED BY <1>4, <1>5, <1>6, <1>7, <1>9

\* A table reaches the renderer, or is lost with the rest of its chunk.
LEMMA PsiOK ==
    ASSUME MuxInv, Psi
    PROVE  MuxInv' /\ call' = call /\ call.offset = 0
<1> DEFINE p == [pid |-> step, pusi |-> TRUE, cc |-> cc[step], af |-> Unset, pcr |-> <<>>,
                 header |-> NoHeader, bytes |-> 188, from |-> 0, to |-> 184]
<1>1. /\ step \in {"pat", "pmt"} /\ step' = IF step = "pat" THEN "pmt" ELSE "pes"
      /\ Write(p) /\ call' = call /\ units' = units
  BY DEF Psi
<1>2. p.pid = step /\ p.cc = cc[step] /\ p.to = 184 /\ p.pusi \in BOOLEAN
  OBVIOUS
<1>3. rx' = IF call.lost THEN rx ELSE Demux(rx, p, call)
  BY <1>1 DEF Write
<1> HIDE DEF p
<1>4. MuxTypeOK /\ CallOK /\ CountersOK /\ ReceivedOK
  BY DEF MuxInv
<1>5. step \in Pid /\ step \notin Es
  BY <1>1 DEF Pid, Es
<1>6. /\ cc' \in [Pid -> 0..15] /\ sent' \in [Pid -> Counter] /\ rx' \in Receiver
      /\ CountersOK'
  BY <1>1, <1>2, <1>4, <1>5, WriteOK
<1>7. MuxTypeOK'
  BY <1>1, <1>4, <1>6 DEF MuxTypeOK
<1>8. call.key /\ call.offset = 0 /\ CallOK'
  BY <1>1, <1>4 DEF CallOK
<1>9. ReceivedOK'
  <2>1. rx.asm' = rx.asm /\ rx.joined' = rx.joined /\ ~rx.broken'
    BY <1>2, <1>3, <1>4, <1>5 DEF Demux, ReceivedOK
  <2>2. CASE call.lost
    <3>1. rx' = rx
      BY <1>3, <2>2
    <3>2. \A e \in Es : ~InFlight(e) /\ ~InFlight(e)'
      BY <1>1, <2>2 DEF InFlight
    <3> QED BY <1>1, <1>4, <1>8, <2>2, <3>1, <3>2 DEF ReceivedOK
  <2>3. CASE ~call.lost
    <3>1. /\ rx.pat' = (rx.pat \/ step = "pat")
          /\ rx.tables' = (rx.tables \/ (step = "pmt" /\ rx.pat))
      BY <1>2, <1>3, <1>5, <2>3 DEF Demux
    <3>2. \A e \in Es : ~InFlight(e) /\ ~InFlight(e)'
      BY <1>1, <1>8 DEF InFlight
    <3>3. \A e \in Es : rx.asm[e].upto = rx.asm[e].size
      BY <1>4, <3>2 DEF ReceivedOK
    <3>4. step = "pmt" => rx.pat
      BY <1>4, <2>3 DEF ReceivedOK
    <3> QED BY <1>1, <1>4, <1>8, <2>1, <2>3, <3>1, <3>2, <3>3, <3>4 DEF ReceivedOK
  <2> QED BY <2>2, <2>3
<1> QED BY <1>1, <1>6, <1>7, <1>8, <1>9 DEF MuxInv

\* A piece of a unit reaches the renderer, or is lost with the rest of its chunk.
LEMMA PieceOK ==
    ASSUME MuxInv, step = "pes", call.offset < call.size, NEW n \in Nat, n > 0,
           call.offset + n <= call.size, NEW af, NEW bytes, Carry(n, af, bytes)
    PROVE  MuxInv'
<1> DEFINE p == [pid |-> call.pid, pusi |-> call.offset = 0, cc |-> cc[call.pid],
                 af |-> af, pcr |-> IF NeedPcr THEN EncodePcr(call.stamp) ELSE <<>>,
                 header |-> PesHeader(call), bytes |-> bytes,
                 from |-> call.offset, to |-> call.offset + n]
<1>1. /\ Write(p) /\ call' = [call EXCEPT !.offset = call.offset + n]
      /\ step' = step /\ units' = units
  BY DEF Carry
<1>2. /\ p.pid = call.pid /\ p.cc = cc[call.pid] /\ p.from = call.offset
      /\ p.to = call.offset + n /\ (p.pusi <=> call.offset = 0) /\ p.pusi \in BOOLEAN
  OBVIOUS
<1>3. rx' = IF call.lost THEN rx ELSE Demux(rx, p, call)
  BY <1>1 DEF Write
<1> HIDE DEF p
<1>4. MuxTypeOK /\ CallOK /\ CountersOK /\ ReceivedOK
  BY DEF MuxInv
<1>5. call \in Call /\ call.pid \in Es /\ call.pid \in Pid /\ call.offset \in Nat /\ call.size \in Nat
  BY <1>4 DEF MuxTypeOK, Call, Pid
<1>6. /\ call' \in Call /\ call'.unit = call.unit /\ call'.pid = call.pid /\ call'.key = call.key
      /\ call'.size = call.size /\ call'.lost = call.lost /\ call'.offset = call.offset + n
  BY <1>1, <1>5 DEF Call
<1>7. /\ cc' \in [Pid -> 0..15] /\ sent' \in [Pid -> Counter] /\ rx' \in Receiver
      /\ CountersOK' /\ sent'[call.pid] = cc[call.pid] /\ sent'[call.pid] # Unset
      /\ sent[call.pid] = Unset \/ cc[call.pid] = (sent[call.pid] + 1) % 16
  BY <1>1, <1>2, <1>4, <1>5, WriteOK
<1>8. MuxTypeOK'
  BY <1>1, <1>4, <1>6, <1>7 DEF MuxTypeOK
<1>9. CallOK'
  BY <1>1, <1>4, <1>5, <1>6 DEF CallOK
<1>10. rx \in Receiver
  BY <1>4 DEF MuxTypeOK
<1>11. ReceivedOK'
  <2>1. CASE call.lost
    <3>1. rx' = rx
      BY <1>3, <2>1
    <3>2. \A e \in Es : ~InFlight(e) /\ ~InFlight(e)'
      BY <1>6, <2>1 DEF InFlight
    <3> QED BY <1>1, <1>4, <1>6, <2>1, <3>1, <3>2 DEF ReceivedOK
  <2>2. CASE ~call.lost /\ ~rx.tables
    <3>1. rx' = Demux(rx, p, call)
      BY <1>3, <2>2
    <3>2. /\ rx'.asm = rx.asm /\ rx'.broken = rx.broken /\ rx'.joined = rx.joined
          /\ rx'.pat = rx.pat /\ rx'.tables = rx.tables
      BY <1>2, <1>5, <1>10, <2>2, <3>1 DEF Demux, Es, Receiver
    <3> QED BY <1>1, <1>4, <1>6, <2>2, <3>2 DEF ReceivedOK
  <2>3. CASE ~call.lost /\ rx.tables /\ call.offset = 0
    <3>1. rx' = Demux(rx, p, call)
      BY <1>3, <2>3
    <3>2. \A e \in Es : rx.asm[e].upto = rx.asm[e].size
      BY <1>4, <2>3 DEF ReceivedOK, InFlight
    <3>3. rx.asm[call.pid].upto = rx.asm[call.pid].size
      BY <1>5, <3>2
    <3>4. rx'.asm = [rx.asm EXCEPT ![call.pid] =
                       [unit |-> call.unit, upto |-> call.offset + n, size |-> call.size]]
      BY <1>2, <1>5, <2>3, <3>1 DEF Demux
    <3>5. /\ ~rx'.broken /\ rx'.pat = rx.pat /\ rx'.tables = rx.tables
          /\ rx'.last = [rx.last EXCEPT ![call.pid] = cc[call.pid]]
      BY <1>2, <1>4, <1>5, <1>10, <2>3, <3>1, <3>3 DEF Demux, Es, Receiver, ReceivedOK
    <3>6. /\ rx'.joined # "other"
          /\ rx'.joined # "no"
      BY <1>2, <1>4, <1>5, <2>3, <3>1 DEF Demux, ReceivedOK, CallOK, Es
    <3>7. ASSUME NEW e \in Es
          PROVE  IF InFlight(e)' /\ rx'.tables
                 THEN /\ rx'.asm[e] = [unit |-> call'.unit, upto |-> call'.offset, size |-> call'.size]
                      /\ rx'.last[e] = sent'[e] /\ sent'[e] # Unset
                 ELSE rx'.asm[e].upto = rx'.asm[e].size
      <4>1. CASE e = call.pid
        <5>1. InFlight(e)'
          BY <1>1, <1>5, <1>6, <2>3, <4>1 DEF InFlight
        <5>2. rx'.asm[e] = [unit |-> call.unit, upto |-> call.offset + n, size |-> call.size]
          BY <1>10, <3>4, <4>1 DEF Receiver
        <5>3. rx'.last[e] = cc[call.pid]
          BY <1>5, <1>10, <3>5, <4>1 DEF Receiver
        <5> QED BY <1>6, <1>7, <2>3, <3>5, <4>1, <5>1, <5>2, <5>3
      <4>2. CASE e # call.pid
        <5>1. ~InFlight(e)'
          BY <1>6, <4>2 DEF InFlight
        <5>2. rx'.asm[e] = rx.asm[e]
          BY <1>10, <3>4, <4>2 DEF Receiver
        <5> QED BY <3>2, <5>1, <5>2
      <4> QED BY <4>1, <4>2
    <3> QED BY <1>1, <1>4, <1>6, <2>3, <3>5, <3>6, <3>7 DEF ReceivedOK
  <2>4. CASE ~call.lost /\ rx.tables /\ call.offset > 0
    <3>1. rx' = Demux(rx, p, call)
      BY <1>3, <2>4
    <3>2. InFlight(call.pid)
      BY <2>4 DEF InFlight
    <3>3. /\ rx.asm[call.pid] = [unit |-> call.unit, upto |-> call.offset, size |-> call.size]
          /\ rx.last[call.pid] = sent[call.pid] /\ sent[call.pid] # Unset
      BY <1>4, <1>5, <2>4, <3>2 DEF ReceivedOK
    <3>4. ~p.pusi /\ rx.last[p.pid] # Unset /\ p.cc = (rx.last[p.pid] + 1) % 16
      BY <1>2, <1>7, <2>4, <3>3
    <3>4a. /\ rx.asm[p.pid].unit = call.unit /\ rx.asm[p.pid].upto = p.from
      BY <1>2, <3>3
    <3>5. rx'.asm = [rx.asm EXCEPT ![call.pid].upto = call.offset + n]
      BY <1>2, <1>5, <2>4, <3>1, <3>4 DEF Demux
    <3>6. /\ ~rx'.broken /\ rx'.pat = rx.pat /\ rx'.tables = rx.tables
          /\ rx'.last = [rx.last EXCEPT ![call.pid] = cc[call.pid]]
      BY <1>2, <1>4, <1>5, <1>10, <2>4, <3>1, <3>4, <3>4a DEF Demux, Es, Receiver, ReceivedOK
    <3>7. rx.joined # "no" /\ rx'.joined = rx.joined
      BY <1>4, <2>4, <3>1 DEF Demux, ReceivedOK
    <3>8. ASSUME NEW e \in Es
          PROVE  IF InFlight(e)' /\ rx'.tables
                 THEN /\ rx'.asm[e] = [unit |-> call'.unit, upto |-> call'.offset, size |-> call'.size]
                      /\ rx'.last[e] = sent'[e] /\ sent'[e] # Unset
                 ELSE rx'.asm[e].upto = rx'.asm[e].size
      <4>1. CASE e = call.pid
        <5>1. InFlight(e)'
          BY <1>1, <1>5, <1>6, <2>4, <4>1 DEF InFlight
        <5>2. rx'.asm[e] = [unit |-> call.unit, upto |-> call.offset + n, size |-> call.size]
          BY <1>10, <3>3, <3>5, <4>1 DEF Receiver
        <5>3. rx'.last[e] = cc[call.pid]
          BY <1>5, <1>10, <3>6, <4>1 DEF Receiver
        <5> QED BY <1>6, <1>7, <2>4, <3>6, <4>1, <5>1, <5>2, <5>3
      <4>2. CASE e # call.pid
        <5>1. ~InFlight(e)' /\ ~InFlight(e)
          BY <1>6, <4>2 DEF InFlight
        <5>2. rx'.asm[e] = rx.asm[e]
          BY <1>10, <3>5, <4>2 DEF Receiver
        <5> QED BY <1>4, <5>1, <5>2 DEF ReceivedOK
      <4> QED BY <4>1, <4>2
    <3> QED BY <1>1, <1>4, <1>6, <2>4, <3>6, <3>7, <3>8 DEF ReceivedOK
  <2> QED BY <1>5, <2>1, <2>2, <2>3, <2>4
<1> QED BY <1>7, <1>8, <1>9, <1>11 DEF MuxInv

-----------------------------------------------------------------------------
\* Nothing is written and nothing received in the initial state.
LEMMA MuxStarts == MuxInit => MuxInv /\ PacketsWellFormed
<1> SUFFICES ASSUME MuxInit PROVE MuxInv /\ PacketsWellFormed
  OBVIOUS
<1>1. rx \in Receiver
  BY DEF MuxInit, Receiver, Counter, NoUnit, Unset
<1>2. call \in Call
  BY DEF MuxInit, Call, Es
<1>3. MuxTypeOK
  BY <1>1, <1>2 DEF MuxInit, MuxTypeOK, Counter, Unset
<1>4. CallOK /\ CountersOK
  BY DEF MuxInit, CallOK, CountersOK, Unset
<1>5. ReceivedOK
  BY DEF MuxInit, ReceivedOK, InFlight, NoUnit
<1>6. PacketsWellFormed
  BY DEF MuxInit, PacketsWellFormed
<1> QED BY <1>3, <1>4, <1>5, <1>6 DEF MuxInv

\* A new call begins where the one before it was whole.
LEMMA PushOK ==
    ASSUME MuxInv, PacketsWellFormed, NEW pid \in Es, NEW u \in Unit, NEW key \in BOOLEAN,
           NEW lost \in BOOLEAN, Push(pid, u, key, lost)
    PROVE  MuxInv' /\ PacketsWellFormed'
<1>1. MuxTypeOK /\ CallOK /\ CountersOK /\ ReceivedOK
  BY DEF MuxInv
<1>2. u.length \in Nat /\ u.stamp \in SUBSET (0..63)
  BY MpegTsAssumption DEF AccessUnit
<1>3. /\ step = "idle" /\ units' = units + 1 /\ (pid = "audio" => ~key)
      /\ call' = [unit |-> units + 1, pid |-> pid, key |-> key, stamp |-> u.stamp,
                  size |-> PesSize(u.length), offset |-> 0, lost |-> lost]
      /\ step' = IF key THEN "pat" ELSE "pes"
      /\ UNCHANGED <<cc, pkt, sent, rx>>
  BY DEF Push
<1>4. PesSize(u.length) \in Nat /\ PesSize(u.length) >= 14
  BY <1>2 DEF PesSize
<1>5. call' \in Call /\ units' \in Nat
  BY <1>1, <1>2, <1>3, <1>4 DEF MuxTypeOK, Call
<1>6. MuxTypeOK'
  BY <1>1, <1>3, <1>5 DEF MuxTypeOK
<1>7. /\ call'.unit = units' /\ call'.size >= 14 /\ call'.size \in Nat /\ call'.offset = 0
      /\ call'.pid = pid /\ (call'.key <=> key)
  BY <1>3, <1>4
<1>8. CallOK'
  BY <1>3, <1>7 DEF CallOK, Es
<1>9. CountersOK'
  BY <1>1, <1>3 DEF CountersOK
<1>10. ReceivedOK'
  <2>1. \A e \in Es : ~InFlight(e) /\ ~InFlight(e)'
    BY <1>3, <1>7 DEF InFlight
  <2> QED BY <1>1, <1>3, <1>7, <2>1 DEF ReceivedOK
<1>11. PacketsWellFormed'
  BY <1>3, <1>7 DEF PacketsWellFormed, HeadersAreTrue
<1> QED BY <1>6, <1>8, <1>9, <1>10, <1>11 DEF MuxInv

\* A call returns when its unit is written to the end.
LEMMA ReturnOK ==
    ASSUME MuxInv, PacketsWellFormed, Return
    PROVE  MuxInv' /\ PacketsWellFormed'
<1>1. MuxTypeOK /\ CallOK /\ CountersOK /\ ReceivedOK
  BY DEF MuxInv
<1>2. /\ step = "pes" /\ call.offset >= call.size /\ step' = "idle"
      /\ UNCHANGED <<cc, call, units, pkt, sent, rx>>
  BY DEF Return
<1>3. call.offset = call.size /\ call.offset > 0 /\ call.pid \in Es
  BY <1>1, <1>2 DEF MuxTypeOK, Call, CallOK
<1>4. MuxTypeOK' /\ CallOK' /\ CountersOK'
  BY <1>1, <1>2, <1>3 DEF MuxTypeOK, CallOK, CountersOK
<1>5. ReceivedOK'
  <2>1. ASSUME NEW e \in Es PROVE rx.asm[e].upto = rx.asm[e].size /\ ~InFlight(e)'
    <3>1. ~InFlight(e)'
      BY <1>2 DEF InFlight
    <3>2. CASE InFlight(e) /\ rx.tables
      <4>1. rx.asm[e] = [unit |-> call.unit, upto |-> call.offset, size |-> call.size]
        BY <1>1, <3>2 DEF ReceivedOK
      <4> QED BY <1>3, <3>1, <4>1
    <3>3. CASE ~(InFlight(e) /\ rx.tables)
      BY <1>1, <3>1, <3>3 DEF ReceivedOK
    <3> QED BY <3>2, <3>3
  <2> QED BY <1>1, <1>2, <1>3, <2>1 DEF ReceivedOK
<1>6. PacketsWellFormed'
  BY <1>2 DEF PacketsWellFormed, HeadersAreTrue
<1> QED BY <1>4, <1>5, <1>6 DEF MuxInv

\* The header and the clock reference of a piece tell the truth about its unit.
LEMMA HeadersOK ==
    ASSUME MuxInv, NEW n \in Nat, n > 0, NEW af, NEW bytes, Carry(n, af, bytes)
    PROVE  /\ HeadersAreTrue'
           /\ pkt'.pid = call.pid /\ pkt'.bytes = bytes /\ pkt'.af = af
           /\ pkt'.to = call.offset + n /\ pkt'.from = call.offset
           /\ pkt'.pcr = IF NeedPcr THEN EncodePcr(call.stamp) ELSE <<>>
<1>1. /\ pkt'.pid = call.pid /\ pkt'.bytes = bytes /\ pkt'.af = af
      /\ pkt'.to = call.offset + n /\ pkt'.from = call.offset
      /\ pkt'.pcr = (IF NeedPcr THEN EncodePcr(call.stamp) ELSE <<>>)
      /\ pkt'.header = PesHeader(call)
  BY DEF Carry, Write
<1>2. call \in Call /\ call.size \in Nat /\ call.size >= 14 /\ call.stamp \in SUBSET (0..63)
  BY DEF MuxInv, MuxTypeOK, CallOK, Call
<1>3. call'.stamp = call.stamp /\ call'.size = call.size
  BY <1>2 DEF Carry, Call
<1>4. pkt'.pcr # <<>> => DecodePcr(pkt'.pcr) = call.stamp \cap 0..32
  BY <1>1, <1>2, TimesAreRead
<1>5. pkt'.header # NoHeader =>
        /\ DecodeTimestamp(pkt'.header.pts) = call.stamp \cap 0..32
        /\ pkt'.header.length \in {0, call.size - 6}
  <2> SUFFICES ASSUME pkt'.header # NoHeader
               PROVE  /\ DecodeTimestamp(pkt'.header.pts) = call.stamp \cap 0..32
                      /\ pkt'.header.length \in {0, call.size - 6}
    OBVIOUS
  <2>1. /\ pkt'.header.length = LengthField(call.size - 14)
        /\ pkt'.header.pts = EncodeTimestamp(call.stamp)
    BY <1>1 DEF PesHeader
  <2>2. LengthField(call.size - 14) \in {0, call.size - 6}
    <3>1. 8 + (call.size - 14) = call.size - 6
      BY <1>2
    <3> QED BY <3>1 DEF LengthField
  <2> QED BY <1>2, <2>1, <2>2, TimesAreRead
<1>6. HeadersAreTrue'
  BY <1>3, <1>4, <1>5 DEF HeadersAreTrue
<1> QED BY <1>1, <1>6

\* A packet that is full of payload.
LEMMA FullPacketOK ==
    ASSUME MuxInv, FullPacket
    PROVE  MuxInv' /\ PacketsWellFormed'
<1>1. step = "pes" /\ call.offset < call.size /\ Full /\ Carry(184, Unset, 4 + 184)
  BY DEF FullPacket
<1>2. call.offset \in Nat /\ call.size \in Nat
  BY DEF MuxInv, MuxTypeOK, Call
<1>3. ~NeedPcr /\ call.offset + 184 <= call.size
  BY <1>1, <1>2 DEF Full, Remaining
<1>4. MuxInv'
  BY <1>1, <1>3, PieceOK
<1>5. /\ HeadersAreTrue' /\ pkt'.bytes = 4 + 184 /\ pkt'.af = Unset /\ pkt'.pcr = <<>>
      /\ pkt'.to = call.offset + 184 /\ pkt'.from = call.offset
  BY <1>1, <1>3, HeadersOK
<1>6. PacketsWellFormed'
  BY <1>2, <1>5 DEF PacketsWellFormed
<1> QED BY <1>4, <1>6

\* A packet with an adaptation field, whose stuffing ends where the payload begins.
LEMMA AdaptedPacketOK ==
    ASSUME MuxInv, AdaptedPacket
    PROVE  MuxInv' /\ PacketsWellFormed'
<1> DEFINE n == Take
           fixed == IF NeedPcr THEN 12 ELSE 6
           bytes == (IF fixed < 188 - n THEN 188 - n ELSE fixed) + n
<1>1. step = "pes" /\ call.offset < call.size /\ ~Full /\ Carry(n, 183 - n, bytes)
  BY DEF AdaptedPacket
<1>2. call.offset \in Nat /\ call.size \in Nat
  BY DEF MuxInv, MuxTypeOK, Call
<1>3. /\ n \in Nat /\ n > 0 /\ call.offset + n <= call.size
      /\ n <= 182 /\ (NeedPcr => n <= 176)
  BY <1>1, <1>2 DEF Take, Remaining
<1>4. bytes = 188
  BY <1>3
<1> HIDE DEF n, bytes
<1>5. MuxInv'
  BY <1>1, <1>3, PieceOK
<1>6. /\ HeadersAreTrue' /\ pkt'.bytes = bytes /\ pkt'.af = 183 - n
      /\ pkt'.to = call.offset + n /\ pkt'.from = call.offset
      /\ pkt'.pcr = IF NeedPcr THEN EncodePcr(call.stamp) ELSE <<>>
  BY <1>1, <1>3, HeadersOK
<1>7. pkt'.pcr # <<>> => NeedPcr
  BY <1>6
<1>8. PacketsWellFormed'
  BY <1>2, <1>3, <1>4, <1>6, <1>7 DEF PacketsWellFormed, Unset
<1> QED BY <1>5, <1>8

\* A table fills its packet.
LEMMA PsiWellFormed ==
    ASSUME MuxInv, Psi
    PROVE  PacketsWellFormed'
<1>1. /\ pkt'.bytes = 188 /\ pkt'.to = 184 /\ pkt'.from = 0 /\ pkt'.af = Unset
      /\ pkt'.pcr = <<>>
  BY DEF Psi, Write
<1>2. call'.offset = 0
  BY PsiOK
<1> QED BY <1>1, <1>2 DEF PacketsWellFormed, HeadersAreTrue

\* Every step keeps the invariant and the packets well formed.
LEMMA MuxSteps ==
    MuxInv /\ PacketsWellFormed /\ [MuxNext]_muxVars => MuxInv' /\ PacketsWellFormed'
<1> SUFFICES ASSUME MuxInv, PacketsWellFormed, [MuxNext]_muxVars
             PROVE  MuxInv' /\ PacketsWellFormed'
  OBVIOUS
<1>1. ASSUME NEW pid \in Es, NEW u \in Unit, NEW key \in BOOLEAN, NEW lost \in BOOLEAN,
             Push(pid, u, key, lost)
      PROVE  MuxInv' /\ PacketsWellFormed'
  BY <1>1, PushOK
<1>2. CASE Psi
  BY <1>2, PsiOK, PsiWellFormed
<1>3. CASE FullPacket
  BY <1>3, FullPacketOK
<1>4. CASE AdaptedPacket
  BY <1>4, AdaptedPacketOK
<1>5. CASE Return
  BY <1>5, ReturnOK
<1>6. CASE UNCHANGED muxVars
  BY <1>6 DEF muxVars, MuxInv, MuxTypeOK, CallOK, CountersOK, ReceivedOK, InFlight,
              PacketsWellFormed, HeadersAreTrue
<1> QED BY <1>1, <1>2, <1>3, <1>4, <1>5, <1>6 DEF MuxNext

\* The invariant of the muxer and its renderer, and the form of every packet.
THEOREM SpecMuxInv == MuxSpec => [](MuxInv /\ PacketsWellFormed)
<1>1. MuxInit => MuxInv /\ PacketsWellFormed
  BY MuxStarts
<1>2. MuxInv /\ PacketsWellFormed /\ [MuxNext]_muxVars => MuxInv' /\ PacketsWellFormed'
  BY MuxSteps
<1> QED BY <1>1, <1>2, PTL DEF MuxSpec

\* Every packet has 188 bytes, an adaptation field that ends where the payload begins,
\* and true headers, for units of any length and any time stamp.
THEOREM SpecPacketsWellFormed == MuxSpec => []PacketsWellFormed
BY SpecMuxInv, PTL

\* Whatever chunks it misses, a renderer holds whole units between calls and never
\* joins pieces of two.
THEOREM SpecUnitsArriveWhole == MuxSpec => []UnitsArriveWhole
<1>1. MuxInv => UnitsArriveWhole
  BY DEF MuxInv, ReceivedOK, InFlight, UnitsArriveWhole
<1> QED BY <1>1, SpecMuxInv, PTL

\* The first picture that a renderer gets after the tables is a key frame.
THEOREM SpecJoinsAtKeyframe == MuxSpec => []JoinsAtKeyframe
<1>1. MuxInv => JoinsAtKeyframe
  BY DEF MuxInv, ReceivedOK, JoinsAtKeyframe
<1> QED BY <1>1, SpecMuxInv, PTL

\* Continuity counters go on from packet to packet.
THEOREM SpecCountersContinue == MuxSpec => CountersContinue
<1> DEFINE Continues == pkt' # pkt => \/ sent[pkt'.pid] = Unset
                                     \/ pkt'.cc = (sent[pkt'.pid] + 1) % 16
<1>1. MuxInv /\ [MuxNext]_muxVars => [Continues]_muxVars
  <2> SUFFICES ASSUME MuxInv, MuxNext PROVE Continues
    OBVIOUS
  <2>1. MuxTypeOK /\ CountersOK
    BY DEF MuxInv
  <2>2. ASSUME NEW p, p.pid \in Pid, p.cc = cc[p.pid], Write(p) PROVE Continues
    <3>1. pkt' = p /\ cc \in [Pid -> 0..15] /\ sent \in [Pid -> Counter]
      BY <2>1, <2>2 DEF Write, MuxTypeOK
    <3> QED BY <2>1, <2>2, <3>1 DEF CountersOK
  <2>3. CASE Psi
    <3> DEFINE p == [pid |-> step, pusi |-> TRUE, cc |-> cc[step], af |-> Unset,
                     pcr |-> <<>>, header |-> NoHeader, bytes |-> 188, from |-> 0, to |-> 184]
    <3>1. p.pid = step /\ p.cc = cc[step] /\ Write(p) /\ step \in Pid
      BY <2>3 DEF Psi, Pid
    <3> HIDE DEF p, Continues
    <3> QED BY <2>2, <3>1
  <2>4. ASSUME NEW n, NEW af, NEW bytes, Carry(n, af, bytes) PROVE Continues
    <3> DEFINE p == [pid |-> call.pid, pusi |-> call.offset = 0, cc |-> cc[call.pid],
                     af |-> af, pcr |-> IF NeedPcr THEN EncodePcr(call.stamp) ELSE <<>>,
                     header |-> PesHeader(call), bytes |-> bytes,
                     from |-> call.offset, to |-> call.offset + n]
    <3>1. p.pid = call.pid /\ p.cc = cc[call.pid] /\ Write(p) /\ call.pid \in Pid
      BY <2>1, <2>4 DEF Carry, MuxTypeOK, Call, Pid
    <3> HIDE DEF p, Continues
    <3> QED BY <2>2, <3>1
  <2>5. CASE FullPacket
    BY <2>4, <2>5 DEF FullPacket
  <2>6. CASE AdaptedPacket
    BY <2>4, <2>6 DEF AdaptedPacket
  <2>7. CASE Return \/ \E pid \in Es, u \in Unit, key, lost \in BOOLEAN : Push(pid, u, key, lost)
    BY <2>7 DEF Return, Push
  <2> QED BY <2>3, <2>5, <2>6, <2>7 DEF MuxNext
<1> QED BY <1>1, SpecMuxInv, PTL DEF MuxSpec, CountersContinue

-----------------------------------------------------------------------------
(* The planes of a picture, for frames and encoders of any size.            *)

\* Rows of a plane follow one another.
LEMMA RowsFollow ==
    \A r, q, d \in Nat : r < q => r * d + d <= q * d
<1> SUFFICES ASSUME NEW r \in Nat, NEW q \in Nat, NEW d \in Nat, r < q
             PROVE  r * d + d <= q * d
  OBVIOUS
<1> DEFINE e == q - (r + 1)
<1>1. e \in Nat /\ q = (r + 1) + e
  OBVIOUS
<1> HIDE DEF e
<1>2. q * d = (r + 1) * d + e * d /\ (r + 1) * d = r * d + d
  BY <1>1
<1>3. e * d \in Nat /\ r * d \in Nat
  BY <1>1
<1> QED BY <1>2, <1>3

\* A number is one row and one column of rows of d.
LEMMA RowAndColumn ==
    \A r, q, c, e, d \in Nat : c < d /\ e < d /\ r * d + c = q * d + e => r = q /\ c = e
<1> SUFFICES ASSUME NEW r \in Nat, NEW q \in Nat, NEW c \in Nat, NEW e \in Nat, NEW d \in Nat,
                    c < d, e < d, r * d + c = q * d + e
             PROVE  r = q /\ c = e
  OBVIOUS
<1>1. r * d \in Nat /\ q * d \in Nat
  OBVIOUS
<1>2. CASE r < q
  <2>1. r * d + d <= q * d
    BY <1>2, RowsFollow
  <2> QED BY <2>1, <1>1
<1>3. CASE q < r
  <2>1. q * d + d <= r * d
    BY <1>3, RowsFollow
  <2> QED BY <2>1, <1>1
<1>4. CASE r = q
  BY <1>4, <1>1
<1> QED BY <1>2, <1>3, <1>4

\* Division gives the row, its remainder the column.
LEMMA Division ==
    \A r, c, d \in Nat : c < d => (r * d + c) \div d = r /\ (r * d + c) % d = c
<1> SUFFICES ASSUME NEW r \in Nat, NEW c \in Nat, NEW d \in Nat, c < d
             PROVE  (r * d + c) \div d = r /\ (r * d + c) % d = c
  OBVIOUS
<1> DEFINE n == r * d + c    q == n \div d    e == n % d
<1>1. n \in Nat /\ d > 0
  OBVIOUS
<1> HIDE DEF n
<1>2. q \in Nat /\ e \in Nat /\ e < d /\ n = d * q + e
  BY <1>1
<1> HIDE DEF q, e
<1>3. d * q = q * d
  BY <1>2
<1>4. r * d + c = q * d + e
  BY <1>2, <1>3 DEF n
<1>5. r = q /\ c = e
  BY <1>2, <1>4, RowAndColumn
<1> QED BY <1>5 DEF q, e, n

\* Half of a number, and the even number below it.
LEMMA Halves ==
    \A n \in Nat : /\ n \div 2 \in Nat /\ Even(n) \in Nat /\ Even(n) <= n /\ Even(n) \div 2 = n \div 2
                   /\ Even(n) = 2 * (n \div 2) /\ Even(n) % 2 = 0
                   /\ \A i \in 0 .. n \div 2 - 1 : \A d \in 0 .. 1 : i * 2 + d \in 0 .. Even(n) - 1
BY DEF Even

\* A byte of a plane is what was written to it, if nothing else was.
LEMMA PlaneAt ==
    \A n \in Nat : \A W : \A v : \A i \in 0 .. n - 1 :
        <<i, v>> \in W /\ (\A x \in W : x[1] = i => x[2] = v) => Plane(n, W)[i] = v
<1> SUFFICES ASSUME NEW n \in Nat, NEW W, NEW v, NEW i \in 0 .. n - 1,
                    <<i, v>> \in W, \A x \in W : x[1] = i => x[2] = v
             PROVE  Plane(n, W)[i] = v
  OBVIOUS
<1>1. Plane(n, W)[i] = IF \E x \in W : x[1] = i
                       THEN (CHOOSE x \in W : x[1] = i)[2] ELSE Blank0
  BY DEF Plane
<1> DEFINE y == CHOOSE x \in W : x[1] = i
<1>2. \E x \in W : x[1] = i
  OBVIOUS
<1>3. y \in W /\ y[1] = i
  BY <1>2
<1>4. y[2] = v
  BY <1>3
<1> QED BY <1>1, <1>2, <1>4

\* The pixel at its offset of a frame of w columns and h rows.
LEMMA PixelAt ==
    \A s \in [width: Nat, height: Nat] : \A r, c \in Nat :
        r < s.height /\ c < s.width => At(s, r * (s.width * 4) + c * 4) = Luma(r, c)
<1> SUFFICES ASSUME NEW s \in [width: Nat, height: Nat], NEW r \in Nat, NEW c \in Nat,
                    r < s.height, c < s.width
             PROVE  At(s, r * (s.width * 4) + c * 4) = Luma(r, c)
  OBVIOUS
<1> DEFINE w == s.width    h == s.height    d == w * 4    o == r * d + c * 4
<1>1. w \in Nat /\ h \in Nat /\ d \in Nat /\ r < h /\ c < w
  OBVIOUS
<1>2. c * 4 \in Nat /\ c * 4 < d /\ c * 4 + 4 <= d /\ (c * 4) \div 4 = c
  BY <1>1
<1>3. r * d + d <= h * d
  <2> HIDE DEF d, h
  <2> QED BY <1>1, RowsFollow
<1>4. w * h * 4 = h * d
  <2>1. w * h = h * w /\ h * w \in Nat
    BY <1>1
  <2>2. h * (w * 4) = (h * w) * 4
    BY <1>1
  <2> QED BY <2>1, <2>2
<1>5. o \div d = r /\ o % d = c * 4
  <2> DEFINE e == c * 4
  <2>1. e \in Nat /\ e < d /\ d \in Nat
    BY <1>1, <1>2
  <2> HIDE DEF e, d
  <2>2. (r * d + e) \div d = r /\ (r * d + e) % d = e
    BY <2>1, Division
  <2> QED BY <2>2 DEF e
<1>6. ~(o + 2 >= h * d)
  <2>1. r * d \in Nat /\ h * d \in Nat
    BY <1>1
  <2> DEFINE x == r * d    y == h * d
  <2>2. x \in Nat /\ y \in Nat /\ x + d <= y /\ o = x + c * 4
    BY <2>1, <1>3
  <2> HIDE DEF x, y, o, d
  <2>3. ~(o + 2 >= y)
    BY <2>2, <1>1, <1>2
  <2> QED BY <2>3 DEF y
<1>7. At(s, o) = IF o + 2 >= w * h * 4 THEN Outside
                 ELSE <<"y", o \div d, (o % d) \div 4>>
  BY DEF At
<1> HIDE DEF w, h, d, o
<1>8. At(s, o) = Luma(r, c)
  BY <1>2, <1>4, <1>5, <1>6, <1>7 DEF Luma
<1> QED BY <1>8 DEF o, d, w

\* A block of four pixels of a frame.
LEMMA BlockAt ==
    \A s \in [width: Nat, height: Nat] : \A by, bx \in Nat : \A which :
        by * 2 + 1 < s.height /\ bx * 2 + 1 < s.width => Average(s, by, bx, which) = <<which, by, bx>>
<1> SUFFICES ASSUME NEW s \in [width: Nat, height: Nat], NEW by \in Nat, NEW bx \in Nat, NEW which,
                    by * 2 + 1 < s.height, bx * 2 + 1 < s.width
             PROVE  Average(s, by, bx, which) = <<which, by, bx>>
  OBVIOUS
<1>1. \A dy, dx \in 0 .. 1 :
        At(s, (by * 2 + dy) * (s.width * 4) + (bx * 2 + dx) * 4) = Luma(by * 2 + dy, bx * 2 + dx)
  <2> TAKE dy, dx \in 0 .. 1
  <2> DEFINE r == by * 2 + dy    c == bx * 2 + dx
  <2>1. r \in Nat /\ c \in Nat /\ r < s.height /\ c < s.width
    OBVIOUS
  <2> HIDE DEF r, c
  <2>2. At(s, r * (s.width * 4) + c * 4) = Luma(r, c)
    BY <2>1, PixelAt
  <2> QED BY <2>2 DEF r, c
<1> QED BY <1>1 DEF Average

-----------------------------------------------------------------------------
(* The planes.                                                              *)

\* What bgra_to_nv12 writes to planes of w columns and h rows.
LumaWrite(s, w, row, col) == <<row * w + col, At(s, row * s.width * 4 + col * 4)>>
LumaWrites(s, w, h) == {LumaWrite(s, w, row, col) : row \in 0 .. h - 1, col \in 0 .. w - 1}
ChromaWrites(s, w, h) ==
    {<<by * w + bx * 2 + k, Average(s, by, bx, <<"u", "v">>[k + 1])>>
       : by \in 0 .. h \div 2 - 1, bx \in 0 .. w \div 2 - 1, k \in 0..1}

\* A place in a plane of n rows lies in the plane.
LEMMA InPlane ==
    \A n, d, r, c \in Nat : r < n /\ c < d => r * d + c \in 0 .. d * n - 1
<1> SUFFICES ASSUME NEW n \in Nat, NEW d \in Nat, NEW r \in Nat, NEW c \in Nat, r < n, c < d
             PROVE  r * d + c \in 0 .. d * n - 1
  OBVIOUS
<1>1. r * d + d <= n * d /\ n * d = d * n
  BY RowsFollow
<1> DEFINE x == r * d    y == d * n
<1>2. x \in Nat /\ y \in Nat /\ x + d <= y
  BY <1>1
<1> HIDE DEF x, y
<1>3. x + c \in 0 .. y - 1
  BY <1>2
<1> QED BY <1>3 DEF x, y

\* The luma plane that bgra_to_nv12 fills.
LEMMA LumaPlane ==
    ASSUME NEW s \in [width: Nat, height: Nat], NEW w \in Nat, NEW h \in Nat,
           w <= s.width, h <= s.height, NEW r \in 0 .. h - 1, NEW c \in 0 .. w - 1
    PROVE  Plane(w * h, LumaWrites(s, w, h))[r * w + c] = Luma(r, c)
<1> DEFINE W == LumaWrites(s, w, h)
<1> DEFINE i == r * w + c    v == At(s, r * s.width * 4 + c * 4)
<1>1. w * h \in Nat /\ r \in Nat /\ c \in Nat /\ r < h /\ c < w
  OBVIOUS
<1>2. i \in 0 .. w * h - 1
  BY <1>1, InPlane
<1>3. <<i, v>> \in W
  BY DEF LumaWrites, LumaWrite
<1>4. ASSUME NEW x \in W, x[1] = i PROVE x[2] = v
  <2>1. PICK row \in 0 .. h - 1, col \in 0 .. w - 1 :
          x = LumaWrite(s, w, row, col)
    BY DEF LumaWrites
  <2>2. row * w + col = r * w + c /\ row \in Nat /\ col \in Nat /\ col < w
    BY <2>1, <1>4 DEF LumaWrite
  <2>3. row = r /\ col = c
    BY <2>2, <1>1, RowAndColumn
  <2> QED BY <2>1, <2>3 DEF LumaWrite
<1> DEFINE n == w * h
<1>5. Plane(n, W)[i] = v
  <2>1. n \in Nat /\ i \in 0 .. n - 1
    BY <1>1, <1>2
  <2> HIDE DEF n, i, v, W
  <2> QED BY <2>1, <1>3, <1>4, PlaneAt
<1>6. v = Luma(r, c)
  <2>1. r * s.width * 4 = r * (s.width * 4)
    BY <1>1
  <2>2. r < s.height /\ c < s.width
    BY <1>1
  <2> QED BY <2>1, <2>2, <1>1, PixelAt
<1> QED BY <1>5, <1>6

\* The chroma plane that bgra_to_nv12 fills.
LEMMA ChromaPlane ==
    ASSUME NEW s \in [width: Nat, height: Nat], NEW w \in Nat, NEW h \in Nat,
           w <= s.width, h <= s.height, w = 2 * (w \div 2), h = 2 * (h \div 2),
           NEW r \in 0 .. h \div 2 - 1, NEW c \in 0 .. w - 1
    PROVE  Plane(w * (h \div 2), ChromaWrites(s, w, h))[r * w + c] = Chroma(r, c)
<1> DEFINE W == ChromaWrites(s, w, h)
<1> DEFINE i == r * w + c    b == c \div 2    e == c % 2    g == h \div 2
           v == Average(s, r, b, <<"u", "v">>[e + 1])
<1>1. /\ g \in Nat /\ r \in Nat /\ c \in Nat /\ r < g /\ c < w
      /\ b \in 0 .. w \div 2 - 1 /\ e \in 0 .. 1 /\ c = b * 2 + e /\ h = 2 * g
  OBVIOUS
<1>2. w * g \in Nat /\ r * w \in Nat
  BY <1>1
<1>3. i \in 0 .. w * g - 1
  <2> HIDE DEF g
  <2> QED BY <1>1, InPlane
<1>4. r * w + c = r * w + b * 2 + e
  <2> DEFINE x == r * w
  <2>1. x \in Nat
    BY <1>2
  <2> HIDE DEF x, b, e
  <2>2. x + c = x + b * 2 + e
    BY <2>1, <1>1
  <2> QED BY <2>2 DEF x
<1>5. <<i, v>> \in W
  <2> HIDE DEF b, e, g
  <2>1. <<r * w + b * 2 + e, v>> \in W
    BY <1>1 DEF g, ChromaWrites
  <2> QED BY <2>1, <1>4
<1>6. ASSUME NEW x \in W, x[1] = i PROVE x[2] = v
  <2>1. PICK by \in 0 .. g - 1, bx \in 0 .. w \div 2 - 1, k \in 0 .. 1 :
          x = <<by * w + bx * 2 + k, Average(s, by, bx, <<"u", "v">>[k + 1])>>
    BY DEF ChromaWrites
  <2> DEFINE col == bx * 2 + k
  <2>2. by \in Nat /\ col \in Nat /\ col < w /\ col \div 2 = bx /\ col % 2 = k
    BY <1>1
  <2>3. by * w + bx * 2 + k = by * w + col
    <3> DEFINE z == by * w
    <3>1. z \in Nat
      BY <2>2
    <3> HIDE DEF z
    <3>2. z + bx * 2 + k = z + (bx * 2 + k)
      BY <3>1
    <3> QED BY <3>2 DEF z
  <2>4. by * w + col = r * w + c
    BY <2>1, <2>3, <1>6
  <2> HIDE DEF col
  <2>5. by = r /\ col = c
    BY <2>2, <2>4, <1>1, RowAndColumn
  <2> QED BY <2>1, <2>2, <2>5
<1>7. Plane(w * g, W)[i] = v
  <2> DEFINE n == w * g
  <2>1. n \in Nat /\ i \in 0 .. n - 1
    BY <1>2, <1>3
  <2> HIDE DEF n, i, v, W
  <2>2. Plane(n, W)[i] = v
    BY <2>1, <1>5, <1>6, PlaneAt
  <2> QED BY <2>2 DEF n
<1>8. v = Chroma(r, c)
  <2>1. b \in Nat /\ r * 2 + 1 < s.height /\ b * 2 + 1 < s.width
    BY <1>1
  <2>2. v = <<<<"u", "v">>[e + 1], r, b>>
    <3> HIDE DEF b
    <3> QED BY <2>1, <1>1, BlockAt
  <2>3. <<"u", "v">>[e + 1] = IF c % 2 = 0 THEN "u" ELSE "v"
    BY <1>1
  <2> QED BY <2>2, <2>3 DEF Chroma
<1> QED BY <1>7, <1>8

-----------------------------------------------------------------------------
(* The steps.                                                               *)

\* What bgra_to_nv12 makes of a frame.
LEMMA ToNv12Holds ==
    ASSUME NEW s \in [width: Nat, height: Nat]
    PROVE  LET p == ToNv12(s) IN
             /\ p.width = Even(s.width) /\ p.height = Even(s.height) /\ p.stride = Even(s.width)
             /\ PictureIn(p, p.width, p.height, p.stride)
<1> DEFINE w == Even(s.width)    h == Even(s.height)    p == ToNv12(s)
<1>1. p = [width |-> w, height |-> h, stride |-> w,
           y  |-> Plane(w * h, LumaWrites(s, w, h)),
           uv |-> Plane(w * (h \div 2), ChromaWrites(s, w, h))]
  BY DEF ToNv12, LumaWrites, LumaWrite, ChromaWrites
<1>2. /\ w \in Nat /\ h \in Nat /\ w <= s.width /\ h <= s.height
      /\ w = 2 * (w \div 2) /\ h = 2 * (h \div 2)
  <2>1. s.width \in Nat /\ s.height \in Nat
    OBVIOUS
  <2> QED BY <2>1, Halves
<1> HIDE DEF w, h, p
<1>3. /\ p.width = w /\ p.height = h /\ p.stride = w
      /\ p.y = Plane(w * h, LumaWrites(s, w, h))
      /\ p.uv = Plane(w * (h \div 2), ChromaWrites(s, w, h))
  BY <1>1
<1>4. DOMAIN p.y = 0 .. w * h - 1 /\ DOMAIN p.uv = 0 .. w * (h \div 2) - 1
  BY <1>3 DEF Plane
<1>5. \A r \in 0 .. h - 1, c \in 0 .. w - 1 : p.y[r * w + c] = Luma(r, c)
  <2> TAKE r \in 0 .. h - 1, c \in 0 .. w - 1
  <2>1. Plane(w * h, LumaWrites(s, w, h))[r * w + c] = Luma(r, c)
    BY <1>2, LumaPlane
  <2> QED BY <2>1, <1>3
<1>6. \A r \in 0 .. h \div 2 - 1, c \in 0 .. w - 1 : p.uv[r * w + c] = Chroma(r, c)
  <2> TAKE r \in 0 .. h \div 2 - 1, c \in 0 .. w - 1
  <2>1. Plane(w * (h \div 2), ChromaWrites(s, w, h))[r * w + c] = Chroma(r, c)
    BY <1>2, ChromaPlane
  <2> QED BY <2>1, <1>3
<1>7. PictureIn(p, w, h, w)
  BY <1>4, <1>5, <1>6 DEF PictureIn
<1> QED BY <1>3, <1>7 DEF w, h, p

LEMMA ConvertStep ==
    ASSUME FramesInv, Convert PROVE FramesInv'
<1>1. FramesTypeOK /\ shot \in [width: Nat, height: Nat]
  BY FramesAssumption DEF FramesInv, FramesTypeOK, Size
<1>2. /\ stage' = "planes" /\ planes' = ToNv12(shot) /\ shot' = shot /\ target' = target /\ buffer' = buffer
  BY DEF Convert
<1>3. /\ planes'.width = Even(shot.width) /\ planes'.height = Even(shot.height)
      /\ planes'.stride = Even(shot.width)
      /\ PictureIn(planes', planes'.width, planes'.height, planes'.stride)
  BY <1>1, <1>2, ToNv12Holds
<1>4. PlanesOK'
  BY <1>3 DEF PlanesOK
<1>5. /\ planes'.width \in 0 .. MaxWidth /\ planes'.height \in 0 .. MaxHeight
      /\ planes'.stride \in Nat /\ planes'.width <= planes'.stride
  <2>1. shot.width \in 0 .. MaxWidth /\ shot.height \in 0 .. MaxHeight
    BY <1>1 DEF FramesTypeOK, Size
  <2>2. \A m \in Nat : \A n \in 0 .. m : Even(n) \in 0 .. m /\ Even(n) \in Nat /\ Even(n) <= Even(n)
    BY DEF Even
  <2> QED BY <2>1, <2>2, <1>3, FramesAssumption
<1>6. FramesTypeOK'
  BY <1>1, <1>2, <1>5 DEF FramesTypeOK
<1>7. PictureArrives' /\ PanicsOnlyWhenSmaller'
  BY <1>2 DEF PictureArrives, PanicsOnlyWhenSmaller
<1> QED BY <1>4, <1>6, <1>7 DEF FramesInv

\* A pixel's place in a plane of padded rows.
LEMMA PaddedPlace ==
    \A w, d, n \in Nat : w <= d =>
      \A r \in 0 .. n - 1, c \in 0 .. w - 1 :
        /\ r * d + c \in 0 .. d * n - 1
        /\ (r * d + c) \div d = r /\ (r * d + c) % d = c /\ c < w
<1> SUFFICES ASSUME NEW w \in Nat, NEW d \in Nat, NEW n \in Nat, w <= d,
                    NEW r \in 0 .. n - 1, NEW c \in 0 .. w - 1
             PROVE  /\ r * d + c \in 0 .. d * n - 1
                    /\ (r * d + c) \div d = r /\ (r * d + c) % d = c /\ c < w
  OBVIOUS
<1>1. r \in Nat /\ c \in Nat /\ r < n /\ c < d /\ c < w
  OBVIOUS
<1> QED BY <1>1, InPlane, Division

LEMMA DeliverStep ==
    ASSUME FramesInv, NEW padding \in Padding, Deliver(padding) PROVE FramesInv'
<1> DEFINE w == shot.width    h == shot.height    d == w + padding    g == h \div 2
<1>1. FramesTypeOK /\ w \in 0 .. MaxWidth /\ h \in 0 .. MaxHeight /\ padding \in Nat
  BY FramesAssumption DEF FramesInv, FramesTypeOK, Size
<1>2. /\ stage' = "planes" /\ target' = shot /\ shot' = shot /\ buffer' = buffer
      /\ planes' = [width |-> w, height |-> h, stride |-> d,
                    y  |-> [i \in 0 .. d * h - 1 |-> IF i % d < w THEN Luma(i \div d, i % d) ELSE Blank0],
                    uv |-> [i \in 0 .. d * g - 1 |-> IF i % d < w THEN Chroma(i \div d, i % d) ELSE Blank0]]
  BY DEF Deliver
<1>3. w \in Nat /\ h \in Nat /\ d \in Nat /\ g \in Nat /\ w <= d /\ g = h \div 2
  BY <1>1, FramesAssumption
<1> HIDE DEF w, h, d, g
<1>4. /\ planes'.width = w /\ planes'.height = h /\ planes'.stride = d
      /\ planes'.y = [i \in 0 .. d * h - 1 |-> IF i % d < w THEN Luma(i \div d, i % d) ELSE Blank0]
      /\ planes'.uv = [i \in 0 .. d * g - 1 |-> IF i % d < w THEN Chroma(i \div d, i % d) ELSE Blank0]
  BY <1>2
<1>5. DOMAIN planes'.y = 0 .. d * h - 1 /\ DOMAIN planes'.uv = 0 .. d * g - 1
  BY <1>4
<1>6. \A r \in 0 .. h - 1, c \in 0 .. w - 1 : planes'.y[r * d + c] = Luma(r, c)
  <2> TAKE r \in 0 .. h - 1, c \in 0 .. w - 1
  <2> DEFINE x == r * d + c    b == d * h - 1
  <2>1. x \in 0 .. b /\ x \div d = r /\ x % d = c /\ c < w
    BY <1>3, PaddedPlace
  <2>2. planes'.y = [i \in 0 .. b |-> IF i % d < w THEN Luma(i \div d, i % d) ELSE Blank0]
    BY <1>4
  <2> HIDE DEF x, b
  <2>3. planes'.y[x] = Luma(r, c)
    BY <2>1, <2>2
  <2> QED BY <2>3 DEF x
<1>7. \A r \in 0 .. g - 1, c \in 0 .. w - 1 : planes'.uv[r * d + c] = Chroma(r, c)
  <2> TAKE r \in 0 .. g - 1, c \in 0 .. w - 1
  <2> DEFINE x == r * d + c    b == d * g - 1
  <2>1. x \in 0 .. b /\ x \div d = r /\ x % d = c /\ c < w
    BY <1>3, PaddedPlace
  <2>2. planes'.uv = [i \in 0 .. b |-> IF i % d < w THEN Chroma(i \div d, i % d) ELSE Blank0]
    BY <1>4
  <2> HIDE DEF x, b
  <2>3. planes'.uv[x] = Chroma(r, c)
    BY <2>1, <2>2
  <2> QED BY <2>3 DEF x
<1>8. PlanesOK'
  <2>1. PictureIn(planes', w, h, d)
    BY <1>3, <1>5, <1>6, <1>7 DEF PictureIn
  <2> QED BY <2>1, <1>4 DEF PlanesOK
<1>9. FramesTypeOK'
  <2>1. shot \in Size /\ Size = [width: 0..MaxWidth, height: 0..MaxHeight]
    BY <1>1 DEF FramesTypeOK, Size
  <2> QED BY <2>1, <1>1, <1>2, <1>3, <1>4 DEF FramesTypeOK
<1>10. PictureArrives' /\ PanicsOnlyWhenSmaller'
  BY <1>2 DEF PictureArrives, PanicsOnlyWhenSmaller
<1> QED BY <1>8, <1>9, <1>10 DEF FramesInv

\* The length of a plane of n rows.
LEMMA PlaneLength ==
    \A d, n \in Nat : Cardinality(0 .. d * n - 1) = d * n
<1> SUFFICES ASSUME NEW d \in Nat, NEW n \in Nat PROVE Cardinality(0 .. d * n - 1) = d * n
  OBVIOUS
<1> DEFINE m == d * n
<1>1. m \in Nat
  OBVIOUS
<1> HIDE DEF m
<1>2. Cardinality(0 .. m - 1) = IF 0 > m - 1 THEN 0 ELSE (m - 1) - 0 + 1
  BY <1>1, FS_Interval
<1>3. Cardinality(0 .. m - 1) = m
  BY <1>1, <1>2
<1> QED BY <1>3 DEF m

\* A row that can be copied, and has a pixel, is a row of the plane.
LEMMA RowFits ==
    \A r, d, n, t \in Nat : t > 0 /\ r * d + t <= d * n => r < n
<1> SUFFICES ASSUME NEW r \in Nat, NEW d \in Nat, NEW n \in Nat, NEW t \in Nat,
                    t > 0, r * d + t <= d * n, ~(r < n)
             PROVE  FALSE
  OBVIOUS
<1> DEFINE e == r - n
<1>1. e \in Nat /\ r = n + e
  OBVIOUS
<1> HIDE DEF e
<1>2. r * d = n * d + e * d /\ n * d = d * n /\ e * d \in Nat /\ d * n \in Nat
  BY <1>1
<1> QED BY <1>2

\* A row of the plane can be copied as far as it goes.
LEMMA RowIsLong ==
    \A r, d, n, t \in Nat : r < n /\ t <= d => r * d + t <= d * n
<1> SUFFICES ASSUME NEW r \in Nat, NEW d \in Nat, NEW n \in Nat, NEW t \in Nat, r < n, t <= d
             PROVE  r * d + t <= d * n
  OBVIOUS
<1>1. r * d + d <= n * d /\ n * d = d * n /\ r * d \in Nat /\ d * n \in Nat
  BY RowsFollow
<1> QED BY <1>1

\* The sizes, as numbers.
LEMMA Sizes ==
    ASSUME FramesTypeOK
    PROVE  /\ target.width \in Nat /\ target.height \in Nat /\ target.height \div 2 \in Nat
           /\ planes.width \in Nat /\ planes.height \in Nat /\ planes.height \div 2 \in Nat
           /\ planes.stride \in Nat /\ planes.width <= planes.stride
BY FramesAssumption DEF FramesTypeOK

LEMMA CopyStep ==
    ASSUME FramesInv, Copy PROVE FramesInv'
<1> DEFINE d == planes.stride    w == planes.width    t == target.width
<1>1. FramesTypeOK /\ PlanesOK
  BY DEF FramesInv
<1>2. /\ stage = "planes" /\ stage' = "copied" /\ shot' = shot /\ planes' = planes /\ target' = target
      /\ buffer' = [y |-> Rows(planes.y, target.height), uv |-> Rows(planes.uv, target.height \div 2)]
      /\ Fits
  BY DEF Copy
<1>3. PictureIn(planes, w, planes.height, d)
  BY <1>1, <1>2 DEF PlanesOK
<1>4. /\ t \in Nat /\ target.height \in Nat /\ target.height \div 2 \in Nat
      /\ w \in Nat /\ d \in Nat /\ planes.height \in Nat /\ planes.height \div 2 \in Nat
  BY <1>1, Sizes
<1> HIDE DEF d, w, t
<1>5. \A p : \A rows \in Nat :
        /\ DOMAIN Rows(p, rows) = (0 .. rows - 1) \X (0 .. t - 1)
        /\ \A r \in 0 .. rows - 1, c \in 0 .. t - 1 : Rows(p, rows)[<<r, c>>] = p[r * d + c]
  BY DEF Rows, d, t
<1>6. /\ DOMAIN buffer'.y = (0 .. target.height - 1) \X (0 .. t - 1)
      /\ DOMAIN buffer'.uv = (0 .. target.height \div 2 - 1) \X (0 .. t - 1)
      /\ \A r \in 0 .. target.height - 1, c \in 0 .. t - 1 : buffer'.y[<<r, c>>] = planes.y[r * d + c]
      /\ \A r \in 0 .. target.height \div 2 - 1, c \in 0 .. t - 1 :
           buffer'.uv[<<r, c>>] = planes.uv[r * d + c]
  <2> DEFINE a == target.height    g == target.height \div 2    y == planes.y    uv == planes.uv
  <2>1. buffer'.y = Rows(y, a) /\ buffer'.uv = Rows(uv, g) /\ a \in Nat /\ g \in Nat
    BY <1>2, <1>4
  <2> HIDE DEF a, g, y, uv
  <2>2. /\ DOMAIN Rows(y, a) = (0 .. a - 1) \X (0 .. t - 1)
        /\ DOMAIN Rows(uv, g) = (0 .. g - 1) \X (0 .. t - 1)
        /\ \A r \in 0 .. a - 1, c \in 0 .. t - 1 : Rows(y, a)[<<r, c>>] = y[r * d + c]
        /\ \A r \in 0 .. g - 1, c \in 0 .. t - 1 : Rows(uv, g)[<<r, c>>] = uv[r * d + c]
    BY <1>5, <2>1
  <2> QED BY <2>1, <2>2 DEF a, g, y, uv
<1>7. FramesTypeOK'
  <2>1. \A m, n \in Nat : (0 .. m - 1) \X (0 .. n - 1) \subseteq Nat \X Nat
    OBVIOUS
  <2>2. DOMAIN buffer'.y \subseteq Nat \X Nat /\ DOMAIN buffer'.uv \subseteq Nat \X Nat
    BY <2>1, <1>4, <1>6
  <2> QED BY <2>2, <1>1, <1>2 DEF FramesTypeOK
<1>8. PlanesOK'
  BY <1>1, <1>2 DEF PlanesOK, PictureIn
<1>9. Cardinality(DOMAIN planes.y) = d * planes.height /\ Cardinality(DOMAIN planes.uv) = d * (planes.height \div 2)
  BY <1>3, <1>4, PlaneLength DEF PictureIn
<1>10. ASSUME t <= w, NEW r \in 0 .. target.height - 1, NEW c \in 0 .. t - 1
       PROVE  buffer'.y[<<r, c>>] = Luma(r, c)
  <2>1. r * d + t <= d * planes.height
    BY <1>2, <1>9 DEF Fits, RowIsThere, d, t
  <2>2. r \in Nat /\ t > 0 /\ c \in 0 .. w - 1
    BY <1>4, <1>10
  <2>3. r < planes.height
    BY <2>1, <2>2, <1>4, RowFits
  <2>4. r \in 0 .. planes.height - 1
    BY <2>2, <2>3, <1>4
  <2> QED BY <2>2, <2>4, <1>3, <1>6 DEF PictureIn
<1>11. ASSUME t <= w, NEW r \in 0 .. target.height \div 2 - 1, NEW c \in 0 .. t - 1
       PROVE  buffer'.uv[<<r, c>>] = Chroma(r, c)
  <2> DEFINE g == planes.height \div 2
  <2>1. r * d + t <= d * g
    BY <1>2, <1>9 DEF Fits, RowIsThere, d, t
  <2>2. r \in Nat /\ t > 0 /\ c \in 0 .. w - 1 /\ g \in Nat
    BY <1>4, <1>11
  <2> HIDE DEF g
  <2>3. r < g
    BY <2>1, <2>2, <1>4, RowFits
  <2>4. r \in 0 .. g - 1
    BY <2>2, <2>3
  <2> QED BY <2>2, <2>4, <1>3, <1>6 DEF PictureIn, g
<1>12. PictureArrives'
  <2>1. \A A, B : \A x \in A \X B : x[1] \in A /\ x[2] \in B /\ x = <<x[1], x[2]>>
    OBVIOUS
  <2>2. t <= w => /\ \A x \in DOMAIN buffer'.y : buffer'.y[x] = Luma(x[1], x[2])
                  /\ \A x \in DOMAIN buffer'.uv : buffer'.uv[x] = Chroma(x[1], x[2])
    BY <2>1, <1>6, <1>10, <1>11
  <2> QED BY <2>2, <1>2 DEF PictureArrives, t, w
<1>13. PanicsOnlyWhenSmaller'
  BY <1>2 DEF PanicsOnlyWhenSmaller
<1> QED BY <1>7, <1>8, <1>12, <1>13 DEF FramesInv

LEMMA PanicStep ==
    ASSUME FramesInv, Panic PROVE FramesInv'
<1> DEFINE d == planes.stride    h == planes.height    t == target.width
<1>1. FramesTypeOK /\ PlanesOK
  BY DEF FramesInv
<1>2. /\ stage = "planes" /\ stage' = "panicked" /\ shot' = shot /\ planes' = planes /\ target' = target
      /\ buffer' = buffer /\ ~Fits
  BY DEF Panic
<1>3. FramesTypeOK' /\ PlanesOK' /\ PictureArrives'
  BY <1>1, <1>2 DEF FramesTypeOK, PlanesOK, PictureIn, PictureArrives
<1>4. /\ t \in Nat /\ target.height \in Nat /\ h \in Nat /\ h \div 2 \in Nat /\ d \in Nat
      /\ planes.width \in Nat /\ planes.width <= d
  BY <1>1, Sizes
<1>5. PictureIn(planes, planes.width, h, d)
  BY <1>1, <1>2 DEF PlanesOK
<1>6. Cardinality(DOMAIN planes.y) = d * h /\ Cardinality(DOMAIN planes.uv) = d * (h \div 2)
  BY <1>4, <1>5, PlaneLength DEF PictureIn
<1>7. ASSUME t <= planes.width, target.height <= h PROVE Fits
  <2>1. t <= d
    BY <1>4, <1>7
  <2>2. ASSUME NEW r \in 0 .. target.height - 1 PROVE r * d + t <= d * h
    <3>1. r \in Nat /\ r < h
      BY <1>4, <1>7
    <3> HIDE DEF d, h, t
    <3> QED BY <3>1, <2>1, <1>4, RowIsLong
  <2>3. ASSUME NEW r \in 0 .. target.height \div 2 - 1 PROVE r * d + t <= d * (h \div 2)
    <3> DEFINE g == h \div 2
    <3>1. r \in Nat /\ r < g /\ g \in Nat
      BY <1>4, <1>7
    <3> HIDE DEF d, h, t, g
    <3>2. r * d + t <= d * g
      BY <3>1, <2>1, <1>4, RowIsLong
    <3> QED BY <3>2 DEF g
  <2> QED BY <2>2, <2>3, <1>6 DEF Fits, RowIsThere
<1>8. planes.width < t \/ h < target.height
  BY <1>2, <1>4, <1>7
<1>9. PanicsOnlyWhenSmaller'
  BY <1>2, <1>8 DEF PanicsOnlyWhenSmaller
<1> QED BY <1>3, <1>9 DEF FramesInv

LEMMA FramesStart == FramesInit => FramesInv
<1> SUFFICES ASSUME FramesInit PROVE FramesInv
  OBVIOUS
<1>1. \A s \in Size : EvenSize(s) \in [width: 0..MaxWidth, height: 0..MaxHeight]
  <2>1. \A m \in Nat : \A n \in 0 .. m : Even(n) \in 0 .. m
    BY DEF Even
  <2> QED BY <2>1, FramesAssumption DEF Size, EvenSize
<1>2. target \in [width: 0..MaxWidth, height: 0..MaxHeight]
  BY <1>1 DEF FramesInit
<1>3. /\ planes.width = 0 /\ planes.height = 0 /\ planes.stride = 0
      /\ buffer.y = <<>> /\ buffer.uv = <<>> /\ stage = "shot" /\ shot \in Size
  BY DEF FramesInit
<1>4. FramesTypeOK
  BY <1>2, <1>3, FramesAssumption DEF FramesTypeOK
<1> QED BY <1>3, <1>4 DEF FramesInv, PlanesOK, PictureArrives, PanicsOnlyWhenSmaller

\* The planes hold the picture in rows of their stride, whatever the frame's size and
\* the padding, so that what is copied row by row is the picture.
THEOREM SpecFramesInv == FramesSpec => []FramesInv
<1>1. FramesInit => FramesInv
  BY FramesStart
<1>2. FramesInv /\ [FramesNext]_frameVars => FramesInv'
  <2> SUFFICES ASSUME FramesInv, [FramesNext]_frameVars PROVE FramesInv'
    OBVIOUS
  <2>1. CASE UNCHANGED frameVars
    BY <2>1 DEF frameVars, FramesInv, FramesTypeOK, PlanesOK, PictureIn, PictureArrives,
                PanicsOnlyWhenSmaller
  <2> QED BY <2>1, ConvertStep, DeliverStep, CopyStep, PanicStep DEF FramesNext
<1> QED BY <1>1, <1>2, PTL DEF FramesSpec

\* bgra_to_nv12 and copy_plane give the encoder the picture, byte by byte, for every
\* size of the frame and of the buffer and every padding of macOS's rows.
THEOREM SpecPictureArrives == FramesSpec => []PictureArrives
<1>1. FramesInv => PictureArrives
  BY DEF FramesInv
<1> QED BY <1>1, SpecFramesInv, PTL

\* The slices of copy_plane are out of bounds only for a frame that is smaller than the
\* first one.
THEOREM SpecPanicsOnlyWhenSmaller == FramesSpec => []PanicsOnlyWhenSmaller
<1>1. FramesInv => PanicsOnlyWhenSmaller
  BY DEF FramesInv
<1> QED BY <1>1, SpecFramesInv, PTL

-----------------------------------------------------------------------------
(* All of them together.                                                    *)

\* The registry's calls with the sightings that are tried are some of all its calls.
LEMMA SomeCalls == Spec => Calls!Spec
<1>1. Init => Calls!Init
  BY DEF Init, Calls!Init
<1>2. [Next]_entries => [Calls!Next]_entries
  <2> SUFFICES ASSUME Next PROVE Calls!Next
    OBVIOUS
  <2>1. CASE Expire \/ Tick
    BY <2>1 DEF Expire, Calls!Expire, Expired, Calls!Expired, Tick, Calls!Tick, Older, Calls!Older,
                Calls!Next
  <2>2. ASSUME NEW a \in Address, NEW o \in Sighting, See(a, o) PROVE Calls!Next
    <3>1. o \in Observation
      BY SightingAssumption
    <3>2. Calls!See(a, o)
      BY <2>2 DEF See, Calls!See, Observe, Calls!Observe, Tracked, Calls!Tracked, Merge,
                  Calls!Merge, NewEntry, Calls!NewEntry, Field, Calls!Field, None, Calls!None
    <3> QED BY <3>1, <3>2 DEF Calls!Next, Observation, Calls!Observation
  <2> QED BY <2>1, <2>2 DEF Next
<1> QED BY <1>1, <1>2, PTL DEF Spec, Calls!Spec

\* A behaviour of the parts is one of each part: the others leave its variables alone.
LEMMA PartsAreApart ==
    PartsSpec => /\ Spec /\ MuxSpec /\ MediaSpec /\ RtspSpec /\ DescSpec
                 /\ SessionSpec /\ FramesSpec
<1>1. PartsInit => Init /\ MuxInit /\ MediaInit /\ RtspInit /\ DescInit /\ SessionInit /\ FramesInit
  BY DEF PartsInit
<1>2. [PartsNext]_<<part, Rest>> =>
        /\ [Next]_entries /\ [MuxNext]_muxVars /\ [MediaNext]_mediaVars /\ [RtspNext]_rtspVars
        /\ [DescNext]_descVars /\ [SessionNext]_sessionVars /\ [FramesNext]_frameVars
  BY DEF PartsNext, Rest
<1> QED BY <1>1, <1>2, PTL
        DEF PartsSpec, Spec, MuxSpec, MediaSpec, RtspSpec, DescSpec, SessionSpec, FramesSpec

\* Put together, the parts keep their types and their inductive invariants.
THEOREM SpecPartsInv == PartsSpec => []PartsInv
<1>1. EntriesOK => TypeOK
  BY DEF TypeOK
<1>2. TypeOK /\ MuxInv /\ MediaInv /\ RtspInv /\ DescInv /\ SessionInv /\ FramesInv => PartsInv
  BY DEF PartsInv
<1> QED BY <1>1, <1>2, PartsAreApart, SomeCalls, CallsEntriesOK, SpecMuxInv, SpecMediaInv,
           SpecRtspInv, SpecDescInv, SpecSessionInv, SpecFramesInv, PTL

=============================================================================
