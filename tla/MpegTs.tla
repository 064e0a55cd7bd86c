------------------------------- MODULE MpegTs -------------------------------
(***************************************************************************)
(* The MPEG-TS muxer of hc-net: access units cut into packets of 188       *)
(* bytes, with continuity counters, adaptation fields, time stamps and     *)
(* tables.  A call is one output, which becomes one chunk of the live      *)
(* stream; a renderer gets the whole chunk or, when it lags, none of it.   *)
(* Payload bytes are offsets into a unit's PES packet; a time stamp or a   *)
(* byte is the set of its bits that are 1.                                 *)
(***************************************************************************)
EXTENDS Integers, Sequences

CONSTANTS
    Unit,        \* bound: the units that are tried, by length and time stamp
    MaxUnits     \* bound: how many are muxed

AccessUnit == [length: Nat, stamp: SUBSET (0..63)]

ASSUME MpegTsAssumption == Unit \subseteq AccessUnit /\ MaxUnits \in Nat

Es   == {"video", "audio"}
Pid  == {"pat", "pmt"} \cup Es
Unset == -1

VARIABLES
    cc,          \* the muxer's continuity counter of each PID
    step,        \* where the call is: "idle", "pat", "pmt", "pes"
    call,        \* its unit, PID, PES size, next offset, and whether it gets lost
    units,       \* calls so far, which number the units
    pkt,         \* the packet written last
    sent,        \* history: the counter of the last packet of each PID
    rx           \* the renderer's demultiplexer

muxVars == <<cc, step, call, units, pkt, sent, rx>>

Call == [unit: Nat, pid: Es, key: BOOLEAN, stamp: SUBSET (0..63), size: Nat,
         offset: Nat, lost: BOOLEAN]

-----------------------------------------------------------------------------
(* Headers.                                                                 *)

\* n bits of a number, from bit lo, moved to bit at of a byte; and back again.
Bits(x, lo, n, at) == {b - lo + at : b \in x \cap (lo .. lo + n - 1)}

\* Mutant of EncodeTimestamp: bit 22 is cut off.
EncodeTimestampShifted(ts) ==
    << {0, 5} \cup Bits(ts, 30, 3, 1), Bits(ts, 23, 7, 1), {0} \cup Bits(ts, 15, 7, 1),
       Bits(ts, 7, 8, 0), {0} \cup Bits(ts, 0, 7, 1) >>

EncodeTimestamp(ts) ==
    << {0, 5} \cup Bits(ts, 30, 3, 1), Bits(ts, 22, 8, 0), {0} \cup Bits(ts, 15, 7, 1),
       Bits(ts, 7, 8, 0), {0} \cup Bits(ts, 0, 7, 1) >>

EncodePcr(base) ==
    << Bits(base, 25, 8, 0), Bits(base, 17, 8, 0), Bits(base, 9, 8, 0),
       Bits(base, 1, 8, 0), (1..6) \cup Bits(base, 0, 1, 7), {} >>

\* How a renderer reads them back.
DecodeTimestamp(f) ==
    Bits(f[1], 1, 3, 30) \cup Bits(f[2], 0, 8, 22) \cup Bits(f[3], 1, 7, 15)
    \cup Bits(f[4], 0, 8, 7) \cup Bits(f[5], 1, 7, 0)
DecodePcr(f) ==
    Bits(f[1], 0, 8, 25) \cup Bits(f[2], 0, 8, 17) \cup Bits(f[3], 0, 8, 9)
    \cup Bits(f[4], 0, 8, 1) \cup Bits(f[5], 7, 1, 0)

\* A PES header is 6 bytes and 8 more that the length field counts.
PesSize(n)     == 14 + n
LengthField(n) == IF 8 + n < 2 ^ 16 THEN 8 + n ELSE 0

NoHeader == [length |-> Unset, pts |-> <<>>]
PesHeader(c) ==
    IF c.offset = 0
    THEN [length |-> LengthField(c.size - 14), pts |-> EncodeTimestamp(c.stamp)]
    ELSE NoHeader

-----------------------------------------------------------------------------
(* The renderer: what it has of the unit it is receiving on each stream.     *)

NoUnit == [unit |-> 0, upto |-> 0, size |-> 0]

\* ISO 13818-1: tables first; a unit starts with the unit start flag and goes on
\* while the counter does.
Demux(r, p, c) ==
    LET follows == r.last[p.pid] # Unset /\ p.cc = (r.last[p.pid] + 1) % 16
        mine    == p.pid \in Es /\ r.tables
        append  == mine /\ ~p.pusi /\ follows
        open    == IF mine THEN r.asm[p.pid] ELSE NoUnit
    IN [last   |-> [r.last EXCEPT ![p.pid] = p.cc],
        pat    |-> r.pat \/ p.pid = "pat",
        tables |-> r.tables \/ (p.pid = "pmt" /\ r.pat),
        asm    |-> IF mine /\ p.pusi
                   THEN [r.asm EXCEPT ![p.pid] =
                           [unit |-> c.unit, upto |-> p.to, size |-> c.size]]
                   ELSE IF append THEN [r.asm EXCEPT ![p.pid].upto = p.to] ELSE r.asm,
        broken |-> \/ r.broken
                   \/ mine /\ p.pusi /\ open.upto # open.size
                   \/ append /\ <<open.unit, open.upto>> # <<c.unit, p.from>>,
        joined |-> IF mine /\ p.pid = "video" /\ r.joined = "no"
                   THEN IF c.key THEN "key" ELSE "other" ELSE r.joined]

-----------------------------------------------------------------------------
(* The muxer.                                                               *)

\* Mutant of TakeCc: the counter of the tables stands still.
TakeCcOfMedia(pid) ==
    cc' = IF pid \in Es THEN [cc EXCEPT ![pid] = (@ + 1) % 16] ELSE cc

TakeCc(pid) == cc' = [cc EXCEPT ![pid] = (@ + 1) % 16]

Write(p) ==
    /\ pkt' = p
    /\ TakeCc(p.pid) /\ sent' = [sent EXCEPT ![p.pid] = p.cc]
    /\ rx' = IF call.lost THEN rx ELSE Demux(rx, p, call)

\* Mutant of Push: the tables come before every picture.
PushTables(pid, u, key, lost) ==
    /\ step = "idle" /\ units < MaxUnits
    /\ pid = "audio" => ~key
    /\ units' = units + 1
    /\ call' = [unit |-> units + 1, pid |-> pid, key |-> key, stamp |-> u.stamp,
                size |-> PesSize(u.length), offset |-> 0, lost |-> lost]
    /\ step' = IF pid = "video" THEN "pat" ELSE "pes"
    /\ UNCHANGED <<cc, pkt, sent, rx>>

\* A call.  The tables come before a key frame; audio has none.
Push(pid, u, key, lost) ==
    /\ step = "idle" /\ units < MaxUnits
    /\ pid = "audio" => ~key
    /\ units' = units + 1
    /\ call' = [unit |-> units + 1, pid |-> pid, key |-> key, stamp |-> u.stamp,
                size |-> PesSize(u.length), offset |-> 0, lost |-> lost]
    /\ step' = IF key THEN "pat" ELSE "pes"
    /\ UNCHANGED <<cc, pkt, sent, rx>>

\* Mutant of Psi: the program map is sent before what points to it.
PsiSwapped ==
    /\ step \in {"pat", "pmt"}
    /\ step' = IF step = "pat" THEN "pmt" ELSE "pes"
    /\ Write([pid |-> IF step = "pat" THEN "pmt" ELSE "pat", pusi |-> TRUE,
              cc |-> cc[IF step = "pat" THEN "pmt" ELSE "pat"], af |-> Unset,
              pcr |-> <<>>, header |-> NoHeader, bytes |-> 188, from |-> 0, to |-> 184])
    /\ UNCHANGED <<call, units>>

\* A packet with a table, which fits and is padded with 0xFF.
Psi ==
    /\ step \in {"pat", "pmt"}
    /\ step' = IF step = "pat" THEN "pmt" ELSE "pes"
    /\ Write([pid |-> step, pusi |-> TRUE, cc |-> cc[step], af |-> Unset, pcr |-> <<>>,
              header |-> NoHeader, bytes |-> 188, from |-> 0, to |-> 184])
    /\ UNCHANGED <<call, units>>

Remaining == call.size - call.offset
NeedPcr   == call.offset = 0 /\ call.pid = "video"
Full      == ~NeedPcr /\ Remaining >= 184

\* Mutant of Take: the flags byte is forgotten.
TakeTooMuch ==
    LET room == IF NeedPcr THEN 177 ELSE 183
    IN IF Remaining < room THEN Remaining ELSE room

\* What fits beside the adaptation field.
Take ==
    LET room == IF NeedPcr THEN 176 ELSE 182
    IN IF Remaining < room THEN Remaining ELSE room

Carry(n, af, bytes) ==
    /\ Write([pid |-> call.pid, pusi |-> call.offset = 0, cc |-> cc[call.pid],
              af |-> af, pcr |-> IF NeedPcr THEN EncodePcr(call.stamp) ELSE <<>>,
              header |-> PesHeader(call), bytes |-> bytes,
              from |-> call.offset, to |-> call.offset + n])
    /\ call' = [call EXCEPT !.offset = @ + n]
    /\ UNCHANGED <<step, units>>

FullPacket ==
    /\ step = "pes" /\ call.offset < call.size /\ Full
    /\ Carry(184, Unset, 4 + 184)

\* Header, length, flags and PCR, then stuffing up to where the payload begins.
AdaptedPacket ==
    /\ step = "pes" /\ call.offset < call.size /\ ~Full
    /\ LET fixed == IF NeedPcr THEN 12 ELSE 6
           start == IF fixed < 188 - Take THEN 188 - Take ELSE fixed
       IN Carry(Take, 183 - Take, start + Take)

\* Mutant of Return: the loop ends when less than a packet is left.
ReturnEarly ==
    /\ step = "pes" /\ call.offset + 1 >= call.size
    /\ step' = "idle"
    /\ UNCHANGED <<cc, call, units, pkt, sent, rx>>

Return ==
    /\ step = "pes" /\ call.offset >= call.size
    /\ step' = "idle"
    /\ UNCHANGED <<cc, call, units, pkt, sent, rx>>

MuxInit ==
    /\ cc = [p \in Pid |-> 0] /\ step = "idle" /\ units = 0
    /\ call = [unit |-> 0, pid |-> "video", key |-> FALSE, stamp |-> {}, size |-> 14,
               offset |-> 14, lost |-> FALSE]
    /\ pkt = [pid |-> "none"] /\ sent = [p \in Pid |-> Unset]
    /\ rx = [last |-> [p \in Pid |-> Unset], pat |-> FALSE, tables |-> FALSE,
             asm |-> [e \in Es |-> NoUnit], broken |-> FALSE, joined |-> "no"]

MuxNext ==
    \/ \E pid \in Es, u \in Unit, key, lost \in BOOLEAN : Push(pid, u, key, lost)
    \/ Psi \/ FullPacket \/ AdaptedPacket \/ Return

MuxSpec == MuxInit /\ [][MuxNext]_muxVars

-----------------------------------------------------------------------------
(* Properties.                                                              *)

Counter == (0..15) \cup {Unset}

Receiver == [last: [Pid -> Counter], pat: BOOLEAN, tables: BOOLEAN,
             asm: [Es -> [unit: Nat, upto: Nat, size: Nat]], broken: BOOLEAN,
             joined: {"no", "key", "other"}]

MuxTypeOK ==
    /\ cc \in [Pid -> 0..15] /\ sent \in [Pid -> Counter]
    /\ step \in {"idle", "pat", "pmt", "pes"}
    /\ units \in Nat /\ call \in Call
    /\ rx \in Receiver

\* A call that goes on is the newest, within its unit, and at its start as long as
\* tables are to come; one that is over has written everything.
CallOK ==
    /\ call.unit = units /\ call.size >= 14 /\ call.offset <= call.size
    /\ step \in {"pat", "pmt"} => call.key /\ call.offset = 0
    /\ step = "idle" => call.offset = call.size
    /\ call.key => call.pid = "video"

\* The next counter follows the last one sent.
CountersOK == \A p \in Pid : cc[p] = IF sent[p] = Unset THEN 0 ELSE (sent[p] + 1) % 16

\* Between calls the renderer holds whole units; during one that reaches it, what
\* the call has written of its unit, unless it waits for tables.
InFlight(e) == step # "idle" /\ ~call.lost /\ e = call.pid /\ call.offset > 0

ReceivedOK ==
    /\ ~rx.broken /\ rx.joined # "other"
    /\ rx.tables => rx.pat
    /\ step = "pmt" /\ ~call.lost => rx.pat
    /\ step = "pes" /\ ~call.lost /\ call.key => rx.tables
    /\ rx.tables /\ rx.joined = "no"
         => step = "pes" /\ ~call.lost /\ call.key /\ call.offset = 0
    /\ \A e \in Es :
         IF InFlight(e) /\ rx.tables
         THEN /\ rx.asm[e] = [unit |-> call.unit, upto |-> call.offset, size |-> call.size]
              /\ rx.last[e] = sent[e] /\ sent[e] # Unset
         ELSE rx.asm[e].upto = rx.asm[e].size

\* What the proofs need to know of every state.
MuxInv == MuxTypeOK /\ CallOK /\ CountersOK /\ ReceivedOK

\* The presentation time and the clock reference of a unit are its 90 kHz time
\* stamp modulo 2^33, and a length field that is not 0 is the length.
HeadersAreTrue ==
    call.offset > 0 =>
        /\ pkt.header # NoHeader =>
             /\ DecodeTimestamp(pkt.header.pts) = call.stamp \cap 0..32
             /\ pkt.header.length \in {0, call.size - 6}
        /\ pkt.pcr # <<>> => DecodePcr(pkt.pcr) = call.stamp \cap 0..32

\* "Returns whole 188-byte TS packets": what is written is 188 bytes, and a
\* renderer that reads the adaptation field by its length finds the payload,
\* with the flags and the PCR inside the field, and true headers.
PacketsWellFormed ==
    pkt.pid # "none" =>
        /\ pkt.bytes = 188
        /\ 4 + (pkt.to - pkt.from) + (IF pkt.af = Unset THEN 0 ELSE 1 + pkt.af) = 188
        /\ pkt.pcr # <<>> => pkt.af >= 7
        /\ HeadersAreTrue

\* No counter is skipped or repeated, across units and however streams alternate.
CountersContinue ==
    [][pkt' # pkt => \/ sent[pkt'.pid] = Unset
                     \/ pkt'.cc = (sent[pkt'.pid] + 1) % 16]_muxVars

\* A renderer that gets some chunks and not others never joins pieces of two
\* units, and never has to give up a unit it began: a lagging connection loses
\* whole units, also when 16 packets are lost, which counters do not show.
UnitsArriveWhole ==
    ~rx.broken /\ (step = "idle" => \A e \in Es : rx.asm[e].upto = rx.asm[e].size)

\* "A renderer can join the stream at any keyframe": the first picture after the
\* tables is a key frame, wherever the renderer comes in and whatever it misses.
JoinsAtKeyframe == rx.joined # "other"

=============================================================================
