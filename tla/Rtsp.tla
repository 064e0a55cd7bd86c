-------------------------------- MODULE Rtsp --------------------------------
(***************************************************************************)
(* hc-net's RTSP client connection: requests numbered by CSeq, one at a    *)
(* time, over a byte stream that delivers responses in pieces.  The caller *)
(* may drop a request's future at any await (a timeout, a select); the     *)
(* receiver may answer late, send something malformed, or close.  A        *)
(* response is a start line, a blank line and Content-Length pieces.       *)
(***************************************************************************)
EXTENDS Integers, SequencesExt

CONSTANTS
    MaxRequests,  \* bound: requests
    MaxBody       \* bound: pieces of a response's body

ASSUME RtspAssumption == MaxRequests \in Nat /\ MaxBody \in Nat

VARIABLES
    cseq,         \* the last CSeq used
    client,       \* "idle", "writing", "waiting"
    outbound,     \* requests on their way: CSeq, and whether all of it was written
    inbound,      \* pieces of responses on their way
    buf,          \* pieces read and not consumed
    connected,    \* the receiver has not closed
    replied,      \* history: the number of requests that the receiver answered
    returned,     \* history: how the last request that is over ended
    newest,       \* history: the newest request whose answer was returned
    dropped       \* history: some request was dropped before its answer came

rtspVars == <<cseq, client, outbound, inbound, buf, connected, replied, returned,
              newest, dropped>>

Start(n, k)  == [piece |-> "start", of |-> n, length |-> k]
Garbage      == [piece |-> "garbage", of |-> 0, length |-> 0]
Blank        == [piece |-> "blank", of |-> 0, length |-> 0]
Part(n)      == [piece |-> "body", of |-> n, length |-> 0]
Body(n, k)     == [i \in 1..k |-> Part(n)]
Response(n, k) == <<Start(n, k), Blank>> \o Body(n, k)

-----------------------------------------------------------------------------
(* The parser.                                                              *)

Incomplete   == [is |-> "incomplete", of |-> 0, used |-> 0, body |-> <<>>]
Malformed    == [is |-> "malformed", of |-> 0, used |-> 0, body |-> <<>>]
Parsed(n, u, b) == [is |-> "parsed", of |-> n, used |-> u, body |-> b]

\* Mutant of Parse: the end of the body is one short.
ParseShort(b) ==
    LET blanks == {i \in DOMAIN b : b[i] = Blank}
        end    == CHOOSE i \in blanks : \A j \in blanks : i <= j
    IN IF blanks = {} THEN Incomplete
       ELSE IF end # 2 \/ b[1].piece # "start" THEN Malformed
       ELSE IF Len(b) <= end + b[1].length THEN Incomplete
       ELSE Parsed(b[1].of, end + b[1].length, SubSeq(b, end + 1, end + b[1].length))

\* Mutant of Parse: the body is what has arrived of it.
ParseEager(b) ==
    LET blanks == {i \in DOMAIN b : b[i] = Blank}
        end    == CHOOSE i \in blanks : \A j \in blanks : i <= j
    IN IF blanks = {} THEN Incomplete
       ELSE IF end # 2 \/ b[1].piece # "start" THEN Malformed
       ELSE LET last == IF Len(b) < end + b[1].length THEN Len(b) ELSE end + b[1].length
            IN Parsed(b[1].of, last, SubSeq(b, end + 1, last))

\* The head ends at the first blank line; it has to be one start line.
Parse(b) ==
    LET blanks == {i \in DOMAIN b : b[i] = Blank}
        end    == CHOOSE i \in blanks : \A j \in blanks : i <= j
    IN IF blanks = {} THEN Incomplete
       ELSE IF end # 2 \/ b[1].piece # "start" THEN Malformed
       ELSE IF Len(b) < end + b[1].length THEN Incomplete
       ELSE Parsed(b[1].of, end + b[1].length, SubSeq(b, end + 1, end + b[1].length))

-----------------------------------------------------------------------------
(* The client.                                                              *)

RtspInit ==
    /\ cseq = 0 /\ client = "idle"
    /\ outbound = <<>> /\ inbound = <<>> /\ buf = <<>>
    /\ connected = TRUE /\ replied = 0 /\ newest = 0 /\ dropped = FALSE
    /\ returned = [how |-> "none", of |-> 0, body |-> <<>>, whole |-> TRUE]

Ends(how, p, whole) ==
    returned' = [how |-> how, of |-> p.of, body |-> p.body, whole |-> whole]

\* Mutant of Send: CSeq is counted from 0.
SendFromZero ==
    /\ client = "idle" /\ cseq < MaxRequests
    /\ cseq' = cseq /\ client' = "writing"
    /\ UNCHANGED <<outbound, inbound, buf, connected, replied, returned, newest, dropped>>

Send ==
    /\ client = "idle" /\ cseq < MaxRequests
    /\ cseq' = cseq + 1 /\ client' = "writing"
    /\ UNCHANGED <<outbound, inbound, buf, connected, replied, returned, newest, dropped>>

\* The bytes are handed over, which a receiver that has just closed may not read.
Written ==
    /\ client = "writing"
    /\ client' = "waiting" /\ outbound' = Append(outbound, [seq |-> cseq, whole |-> TRUE])
    /\ UNCHANGED <<cseq, inbound, buf, connected, replied, returned, newest, dropped>>

\* A write to a connection that the receiver closed.
WriteFails ==
    /\ client = "writing" /\ ~connected
    /\ client' = "idle" /\ Ends("error", Incomplete, TRUE)
    /\ UNCHANGED <<cseq, outbound, inbound, buf, connected, replied, newest, dropped>>

\* The caller drops the future: before, in the middle of or after the write.
DropWhileWriting(some) ==
    /\ client = "writing"
    /\ client' = "idle" /\ dropped' = TRUE
    /\ outbound' = IF some THEN Append(outbound, [seq |-> cseq, whole |-> FALSE])
                   ELSE outbound
    /\ UNCHANGED <<cseq, inbound, buf, connected, replied, returned, newest>>

DropWhileWaiting ==
    /\ client = "waiting"
    /\ client' = "idle" /\ dropped' = TRUE
    /\ UNCHANGED <<cseq, outbound, inbound, buf, connected, replied, returned, newest>>

\* Mutant of TakeResponse: the response stays in the buffer.
TakeResponseKeeping ==
    LET p == Parse(buf) IN
    /\ client = "waiting" /\ p.is = "parsed"
    /\ buf' = buf
    /\ client' = "idle" /\ newest' = p.of
    /\ Ends("answer", p, p.body = Body(p.of, buf[1].length))
    /\ UNCHANGED <<cseq, outbound, inbound, connected, replied, dropped>>

\* A response at the front of the buffer is consumed and returned.
TakeResponse ==
    LET p == Parse(buf) IN
    /\ client = "waiting" /\ p.is = "parsed"
    /\ buf' = SubSeq(buf, p.used + 1, Len(buf))
    /\ client' = "idle" /\ newest' = p.of
    /\ Ends("answer", p, p.body = Body(p.of, buf[1].length))
    /\ UNCHANGED <<cseq, outbound, inbound, connected, replied, dropped>>

\* Mutant of ParseFails: what could not be parsed is thrown away.
ParseFailsAndClears ==
    /\ client = "waiting" /\ Parse(buf).is = "malformed"
    /\ client' = "idle" /\ Ends("error", Incomplete, TRUE) /\ buf' = <<>>
    /\ UNCHANGED <<cseq, outbound, inbound, connected, replied, newest, dropped>>

ParseFails ==
    /\ client = "waiting" /\ Parse(buf).is = "malformed"
    /\ client' = "idle" /\ Ends("error", Incomplete, TRUE)
    /\ UNCHANGED <<cseq, outbound, inbound, buf, connected, replied, newest, dropped>>

ReadSome(n) ==
    /\ client = "waiting" /\ Parse(buf).is = "incomplete"
    /\ n \in 1..Len(inbound)
    /\ buf' = buf \o SubSeq(inbound, 1, n) /\ inbound' = SubSeq(inbound, n + 1, Len(inbound))
    /\ UNCHANGED <<cseq, client, outbound, connected, replied, returned, newest, dropped>>

ReadEof ==
    /\ client = "waiting" /\ Parse(buf).is = "incomplete"
    /\ inbound = <<>> /\ ~connected
    /\ client' = "idle" /\ Ends("error", Incomplete, TRUE)
    /\ UNCHANGED <<cseq, outbound, inbound, buf, connected, replied, newest, dropped>>

-----------------------------------------------------------------------------
(* The receiver.                                                            *)

\* It answers requests in order; what was cut off swallows the next request.
Reply(k) ==
    /\ connected /\ outbound # <<>> /\ Head(outbound).whole
    /\ inbound' = inbound \o Response(Head(outbound).seq, k)
    /\ outbound' = Tail(outbound) /\ replied' = replied + 1
    /\ UNCHANGED <<cseq, client, buf, connected, returned, newest, dropped>>

ReplyGarbage ==
    /\ connected /\ outbound # <<>>
    /\ inbound' = inbound \o <<Garbage, Blank>>
    /\ outbound' = Tail(outbound) /\ replied' = replied + 1
    /\ UNCHANGED <<cseq, client, buf, connected, returned, newest, dropped>>

Misread ==
    /\ connected /\ Len(outbound) > 1 /\ ~Head(outbound).whole
    /\ outbound' = Tail(Tail(outbound))
    /\ UNCHANGED <<cseq, client, inbound, buf, connected, replied, returned, newest, dropped>>

Close ==
    /\ connected /\ connected' = FALSE
    /\ UNCHANGED <<cseq, client, outbound, inbound, buf, replied, returned, newest, dropped>>

RtspNext ==
    \/ Send \/ Written \/ WriteFails \/ DropWhileWaiting
    \/ \E some \in BOOLEAN : DropWhileWriting(some)
    \/ TakeResponse \/ ParseFails \/ ReadEof
    \/ \E n \in 1..Len(inbound) : ReadSome(n)
    \/ \E k \in 0..MaxBody : Reply(k)
    \/ ReplyGarbage \/ Misread \/ Close

RtspSpec == RtspInit /\ [][RtspNext]_rtspVars

-----------------------------------------------------------------------------
(* Properties.                                                              *)

Piece == [piece: {"start", "garbage", "blank", "body"}, of: 0..MaxRequests, length: Nat]

RtspTypeOK ==
    /\ cseq \in 0..MaxRequests /\ client \in {"idle", "writing", "waiting"}
    /\ outbound \in Seq([seq: 1..MaxRequests, whole: BOOLEAN])
    /\ inbound \in Seq(Piece) /\ buf \in Seq(Piece)
    /\ connected \in BOOLEAN /\ dropped \in BOOLEAN
    /\ replied \in 0..cseq /\ newest \in 0..cseq
    /\ returned \in [how: {"none", "answer", "error"}, of: 0..MaxRequests,
                     body: Seq(Piece), whole: BOOLEAN]

\* All that the receiver sent and the client did not consume.
Stream == buf \o inbound

\* Where its responses begin, the malformed ones included.
Begins == {i \in DOMAIN Stream : Stream[i].piece \in {"start", "garbage"}}

\* Responses follow one another, each of them whole.
StreamOK ==
    /\ Stream # <<>> => 1 \in Begins
    /\ \A i \in Begins :
         /\ i + 1 + Stream[i].length <= Len(Stream) /\ Stream[i + 1] = Blank
         /\ \A j \in 1 .. Stream[i].length : Stream[i + 1 + j] = Part(Stream[i].of)
         /\ i + 2 + Stream[i].length \in Begins \cup {Len(Stream) + 1}
         /\ Stream[i].piece = "garbage" => Stream[i].length = 0

Starts == {i \in Begins : Stream[i].piece = "start"}

\* The last request whose bytes were handed over, if any of them were.
Sent == IF client = "writing" THEN cseq - 1 ELSE cseq

\* Answers that were returned, responses on their way and requests are in order of CSeq.
OrderOK ==
    /\ newest <= Sent
    /\ \A i \in Starts : newest < Stream[i].of /\ Stream[i].of <= Sent
    /\ \A i, j \in Starts : i < j => Stream[i].of < Stream[j].of
    /\ \A m \in DOMAIN outbound :
         /\ newest < outbound[m].seq /\ outbound[m].seq <= Sent
         /\ \A i \in Starts : Stream[i].of < outbound[m].seq
         /\ \A n \in DOMAIN outbound : m < n => outbound[m].seq < outbound[n].seq
    /\ client = "waiting" /\ outbound # <<>> => outbound[Len(outbound)].seq = cseq

\* The requests sent of which the receiver has not answered any.
Pending == Sent - replied

\* As long as no request was dropped there is at most one answer on its way, the one
\* to the request that waits, unless the stream can no longer be parsed.
RequestOK ==
    /\ Len(outbound) <= Pending
    /\ ~dropped =>
         /\ \A m \in DOMAIN outbound : outbound[m].whole
         /\ Stream = <<>> =>
              /\ client = "idle" \/ replied < cseq
              /\ connected => Len(outbound) = Pending /\ Pending = IF client = "waiting" THEN 1 ELSE 0
         /\ 1 \in Starts =>
              /\ client = "waiting" /\ replied = cseq /\ outbound = <<>>
              /\ Stream[1].of = cseq /\ Len(Stream) = 2 + Stream[1].length
         /\ 1 \in Begins \ Starts =>
              \/ client = "waiting"
              \/ Len(buf) >= 2

\* "Send req and await the full response": as long as no request was dropped, a
\* response that is returned is the one to the last request, with its whole body, and
\* one that has arrived is noticed: nobody waits for bytes that the receiver has no
\* reason to send.  After a drop it may be the answer to the request that was dropped:
\* the code goes by their order alone.
OwnAnswer ==
    ~dropped =>
        /\ returned.how = "answer" /\ client = "idle" => returned.of = cseq /\ returned.whole
        /\ client = "waiting" /\ replied = cseq /\ inbound = <<>>
             => Parse(buf).is # "incomplete"

\* Whatever was dropped: no response is returned twice or out of order, and none is
\* a splice of two.  Once the stream cannot be parsed nothing is taken from it any
\* more: there is no guessing where the next response begins.
AnswersInOrder ==
    [][ /\ returned' # returned /\ returned'.how = "answer" =>
              newest < returned'.of /\ returned'.whole
        /\ Parse(buf).is = "malformed" =>
              Parse(buf').is = "malformed" /\ newest' = newest ]_rtspVars

RtspInv == RtspTypeOK /\ StreamOK /\ OrderOK /\ RequestOK /\ OwnAnswer

=============================================================================
