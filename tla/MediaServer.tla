---------------------------- MODULE MediaServer ----------------------------
(***************************************************************************)
(* hc-net's file server: one file, GET and HEAD with an optional Range,    *)
(* a body that is read while it is sent, and graceful shutdown.  The file  *)
(* may grow, shrink or be removed at any moment: it may still be written   *)
(* when it is cast.  Bytes are named by their offset in the file.          *)
(***************************************************************************)
EXTENDS Integers, Sequences

CONSTANTS
    Connection,  \* requests that may be open at once
    MaxSize,     \* bound: the longest file
    Header       \* bound: the Range headers that renderers send

\* One range of a header: without a dash, or with two ends, each of them a number,
\* empty, or not a number.
Empty == -1
Bad   == -2
End   == Nat \cup {Empty, Bad}
ByteRange == [dash: {TRUE}, from: End, to: End] \cup [dash: {FALSE}, from: {Empty}, to: {Empty}]

\* A Range header: none, one in another unit, or "bytes=" and a list of ranges,
\* parted by commas.  Where there are none, ranges stands for one without a dash.
RangeHeader == [form: {"none", "other", "bytes"}, ranges: Seq(ByteRange) \ {<<>>}]

ASSUME MediaServerAssumption == MaxSize \in Nat /\ Header \subseteq RangeHeader

VARIABLES
    linked,      \* whether there is a file at the path
    size,        \* its size; once removed, the size of what is still open
    server,      \* "off", "up", "stopping" (the signal is sent), "stopped"
    req          \* each connection's request and its response

fileAndServer == <<linked, size, server>>
mediaVars     == <<linked, size, server, req>>

\* Besides the response, whether the file was truncated, and whether a call on it
\* failed, since its size was read.
Request == [at: {"none", "asked", "opened", "body", "ended"}, range: RangeHeader,
            head: BOOLEAN, total: Int, status: {0, 200, 206, 404, 416, 500}, first: Int,
            length: Int, sent: Int, shrunk: BOOLEAN, failed: BOOLEAN]

NoRangeHeader == [form |-> "none", ranges |-> <<[dash |-> FALSE, from |-> Empty, to |-> Empty]>>]

NoRequest == [at |-> "none", range |-> NoRangeHeader, head |-> FALSE, total |-> 0,
              status |-> 0, first |-> 0, length |-> 0, sent |-> 0, shrunk |-> FALSE,
              failed |-> FALSE]

-----------------------------------------------------------------------------
(* Ranges.                                                                  *)

NoRange == [first |-> 0, last |-> -1]
Lower(a, b) == IF a < b THEN a ELSE b

Span(r, last) ==
    IF r.from = Empty
    THEN [first |-> IF last + 1 < r.to THEN 0 ELSE last + 1 - r.to, last |-> last]
    ELSE [first |-> r.from, last |-> IF r.to = Empty THEN last ELSE Lower(r.to, last)]

\* The server looks at the first range of a list alone.
First(h) == h.ranges[1]

\* Mutant of ParseRange: the end of a range is not clamped to the file.
ParseRangeUnclamped(h, total) ==
    LET r == First(h) IN
    IF \/ total = 0 \/ h.form # "bytes" \/ ~r.dash \/ Bad \in {r.from, r.to}
       \/ r.from = Empty /\ r.to \in {Empty, 0}
    THEN NoRange
    ELSE LET p == IF r.from # Empty /\ r.to # Empty
                  THEN [first |-> r.from, last |-> r.to] ELSE Span(r, total - 1)
         IN IF p.first > p.last \/ p.first > total - 1 THEN NoRange ELSE p

ParseRange(h, total) ==
    LET r == First(h) IN
    IF \/ total = 0 \/ h.form # "bytes" \/ ~r.dash \/ Bad \in {r.from, r.to}
       \/ r.from = Empty /\ r.to \in {Empty, 0}
    THEN NoRange
    ELSE LET p == Span(r, total - 1)
         IN IF p.first > p.last \/ p.first > total - 1 THEN NoRange ELSE p

\* Mutant of Unsatisfiable: a range that begins at the last byte is refused.
UnsatisfiableEarly(h, total) ==
    LET r == First(h) IN
    /\ h.form = "bytes" /\ r.dash
    /\ IF r.from = Empty THEN r.to = 0 ELSE r.from # Bad /\ r.from + 1 >= total

\* The second parser: of a range with a beginning it does not read the end.
Unsatisfiable(h, total) ==
    LET r == First(h) IN
    /\ h.form = "bytes" /\ r.dash
    /\ IF r.from = Empty THEN r.to = 0 ELSE r.from # Bad /\ r.from >= total

-----------------------------------------------------------------------------
(* The server.                                                              *)

MediaInit ==
    /\ linked \in BOOLEAN /\ size \in 0..MaxSize /\ server = "off"
    /\ req = [c \in Connection |-> NoRequest]

\* A file that is not there is not served.
StartServer ==
    /\ server = "off" /\ linked
    /\ server' = "up"
    /\ UNCHANGED <<linked, size, req>>

\* A connection is accepted until the shutdown signal; the next request on it too.
Ask(c, h, head) ==
    /\ server = "up" /\ req[c].at \in {"none", "ended"}
    /\ req' = [req EXCEPT ![c] = [NoRequest EXCEPT !.at = "asked", !.range = h, !.head = head]]
    /\ UNCHANGED fileAndServer

OpenFile(c) ==
    /\ req[c].at = "asked" /\ linked
    /\ req' = [req EXCEPT ![c].at = "opened"]
    /\ UNCHANGED fileAndServer

\* There is no file, or opening it failed.
OpenFails(c) ==
    /\ req[c].at = "asked"
    /\ req' = [req EXCEPT ![c] = [@ EXCEPT !.at = "ended", !.status = 404]]
    /\ UNCHANGED fileAndServer

Answer(q, total) ==
    LET p == ParseRange(q.range, total) IN
    IF p = NoRange /\ Unsatisfiable(q.range, total)
    THEN [q EXCEPT !.at = "ended", !.total = total, !.status = 416]
    ELSE [q EXCEPT !.at = IF q.head THEN "ended" ELSE "body", !.total = total,
                   !.status = IF p = NoRange THEN 200 ELSE 206,
                   !.first  = p.first,
                   !.length = IF p = NoRange THEN total ELSE p.last - p.first + 1]

\* The size is read, and everything that the headers say follows from it.
Respond(c) ==
    /\ req[c].at = "opened"
    /\ req' = [req EXCEPT ![c] = Answer(@, size)]
    /\ UNCHANGED fileAndServer

\* The size cannot be read.
MetadataFails(c) ==
    /\ req[c].at = "opened"
    /\ req' = [req EXCEPT ![c] = [@ EXCEPT !.at = "ended", !.status = 500]]
    /\ UNCHANGED fileAndServer

\* The first byte of a range cannot be sought: the same headers, and no body.
SeekFails(c) ==
    LET q == Answer(req[c], size) IN
    /\ req[c].at = "opened" /\ q.at = "body" /\ q.status = 206
    /\ req' = [req EXCEPT ![c] = [q EXCEPT !.at = "ended", !.failed = TRUE]]
    /\ UNCHANGED fileAndServer

\* Mutant of Read: a range is read to the end of the file.
ReadOn(c) ==
    /\ req[c].at = "body"
    /\ req[c].first + req[c].sent < size
    /\ req' = [req EXCEPT ![c].sent = @ + 1]
    /\ UNCHANGED fileAndServer

\* One more byte: the reader takes no more than the range, and the HTTP library
\* sends no more than the declared length.
Read(c) ==
    /\ req[c].at = "body" /\ req[c].sent < req[c].length
    /\ req[c].first + req[c].sent < size
    /\ req' = [req EXCEPT ![c].sent = @ + 1]
    /\ UNCHANGED fileAndServer

\* The range or the file is at its end; short of the declared length, the
\* connection is closed.
BodyEnds(c) ==
    /\ req[c].at = "body"
    /\ req[c].sent = req[c].length \/ req[c].first + req[c].sent >= size
    /\ req' = [req EXCEPT ![c].at = "ended"]
    /\ UNCHANGED fileAndServer

\* Reading fails: the body ends where it is.
ReadFails(c) ==
    /\ req[c].at = "body" /\ req[c].sent < req[c].length
    /\ req' = [req EXCEPT ![c] = [@ EXCEPT !.at = "ended", !.failed = TRUE]]
    /\ UNCHANGED fileAndServer

\* The renderer closes the connection.
HangUp(c) ==
    /\ req[c].at \in {"asked", "opened", "body"}
    /\ req' = [req EXCEPT ![c] = NoRequest]
    /\ UNCHANGED fileAndServer

StopServer ==
    /\ server = "up"
    /\ server' = "stopping"
    /\ UNCHANGED <<linked, size, req>>

Open(c) == req[c].at \in {"asked", "opened", "body"}

\* Mutant of ServerDone: stop does not wait for responses.
ServerDoneAtOnce ==
    /\ server = "stopping"
    /\ server' = "stopped"
    /\ UNCHANGED <<linked, size, req>>

\* The server task ends when every response is over, and stop() returns.
ServerDone ==
    /\ server = "stopping" /\ \A c \in Connection : ~Open(c)
    /\ server' = "stopped"
    /\ UNCHANGED <<linked, size, req>>

\* Somebody writes to the file or truncates it, removes it, or puts another one
\* in its place.
FileChanges(n) ==
    /\ linked /\ n # size
    /\ size' = n
    /\ req' = [c \in Connection |->
                 [req[c] EXCEPT !.shrunk = @ \/ (req[c].at = "body" /\ n < size)]]
    /\ UNCHANGED <<linked, server>>

FileRemoved ==
    /\ linked /\ linked' = FALSE
    /\ UNCHANGED <<size, server, req>>

FileCreated(n) ==
    /\ ~linked /\ \A c \in Connection : req[c].at \notin {"opened", "body"}
    /\ linked' = TRUE /\ size' = n
    /\ UNCHANGED <<server, req>>

MediaNext ==
    \/ StartServer \/ StopServer \/ ServerDone
    \/ \E c \in Connection :
         \/ \E h \in Header, head \in BOOLEAN : Ask(c, h, head)
         \/ OpenFile(c) \/ OpenFails(c) \/ Respond(c) \/ MetadataFails(c)
         \/ SeekFails(c) \/ Read(c) \/ ReadFails(c) \/ BodyEnds(c) \/ HangUp(c)
    \/ \E n \in 0..MaxSize : FileChanges(n) \/ FileCreated(n)
    \/ FileRemoved

MediaSpec == MediaInit /\ [][MediaNext]_mediaVars

-----------------------------------------------------------------------------
(* Properties.                                                              *)

MediaTypeOK ==
    /\ linked \in BOOLEAN /\ size \in 0..MaxSize
    /\ server \in {"off", "up", "stopping", "stopped"}
    /\ req \in [Connection -> Request]

\* What one range asks for, by RFC 7233.
WellFormed(r) ==
    /\ r.dash /\ Bad \notin {r.from, r.to} /\ {r.from, r.to} # {Empty}
    /\ ~(r.from # Empty /\ r.to # Empty /\ r.from > r.to)
Wanted(r, total) ==
    {b \in 0 .. total - 1 :
       IF r.from = Empty THEN b >= total - r.to
       ELSE b >= r.from /\ (r.to # Empty => b <= r.to)}
Satisfiable(r, total) == IF r.from = Empty THEN r.to # 0 ELSE r.from < total

\* The header is for ranges in bytes, and the first of them is well-formed.
Asks(h) == h.form = "bytes" /\ WellFormed(First(h))

AnswerOK(q) ==
    LET r == First(q.range) IN
    /\ q.status = 206 => /\ Asks(q.range) /\ q.length > 0
                         /\ q.first .. (q.first + q.length - 1) = Wanted(r, q.total)
    /\ q.status = 416 => /\ q.range.form = "bytes"
                         /\ WellFormed(r) => ~Satisfiable(r, q.total)
    /\ q.status = 200 => /\ q.first = 0 /\ q.length = q.total
                         /\ Asks(q.range) => q.total = 0 /\ Satisfiable(r, 0)

\* Two parsers read the header, one to serve and one to refuse.  What they make of
\* one well-formed range is what RFC 7233 says, for every range, at an empty file, the
\* first byte and the last: 206 with exactly the bytes asked for, 416 if and only if
\* the file has none of them, and the whole file only where it is empty.  Of a list
\* that holds for its first range, whatever the others ask for.  A header in another unit
\* is ignored, and one whose first range is malformed never gets a part of the file.
FirstRangeAsRfc == \A c \in Connection : AnswerOK(req[c])

\* The comment on range_is_unsatisfiable: "well-formed"; "Malformed/non-`bytes=` headers
\* return `false` (we ignore them and serve the whole file instead".
MalformedIsIgnored ==
    \A c \in Connection : req[c].status = 416 => WellFormed(First(req[c].range))

BodyOK(q) ==
    /\ q.sent <= q.length /\ (q.status = 206 => q.first + q.length <= q.total)
    /\ q.at = "ended" /\ ~q.head /\ ~q.shrunk /\ ~q.failed /\ q.status \in {200, 206}
         => q.sent = q.length

\* What is sent lies in the announced range, and a body that ends short of its
\* Content-Length was cut by somebody who truncated the file while it was sent, or by a
\* seek or a read that failed.
BodyIsTheRange == \A c \in Connection : BodyOK(req[c])

\* stop() returns when nobody is being served any more.
StoppedIsQuiet == server \in {"off", "stopped"} => \A c \in Connection : ~Open(c)

\* What the proofs need besides: a response has a status once it has a body, and
\* covers bytes that the file still has unless it shrank.
ResponseOK(q) ==
    /\ q.at \in {"none", "asked", "opened"} =>
         q.status = 0 /\ q.sent = 0 /\ q.length = 0 /\ q.first = 0 /\ ~q.shrunk /\ ~q.failed
    /\ q.at = "body" =>
         /\ q.status \in {200, 206} /\ ~q.head
         /\ 0 <= q.first /\ 0 <= q.sent
         /\ ~q.shrunk => q.first + q.length <= size

MediaInv ==
    /\ MediaTypeOK
    /\ \A c \in Connection : ResponseOK(req[c])
    /\ FirstRangeAsRfc /\ BodyIsTheRange /\ StoppedIsQuiet

=============================================================================
