----------------------------- MODULE LiveStream -----------------------------
(***************************************************************************)
(* hc-net's live_stream.rs: the HTTP server that feeds a screen mirror to  *)
(* the renderer.  Access units, muxed to MPEG-TS chunks, go to a tokio     *)
(* broadcast channel of fixed capacity; each connection reads it with its  *)
(* own cursor and skips what was overwritten; stop() asks for a graceful   *)
(* shutdown and waits for the server task.                                 *)
(*                                                                         *)
(* A Client is one HTTP connection: a renderer that reconnects is another. *)
(***************************************************************************)
EXTENDS Integers, Sequences, FiniteSets

CONSTANTS
    Client,      \* HTTP connections that may be made
    Capacity,    \* CHANNEL_CAPACITY (512 in the code)
    MaxChunks    \* bound: chunks published

ASSUME StreamAssumption == Capacity \in Nat \ {0} /\ MaxChunks \in Nat

VARIABLES
    phase,       \* "serving", "stopping" once stop() sent shutdown, "stopped"
    sent,        \* chunks sent on the channel; the ring holds the newest ones
    conn,        \* connection: not made yet, its body open, or gone
    cursor,      \* next chunk each connection's receiver reads
    got,         \* history: chunks each connection received
    first,       \* history: the cursor each connection subscribed with
    behind       \* history: the most chunks each connection ever had unread

vars == <<phase, sent, conn, cursor, got, first, behind>>

Unread(c) == sent + 1 - cursor[c]
Open      == {c \in Client : conn[c] = "open"}

TypeOK ==
    /\ phase \in {"serving", "stopping", "stopped"}
    /\ sent \in 0..MaxChunks
    /\ conn \in [Client -> {"none", "open", "gone"}]
    /\ cursor \in [Client -> 1..(MaxChunks + 1)]
    /\ got \in [Client -> Seq(1..MaxChunks)]
    /\ first \in [Client -> 1..(MaxChunks + 1)]
    /\ behind \in [Client -> 0..MaxChunks]

Init ==
    /\ phase = "serving" /\ sent = 0
    /\ conn = [c \in Client |-> "none"]
    /\ cursor = [c \in Client |-> 1]
    /\ got = [c \in Client |-> <<>>]
    /\ first = [c \in Client |-> 1]
    /\ behind = [c \in Client |-> 0]

\* broadcast::Sender::send overwrites the oldest chunk of a full ring.
Publish ==
    /\ phase = "serving" /\ sent < MaxChunks
    /\ sent' = sent + 1
    /\ behind' = [c \in Client |->
                    IF c \in Open /\ Unread(c) + 1 > behind[c]
                    THEN Unread(c) + 1 ELSE behind[c]]
    /\ UNCHANGED <<phase, conn, cursor, got, first>>

\* serve(): subscribe() starts reading at the next chunk to be sent.
Serve(c) ==
    /\ phase = "serving" /\ conn[c] = "none"
    /\ conn' = [conn EXCEPT ![c] = "open"]
    /\ cursor' = [cursor EXCEPT ![c] = sent + 1]
    /\ first' = [first EXCEPT ![c] = sent + 1]
    /\ UNCHANGED <<phase, sent, got, behind>>

\* Mutant of Recv: an empty channel is read.
RecvPastEnd(c) ==
    /\ conn[c] = "open" /\ Unread(c) <= Capacity
    /\ got' = [got EXCEPT ![c] = Append(@, cursor[c])]
    /\ cursor' = [cursor EXCEPT ![c] = @ + 1]
    /\ UNCHANGED <<phase, sent, conn, first, behind>>

\* The body is polled and the receiver's next chunk is still in the ring.
Recv(c) ==
    /\ conn[c] = "open" /\ Unread(c) \in 1..Capacity
    /\ got' = [got EXCEPT ![c] = Append(@, cursor[c])]
    /\ cursor' = [cursor EXCEPT ![c] = @ + 1]
    /\ UNCHANGED <<phase, sent, conn, first, behind>>

\* Mutants of Lagged: the ring loses a chunk too early; ...
LaggedEarly(c) ==
    /\ conn[c] = "open" /\ Unread(c) >= Capacity
    /\ cursor' = [cursor EXCEPT ![c] = sent + 2 - Capacity]
    /\ UNCHANGED <<phase, sent, conn, got, first, behind>>

\* ... the cursor jumps to the newest chunk, not to the oldest kept; ...
LaggedToNewest(c) ==
    /\ conn[c] = "open" /\ Unread(c) > Capacity
    /\ cursor' = [cursor EXCEPT ![c] = sent]
    /\ UNCHANGED <<phase, sent, conn, got, first, behind>>

\* ... the cursor stays, so that every later recv() lags too.
LaggedForEver(c) == conn[c] = "open" /\ Unread(c) > Capacity /\ UNCHANGED vars

\* It was overwritten: recv() is Lagged, which the body drops, and the cursor
\* jumps to the oldest chunk the ring holds.
Lagged(c) ==
    /\ conn[c] = "open" /\ Unread(c) > Capacity
    /\ cursor' = [cursor EXCEPT ![c] = sent + 1 - Capacity]
    /\ UNCHANGED <<phase, sent, conn, got, first, behind>>

\* The renderer closes the connection.
Disconnect(c) ==
    /\ conn[c] = "open"
    /\ conn' = [conn EXCEPT ![c] = "gone"]
    /\ UNCHANGED <<phase, sent, cursor, got, first, behind>>

\* stop() consumes the stream: nothing more is published.
Stop ==
    /\ phase = "serving"
    /\ phase' = "stopping"
    /\ UNCHANGED <<sent, conn, cursor, got, first, behind>>

\* Mutant of Stopped: the signal is noticed only when a connection closes.
StoppedByReader ==
    /\ phase = "stopping" /\ Open = {} /\ \E c \in Client : conn[c] = "gone"
    /\ phase' = "stopped"
    /\ UNCHANGED <<sent, conn, cursor, got, first, behind>>

\* The server task ends when no response is in flight.  A body ends by itself
\* only when every Sender is dropped, and stop() holds one until it returns.
Stopped ==
    /\ phase = "stopping" /\ Open = {}
    /\ phase' = "stopped"
    /\ UNCHANGED <<sent, conn, cursor, got, first, behind>>

Next ==
    \/ Publish \/ Stop \/ Stopped
    \/ \E c \in Client : Serve(c) \/ Recv(c) \/ Lagged(c) \/ Disconnect(c)

Spec == Init /\ [][Next]_vars

\* The server task runs and renderers read what they are sent.
FairSpec ==
    /\ Spec
    /\ WF_vars(Stopped)
    /\ \A c \in Client : WF_vars(Recv(c)) /\ WF_vars(Lagged(c))

\* Besides, a renderer hangs up once the stream is being stopped.
PoliteSpec ==
    FairSpec /\ \A c \in Client : WF_vars(phase = "stopping" /\ Disconnect(c))

-----------------------------------------------------------------------------
(* Properties.                                                              *)

Received(c) == {got[c][i] : i \in DOMAIN got[c]}

\* Chunks arrive in the order published, none twice, none from before the
\* connection, and those a renderer missed are missing only because it was at
\* some time more than Capacity behind: one slow renderer never costs another.
InOrderAndWhole ==
    \A c \in Client :
        /\ \A i, j \in DOMAIN got[c] : i < j => got[c][i] < got[c][j]
        /\ Received(c) \subseteq first[c]..(cursor[c] - 1)
        /\ behind[c] <= Capacity => Received(c) = first[c]..(cursor[c] - 1)

Chunks(lo, hi) == [i \in 1..(hi + 1 - lo) |-> lo + i - 1]
Backlog == [c \in Client |->
              IF conn[c] = "open" THEN Chunks(cursor[c], sent) ELSE <<>>]

\* The stream refines the abstract channel: a connection's queue is what lies
\* between its cursor and the newest chunk, overwritten or not.
Fifo == INSTANCE LossyFifo WITH joined <- Open, queue <- Backlog
ImplementsFifo == Fifo!Spec

\* A renderer that stays connected and keeps reading catches up with the
\* newest chunk, however far it fell behind.
CatchesUp == \A c \in Client : <>[](conn[c] = "open" => Unread(c) = 0)

\* live_stream.rs: "Shut the server down and wait for it to finish."
StopFinishes == phase = "stopping" ~> phase = "stopped"

-----------------------------------------------------------------------------
(* The inductive invariant behind InOrderAndWhole and the refinement.       *)

\* A cursor never passes the newest chunk nor goes back before the first, and
\* the history behind covers what an open connection has unread now.
CursorOK ==
    \A c \in Client :
        /\ first[c] <= cursor[c] /\ cursor[c] <= sent + 1
        /\ conn[c] = "open" => Unread(c) <= behind[c]
        /\ conn[c] = "none" => got[c] = <<>>

IInv == TypeOK /\ CursorOK /\ InOrderAndWhole

=============================================================================
