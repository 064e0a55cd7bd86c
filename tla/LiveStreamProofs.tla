-------------------------- MODULE LiveStreamProofs --------------------------
(* Theorems about LiveStream, for every set of connections, every capacity  *)
(* of the ring and every number of chunks.                                  *)
EXTENDS LiveStream, SequenceTheorems, TLAPS

LEMMA TypeInit == Init => TypeOK
BY StreamAssumption DEF Init, TypeOK

LEMMA TypeStep == IInv /\ [Next]_vars => TypeOK'
<1> SUFFICES ASSUME IInv, [Next]_vars PROVE TypeOK'
  OBVIOUS
<1> USE StreamAssumption DEF IInv, TypeOK, CursorOK, Unread, Open
<1>1. CASE Publish
  BY <1>1 DEF Publish
<1>2. CASE Stop
  BY <1>2 DEF Stop
<1>3. CASE Stopped
  BY <1>3 DEF Stopped
<1>4. ASSUME NEW c \in Client, Serve(c) PROVE TypeOK'
  BY <1>4 DEF Serve
<1>5. ASSUME NEW c \in Client, Recv(c) PROVE TypeOK'
  <2>1. cursor[c] \in 1..MaxChunks /\ cursor'[c] \in 1..(MaxChunks + 1)
    BY <1>5 DEF Recv
  <2>2. got' \in [Client -> Seq(1..MaxChunks)]
    BY <1>5, <2>1 DEF Recv
  <2>3. cursor' \in [Client -> 1..(MaxChunks + 1)]
    BY <1>5, <2>1 DEF Recv
  <2>. QED BY <1>5, <2>2, <2>3 DEF Recv
<1>6. ASSUME NEW c \in Client, Lagged(c) PROVE TypeOK'
  BY <1>6 DEF Lagged
<1>7. ASSUME NEW c \in Client, Disconnect(c) PROVE TypeOK'
  BY <1>7 DEF Disconnect
<1>8. CASE UNCHANGED vars
  BY <1>8 DEF vars
<1>. QED BY <1>1, <1>2, <1>3, <1>4, <1>5, <1>6, <1>7, <1>8 DEF Next

LEMMA CursorStep == IInv /\ [Next]_vars => CursorOK'
<1> SUFFICES ASSUME IInv, [Next]_vars PROVE CursorOK'
  OBVIOUS
<1> USE StreamAssumption DEF IInv, TypeOK, CursorOK, Unread, Open
<1>1. CASE Publish
  BY <1>1 DEF Publish
<1>2. CASE Stop
  BY <1>2 DEF Stop
<1>3. CASE Stopped
  BY <1>3 DEF Stopped
<1>4. ASSUME NEW c \in Client, Serve(c) PROVE CursorOK'
  BY <1>4 DEF Serve
<1>5. ASSUME NEW c \in Client, Recv(c) PROVE CursorOK'
  <2>1. ASSUME NEW d \in Client
        PROVE  /\ first'[d] <= cursor'[d] /\ cursor'[d] <= sent' + 1
               /\ conn'[d] = "open" => Unread(d)' <= behind'[d]
    BY <1>5, SMTT(30) DEF Recv
  <2>2. ASSUME NEW d \in Client, conn'[d] = "none" PROVE got'[d] = <<>>
    <3>1. d # c
      BY <1>5, <2>2 DEF Recv
    <3>. QED BY <1>5, <2>2, <3>1 DEF Recv
  <2>. QED BY <2>1, <2>2
<1>6. ASSUME NEW c \in Client, Lagged(c) PROVE CursorOK'
  BY <1>6, SMTT(30) DEF Lagged
<1>7. ASSUME NEW c \in Client, Disconnect(c) PROVE CursorOK'
  BY <1>7 DEF Disconnect
<1>8. CASE UNCHANGED vars
  BY <1>8 DEF vars
<1>. QED BY <1>1, <1>2, <1>3, <1>4, <1>5, <1>6, <1>7, <1>8 DEF Next

\* InOrderAndWhole, of one connection.
OrderOf(c) ==
    /\ \A i, j \in DOMAIN got[c] : i < j => got[c][i] < got[c][j]
    /\ Received(c) \subseteq first[c]..(cursor[c] - 1)
    /\ behind[c] <= Capacity => Received(c) = first[c]..(cursor[c] - 1)

\* What a connection received is unchanged by a step that leaves its history,
\* first and cursor alone and does not shrink behind.
LEMMA OrderKept ==
    ASSUME IInv, NEW c \in Client,
           got'[c] = got[c], first'[c] = first[c], cursor'[c] = cursor[c],
           behind'[c] \in Nat, behind[c] <= behind'[c]
    PROVE  OrderOf(c)'
<1>1. OrderOf(c)
  BY DEF IInv, InOrderAndWhole, OrderOf
<1>2. Received(c)' = Received(c)
  BY DEF Received
<1>3. behind[c] \in Nat /\ Capacity \in Nat
  BY StreamAssumption DEF IInv, TypeOK
<1>. QED BY <1>1, <1>2, <1>3 DEF OrderOf

LEMMA OrderRecv ==
    ASSUME IInv, NEW c \in Client, Recv(c)
    PROVE  OrderOf(c)'
<1> DEFINE s == got[c]
<1> DEFINE n == Len(s)
<1>1. OrderOf(c)
  BY DEF IInv, InOrderAndWhole, OrderOf
<1>2. s \in Seq(1..MaxChunks) /\ n \in Nat /\ DOMAIN s = 1..n
  BY DEF IInv, TypeOK
<1>3. cursor[c] \in Nat /\ first[c] \in Nat /\ first[c] <= cursor[c]
  BY StreamAssumption DEF IInv, TypeOK, CursorOK
<1>4. /\ got'[c] = Append(s, cursor[c]) /\ cursor'[c] = cursor[c] + 1
      /\ first'[c] = first[c] /\ behind'[c] = behind[c]
  BY DEF Recv, IInv, TypeOK
<1>5. cursor[c] \in 1..MaxChunks
  BY StreamAssumption DEF IInv, TypeOK, CursorOK, Recv, Unread
<1>6. /\ DOMAIN (got'[c]) = 1..(n + 1)
      /\ got'[c][n + 1] = cursor[c]
      /\ \A i \in 1..n : got'[c][i] = s[i]
  BY <1>2, <1>4, <1>5
<1>7. Received(c)' = Received(c) \cup {cursor[c]}
  BY <1>2, <1>6 DEF Received
<1>8. \A i \in 1..n : s[i] \in Int /\ s[i] < cursor[c]
  <2>1. \A i \in 1..n : s[i] \in Received(c)
    BY <1>2 DEF Received
  <2>. QED BY <1>1, <1>3, <2>1 DEF OrderOf
<1>9. \A i, j \in 1..n : i < j => s[i] < s[j]
  BY <1>1, <1>2 DEF OrderOf
<1>10. \A i, j \in DOMAIN (got'[c]) : i < j => got'[c][i] < got'[c][j]
  <2> HIDE DEF n, s
  <2>. QED BY <1>2, <1>3, <1>6, <1>8, <1>9
<1>11. first[c]..(cursor'[c] - 1) = first[c]..(cursor[c] - 1) \cup {cursor[c]}
  BY <1>3, <1>4
<1>. QED BY <1>1, <1>4, <1>7, <1>10, <1>11 DEF OrderOf

LEMMA OrderLagged ==
    ASSUME IInv, NEW c \in Client, Lagged(c)
    PROVE  OrderOf(c)'
<1>1. OrderOf(c)
  BY DEF IInv, InOrderAndWhole, OrderOf
<1>2. /\ got'[c] = got[c] /\ first'[c] = first[c] /\ behind'[c] = behind[c]
      /\ cursor'[c] = sent + 1 - Capacity
  BY DEF Lagged, IInv, TypeOK
<1>3. /\ sent \in Nat /\ cursor[c] \in Nat /\ first[c] \in Nat
      /\ behind[c] \in Nat /\ Capacity \in Nat
  BY StreamAssumption DEF IInv, TypeOK
<1>4. behind[c] > Capacity /\ cursor[c] <= cursor'[c]
  BY <1>2, <1>3 DEF Lagged, Unread, IInv, CursorOK
<1>5. Received(c)' = Received(c)
  BY <1>2 DEF Received
<1>. QED BY <1>1, <1>2, <1>3, <1>4, <1>5 DEF OrderOf

LEMMA OrderServe ==
    ASSUME IInv, NEW c \in Client, Serve(c)
    PROVE  OrderOf(c)'
<1>1. got'[c] = <<>> /\ first'[c] = sent + 1 /\ cursor'[c] = sent + 1
  BY DEF Serve, IInv, TypeOK, CursorOK
<1>2. sent \in Nat
  BY StreamAssumption DEF IInv, TypeOK
<1>3. Received(c)' = {}
  BY <1>1 DEF Received
<1>4. first'[c]..(cursor'[c] - 1) = {}
  BY <1>1, <1>2
<1>. QED BY <1>1, <1>3, <1>4 DEF OrderOf

LEMMA OrderStep == IInv /\ [Next]_vars => InOrderAndWhole'
<1> SUFFICES ASSUME IInv, [Next]_vars, NEW c \in Client PROVE OrderOf(c)'
  BY DEF InOrderAndWhole, OrderOf
<1>0. behind[c] \in Nat /\ sent \in Nat /\ cursor[c] \in Nat
  BY StreamAssumption DEF IInv, TypeOK
<1>1. CASE Publish
  <2>1. behind'[c] \in Nat /\ behind[c] <= behind'[c]
    BY <1>0, <1>1 DEF Publish, Unread, IInv, TypeOK, CursorOK
  <2>. QED BY <1>1, <2>1, OrderKept DEF Publish
<1>2. CASE Stop \/ Stopped \/ UNCHANGED vars
  BY <1>0, <1>2, OrderKept DEF Stop, Stopped, vars
<1>3. ASSUME NEW d \in Client, Serve(d) PROVE OrderOf(c)'
  <2>1. CASE d = c
    BY <1>3, <2>1, OrderServe
  <2>2. CASE d # c
    BY <1>0, <1>3, <2>2, OrderKept DEF Serve, IInv, TypeOK
  <2>. QED BY <2>1, <2>2
<1>4. ASSUME NEW d \in Client, Recv(d) PROVE OrderOf(c)'
  <2>1. CASE d = c
    BY <1>4, <2>1, OrderRecv
  <2>2. CASE d # c
    BY <1>0, <1>4, <2>2, OrderKept DEF Recv, IInv, TypeOK
  <2>. QED BY <2>1, <2>2
<1>5. ASSUME NEW d \in Client, Lagged(d) PROVE OrderOf(c)'
  <2>1. CASE d = c
    BY <1>5, <2>1, OrderLagged
  <2>2. CASE d # c
    BY <1>0, <1>5, <2>2, OrderKept DEF Lagged, IInv, TypeOK
  <2>. QED BY <2>1, <2>2
<1>6. ASSUME NEW d \in Client, Disconnect(d) PROVE OrderOf(c)'
  BY <1>0, <1>6, OrderKept DEF Disconnect
<1>. QED BY <1>1, <1>2, <1>3, <1>4, <1>5, <1>6 DEF Next

LEMMA InvInit == Init => IInv
<1> SUFFICES ASSUME Init PROVE IInv
  OBVIOUS
<1>1. TypeOK
  BY TypeInit
<1>2. CursorOK
  BY StreamAssumption DEF Init, CursorOK
<1>3. InOrderAndWhole
  BY DEF Init, InOrderAndWhole, Received
<1>. QED BY <1>1, <1>2, <1>3 DEF IInv

\* The inductive invariant: where each cursor may be, and what was received.
THEOREM SpecIInv == Spec => []IInv
<1>1. IInv /\ [Next]_vars => IInv'
  BY TypeStep, CursorStep, OrderStep DEF IInv
<1>. QED BY <1>1, InvInit, PTL DEF Spec

\* Types, with cursors that stay within what was published.
THEOREM SpecTypeOK == Spec => []TypeOK
<1>1. IInv => TypeOK
  BY DEF IInv
<1>. QED BY <1>1, SpecIInv, PTL

\* Every connection gets chunks in order and at most once, none from before it
\* subscribed, and all of them unless it itself lagged by more than the ring.
THEOREM SpecInOrderAndWhole == Spec => []InOrderAndWhole
<1>1. IInv => InOrderAndWhole
  BY DEF IInv
<1>. QED BY <1>1, SpecIInv, PTL

-----------------------------------------------------------------------------
(* The refinement of LossyFifo.                                             *)

LEMMA ChunksEmpty ==
    ASSUME NEW n \in Nat
    PROVE  Chunks(n + 1, n) = <<>>
BY DEF Chunks

LEMMA ChunksSeq ==
    ASSUME NEW lo \in Nat \ {0}, NEW hi \in Nat, lo <= hi + 1
    PROVE  /\ Chunks(lo, hi) \in Seq(Nat)
           /\ Len(Chunks(lo, hi)) = hi + 1 - lo
           /\ \A i \in 1..(hi + 1 - lo) : Chunks(lo, hi)[i] = lo + i - 1
<1> DEFINE n == hi + 1 - lo
<1>1. n \in Nat
  OBVIOUS
<1>2. Chunks(lo, hi) \in [1..n -> Nat]
  BY DEF Chunks
<1>. QED BY <1>1, <1>2 DEF Chunks

LEMMA ChunksAppend ==
    ASSUME NEW lo \in Nat \ {0}, NEW hi \in Nat, lo <= hi + 1
    PROVE  Chunks(lo, hi + 1) = Append(Chunks(lo, hi), hi + 1)
<1>1. /\ Chunks(lo, hi) \in Seq(Nat) /\ Len(Chunks(lo, hi)) = hi + 1 - lo
      /\ \A i \in 1..(hi + 1 - lo) : Chunks(lo, hi)[i] = lo + i - 1
  BY ChunksSeq
<1>2. /\ Chunks(lo, hi + 1) \in Seq(Nat) /\ Len(Chunks(lo, hi + 1)) = hi + 2 - lo
      /\ \A i \in 1..(hi + 2 - lo) : Chunks(lo, hi + 1)[i] = lo + i - 1
  BY ChunksSeq
<1> DEFINE a == Append(Chunks(lo, hi), hi + 1)
<1>3. a \in Seq(Nat) /\ Len(a) = hi + 2 - lo
  BY <1>1
<1>4. \A i \in 1..(hi + 2 - lo) : a[i] = lo + i - 1
  BY <1>1
<1>. QED BY <1>2, <1>3, <1>4, SeqEqual

LEMMA ChunksTail ==
    ASSUME NEW lo \in Nat \ {0}, NEW hi \in Nat, lo <= hi
    PROVE  /\ Chunks(lo, hi) # <<>>
           /\ Head(Chunks(lo, hi)) = lo
           /\ Chunks(lo + 1, hi) = Tail(Chunks(lo, hi))
<1>1. /\ Chunks(lo, hi) \in Seq(Nat) /\ Len(Chunks(lo, hi)) = hi + 1 - lo
      /\ \A i \in 1..(hi + 1 - lo) : Chunks(lo, hi)[i] = lo + i - 1
  BY ChunksSeq
<1>2. /\ Chunks(lo + 1, hi) \in Seq(Nat) /\ Len(Chunks(lo + 1, hi)) = hi - lo
      /\ \A i \in 1..(hi - lo) : Chunks(lo + 1, hi)[i] = lo + i
  <2> DEFINE m == lo + 1
  <2>1. m \in Nat \ {0} /\ m <= hi + 1 /\ hi + 1 - m = hi - lo
    OBVIOUS
  <2>2. \A i \in 1..(hi - lo) : m + i - 1 = lo + i
    OBVIOUS
  <2> HIDE DEF m
  <2>3. /\ Chunks(m, hi) \in Seq(Nat) /\ Len(Chunks(m, hi)) = hi + 1 - m
        /\ \A i \in 1..(hi + 1 - m) : Chunks(m, hi)[i] = m + i - 1
    BY <2>1, ChunksSeq
  <2>4. /\ Chunks(m, hi) \in Seq(Nat) /\ Len(Chunks(m, hi)) = hi - lo
        /\ \A i \in 1..(hi - lo) : Chunks(m, hi)[i] = lo + i
    BY <2>1, <2>2, <2>3
  <2>. QED BY <2>4 DEF m
<1> DEFINE t == Tail(Chunks(lo, hi))
<1>3. Chunks(lo, hi) # <<>> /\ Head(Chunks(lo, hi)) = lo
  BY <1>1
<1>4. t \in Seq(Nat) /\ Len(t) = hi - lo
  BY <1>1, <1>3
<1>5. \A i \in 1..(hi - lo) : t[i] = lo + i
  BY <1>1, <1>3
<1>6. Chunks(lo + 1, hi) = t
  <2> HIDE DEF t
  <2>. QED BY <1>2, <1>4, <1>5, SeqEqual
<1>. QED BY <1>3, <1>6

LEMMA ChunksNewest ==
    ASSUME NEW lo \in Nat \ {0}, NEW hi \in Nat, NEW k \in Nat, k < hi + 1 - lo
    PROVE  Chunks(hi + 1 - k, hi) =
             SubSeq(Chunks(lo, hi), Len(Chunks(lo, hi)) - k + 1, Len(Chunks(lo, hi)))
<1> DEFINE n == hi + 1 - lo
<1>1. /\ Chunks(lo, hi) \in Seq(Nat) /\ Len(Chunks(lo, hi)) = n
      /\ \A i \in 1..n : Chunks(lo, hi)[i] = lo + i - 1
  BY ChunksSeq
<1>2. /\ Chunks(hi + 1 - k, hi) \in Seq(Nat) /\ Len(Chunks(hi + 1 - k, hi)) = k
      /\ \A i \in 1..k : Chunks(hi + 1 - k, hi)[i] = hi - k + i
  <2> DEFINE m == hi + 1 - k
  <2>1. m \in Nat \ {0} /\ m <= hi + 1 /\ hi + 1 - m = k
    OBVIOUS
  <2>2. \A i \in 1..k : m + i - 1 = hi - k + i
    OBVIOUS
  <2> HIDE DEF m
  <2>3. /\ Chunks(m, hi) \in Seq(Nat) /\ Len(Chunks(m, hi)) = hi + 1 - m
        /\ \A i \in 1..(hi + 1 - m) : Chunks(m, hi)[i] = m + i - 1
    BY <2>1, ChunksSeq
  <2>4. /\ Chunks(m, hi) \in Seq(Nat) /\ Len(Chunks(m, hi)) = k
        /\ \A i \in 1..k : Chunks(m, hi)[i] = hi - k + i
    BY <2>1, <2>2, <2>3
  <2>. QED BY <2>4 DEF m
<1> DEFINE s == SubSeq(Chunks(lo, hi), n - k + 1, n)
<1>3. s \in Seq(Nat) /\ Len(s) = k
  BY <1>1
<1>4. \A i \in 1..k : s[i] = hi - k + i
  BY <1>1
<1>5. Chunks(hi + 1 - k, hi) = s
  <2> HIDE DEF s
  <2>. QED BY <1>2, <1>3, <1>4, SeqEqual
<1>. QED BY <1>1, <1>5

LEMMA FifoInit == Init => Fifo!Init
BY DEF Init, Fifo!Init, Open, Backlog

LEMMA FifoStep == IInv /\ [Next]_vars => [Fifo!Next]_(Fifo!vars)
<1> SUFFICES ASSUME IInv, [Next]_vars PROVE [Fifo!Next]_(Fifo!vars)
  OBVIOUS
<1>0. /\ sent \in Nat /\ Capacity \in Nat
      /\ \A c \in Client : /\ cursor[c] \in Nat \ {0}
                           /\ cursor[c] <= sent + 1
  BY StreamAssumption DEF IInv, TypeOK, CursorOK
<1>1. CASE Publish
  <2>1. \A c \in Client :
          Backlog'[c] = IF c \in Open THEN Append(Backlog[c], sent + 1) ELSE Backlog[c]
    BY <1>0, <1>1, ChunksAppend DEF Publish, Backlog, Open
  <2>2. Backlog' = [c \in Client |->
          IF c \in Open THEN Append(Backlog[c], sent + 1) ELSE Backlog[c]]
    BY <2>1 DEF Backlog
  <2>3. sent' = sent + 1 /\ Open' = Open /\ got' = got
    BY <1>1 DEF Publish, Open
  <2>. QED BY <2>2, <2>3 DEF Fifo!Publish, Fifo!Next
<1>2. CASE Stop \/ Stopped \/ UNCHANGED vars
  <2>1. sent' = sent /\ Open' = Open /\ got' = got /\ Backlog' = Backlog
    BY <1>2 DEF Stop, Stopped, vars, Open, Backlog
  <2>. QED BY <2>1 DEF Fifo!vars
<1>3. ASSUME NEW c \in Client, Serve(c) PROVE Fifo!Next
  <2>1. sent' = sent /\ got' = got
    BY <1>3 DEF Serve
  <2>2. c \notin Open /\ Open' = Open \cup {c}
    BY <1>3 DEF Serve, Open, IInv, TypeOK
  <2>3. \A d \in Client : Backlog'[d] = Backlog[d]
    <3>1. Backlog'[c] = <<>> /\ Backlog[c] = <<>>
      BY <1>0, <1>3, ChunksEmpty DEF Serve, Backlog, IInv, TypeOK
    <3>2. \A d \in Client \ {c} : Backlog'[d] = Backlog[d]
      BY <1>3 DEF Serve, Backlog, IInv, TypeOK
    <3>. QED BY <3>1, <3>2
  <2>4. Backlog' = Backlog
    BY <2>3 DEF Backlog
  <2>5. Fifo!Join(c)
    BY <2>1, <2>2, <2>4 DEF Fifo!Join
  <2>. QED BY <2>5 DEF Fifo!Next
<1>4. ASSUME NEW c \in Client, Recv(c) PROVE Fifo!Next
  <2>1. sent' = sent /\ Open' = Open /\ conn' = conn
    BY <1>4 DEF Recv, Open
  <2>2. cursor[c] <= sent /\ conn[c] = "open"
    BY <1>0, <1>4 DEF Recv, Unread
  <2>3. /\ Backlog[c] = Chunks(cursor[c], sent)
        /\ Backlog'[c] = Chunks(cursor[c] + 1, sent)
    BY <1>4, <2>2 DEF Recv, Backlog, IInv, TypeOK
  <2>4. /\ Backlog[c] # <<>> /\ Head(Backlog[c]) = cursor[c]
        /\ Backlog'[c] = Tail(Backlog[c])
    BY <1>0, <2>2, <2>3, ChunksTail
  <2>5. \A d \in Client \ {c} : Backlog'[d] = Backlog[d]
    BY <1>4 DEF Recv, Backlog, IInv, TypeOK
  <2>6. Backlog' = [Backlog EXCEPT ![c] = Tail(@)]
    BY <2>4, <2>5 DEF Backlog
  <2>7. got' = [got EXCEPT ![c] = Append(@, Head(Backlog[c]))]
    BY <1>4, <2>4 DEF Recv
  <2>8. Fifo!Deliver(c)
    BY <2>1, <2>4, <2>6, <2>7 DEF Fifo!Deliver
  <2>. QED BY <2>8 DEF Fifo!Next
<1>5. ASSUME NEW c \in Client, Lagged(c) PROVE Fifo!Next
  <2>1. sent' = sent /\ Open' = Open /\ conn' = conn /\ got' = got
    BY <1>5 DEF Lagged, Open
  <2>2. Capacity < sent + 1 - cursor[c] /\ conn[c] = "open"
    BY <1>0, <1>5 DEF Lagged, Unread
  <2>3. /\ Backlog[c] = Chunks(cursor[c], sent)
        /\ Backlog'[c] = Chunks(sent + 1 - Capacity, sent)
    BY <1>5, <2>2 DEF Lagged, Backlog, IInv, TypeOK
  <2>4. Len(Backlog[c]) > Capacity
    <3>1. cursor[c] \in Nat \ {0} /\ cursor[c] <= sent + 1
      BY <1>0
    <3>2. Len(Chunks(cursor[c], sent)) = sent + 1 - cursor[c]
      BY <1>0, <3>1, ChunksSeq
    <3>. QED BY <1>0, <2>2, <2>3, <3>2
  <2>5. Backlog'[c] = SubSeq(Backlog[c], Len(Backlog[c]) - Capacity + 1, Len(Backlog[c]))
    <3> DEFINE lo == cursor[c]
    <3>1. lo \in Nat \ {0} /\ Capacity < sent + 1 - lo
      BY <1>0, <2>2
    <3> HIDE DEF lo
    <3>2. Chunks(sent + 1 - Capacity, sent) =
            SubSeq(Chunks(lo, sent), Len(Chunks(lo, sent)) - Capacity + 1, Len(Chunks(lo, sent)))
      BY <1>0, <3>1, ChunksNewest
    <3>. QED BY <2>3, <3>2 DEF lo
  <2>6. \A d \in Client \ {c} : Backlog'[d] = Backlog[d]
    BY <1>5 DEF Lagged, Backlog, IInv, TypeOK
  <2>7. Backlog' = [Backlog EXCEPT ![c] = SubSeq(@, Len(@) - Capacity + 1, Len(@))]
    BY <2>5, <2>6 DEF Backlog
  <2>8. Fifo!Overrun(c)
    BY <2>1, <2>4, <2>7 DEF Fifo!Overrun
  <2>. QED BY <2>8 DEF Fifo!Next
<1>6. ASSUME NEW c \in Client, Disconnect(c) PROVE Fifo!Next
  <2>1. sent' = sent /\ got' = got /\ c \in Open /\ Open' = Open \ {c}
    BY <1>6 DEF Disconnect, Open, IInv, TypeOK
  <2>2. Backlog'[c] = <<>>
    BY <1>6 DEF Disconnect, Backlog, IInv, TypeOK
  <2>3. \A d \in Client \ {c} : Backlog'[d] = Backlog[d]
    BY <1>6 DEF Disconnect, Backlog, IInv, TypeOK
  <2>4. Backlog' = [Backlog EXCEPT ![c] = <<>>]
    BY <2>2, <2>3 DEF Backlog
  <2>5. Fifo!Leave(c)
    BY <2>1, <2>4 DEF Fifo!Leave
  <2>. QED BY <2>5 DEF Fifo!Next
<1>. QED BY <1>1, <1>2, <1>3, <1>4, <1>5, <1>6 DEF Next

\* The ring with one cursor per connection implements the abstract lossy queue:
\* every step is a publish, a delivery, an overrun, a join or a leave of it, or
\* changes nothing that it sees.
THEOREM SpecImplementsFifo == Spec => ImplementsFifo
<1>1. IInv /\ [Next]_vars => [Fifo!Next]_(Fifo!vars)
  BY FifoStep
<1>. QED BY <1>1, FifoInit, SpecIInv, PTL DEF Spec, ImplementsFifo, Fifo!Spec

=============================================================================
