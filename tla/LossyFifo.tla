----------------------------- MODULE LossyFifo -----------------------------
(***************************************************************************)
(* What a live stream promises each renderer: chunks published while it is *)
(* connected arrive in order and at most once; a renderer that falls more  *)
(* than Capacity chunks behind loses the oldest ones, and only those; and  *)
(* publishing never waits for anybody.                                     *)
(***************************************************************************)
EXTENDS Integers, Sequences

CONSTANTS Client, Capacity

VARIABLES
    sent,     \* number of chunks published; chunk n is the n-th
    joined,   \* connected renderers
    queue,    \* chunks each renderer has yet to receive
    got       \* chunks each renderer received

vars == <<sent, joined, queue, got>>

Init ==
    /\ sent = 0 /\ joined = {}
    /\ queue = [c \in Client |-> <<>>]
    /\ got = [c \in Client |-> <<>>]

Publish ==
    /\ sent' = sent + 1
    /\ queue' = [c \in Client |->
                   IF c \in joined THEN Append(queue[c], sent + 1) ELSE queue[c]]
    /\ UNCHANGED <<joined, got>>

Join(c) ==
    /\ c \notin joined
    /\ joined' = joined \cup {c}
    /\ UNCHANGED <<sent, queue, got>>

Leave(c) ==
    /\ c \in joined
    /\ joined' = joined \ {c}
    /\ queue' = [queue EXCEPT ![c] = <<>>]
    /\ UNCHANGED <<sent, got>>

Deliver(c) ==
    /\ queue[c] # <<>>
    /\ got' = [got EXCEPT ![c] = Append(@, Head(queue[c]))]
    /\ queue' = [queue EXCEPT ![c] = Tail(@)]
    /\ UNCHANGED <<sent, joined>>

\* The renderer is too far behind: it keeps only the newest Capacity chunks.
Overrun(c) ==
    /\ Len(queue[c]) > Capacity
    /\ queue' = [queue EXCEPT ![c] = SubSeq(@, Len(@) - Capacity + 1, Len(@))]
    /\ UNCHANGED <<sent, joined, got>>

Next == Publish \/ \E c \in Client : Join(c) \/ Leave(c) \/ Deliver(c) \/ Overrun(c)

Spec == Init /\ [][Next]_vars

=============================================================================
