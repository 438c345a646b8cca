------------------------------ MODULE ByteFifo ------------------------------
(***************************************************************************)
(* What a cache of an aio promises: the bytes put into it, numbered as     *)
(* they come, come out once, in order, and none is dropped.                *)
(***************************************************************************)
EXTENDS Integers, Sequences

CONSTANT MaxChunk   \* bytes put at once

VARIABLES
    q,          \* bytes in the cache
    came,       \* how many have been put
    out         \* bytes that have left

Init == q = <<>> /\ came = 0 /\ out = <<>>

Put(n) ==
    /\ q' = q \o [i \in 1 .. n |-> came + i]
    /\ came' = came + n
    /\ UNCHANGED out

Get(n) ==
    /\ out' = out \o SubSeq(q, 1, n)
    /\ q' = SubSeq(q, n + 1, Len(q))
    /\ UNCHANGED came

Next == (\E n \in 1 .. MaxChunk : Put(n)) \/ (\E n \in 1 .. Len(q) : Get(n))

Spec == Init /\ [][Next]_<<q, came, out>>
=============================================================================
