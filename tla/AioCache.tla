------------------------------ MODULE AioCache ------------------------------
(***************************************************************************)
(* The read cache and the write cache of an aio, src/src/event/aio.c: a    *)
(* chain of buffers of aio_rwbuf_size bytes, appended to at the tail and   *)
(* taken from at the head, and the operations that wait on them: a line, a *)
(* number of bytes, a compressed integer, a flush.                         *)
(* zaio_cache_write_direct links a buffer of the caller, a "long" one,     *)
(* into the write cache.                                                   *)
(*                                                                         *)
(* The bytes are numbered in the order in which they come; Final are those *)
(* that end something: the delimiter of a line, the last byte of an        *)
(* integer (0200).                                                         *)
(***************************************************************************)
EXTENDS Integers, Sequences, FiniteSets, SequencesExt

CONSTANTS
    Size,       \* aio_rwbuf_size, 4096
    MaxByte,    \* how many bytes come
    MaxChunk,   \* how many come at once
    MaxCint,    \* bytes of an integer, 4
    Final

ASSUME CacheAssumption ==
    /\ Size \in Nat \ {0} /\ MaxByte \in Nat /\ MaxChunk \in Nat \ {0} /\ MaxCint \in Nat \ {0}
    /\ Final \subseteq Nat

VARIABLES
    side,       \* which of the two caches this is
    chain,      \* the buffers from head to tail: [long, p1, p2, data]
    length,     \* zaio_rwbuf_list_t.len
    came,       \* bytes that have come so far (history)
    taken,      \* bytes that have left (history)
    op,         \* the operation that waits, with want_read_len and is_delimiter_checked
    result      \* ret of the last operation, 0 when it is used

vars == <<side, chain, length, came, taken, op, result>>

Idle == [kind |-> "none", want |-> 0, checked |-> FALSE]

Init ==
    /\ side \in {"read", "write"}
    /\ chain = <<>> /\ length = 0
    /\ came = 0 /\ taken = <<>>
    /\ op = Idle /\ result = 0

-----------------------------------------------------------------------------
(* The chain.  p1 and p2 are the first and the last index in use, from 0.   *)

FirstLine(c) == IF c = <<>> THEN 0 ELSE c[1].p2 - c[1].p1 + 1

Held(b) == SubSeq(b.data, b.p1 + 1, b.p2 + 1)

Content(c) == FlattenSeq([i \in DOMAIN c |-> Held(c[i])])

Lesser(m, n) == IF m < n THEN m ELSE n

Buffer(s) == [long |-> FALSE, p1 |-> 0, p2 |-> Len(s) - 1, data |-> s]

Buffers(s) ==
    [i \in 1 .. (Len(s) + Size - 1) \div Size |->
        Buffer(SubSeq(s, (i - 1) * Size + 1, Lesser(i * Size, Len(s))))]

(* ___zaio_cache_append fills the tail and goes on in new buffers.  In the  *)
(* mutant p2 of the tail is not written back when a new buffer follows.     *)
FilledStale(t, s, k) ==
    [t EXCEPT !.p2 = IF k < Len(s) THEN @ ELSE @ + k,
              !.data = SubSeq(t.data, 1, t.p2 + 1) \o SubSeq(s, 1, k)]
Filled(t, s, k) ==
    [t EXCEPT !.p2 = @ + k, !.data = SubSeq(t.data, 1, t.p2 + 1) \o SubSeq(s, 1, k)]

Appended(c, s) ==
    IF c = <<>> THEN Buffers(s)
    ELSE LET t == c[Len(c)]
             k == Lesser(Size - 1 - t.p2, Len(s))
         IN  Front(c) \o <<Filled(t, s, k)>> \o Buffers(SubSeq(s, k + 1, Len(s)))

(* ___zaio_cache_shift: buffers that are used up go, the next loses the     *)
(* rest.  A long buffer goes when p1 reaches p2.                            *)
Shifted(c, n) ==
    IF c[1].long
    THEN IF c[1].p1 + n = c[1].p2 THEN Tail(c) ELSE [c EXCEPT ![1].p1 = @ + n]
    ELSE LET upto == [i \in 0 .. Len(c) |-> Len(Content(SubSeq(c, 1, i)))]
             gone == CHOOSE i \in 0 .. Len(c) :
                       upto[i] <= n /\ (i = Len(c) \/ upto[i + 1] > n)
             rest == SubSeq(c, gone + 1, Len(c))
         IN  IF rest = <<>> THEN rest ELSE [rest EXCEPT ![1].p1 = @ + (n - upto[gone])]

(* zaio_cache_write_direct: behind the head, and the tail is the new one.   *)
Linked(c, s) ==
    LET b == [long |-> TRUE, p1 |-> 0, p2 |-> Len(s) - 1, data |-> s]
    IN  IF c = <<>> THEN <<b>> ELSE <<c[1], b>>

(* The next n bytes.                                                        *)
Coming(n) == [i \in 1 .. n |-> came + i]

Chunk == {n \in 1 .. MaxChunk : came + n <= MaxByte}

Take(n) ==
    /\ taken' = taken \o SubSeq(Content(chain), 1, n)
    /\ chain' = Shifted(chain, n)
    /\ length' = length - n

Put(n) ==
    /\ chain' = Appended(chain, Coming(n))
    /\ length' = length + n
    /\ came' = came + n

-----------------------------------------------------------------------------
(* The write cache                                                          *)

(* zaio_cache_write, zaio_cache_puts, ...  Behind a long buffer they write  *)
(* over its p1, p2 and data, which is undefined; no behaviour goes there.   *)
CacheWrite(n) ==
    /\ side = "write"
    /\ n \in Chunk
    /\ chain # <<>> => ~chain[Len(chain)].long
    /\ Put(n)
    /\ UNCHANGED <<side, taken, op, result>>

CacheWriteDirect(n) ==
    /\ side = "write"
    /\ n \in Chunk
    /\ chain' = Linked(chain, Coming(n))
    /\ came' = came + n
    /\ UNCHANGED <<side, length, taken, op, result>>

CacheFlush ==
    /\ side = "write" /\ op = Idle
    /\ op' = [Idle EXCEPT !.kind = "flush"]
    /\ UNCHANGED <<side, chain, length, came, taken, result>>

(* _active_writen: the kernel takes part of the first buffer; the flush is  *)
(* done when there is none.                                                 *)
Write ==
    /\ op.kind = "flush"
    /\ \E n \in 1 .. FirstLine(chain) : Take(n)
    /\ UNCHANGED <<side, came, op, result>>

NothingCounted == length <= 1            \* wrong on purpose: by the length, one too soon
NothingLeft == FirstLine(chain) = 0

Written ==
    /\ op.kind = "flush"
    /\ NothingLeft
    /\ op' = Idle /\ result' = 1
    /\ UNCHANGED <<side, chain, length, came, taken>>

-----------------------------------------------------------------------------
(* The read cache                                                           *)

Read(kind, n) ==
    /\ side = "read" /\ op = Idle
    /\ op' = [kind |-> kind, want |-> n, checked |-> FALSE]
    /\ result' = 0
    /\ UNCHANGED <<side, chain, length, came, taken>>

Done(r) == op' = Idle /\ result' = r

(* The first byte of s that ends something, or 0.                           *)
Ending(s) ==
    LET E == {i \in DOMAIN s : s[i] \in Final}
    IN  IF E = {} THEN 0 ELSE CHOOSE i \in E : \A j \in E : i <= j

(* _active_read_delimiter: what is cached is looked through once, what      *)
(* comes later as it comes.                                                 *)
LineCached ==
    LET e == Ending(Content(chain))
    IN  CASE e # 0 -> Lesser(e, op.want)
          [] e = 0 /\ op.want <= length -> op.want
          [] OTHER -> 0

LineInChunkOnly(n) == Ending(Coming(n))  \* wrong on purpose: not behind what was cached
LineIn(n) == IF Ending(Coming(n)) = 0 THEN 0 ELSE length + Ending(Coming(n))

LineRead(n) ==
    CASE LineIn(n) # 0 -> Lesser(LineIn(n), op.want)
      [] LineIn(n) = 0 /\ op.want <= length + n -> op.want
      [] OTHER -> 0

(* One look at the cache; op.checked says that it has been in vain.         *)
LookLine ==
    /\ op.kind = "line" /\ ~op.checked
    /\ IF LineCached # 0 THEN Done(LineCached)
       ELSE op' = [op EXCEPT !.checked = TRUE] /\ UNCHANGED result
    /\ UNCHANGED <<side, chain, length, came, taken>>

(* _active_read: whatever there is, up to want.                             *)
LookAny ==
    /\ op.kind = "any" /\ ~op.checked
    /\ IF length > 0 THEN Done(Lesser(op.want, length))
       ELSE op' = [op EXCEPT !.checked = TRUE] /\ UNCHANGED result
    /\ UNCHANGED <<side, chain, length, came, taken>>

(* _active_readn                                                            *)
LookN ==
    /\ op.kind = "n" /\ ~op.checked
    /\ IF op.want <= length THEN Done(op.want)
       ELSE op' = [op EXCEPT !.checked = TRUE] /\ UNCHANGED result
    /\ UNCHANGED <<side, chain, length, came, taken>>

(* _active_read_cint takes the integer out of the cache itself.             *)
LookCint ==
    /\ op.kind = "cint" /\ ~op.checked
    /\ LET e == Ending(Content(chain))
       IN  \/ /\ e \in 1 .. MaxCint
              /\ Done(e)
              /\ Take(e)
           \/ /\ e \notin 1 .. MaxCint
              /\ IF length > MaxCint THEN Done(-1)
                 ELSE op' = [op EXCEPT !.checked = TRUE] /\ UNCHANGED result
              /\ UNCHANGED <<chain, length, taken>>
    /\ UNCHANGED <<side, came>>

(* _zaio_io_read brings n bytes.                                            *)
More(n) ==
    /\ op.checked
    /\ n \in Chunk
    /\ Put(n)
    /\ IF op.kind = "line"
       THEN IF LineRead(n) # 0 THEN Done(LineRead(n)) ELSE UNCHANGED <<op, result>>
       ELSE op' = [op EXCEPT !.checked = FALSE] /\ UNCHANGED result
    /\ UNCHANGED <<side, taken>>

(* It fails, at the end of the stream.                                      *)
NoMore ==
    /\ op.checked
    /\ Done(-1)
    /\ UNCHANGED <<side, chain, length, came, taken>>

(* zaio_get_read_cache, as much as the program likes.                       *)
GetReadCache(n) ==
    /\ side = "read" /\ op = Idle
    /\ n \in 1 .. length
    /\ Take(n)
    /\ result' = 0
    /\ UNCHANGED <<side, came, op>>

Next ==
    \/ \E n \in 1 .. MaxByte : CacheWrite(n) \/ More(n) \/ GetReadCache(n)
    \/ \E n \in 1 .. MaxChunk + 1, k \in {"line", "any", "n", "cint"} : Read(k, n)
    \/ CacheFlush \/ Write \/ Written \/ LookLine \/ LookAny \/ LookN \/ LookCint \/ NoMore

Spec == Init /\ [][Next]_vars

(* A program that uses zaio_cache_write_direct too.                         *)
DirectNext == Next \/ \E n \in 1 .. MaxByte : CacheWriteDirect(n)

DirectSpec == Init /\ [][DirectNext]_vars

-----------------------------------------------------------------------------

(* Both caches are byte queues: what is written or read in pieces of any    *)
(* size comes out complete and in order, across buffers that fill up, are   *)
(* used up in part and are freed.                                           *)
Fifo == INSTANCE ByteFifo WITH q <- Content(chain), out <- taken
ImplementsByteFifo == Fifo!Spec

(* A flush that reports success has sent everything that was written, in    *)
(* order ("请求写, 成功/失败/超时后回调执行 callback").                     *)
FlushSendsAll ==
    [][op.kind = "flush" /\ op' = Idle => taken = [i \in 1 .. came |-> i]]_vars

(* A line ends with the first delimiter, or is as long as allowed, however  *)
(* the bytes came; so many bytes as a read reports are in the cache; an     *)
(* integer takes exactly its own bytes.                                     *)
ReadsExact ==
    [][op # Idle /\ op' = Idle /\ result' > 0 =>
         LET C == Content(chain')
             H == SubSeq(taken', Len(taken) + 1, Len(taken'))
         IN  CASE op.kind = "line" ->
                    /\ result' <= Len(C)
                    /\ result' = op.want \/ C[result'] \in Final
                    /\ \A i \in 1 .. result' - 1 : C[i] \notin Final
               [] op.kind = "any" -> result' = Lesser(op.want, Len(C)) /\ result' > 0
               [] op.kind = "n" -> result' = op.want /\ result' <= Len(C)
               [] op.kind = "cint" ->
                    /\ result' = Len(H) /\ H[Len(H)] \in Final
                    /\ \A i \in 1 .. Len(H) - 1 : H[i] \notin Final
               [] OTHER -> TRUE]_vars
=============================================================================
