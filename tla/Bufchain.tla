------------------------------ MODULE Bufchain ------------------------------
(***************************************************************************)
(* The byte queues of misc.c: a chain of granules, each with the bytes     *)
(* that were put into it (buflen of them) and how many of those have been  *)
(* consumed.  Every socket, every channel and the terminal keep their      *)
(* backlog in one.                                                         *)
(***************************************************************************)
EXTENDS Integers, Sequences, SequencesExt

CONSTANTS
    Granule,  \* BUFFER_GRANULE
    MaxBytes, \* bound: bytes in the queue
    MaxAdd    \* bound: bytes added at once

VARIABLES
    chain,    \* head to tail: buf, pos
    size      \* buffersize

bvars == <<chain, size>>

ByteValues == {0, 1}
Blocks == UNION {[1..n -> ByteValues] : n \in 0..MaxAdd}

Least(a, b) == IF a < b THEN a ELSE b
Chunk(s, from, len) == SubSeq(s, from + 1, from + len)
Unread(g) == Len(g.buf) - g.pos
New(bytes) == [buf |-> bytes, pos |-> 0]

\* New granules for what does not fit into the tail.
Granules(bytes) ==
    [i \in 1..((Len(bytes) + Granule - 1) \div Granule) |->
        New(Chunk(bytes, (i - 1) * Granule, Least(Granule, Len(bytes) - (i - 1) * Granule)))]

BInit == chain = <<>> /\ size = 0

Kept(bytes) == SubSeq(bytes, 1, Least(Len(bytes), Granule))
\* Mutant: the room in the tail is counted from what is still unread.
AddUnread(block) ==
    LET last == Len(chain)
        room == IF chain = <<>> THEN 0 ELSE Granule - Unread(Last(chain))
        fits == Least(Len(block), room)
        filled == IF fits = 0 THEN chain
                  ELSE [chain EXCEPT ![last].buf = Kept(@ \o Chunk(block, 0, fits))]
    IN  /\ block # <<>> /\ size + Len(block) <= MaxBytes
        /\ size' = size + Len(block)
        /\ chain' = filled \o Granules(SubSeq(block, fits + 1, Len(block)))

Add(block) ==
    LET last == Len(chain)
        room == IF chain = <<>> THEN 0 ELSE Granule - Len(Last(chain).buf)
        fits == Least(Len(block), room)
        filled == IF fits = 0 THEN chain
                  ELSE [chain EXCEPT ![last].buf = @ \o Chunk(block, 0, fits)]
    IN  /\ block # <<>> /\ size + Len(block) <= MaxBytes
        /\ size' = size + Len(block)
        /\ chain' = filled \o Granules(SubSeq(block, fits + 1, Len(block)))

\* Granules that are wholly consumed are freed; the next one is advanced.
UpTo(k) == FoldLeft(LAMBDA a, g : a + Unread(g), 0, SubSeq(chain, 1, k))
Consume(n) ==
    LET freed == CHOOSE k \in 0..Len(chain) :
                     /\ UpTo(k) <= n
                     /\ k < Len(chain) => UpTo(k + 1) > n
        rest == SubSeq(chain, freed + 1, Len(chain))
    IN  /\ n <= size /\ n > 0
        /\ chain' = IF rest = <<>> THEN rest ELSE [rest EXCEPT ![1].pos = @ + n - UpTo(freed)]
        /\ size' = size - n

Clear == chain # <<>> /\ chain' = <<>> /\ size' = 0

\* bufchain_prefix: what is left of the head.
Prefix == LET g == Head(chain) IN SubSeq(g.buf, g.pos + 1, Len(g.buf))

\* bufchain_fetch copies the first n bytes, granule by granule.
Fetch(n) ==
    LET Copy(a, g) == LET len == Least(a.left, Unread(g))
                      IN  [left |-> a.left - len, data |-> a.data \o Chunk(g.buf, g.pos, len)]
    IN  FoldLeft(Copy, [left |-> n, data |-> <<>>], chain).data

BNext ==
    \/ \E block \in Blocks : Add(block)
    \/ \E n \in 1..size : Consume(n)
    \/ Clear
BSpec == BInit /\ [][BNext]_bvars

-----------------------------------------------------------------------------
Contents == FlattenSeq([i \in DOMAIN chain |-> Chunk(chain[i].buf, chain[i].pos, Unread(chain[i]))])

\* buffersize is what the granules hold, no granule is empty or over full, so that whoever sends a
\* prefix and consumes it gets on, and a fetch of any length is that much of the queue.
ChainSound ==
    /\ size = Len(Contents)
    /\ \A i \in DOMAIN chain : Len(chain[i].buf) <= Granule /\ Unread(chain[i]) > 0
    /\ chain # <<>> => Prefix = SubSeq(Contents, 1, Len(Prefix)) /\ Prefix # <<>>
    /\ \A n \in 0..size : Fetch(n) = SubSeq(Contents, 1, n)

\* The chain is a queue.
Queue == INSTANCE ByteQueue WITH queue <- Contents
IsQueue == Queue!QSpec
=============================================================================
