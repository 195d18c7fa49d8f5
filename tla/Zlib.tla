-------------------------------- MODULE Zlib --------------------------------
(***************************************************************************)
(* The compression of sshzlib.c: the LZ77 search over a window with hash   *)
(* chains, the static Huffman codes and flushes of the compressor, the     *)
(* table-driven decompressor.  Bits are a sequence of 0s and 1s in the     *)
(* order in which they are sent; the window, the number of hashes, of      *)
(* matches followed and of bytes in a stored block are scaled down.        *)
(***************************************************************************)
EXTENDS Integers, SequencesExt

CONSTANTS
    WinSize, HashMax, MaxMatch, \* WINSIZE, HASHMAX, MAXMATCH
    MaxStored,                  \* most bytes in an uncompressed block (65535)
    Packets, Stored,            \* what may be sent, compressed and not
    MatchLens, Distances,       \* of single matches
    Streams                     \* what another compressor may send: see StreamsRead

VARIABLES
    lz,       \* the window of the compressor: LZ77InternalContext
    held,     \* outbits: what does not make a byte yet
    first,    \* firstblock
    inflate,  \* the decompressor at the other end
    arrived,  \* the last packet came out as it went in
    spare,    \* of a packet that is not compressed: the bytes it took beyond its length and what
              \* zlib_disable_compression said, and whether the bits before it fill whole bytes
    single    \* <<>>, or a single match, or a stream of another compressor and where it is cut

zvars == <<lz, held, first, inflate, arrived, spare, single>>

HashChars == 3
Invalid == -1
Window == 0..WinSize - 1
Cat(ss) == FlattenSeq(ss)

Least(a, b) == IF a < b THEN a ELSE b

-----------------------------------------------------------------------------
(***************************************************************************)
(* LZ77.                                                                   *)
(***************************************************************************)
Hash(data) == (257 * data[1] + 263 * data[2] + 269 * data[3]) % HashMax

Fresh == [next |-> [i \in Window |-> Invalid], prev |-> [i \in Window |-> Invalid],
          hashval |-> [i \in Window |-> Invalid], head |-> [h \in 0..HashMax - 1 |-> Invalid],
          data |-> [i \in Window |-> 0], winpos |-> 0, pending |-> <<>>]

\* Mutant: the chain the oldest entry is the only one of keeps its head.
AdvanceStale(st, c, hash) ==
    LET p == st.winpos
        next == IF st.prev[p] # Invalid THEN [st.next EXCEPT ![st.prev[p]] = Invalid] ELSE st.next
        off == st.head[hash]
    IN  [st EXCEPT !.next = [next EXCEPT ![p] = off],
                   !.prev = [i \in Window |-> IF i = p THEN Invalid ELSE IF i = off THEN p ELSE @[i]],
                   !.hashval[p] = hash, !.head = [st.head EXCEPT ![hash] = p],
                   !.data[p] = c, !.winpos = (p + 1) % WinSize]

\* lz77_advance: the oldest entry leaves the tail of its chain, c enters at the head of its own.
Advance(st, c, hash) ==
    LET p == st.winpos
        next == IF st.prev[p] # Invalid THEN [st.next EXCEPT ![st.prev[p]] = Invalid] ELSE st.next
        head == IF st.prev[p] = Invalid /\ st.hashval[p] # Invalid
                THEN [st.head EXCEPT ![st.hashval[p]] = Invalid] ELSE st.head
        off == head[hash]
    IN  [st EXCEPT !.next = [next EXCEPT ![p] = off],
                   !.prev = [i \in Window |-> IF i = p THEN Invalid ELSE IF i = off THEN p ELSE @[i]],
                   !.hashval[p] = hash, !.head = [head EXCEPT ![hash] = p],
                   !.data[p] = c, !.winpos = (p + 1) % WinSize]

CharAt(st, data, k) == IF k < 0 THEN st.data[(st.winpos + k) % WinSize] ELSE data[k + 1]
Distance(st, off) == WinSize - ((off + WinSize - st.winpos) % WinSize)

\* The chain from off on (no longer than the window).
RECURSIVE Chain(_, _, _)
Chain(st, off, most) ==
    IF off = Invalid \/ most = 0 THEN <<>> ELSE <<off>> \o Chain(st, st.next[off], most - 1)

\* The distances of the first MaxMatch entries that match three characters.
Matches(st, data) ==
    LET Same(off) == \A i \in 0..HashChars - 1 :
                         CharAt(st, data, i) = CharAt(st, data, i - Distance(st, off))
        offs == SelectSeq(Chain(st, st.head[Hash(data)], WinSize + 1), Same)
    IN  [i \in 1..(IF Len(offs) < MaxMatch THEN Len(offs) ELSE MaxMatch) |-> Distance(st, offs[i])]

\* They are followed until none is left: the longest, at the shortest distance.
RECURSIVE Longest(_, _, _, _)
Longest(st, data, ds, len) ==
    LET left == SelectSeq(ds, LAMBDA d : CharAt(st, data, len) = CharAt(st, data, len - d))
    IN  IF len < Len(data) /\ left # <<>> THEN Longest(st, data, left, len + 1)
        ELSE [distance |-> ds[1], len |-> len, chr |-> data[1]]

\* n characters go into the window, or are kept until they can be hashed.
RECURSIVE Pass(_, _, _)
Pass(st, data, n) ==
    IF n = 0 THEN st
    ELSE Pass(IF Len(data) >= HashChars THEN Advance(st, data[1], Hash(data))
              ELSE [st EXCEPT !.pending = Append(@, data[1])], Tail(data), n - 1)

\* What was pending goes first, as far as there is something to hash it with.
RECURSIVE AddPending(_, _)
AddPending(st, data) ==
    LET all == st.pending \o data
    IN  IF st.pending = <<>> \/ Len(all) < HashChars THEN st
        ELSE AddPending([Advance(st, all[1], Hash(all)) EXCEPT !.pending = Tail(@)], data)

Literal(c) == [len |-> 1, chr |-> c, distance |-> 0]
NoMatch == [len |-> 0, chr |-> 0, distance |-> 0]

\* The main loop: a match is put off by one character, in case a longer one starts there.
Found(st, data, compress) ==
    LET ds == IF compress /\ Len(data) >= HashChars THEN Matches(st, data) ELSE <<>>
    IN  IF ds = <<>> THEN NoMatch ELSE Longest(st, data, ds, HashChars)
RECURSIVE Search(_, _, _, _, _), SearchOn(_, _, _, _, _, _)
SearchOn(st, data, compress, defer, out, new) ==
    LET better == new.len > 0 /\ (defer.len = 0 \/ new.len > defer.len + 1)
        n == IF ~better /\ defer.len > 0 THEN defer.len - 1 ELSE 1
    IN  Search(Pass(st, data, n), SubSeq(data, n + 1, Len(data)), compress,
               IF better THEN new ELSE NoMatch,
               IF better THEN IF defer.len > 0 THEN Append(out, Literal(defer.chr)) ELSE out
               ELSE Append(out, IF defer.len > 0 THEN defer ELSE Literal(data[1])))
Search(st, data, compress, defer, out) ==
    IF data = <<>> THEN [st |-> st, out |-> out]
    ELSE SearchOn(st, data, compress, defer, out, Found(st, data, compress))

\* lz77_compress.
Lz77(st, data, compress) == Search(AddPending(st, data), data, compress, NoMatch, <<>>)

-----------------------------------------------------------------------------
(***************************************************************************)
(* Codes.                                                                  *)
(***************************************************************************)
\* n bits of v, lowest first (outbits), and highest first (Huffman codes, mirrored).
Bits(v, n) == [i \in 1..n |-> (v \div 2 ^ (i - 1)) % 2]
Code(v, n) == Reverse(Bits(v, n))
RECURSIVE Value(_)
Value(bits) == IF bits = <<>> THEN 0 ELSE Head(bits) + 2 * Value(Tail(bits))

\* lencodes and distcodes: the least value of each code, and its extra bits.
LenMin == <<3, 4, 5, 6, 7, 8, 9, 10, 11, 13, 15, 17, 19, 23, 27, 31, 35, 43, 51, 59, 67, 83, 99,
            115, 131, 163, 195, 227, 258>>
LenExtra == [i \in 1..29 |-> IF i < 9 \/ i = 29 THEN 0 ELSE (i - 5) \div 4]
DistExtra == [i \in 1..30 |-> IF i < 5 THEN 0 ELSE (i - 3) \div 2]
DistMin == <<1, 2, 3, 4, 5, 7, 9, 13, 17, 25, 33, 49, 65, 97, 129, 193, 257, 385, 513, 769, 1025,
             1537, 2049, 3073, 4097, 6145, 8193, 12289, 16385, 24577>>

\* The code a value belongs to (the binary search finds the only one).
Place(mins, v) == CHOOSE i \in DOMAIN mins : mins[i] <= v /\ (i = Len(mins) \/ v < mins[i + 1])

\* zlib_literal.
LiteralBits(c) == IF c <= 143 THEN Code(48 + c, 8) ELSE Code(400 + c - 144, 9)

\* One match of 3 to 258 characters.
MatchBits(distance, len) ==
    LET l == Place(LenMin, len)
        d == Place(DistMin, distance)
    IN  (IF l <= 23 THEN Code(l, 7) ELSE Code(192 + l - 24, 8))
        \o Bits(len - LenMin[l], LenExtra[l])
        \o Code(d - 1, 5) \o Bits(distance - DistMin[d], DistExtra[d])

\* zlib_match: longer ones in pieces, none of them shorter than 3.
RECURSIVE MatchPieces(_, _)
MatchPieces(distance, len) ==
    LET piece == IF len > 260 THEN 258 ELSE IF len <= 258 THEN len ELSE len - 3
    IN  IF len = 0 THEN <<>> ELSE MatchBits(distance, piece) \o MatchPieces(distance, len - piece)

-----------------------------------------------------------------------------
(***************************************************************************)
(* zlib_compress_block.                                                    *)
(***************************************************************************)
Encoded(out) == Cat([i \in DOMAIN out |-> IF out[i].distance = 0 THEN LiteralBits(out[i].chr)
                                          ELSE MatchPieces(out[i].distance, out[i].len)])

\* The packet in uncompressed blocks, its characters noted in the window.
RECURSIVE StoredBlocks(_, _, _), StoredBlock(_, _, _, _)
StoredBlock(r, open, data, n) ==
    StoredBlocks(r.st,
                 open \o Bits(0, (-Len(open)) % 8) \o Bits(n, 16) \o Bits(65535 - n, 16)
                 \o Cat([i \in DOMAIN r.out |-> Bits(r.out[i].chr, 8)]),
                 SubSeq(data, n + 1, Len(data)))
StoredBlocks(st, bits, data) ==
    LET n == Least(Len(data), MaxStored)
    IN  IF data = <<>> THEN [st |-> st, bits |-> bits]
        ELSE StoredBlock(Lz77(st, SubSeq(data, 1, n), FALSE), bits \o Bits(0, 3), data, n)

Header == Bits(40056, 16)    \* 0x9C78
Close == Bits(0, 7)
Open == Bits(2, 3)

Start == held \o (IF first THEN Header ELSE <<>>)
\* The block stays open for the next packet.
StoredPacket(s) == [st |-> s.st, bits |-> s.bits \o Open]
StaticPacket(r) ==
    [st |-> r.st, bits |-> Start \o (IF first THEN Open ELSE <<>>) \o Encoded(r.out)
                           \o Close \o Bits(2, 10) \o Open]
Deflate(st, packet, disabled) ==
    IF disabled THEN StoredPacket(StoredBlocks(st, Start \o (IF first THEN <<>> ELSE Close), packet))
    ELSE StaticPacket(Lz77(st, packet, TRUE))

\* Mutant: the bits that close the block before are forgotten.
AdjustmentOpen == 4 + IF first THEN 3 ELSE (Len(held) + 3) \div 8

\* zlib_disable_compression: the bytes the packet is to take beyond its own.
Adjustment == 4 + IF first THEN 3 ELSE (Len(held) + 10) \div 8

-----------------------------------------------------------------------------
(***************************************************************************)
(* Huffman tables.  A table is indexed by as many bits as it has, in the   *)
(* order they arrive; an entry has a symbol, or the table for what follows *)
(* (<<>> for neither).                                                     *)
(***************************************************************************)
CountOf(lengths, n) == Len(SelectSeq(lengths, LAMBDA l : l = n))
RECURSIVE StartCode(_, _)
StartCode(lengths, n) == IF n = 1 THEN 0 ELSE 2 * (StartCode(lengths, n - 1) + CountOf(lengths, n - 1))

\* The code of every symbol (counted from 1 here), as bits.
Codes(lengths) ==
    LET start == [n \in 1..15 |-> StartCode(lengths, n)]
    IN  [i \in DOMAIN lengths |->
            IF lengths[i] = 0 THEN <<>>
            ELSE Code(start[lengths[i]] + CountOf(SubSeq(lengths, 1, i - 1), lengths[i]), lengths[i])]

MaxOf(s) == FoldLeft(LAMBDA a, b : IF a < b THEN b ELSE a, 0, s)

\* zlib_mkonetab: those of the codes that go on after the prefix.  A code with fewer bits than the
\* table fills every entry it begins; of several at one entry the longest sets the bits.
RECURSIVE OneTable(_, _, _, _)
OneTable(codes, prefix, bits, next) ==
    LET done == Len(prefix)
        here == {i \in DOMAIN codes : Len(codes[i]) > done /\ SubSeq(codes[i], 1, done) = prefix}
        Fills(i, key) == LET n == Least(Len(codes[i]) - done, bits)
                         IN  SubSeq(codes[i], done + 1, done + n) = SubSeq(key, 1, n)
        Entry(key) ==
            LET there == {i \in here : Fills(i, key)}
                longest == CHOOSE n \in {Len(codes[i]) - done : i \in there} :
                               \A i \in there : Len(codes[i]) - done <= n
            IN  IF there = {} THEN [nbits |-> 0, code |-> -1, next |-> <<>>]
                ELSE IF longest <= bits
                THEN [nbits |-> longest, next |-> <<>>,
                      code |-> (CHOOSE i \in there : \A j \in there : j <= i) - 1]
                ELSE [nbits |-> bits, code |-> -1,
                      next |-> <<OneTable(codes, prefix \o key, Least(longest - bits, next), next)>>]
    IN  [bits |-> bits, entry |-> [k \in 0..2 ^ bits - 1 |-> Entry(Bits(k, bits))]]

\* zlib_mktable, with tables of 9 bits and then 7.
TableOf(lengths, most, next) == OneTable(Codes(lengths), <<>>, Least(MaxOf(lengths), most), next)
Table(lengths) == TableOf(lengths, 9, 7)

\* zlib_huflookup: the symbol and what is left of the bits; -1: not enough bits; -2: no such code.
RECURSIVE Lookup(_, _)
Lookup(bits, table) ==
    LET ent == table.entry[Value(SubSeq(bits, 1, Least(table.bits, Len(bits))))]
        rest == SubSeq(bits, ent.nbits + 1, Len(bits))
    IN  IF ent.nbits > Len(bits) THEN [code |-> -1, rest |-> bits]
        ELSE IF ent.code # -1 THEN [code |-> ent.code, rest |-> rest]
        ELSE IF ent.next = <<>> THEN [code |-> -2, rest |-> bits]
        ELSE LET r == Lookup(rest, ent.next[1])
             IN  IF r.code < 0 THEN [code |-> r.code, rest |-> bits] ELSE r

Fixed(n, v) == [i \in 1..n |-> v]
StaticLens == Table(Fixed(144, 8) \o Fixed(112, 9) \o Fixed(24, 7) \o Fixed(8, 8))
StaticDists == Table(Fixed(32, 5))
-----------------------------------------------------------------------------
(***************************************************************************)
(* zlib_decompress_block: one state after another, until more bits are     *)
(* needed than there are.  What a state does not use is 0 or empty.        *)
(***************************************************************************)
Inflate0 == [state |-> "START", bits |-> <<>>, out |-> <<>>, status |-> "run",
             static |-> TRUE, lit |-> <<>>, dist |-> <<>>, lenTable |-> <<>>,
             hlit |-> 0, hdist |-> 0, hclen |-> 0, lenlen |-> <<>>, lengths |-> <<>>,
             rep |-> <<>>, sym |-> 0, len |-> 0, left |-> 0,
             data |-> [i \in Window |-> 0], winpos |-> 0]

Eat(d, n) == [d EXCEPT !.bits = SubSeq(@, n + 1, Len(@))]
Read(d, n) == Value(SubSeq(d.bits, 1, n))
Has(d, n) == Len(d.bits) >= n
Wait(d) == [d EXCEPT !.status = "wait"]
Need(d, n, then) == IF Has(d, n) THEN then ELSE Wait(d)
\* What a lookup gives: to wait, to fail, or a symbol to go on with.
Coded(d, r, then) ==
    CASE r.code = -1 -> Wait(d)
      [] r.code = -2 -> [d EXCEPT !.status = "error"]
      [] OTHER -> then
After(d, r) == [d EXCEPT !.bits = r.rest]

\* zlib_emit_char, and a match read from the window while it is written.
Emit(d, c) == [d EXCEPT !.out = Append(@, c), !.data[d.winpos] = c, !.winpos = (@ + 1) % WinSize]
\* Mutant: the characters of a match are taken as they were before it.
CopyBlock(d, distance, n) ==
    FoldLeft(Emit, d, [i \in 1..n |-> d.data[(d.winpos + i - 1 - distance) % WinSize]])
RECURSIVE Copy(_, _, _)
Copy(d, distance, n) ==
    IF n = 0 THEN d ELSE Copy(Emit(d, d.data[(d.winpos - distance) % WinSize]), distance, n - 1)

BlockType(d) ==
    LET type == Read(Eat(d, 1), 2)
        rest == Eat(d, 3)
    IN  CASE type = 0 -> [Eat(rest, Len(rest.bits) % 8) EXCEPT !.state = "UNCOMP_LEN"]
          [] type = 1 -> [rest EXCEPT !.static = TRUE, !.state = "INBLK"]
          [] type = 2 -> [rest EXCEPT !.state = "TREES_HDR"]
          [] OTHER -> rest

TreesHeader(d) ==
    [Eat(d, 14) EXCEPT !.hlit = 257 + Read(d, 5), !.hdist = 1 + Read(Eat(d, 5), 5),
                       !.hclen = 4 + Read(Eat(d, 10), 4), !.lenlen = <<>>, !.state = "TREES_LENLEN"]

\* The lengths of the codes for code lengths, in an order of their own; those not sent are 0.
LenLenMap == <<16, 17, 18, 0, 8, 7, 9, 6, 10, 5, 11, 4, 12, 3, 13, 2, 14, 1, 15>>
LenLengths(lenlen) ==
    [i \in 1..19 |-> LET j == CHOOSE j \in 1..19 : LenLenMap[j] = i - 1
                     IN  IF j <= Len(lenlen) THEN lenlen[j] ELSE 0]
LenLen(d) ==
    LET n == Least(d.hclen - Len(d.lenlen), Len(d.bits) \div 3)
        more == d.lenlen \o [i \in 1..n |-> Read(Eat(d, 3 * (i - 1)), 3)]
        rest == [Eat(d, 3 * n) EXCEPT !.lenlen = more]
    IN  IF Len(more) < d.hclen THEN rest
        ELSE [rest EXCEPT !.lenTable = <<Table(LenLengths(more))>>, !.lenlen = <<>>, !.hclen = 0,
                          !.state = "TREES_LEN"]

\* A length, or 16 to 18 for several: what is to be repeated, and how often, follows.
TreeLength(d, code) ==
    IF code < 16 THEN [d EXCEPT !.lengths = Append(@, code)]
    ELSE [d EXCEPT !.rep = [bits |-> CASE code = 16 -> 2 [] code = 17 -> 3 [] OTHER -> 7,
                            add |-> IF code = 18 THEN 11 ELSE 3,
                            of |-> IF code = 16 /\ d.lengths # <<>> THEN Last(d.lengths) ELSE 0],
                   !.state = "TREES_LENREP"]
CodedLength(d, r) == Coded(d, r, TreeLength(After(d, r), r.code))
Trees(d) ==
    IF Len(d.lengths) >= d.hlit + d.hdist
    THEN [d EXCEPT !.lit = <<Table(SubSeq(d.lengths, 1, d.hlit))>>,
                   !.dist = <<Table(SubSeq(d.lengths, d.hlit + 1, Len(d.lengths)))>>,
                   !.lenTable = <<>>, !.lengths = <<>>, !.hlit = 0, !.hdist = 0,
                   !.static = FALSE, !.state = "INBLK"]
    ELSE CodedLength(d, Lookup(d.bits, d.lenTable[1]))
Repeat(d) ==
    LET n == Least(d.rep.add + Read(d, d.rep.bits), d.hlit + d.hdist - Len(d.lengths))
    IN  [Eat(d, d.rep.bits) EXCEPT !.lengths = @ \o Fixed(n, d.rep.of), !.rep = <<>>,
                                   !.state = "TREES_LEN"]

Symbol(d, code) ==
    CASE code < 256 -> Emit(d, code)
      [] code = 256 -> [d EXCEPT !.state = "OUTSIDEBLK", !.static = TRUE, !.lit = <<>>, !.dist = <<>>]
      [] code \in 257..285 -> [d EXCEPT !.state = "GOTLENSYM", !.sym = code - 256]
      [] OTHER -> d
CodedSymbol(d, r) == Coded(d, r, Symbol(After(d, r), r.code))
GotLen(d) ==
    [Eat(d, LenExtra[d.sym]) EXCEPT !.len = LenMin[d.sym] + Read(d, LenExtra[d.sym]), !.sym = 0,
                                    !.state = "GOTLEN"]
CodedDist(d, r) == Coded(d, r, [After(d, r) EXCEPT !.state = "GOTDISTSYM", !.sym = r.code + 1])
GotDist(d) ==
    LET n == DistExtra[d.sym]
    IN  Copy([Eat(d, n) EXCEPT !.sym = 0, !.len = 0, !.state = "INBLK"],
             DistMin[d.sym] + Read(d, n), d.len)
StoredByte(d) ==
    [Emit(Eat(d, 8), Read(d, 8)) EXCEPT !.left = @ - 1,
                                        !.state = IF d.left = 1 THEN "OUTSIDEBLK" ELSE @]

Step(d) ==
    CASE d.state = "START" -> Need(d, 16, [Eat(d, 16) EXCEPT !.state = "OUTSIDEBLK"])
      [] d.state = "OUTSIDEBLK" -> Need(d, 3, BlockType(d))
      [] d.state = "TREES_HDR" -> Need(d, 14, TreesHeader(d))
      [] d.state = "TREES_LENLEN" -> Need(d, 3, LenLen(d))
      [] d.state = "TREES_LEN" -> Trees(d)
      [] d.state = "TREES_LENREP" -> Need(d, d.rep.bits, Repeat(d))
      [] d.state = "INBLK" -> CodedSymbol(d, Lookup(d.bits, IF d.static THEN StaticLens ELSE d.lit[1]))
      [] d.state = "GOTLENSYM" -> Need(d, LenExtra[d.sym], GotLen(d))
      [] d.state = "GOTLEN" -> CodedDist(d, Lookup(d.bits, IF d.static THEN StaticDists ELSE d.dist[1]))
      [] d.state = "GOTDISTSYM" -> Need(d, DistExtra[d.sym], GotDist(d))
      [] d.state = "UNCOMP_LEN" -> Need(d, 16, [Eat(d, 16) EXCEPT !.left = Read(d, 16),
                                                                  !.state = "UNCOMP_NLEN"])
      [] d.state = "UNCOMP_NLEN" ->
             Need(d, 16, [Eat(d, 16) EXCEPT !.state = IF d.left = 0 THEN "OUTSIDEBLK" ELSE "UNCOMP_DATA"])
      [] d.state = "UNCOMP_DATA" -> Need(d, 8, StoredByte(d))

RECURSIVE Steps(_)
Steps(d) == IF d.bits = <<>> \/ d.status # "run" THEN d ELSE Steps(Step(d))
\* One call: whole bytes, after what was left of the last call.
Inflate(d, bits) == Steps([d EXCEPT !.bits = @ \o bits, !.out = <<>>, !.status = "run"])

-----------------------------------------------------------------------------
(***************************************************************************)
(* Packets go through both.                                                *)
(***************************************************************************)
Exact == [bytes |-> 0, full |-> TRUE]
ZInit ==
    /\ lz = Fresh /\ held = <<>> /\ first = TRUE
    /\ inflate = Inflate0 /\ arrived = TRUE /\ spare = Exact
    /\ \/ single = <<>>
       \/ single \in {<<"match", distance, len>> : distance \in Distances, len \in MatchLens}
       \/ \E i \in DOMAIN Streams : single \in {<<"stream", i, cut>> : cut \in Streams[i].cuts}

\* Whole bytes are sent, to the decompressor of the other end.
Sent(bits) == Len(bits) - (Len(bits) % 8)
Received(packet, disabled, d, r) ==
    /\ lz' = d.st /\ held' = SubSeq(d.bits, Sent(d.bits) + 1, Len(d.bits)) /\ first' = FALSE
    /\ inflate' = [r EXCEPT !.out = <<>>]
    /\ arrived' = (r.status # "error" /\ r.out = packet)
    /\ spare' = IF disabled /\ Len(packet) <= MaxStored
                THEN [bytes |-> Sent(d.bits) \div 8 - Len(packet) - Adjustment,
                      full |-> first \/ (Len(held) + 10) % 8 = 0]
                ELSE Exact
    /\ UNCHANGED single
Transmit(packet, disabled) ==
    /\ single = <<>>
    /\ \E d \in {Deflate(lz, packet, disabled)} :
           \E r \in {Inflate(inflate, SubSeq(d.bits, 1, Sent(d.bits)))} :
               Received(packet, disabled, d, r)

ZNext == \E disabled \in BOOLEAN :
             \E packet \in (IF disabled THEN Stored ELSE Packets) : Transmit(packet, disabled)
ZSpec == ZInit /\ [][ZNext]_zvars

-----------------------------------------------------------------------------
\* The chains are what was hashed: doubly linked, the newest first, each entry in the chain of its
\* hash, so that the oldest is the last of its chain and can be taken off without a search.
ChainsSound ==
    /\ Len(lz.pending) < HashChars
    /\ \A i \in Window :
           LET age(j) == Distance(lz, j)
           IN  lz.hashval[i] # Invalid =>
                   /\ IF lz.prev[i] = Invalid THEN lz.head[lz.hashval[i]] = i
                      ELSE lz.next[lz.prev[i]] = i
                   /\ lz.next[i] # Invalid =>
                          /\ lz.prev[lz.next[i]] = i
                          /\ lz.hashval[lz.next[i]] = lz.hashval[i]
                          /\ age(lz.next[i]) > age(i)

\* A single match, read back: the lengths and distances of its pieces.
RECURSIVE Pieces(_)
Pieces(d) ==
    IF d.state = "GOTDISTSYM"
    THEN LET n == DistExtra[d.sym]
         IN  <<[len |-> d.len, distance |-> DistMin[d.sym] + Read(d, n)]>>
             \o Pieces([Eat(d, n) EXCEPT !.state = "INBLK"])
    ELSE IF d.bits = <<>> \/ d.status # "run" THEN <<>> ELSE Pieces(Step(d))

\* A match of any length and distance is sent in pieces that can be sent, and read as it was meant.
AddUp(pieces, distance, len) ==
    /\ FoldLeft(LAMBDA n, p : n + p.len, 0, pieces) = len
    /\ \A i \in DOMAIN pieces : pieces[i].distance = distance /\ pieces[i].len \in 3..258
MatchesRead ==
    single # <<>> /\ single[1] = "match" =>
        AddUp(Pieces([Inflate0 EXCEPT !.state = "INBLK", !.bits = MatchPieces(single[2], single[3])]),
              single[2], single[3])

(***************************************************************************)
(* A stream of another compressor: a block whose trees are sent as lenlen  *)
(* (lengths of 19 codes) and program (code lengths, and for those above 15 *)
(* what their extra bits say), and its contents: characters, 256, or       *)
(* matches.                                                                *)
(***************************************************************************)
ExtraOf(code) == CASE code = 16 -> 2 [] code = 17 -> 3 [] code = 18 -> 7 [] OTHER -> 0
RECURSIVE LengthsOf(_)
LengthsOf(program) ==
    LET before == LengthsOf(Front(program))
        p == Last(program)
    IN  IF program = <<>> THEN <<>>
        ELSE before \o CASE p[1] = 16 -> Fixed(3 + p[2], Last(before))
                         [] p[1] = 17 -> Fixed(3 + p[2], 0)
                         [] p[1] = 18 -> Fixed(11 + p[2], 0)
                         [] OTHER -> <<p[1]>>

StreamBits(s) ==
    LET lenlen == Codes(LenLengths(s.lenlen))
        all == LengthsOf(s.program)
        lit == Codes(SubSeq(all, 1, s.hlit))
        dist == Codes(SubSeq(all, s.hlit + 1, Len(all)))
        Item(x) == IF x.len = 0 THEN lit[x.chr + 1]
                   ELSE LET l == Place(LenMin, x.len)
                            d == Place(DistMin, x.distance)
                        IN  lit[257 + l] \o Bits(x.len - LenMin[l], LenExtra[l])
                            \o dist[d] \o Bits(x.distance - DistMin[d], DistExtra[d])
    IN  Header \o Bits(4, 3) \o Bits(s.hlit - 257, 5) \o Bits(Len(all) - s.hlit - 1, 5)
        \o Bits(Len(s.lenlen) - 4, 4) \o Cat([i \in DOMAIN s.lenlen |-> Bits(s.lenlen[i], 3)])
        \o Cat([i \in DOMAIN s.program |-> lenlen[s.program[i][1] + 1]
                                          \o Bits(s.program[i][2], ExtraOf(s.program[i][1]))])
        \o Cat([i \in DOMAIN s.contents |-> Item(s.contents[i])])

RECURSIVE Said(_)
Said(contents) ==
    LET before == Said(Front(contents))
        x == Last(contents)
    IN  IF contents = <<>> THEN <<>>
        ELSE IF x.len = 0 THEN IF x.chr = 256 THEN before ELSE Append(before, x.chr)
        ELSE before \o [i \in 1..x.len |-> before[Len(before) - x.distance + ((i - 1) % x.distance) + 1]]

\* Whatever trees a block comes with, and wherever the stream is cut between two packets, what was
\* compressed is what is read.
ReadAs(one, two, contents) == one.out \o two.out = Said(contents) /\ two.state = "OUTSIDEBLK"
ReadOn(one, bits, contents) == ReadAs(one, Inflate(one, bits), contents)
ReadCut(bits, cut, contents) ==
    ReadOn(Inflate(Inflate0, SubSeq(bits, 1, cut)), SubSeq(bits, cut + 1, Len(bits)), contents)
StreamsRead ==
    single # <<>> /\ single[1] = "stream" =>
        ReadCut(StreamBits(Streams[single[2]]), single[3], Streams[single[2]].contents)

\* What goes in comes out, packet by packet: nothing waits for the next packet.
Arrives == arrived
\* zlib_disable_compression foretells the bytes of an uncompressed packet for the first packet,
\* and where the bits that are pending, with the ten that close one block and begin the next, fill
\* whole bytes.  Everywhere else it is one byte short, no more and no less: it rounds down where
\* aligning rounds up, although its comments promise "a precise-length IGNORE packet" and that the
\* change of block costs "two bytes or three" (sshzlib.c:615, 641).
AdjustmentShort == spare.bytes = IF spare.full THEN 0 ELSE 1
=============================================================================
