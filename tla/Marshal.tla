------------------------------ MODULE Marshal ------------------------------
(***************************************************************************)
(* What packets are made of: construct_packet of SSH-1 goes through its    *)
(* arguments twice, once for their size and once for their bytes; SSH-2    *)
(* appends to a packet and goes back to fill in the length of a string;    *)
(* the getters of SSH-2 take apart what has arrived, whatever its length.  *)
(* An item is a number, a character, data, a string, a bignum or an RSA    *)
(* signature; a bignum is a natural number.                                *)
(***************************************************************************)
EXTENDS Integers, SequencesExt

Item(kind, val) == [kind |-> kind, val |-> val]

\* PUT_32BIT and GET_32BIT.
Word(n) == <<(n \div 16777216) % 256, (n \div 65536) % 256, (n \div 256) % 256, n % 256>>
Value(b) == ((b[1] * 256 + b[2]) * 256 + b[3]) * 256 + b[4]
Chunk(b, from, n) == IF n <= 0 THEN <<>> ELSE SubSeq(b, from, from + n - 1)
WordAt(b, at) == Value(Chunk(b, at, 4))

\* bignum_bitcount and the bytes of a bignum, the most significant one first.
BitCount(n) == IF n = 0 THEN 0 ELSE 1 + CHOOSE k \in 0 .. 30 : 2^k <= n /\ n \div 2^k = 1
NumBytes(n) == (BitCount(n) + 7) \div 8
Big(n, size) == [i \in 1 .. size |-> (n \div 256^(size - i)) % 256]
Number(b) ==
    LET sum[i \in 0 .. Len(b)] == IF i = 0 THEN 0 ELSE 256 * sum[i - 1] + b[i]
    IN  sum[Len(b)]

-----------------------------------------------------------------------------
(* SSH-1 *)

ItemSize(item) ==
    CASE item.kind = "int" -> 4
      [] item.kind = "char" -> 1
      [] item.kind = "data" -> Len(item.val)
      [] item.kind = "str" -> 4 + Len(item.val)
      [] item.kind = "num" -> 2 + NumBytes(item.val)

ItemBytes(item) ==
    CASE item.kind = "int" -> Word(item.val)
      [] item.kind = "char" -> <<item.val>>
      [] item.kind = "data" -> item.val
      [] item.kind = "str" -> Word(Len(item.val)) \o item.val
      [] item.kind = "num" -> <<BitCount(item.val) \div 256, BitCount(item.val) % 256>>
                              \o Big(item.val, NumBytes(item.val))

Written(items) == FlattenSeq([i \in 1 .. Len(items) |-> ItemBytes(items[i])])
Reserved(items) == FoldLeft(LAMBDA sum, item : sum + ItemSize(item), 0, items)

\* construct_packet: what the second pass writes, in the room the first has found.
Construct(items) ==
    LET w == Written(items)
    IN  [i \in 1 .. Reserved(items) |-> IF i <= Len(w) THEN w[i] ELSE 0]

-----------------------------------------------------------------------------
(* SSH-2: a packet under construction, data and savedpos *)

Add(p, bytes) == [p EXCEPT !.data = @ \o bytes]
StringStart(p) == [data |-> p.data \o Word(0), saved |-> Len(p.data) + 4]
\* ssh2_pkt_addstring_data: the length before savedpos is that of all there is after it.
StringData(p, bytes) ==
    [p EXCEPT !.data = SubSeq(@, 1, p.saved - 4) \o Word(Len(@) + Len(bytes) - p.saved)
                         \o SubSeq(@, p.saved + 1, Len(@)) \o bytes]
AddString(p, bytes) == StringData(StringStart(p), bytes)

\* ssh2_mpint_fmt: a zero byte before a number whose first bit is set.
MpintFmt(n) ==
    LET bytes == Big(n, NumBytes(n))
    IN  IF n > 0 /\ bytes[1] >= 128 THEN <<0>> \o bytes ELSE bytes

SshRsa == <<115, 115, 104, 45, 114, 115, 97>>
KeyBlob(sig) == AddString(AddString(AddString([data |-> <<>>, saved |-> 0], SshRsa), MpintFmt(sig.exponent)),
                          MpintFmt(sig.modulus)).data
SigBlob(sig) == AddString(AddString([data |-> <<>>, saved |-> 0], SshRsa), sig.bytes).data

\* The bytes of the modulus in a key blob, without its leading zeros.
ModulusLength(blob) ==
    LET at == 11 + 4 + WordAt(blob, 12)
        len == WordAt(blob, at + 1)
        zeros == Cardinality({i \in 1 .. len : \A j \in 1 .. i : blob[at + 4 + j] = 0})
    IN  len - zeros

\* ssh2_add_sigblob: the signature is made as long as the modulus for a server that wants it so.
AddSigBlob(p, sig, pads) ==
    LET len == ModulusLength(KeyBlob(sig))
        blob == SigBlob(sig)
        siglen == WordAt(blob, 12)
    IN  IF pads /\ len # siglen
          THEN StringData(StringData(StringData(StringData(StringStart(p), Chunk(blob, 1, 11)), Word(len)),
                                     [i \in 1 .. len - siglen |-> 0]),
                          Chunk(blob, 16, siglen))
          ELSE AddString(p, blob)

AddItem(p, item, pads) ==
    CASE item.kind = "int" -> Add(p, Word(item.val))
      [] item.kind = "char" -> Add(p, <<item.val>>)
      [] item.kind = "data" -> Add(p, item.val)
      [] item.kind = "str" -> AddString(p, item.val)
      [] item.kind = "num" -> AddString(p, MpintFmt(item.val))
      [] item.kind = "sig" -> AddSigBlob(p, item.val, pads)

Build(items, pads) ==
    FoldLeft(LAMBDA p, item : AddItem(p, item, pads), [data |-> <<>>, saved |-> 0], items).data

\* The getters: the value, and where the next one starts (savedpos).  What is not there is
\* zero or NULL.
NULL == <<-1>>
GetUint32(b, at) ==
    IF Len(b) - at < 4 THEN [val |-> 0, at |-> at] ELSE [val |-> WordAt(b, at + 1), at |-> at + 4]
GetBool(b, at) ==
    IF Len(b) - at < 1 THEN [val |-> 0, at |-> at]
    ELSE [val |-> IF b[at + 1] # 0 THEN 1 ELSE 0, at |-> at + 1]

\* Mutant: a string that is longer than the packet is taken as far as it goes.
GetStringLoose(b, at) ==
    IF Len(b) - at < 4 THEN [val |-> NULL, at |-> at]
    ELSE [val |-> SubSeq(b, at + 5, Len(b)), at |-> at + 4 + WordAt(b, at + 1)]

GetString(b, at) ==
    IF Len(b) - at < 4 \/ b[at + 1] >= 128 THEN [val |-> NULL, at |-> at]
    ELSE IF Len(b) - at - 4 < WordAt(b, at + 1) THEN [val |-> NULL, at |-> at + 4]
    ELSE [val |-> Chunk(b, at + 5, WordAt(b, at + 1)), at |-> at + 4 + WordAt(b, at + 1)]

\* ssh2_pkt_getmp; a negative number is refused.
GetMp(b, at) ==
    LET s == GetString(b, at)
    IN  [s EXCEPT !.val = IF s.val = NULL \/ (s.val # <<>> /\ s.val[1] >= 128) THEN -1
                          ELSE Number(s.val)]

Get(kind, b, at) ==
    CASE kind = "int" -> GetUint32(b, at)
      [] kind = "char" -> GetBool(b, at)
      [] kind \in {"str", "sig"} -> GetString(b, at)
      [] kind = "num" -> GetMp(b, at)

\* What a handler takes out of a body, knowing what is to be there.
Parse(kinds, b) ==
    FoldLeft(LAMBDA r, kind : LET g == Get(kind, b, r.at)
                              IN  [vals |-> Append(r.vals, Item(kind, g.val)), at |-> g.at],
             [vals |-> <<>>, at |-> 0], kinds)

-----------------------------------------------------------------------------
(* What is to come out *)

\* A signature as the server wants it.
Wanted(sig, pads) ==
    LET n == NumBytes(sig.modulus)
        zeros == IF pads /\ n > Len(sig.bytes) THEN [i \in 1 .. n - Len(sig.bytes) |-> 0] ELSE <<>>
    IN  Word(7) \o SshRsa \o Word(Len(zeros \o sig.bytes)) \o zeros \o sig.bytes

Meant(items, pads) ==
    [i \in 1 .. Len(items) |->
        IF items[i].kind = "sig" THEN Item("sig", Wanted(items[i].val, pads)) ELSE items[i]]
=============================================================================
