----------------------------- MODULE PublicKeys -----------------------------
(***************************************************************************)
(* Public keys: ssh-rsa (sshrsa.c) and ssh-dss (sshdss.c) - the blobs they *)
(* are kept and sent in, what is checked when a private key is put         *)
(* together, signatures, and the encryption of SSH-1.                      *)
(*                                                                         *)
(* A bignum is a natural number.  The layout inside an RSA operation is in *)
(* digits of ByteBits bits where the program has bytes: the digest and its *)
(* ASN.1 prefix are one digit each.  SHA and MD5 are told by a sum.        *)
(***************************************************************************)
EXTENDS Marshal

CONSTANTS
    Pairs,      \* key pairs
    Digests,    \* what the digest of the data to sign may be
    Draws,      \* random numbers
    ByteBits    \* the width of a byte inside an RSA operation; 8 in the program

VARIABLES
    pair,       \* the key that is worked with
    made        \* what came of the last operation

-----------------------------------------------------------------------------
(* Numbers *)

\* A number too large for the model: more than any of the keys has.
Huge == 2^30
Unsigned(b) ==
    LET zeros == Cardinality({i \in 1 .. Len(b) : \A j \in 1 .. i : b[j] = 0})
    IN  IF Len(b) - zeros > 3 THEN Huge ELSE Number(b)

\* modmul, modpow, modinv.
ModMul(a, b, mod) == ((a % mod) * (b % mod)) % mod
PowStep(sum, factor, mod) == ModMul(ModMul(sum, sum, mod), factor, mod)
ModPow(base, exp, mod) ==
    LET count == BitCount(exp)
        pow[i \in 0 .. count] ==
            IF i = 0 THEN 1 % mod
            ELSE PowStep(pow[i - 1], IF (exp \div 2^(count - i)) % 2 = 1 THEN base ELSE 1, mod)
    IN  pow[count]
ModInv(n, mod) == CHOOSE i \in 1 .. mod - 1 : ModMul(i, n, mod) = 1

\* A digest of twenty bytes, of bytes or of the words of a file.
Spread(sum) == [i \in 1 .. 20 |-> (sum \div (i * i) + i * (sum % 65536)) % 256]
Mixed(seq) ==
    LET acc[i \in 0 .. Len(seq)] == IF i = 0 THEN 7 ELSE (113 * acc[i - 1] + seq[i] + 1) % 16777213
    IN  acc[Len(seq)]
\* Of pieces, whose sums are mixed again.
Piece(seq, i) == SubSeq(seq, 16 * i - 15, Min({16 * i, Len(seq)}))
Digest(seq) ==
    LET acc[i \in 0 .. (Len(seq) + 15) \div 16] ==
            IF i = 0 THEN Len(seq) ELSE (97 * acc[i - 1] + Mixed(Piece(seq, i))) % 16777213
    IN  Spread(acc[(Len(seq) + 15) \div 16])

-----------------------------------------------------------------------------
(* SSH-1 numbers, at an offset into data: two bytes of length in bits *)

ByteAt(b, i) == IF i <= Len(b) THEN b[i] ELSE 0
Bits1(b, at) == ByteAt(b, at + 1) * 256 + ByteAt(b, at + 2)
Next1(b, at) == at + 2 + (Bits1(b, at) + 7) \div 8
Read1(b, at) == Unsigned([i \in 1 .. (Bits1(b, at) + 7) \div 8 |-> ByteAt(b, at + 2 + i)])
Write1(n) == <<BitCount(n) \div 256, BitCount(n) % 256>> \o Big(n, NumBytes(n))

\* makekey; order 0 is a key from the server, exponent first, order 1 one from a file.
MakeKey(b, at, order) ==
    LET second == Next1(b, at + 4)
        nums == [exponent |-> Read1(b, IF order = 0 THEN at + 4 ELSE second),
                 modulus |-> Read1(b, IF order = 0 THEN second ELSE at + 4)]
        mod == IF order = 0 THEN second ELSE at + 4
    IN  [nums |-> nums, bits |-> Unsigned([i \in 1 .. 4 |-> ByteAt(b, at + i)]),
         bytes |-> (Bits1(b, mod) + 7) \div 8, at |-> Next1(b, second)]

\* What saversakey and the server write for makekey to read, and rsa_public_blob.
Public1(key, order) ==
    Word(BitCount(key.modulus))
      \o IF order = 0 THEN Write1(key.exponent) \o Write1(key.modulus)
         ELSE Write1(key.modulus) \o Write1(key.exponent)
RsaPublicBlob(key) == Public1(key, 0)
RsaPublicBlobLen(b) == Next1(b, Next1(b, 4))

-----------------------------------------------------------------------------
(* Blobs of SSH-2: strings and mpints, a byte longer than the number when its first bit is set *)

MpLen(n) == (BitCount(n) + 8) \div 8
Mp(n) == Word(MpLen(n)) \o Big(n, MpLen(n))
MpBytes(nums) == FlattenSeq([i \in 1 .. Len(nums) |-> Mp(nums[i])])

AlgName(alg) == IF alg = "rsa" THEN SshRsa ELSE <<115, 115, 104, 45, 100, 115, 115>>

\* getstring: the string, and what is left after it.
Missing == -1
GetStr(b) ==
    IF Len(b) < 4 THEN [val |-> NULL, rest |-> b]
    ELSE IF Len(b) - 4 < WordAt(b, 1) THEN [val |-> NULL, rest |-> SubSeq(b, 5, Len(b))]
    ELSE [val |-> Chunk(b, 5, WordAt(b, 1)), rest |-> SubSeq(b, 5 + WordAt(b, 1), Len(b))]

\* getmp; that of sshdss.c refuses a negative number.
GetMpOf(alg, b) ==
    LET s == GetStr(b)
    IN  [s EXCEPT !.val = IF \/ s.val = NULL
                             \/ alg = "dss" /\ s.val # <<>> /\ s.val[1] >= 128
                            THEN Missing ELSE Unsigned(s.val)]
NextNumber(r, g) == [vals |-> Append(r.vals, g.val), rest |-> g.rest]
Numbers(alg, b, count) ==
    LET read[i \in 0 .. count] ==
            IF i = 0 THEN [vals |-> <<>>, rest |-> b]
            ELSE NextNumber(read[i - 1], GetMpOf(alg, read[i - 1].rest))
    IN  read[count]

Publics(key) ==
    IF key.alg = "rsa" THEN <<key.exponent, key.modulus>> ELSE <<key.p, key.q, key.g, key.y>>
Privates(key) ==
    IF key.alg = "rsa" THEN <<key.private_exponent, key.p, key.q, key.iqmp>> ELSE <<key.x>>

PublicBlob(key) == Word(7) \o AlgName(key.alg) \o MpBytes(Publics(key))
PrivateBlob(key) == MpBytes(Privates(key))

\* rsa2_newkey, dss_newkey.
NewKey(alg, blob) ==
    LET name == GetStr(blob)
        nums == Numbers(alg, name.rest, IF alg = "rsa" THEN 2 ELSE 4).vals
    IN  IF ~IsPrefix(AlgName(alg), name.val) \/ (alg = "rsa" /\ Len(name.val) # 7) THEN NULL ELSE nums

NoKey == [alg |-> "none"]      \* NULL
RsaKey(pub, priv) ==
    [alg |-> "rsa", exponent |-> pub[1], modulus |-> pub[2], private_exponent |-> priv[1],
     p |-> priv[2], q |-> priv[3], iqmp |-> priv[4]]
DssKey(pub, x) == [alg |-> "dss", p |-> pub[1], q |-> pub[2], g |-> pub[3], y |-> pub[4], x |-> x]

\* Mutant: the exponents are compared modulo one of the primes only.
RsaVerifyHalf(key) ==
    /\ key.p > 1 /\ key.modulus % key.p = 0 /\ key.modulus \div key.p = key.q
    /\ ModMul(key.exponent, key.private_exponent, key.p - 1) = 1
    /\ key.p > key.q
    /\ ModMul(key.iqmp, key.q, key.p) = 1

\* rsa_verify: n = pq, ed is 1 modulo p - 1 and q - 1, p > q, and iqmp is the inverse of q.
RsaVerify(key) ==
    /\ key.p > 1 /\ key.modulus % key.p = 0 /\ key.modulus \div key.p = key.q
    /\ ModMul(key.exponent, key.private_exponent, key.p - 1) = 1
    /\ key.q > 1 /\ ModMul(key.exponent, key.private_exponent, key.q - 1) = 1
    /\ key.p > key.q
    /\ ModMul(key.iqmp, key.q, key.p) = 1

\* dss_createkey: the hash that old files have after x, and whether y is g^x.
OldHash(pub, rest) ==
    LET hash == GetStr(rest).val
    IN  (hash # NULL /\ Len(hash) = 20) => hash = Digest(MpBytes(SubSeq(pub, 1, 3)))
DssVerify(key) == ModPow(key.g, key.x, key.p) = key.y

\* rsa2_createkey, dss_createkey: the key, or NoKey for one whose halves do not fit.
CreateKey(alg, pub, priv) ==
    LET public == NewKey(alg, pub)
        rsa == RsaKey(public, Numbers("rsa", priv, 4).vals)
        x == Numbers("dss", priv, 1)
        dss == DssKey(public, x.vals[1])
    IN  IF alg = "rsa" THEN IF RsaVerify(rsa) THEN rsa ELSE NoKey
        ELSE IF OldHash(public, x.rest) /\ DssVerify(dss) THEN dss ELSE NoKey

\* The form for OpenSSH: all the numbers, nothing checked but that they are there.
OpenSsh(key) ==
    IF key.alg = "rsa"
      THEN <<key.modulus, key.exponent, key.private_exponent, key.iqmp, key.p, key.q>>
      ELSE <<key.p, key.q, key.g, key.y, key.x>>
OpenSshFmt(key) == MpBytes(OpenSsh(key))
OpenSshCreate(alg, blob) ==
    LET n == Numbers(alg, blob, IF alg = "rsa" THEN 6 ELSE 5).vals
    IN  IF Missing \in Range(n) THEN NoKey
        ELSE IF alg = "rsa" THEN RsaKey(<<n[2], n[1]>>, <<n[3], n[5], n[6], n[4]>>)
        ELSE DssKey(SubSeq(n, 1, 4), n[5])

-----------------------------------------------------------------------------
(* Texts: what the host key cache compares, and fingerprints *)

Nibbles(n) == LET count == Max({1, (3 + BitCount(n)) \div 4})
              IN  [i \in 1 .. count |-> (n \div 16^(count - i)) % 16]
HexText(n) == <<"0", "x">> \o Nibbles(n)
\* rsastr_fmt, dss_fmtkey: the numbers of the public half with commas between them.
FmtKey(key) ==
    LET nums == Publics(key)
    IN  FlattenSeq([i \in 1 .. Len(nums) |-> (IF i = 1 THEN <<>> ELSE <<",">>) \o HexText(nums[i])])
\* The room there is for it, a NUL included: rsastr_len, and len of dss_fmtkey.
FmtRoom(key) ==
    IF key.alg = "rsa"
      THEN 4 * ((BitCount(key.modulus) + 15) \div 16 + (BitCount(key.exponent) + 15) \div 16) + 20
      ELSE 13 + FoldLeft(LAMBDA sum, n : sum + (4 * (BitCount(n) + 15)) \div 16, 0, Publics(key))

\* rsa_fingerprint (of SSH-1), rsa2_fingerprint, dss_fingerprint.
Fingerprint1(key) ==
    [bits |-> BitCount(key.modulus),
     md5 |-> Digest(Big(key.modulus, NumBytes(key.modulus)) \o Big(key.exponent, NumBytes(key.exponent)))]
Fingerprint(key) ==
    [bits |-> BitCount(IF key.alg = "rsa" THEN key.modulus ELSE key.p),
     md5 |-> Digest(<<0, 0, 0, 7>> \o AlgName(key.alg) \o MpBytes(Publics(key)))]

-----------------------------------------------------------------------------
(* The operations of RSA, in digits of ByteBits bits *)

Radix == 2^ByteBits
Digits(n) == (BitCount(n) + ByteBits - 1) \div ByteBits
FromDigits(digits) ==
    LET sum[i \in 0 .. Len(digits)] == IF i = 0 THEN 0 ELSE Radix * sum[i - 1] + digits[i]
    IN  sum[Len(digits)]
Digit(n, i) == (n \div Radix^i) % Radix     \* bignum_byte
Repeat(digit, count) == [i \in 1 .. count |-> digit]

\* rsaencrypt: 0, 2, digits that are not 0, 0 and the data, as long as the modulus.
Padded(key, data, fill) ==
    <<0, 2>> \o Repeat(fill, Digits(key.modulus) - Len(data) - 3) \o <<0>> \o data
RsaEncrypt(key, data, fill) ==
    ModPow(FromDigits(Padded(key, data, fill)), key.exponent, key.modulus)

\* rsa_privkey_op, rsadecrypt: blinded with a random number below the modulus.
\* One that shares a factor with it, and so has no inverse, is never drawn.
Blinds(key, random) ==
    random \in 1 .. key.modulus - 1 /\ random % key.p # 0 /\ random % key.q # 0
RsaPrivkeyOp(key, input, random) ==
    LET blinded == ModMul(input, ModPow(random, key.exponent, key.modulus), key.modulus)
    IN  ModMul(ModPow(blinded, key.private_exponent, key.modulus),
               ModInv(random, key.modulus), key.modulus)

\* asn1_weird_stuff: a digit 0 that ends those that are all ones.
Asn1 == <<0>>
Ones == Radix - 1
Encoded(count, digest) == <<1>> \o Repeat(Ones, count - 2 - Len(Asn1)) \o Asn1 \o <<digest>>
RsaSign(key, digest, random) ==
    LET count == (BitCount(key.modulus) - 1) \div ByteBits
    IN  RsaPrivkeyOp(key, FromDigits(Encoded(count, digest)), random)

\* rsa2_verifysig: the digit below the top must be 1, all the way down to the digest.
RsaVerifySig(key, sig, digest) ==
    LET out == ModPow(sig, key.exponent, key.modulus)
        bytes == BitCount(key.modulus) \div ByteBits
    IN  /\ Digit(out, bytes - 1) = 0
        /\ Digit(out, bytes - 2) = 1
        /\ \A i \in 1 + Len(Asn1) .. bytes - 3 : Digit(out, i) = Ones
        /\ \A i \in 1 .. Len(Asn1) : Digit(out, i) = Asn1[Len(Asn1) + 1 - i]
        /\ Digit(out, 0) = digest

-----------------------------------------------------------------------------
(* The operations of DSS; signatures are <<r, s>> *)

DssR(key, k) == ModPow(key.g, k, key.p) % key.q
\* dss_sign: k is a hash of x and the digest modulo q; nothing is tried again.
DssSign(key, digest, random) ==
    LET k == random % key.q
        r == DssR(key, k)
    IN  <<r, ModMul(ModInv(k, key.q), (digest + key.x * r) % key.q, key.q)>>

\* dss_verifysig.
DssVerifySig(key, sig, digest) ==
    LET w == ModInv(sig[2], key.q)
        gu1 == ModPow(key.g, ModMul(digest, w, key.q), key.p)
        yu2 == ModPow(key.y, ModMul(sig[1], w, key.q), key.p)
    IN  ModMul(gu1, yu2, key.p) % key.q = sig[1]

\* What can be signed with a draw: of the numbers of DSS none may be 0, which is not looked at.
MaySign(key, digest, random) ==
    IF key.alg = "rsa" THEN Blinds(key, random)
    ELSE /\ random % key.q # 0
         /\ DssSign(key, digest, random)[1] # 0 /\ DssSign(key, digest, random)[2] # 0

SignWith(key, digest, random) ==
    IF key.alg = "rsa" THEN RsaSign(key, digest, random) ELSE DssSign(key, digest, random)
VerifySig(key, sig, digest) ==
    IF key.alg = "rsa" THEN RsaVerifySig(key, sig, digest) ELSE DssVerifySig(key, sig, digest)

-----------------------------------------------------------------------------
Nothing == [what |-> "nothing"]

KInit == pair \in Pairs /\ made = Nothing

\* The blobs of a key are put together again, those of an old file with a hash.
Assemble ==
    /\ \E hash \in {<<>>, Digest(MpBytes(SubSeq(Publics(pair), 1, 2)))}
                     \cup IF pair.alg = "rsa" THEN {} ELSE {Digest(MpBytes(SubSeq(Publics(pair), 1, 3)))} :
           made' = [what |-> "assembled", hash |-> hash,
                    key |-> CreateKey(pair.alg, PublicBlob(pair),
                                      PrivateBlob(pair) \o IF hash = <<>> THEN <<>> ELSE Word(20) \o hash)]
    /\ UNCHANGED pair

\* A number of the private half is not what it was.
Spoil ==
    /\ \E i \in 1 .. Len(Privates(pair)), more \in Draws :
           LET priv == [Privates(pair) EXCEPT ![i] = @ + more]
           IN  made' = [what |-> "spoilt", priv |-> priv,
                        key |-> CreateKey(pair.alg, PublicBlob(pair), MpBytes(priv))]
    /\ UNCHANGED pair

Export ==
    /\ \E cut \in {0, 1, 5} :
           made' = [what |-> "exported", cut |-> cut,
                    key |-> OpenSshCreate(pair.alg, SubSeq(OpenSshFmt(pair), 1, Len(OpenSshFmt(pair)) - cut))]
    /\ UNCHANGED pair

\* A public key of SSH-1, in a file, from the server, or for the agent.
Publish1 ==
    /\ pair.alg = "rsa"
    /\ \E order \in {0, 1} :
           made' = [what |-> "published", order |-> order,
                    read |-> MakeKey(<<9>> \o Public1(pair, order) \o <<7>>, 1, order),
                    len |-> RsaPublicBlobLen(RsaPublicBlob(pair) \o <<7>>)]
    /\ UNCHANGED pair

Sign ==
    /\ \E digest \in Digests, random \in Draws :
           /\ MaySign(pair, digest, random)
           /\ made' = [what |-> "signed", digest |-> digest, sig |-> SignWith(pair, digest, random)]
    /\ UNCHANGED pair

\* The other end knows the public half, and has a digest of its own.
Verify ==
    /\ made.what = "signed"
    /\ \E digest \in Digests :
           made' = [what |-> "verified", signed |-> made.digest, claimed |-> digest,
                    good |-> VerifySig(pair, made.sig, digest)]
    /\ UNCHANGED pair

Encrypt ==
    /\ pair.alg = "rsa"
    /\ \E data \in [1 .. 1 -> Digests], fill \in 1 .. Radix - 1 :
           made' = [what |-> "encrypted", padded |-> Padded(pair, data, fill),
                    number |-> RsaEncrypt(pair, data, fill)]
    /\ UNCHANGED pair

Decrypt ==
    /\ made.what = "encrypted"
    /\ \E random \in Draws :
           /\ Blinds(pair, random)
           /\ made' = [what |-> "decrypted", padded |-> made.padded,
                       number |-> RsaPrivkeyOp(pair, made.number, random)]
    /\ UNCHANGED pair

KNext == Assemble \/ Spoil \/ Export \/ Publish1 \/ Sign \/ Verify \/ Encrypt \/ Decrypt
KSpec == KInit /\ [][KNext]_<<pair, made>>

-----------------------------------------------------------------------------
(* Properties *)

\* Whether a private half works: what the public one encrypts it decrypts.
Works(key) ==
    \A n \in Draws : n < key.modulus =>
        ModPow(ModPow(n, key.exponent, key.modulus), key.private_exponent, key.modulus) = n

\* A key comes back out of its blobs, and out of those with the hash of the right numbers; a
\* private half that no longer fits the public one is refused, and one that is taken works.
KeysRebuilt ==
    /\ made.what = "assembled" =>
          made.key = IF pair.alg = "dss" /\ made.hash \notin {<<>>, Digest(MpBytes(SubSeq(Publics(pair), 1, 3)))}
                       THEN NoKey ELSE pair
    /\ (made.what = "spoilt" /\ made.key # NoKey) =>
          /\ Publics(made.key) = Publics(pair)
          /\ IF pair.alg = "rsa" THEN Works(made.key) ELSE made.key.x % pair.q = pair.x
    /\ made.what = "exported" => made.key = IF made.cut = 0 THEN pair ELSE NoKey
    /\ made.what = "published" =>
          /\ made.read.nums = [exponent |-> pair.exponent, modulus |-> pair.modulus]
          /\ made.read.bits = BitCount(pair.modulus) /\ made.read.bytes = NumBytes(pair.modulus)
          /\ made.read.at = 1 + Len(Public1(pair, made.order)) /\ made.len = made.read.at - 1

\* A signature is good for what was signed and for nothing else - as long as the modulus of an
\* RSA key fills its bytes; with any other length the two ends disagree about the padding, and
\* no signature is good.  What was encrypted comes out as it was padded.
OperationsFit ==
    /\ made.what = "verified" =>
          made.good = /\ made.signed = made.claimed
                      /\ pair.alg = "rsa" => BitCount(pair.modulus) % ByteBits = 0
    /\ made.what = "decrypted" => made.number = FromDigits(made.padded)

\* The text in the host key cache fits its buffer and tells keys apart; the fingerprint is that
\* of the blob.
TextsTell == made = Nothing =>
    /\ Len(FmtKey(pair)) < FmtRoom(pair)
    /\ \A other \in Pairs : FmtKey(other) = FmtKey(pair) => Publics(other) = Publics(pair)
    /\ Fingerprint(pair).md5 = Digest(PublicBlob(pair))

\* A key of those there are, and the result of one operation.
KTypeOK == pair \in Pairs /\ made.what \in {"nothing", "assembled", "spoilt", "exported", "published",
                                             "signed", "verified", "encrypted", "decrypted"}
=============================================================================
