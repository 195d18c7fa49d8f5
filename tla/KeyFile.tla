------------------------------ MODULE KeyFile ------------------------------
(***************************************************************************)
(* Private keys in files (sshpubk.c): PuTTY's own format for SSH-2, with   *)
(* its lines and its MAC, the older one that is still read, and the binary *)
(* one of SSH-1.  A file is a sequence of characters; a word of a header   *)
(* is one number above 255.  Files may be cut off, and a character of one  *)
(* may be wrong.  The ciphers add a key to each byte, by its place; SHA    *)
(* and the MAC are Digest.                                                 *)
(***************************************************************************)
EXTENDS PublicKeys

CONSTANTS
    Filed,         \* the key pairs that are kept in files
    Chosen,         \* passphrases that keys are saved with
    Passphrases,    \* those that are tried
    LineLength      \* base64 characters in a line; 64 in the program

VARIABLES
    file,           \* the characters of the file, or Absent
    saved           \* how it was made: the format, the passphrase, what has happened to it

kfvars == <<pair, made, file, saved>>

LF == 10
CR == 13
Colon == 58
Space == 32
Absent == <<-1>>
NoPass == <<-1>>    \* a NULL passphrase

\* Words.  Those of which one may be taken for the other follow each other.
File1 == 301
File2 == 302
Encryption == 310
None == 312
Aes256Cbc == 313
Comment == 314
PublicLines == 320
PrivateLines == 321
PrivateHash == 322
PrivateMac == 323
Rsa == 330
Dss == 331
Text == 340         \* a comment
Signature1 == 350   \* rsa_signature
MacKey == 351
Alg(word) == IF word = Rsa THEN "rsa" ELSE "dss"
AlgWord(alg) == IF alg = "rsa" THEN Rsa ELSE Dss
Width(word) == CASE word = Signature1 -> 31 [] word \in {File1, File2} -> 21 [] word = Encryption -> 10
                 [] word \in {Rsa, Dss} -> 7 [] OTHER -> 1

-----------------------------------------------------------------------------
(* base64 *)

\* The value of a character, -1 for "=", -2 for one that has none.
Value64(c) ==
    CASE c \in 65 .. 90 -> c - 65 [] c \in 97 .. 122 -> c - 71 [] c \in 48 .. 57 -> c + 4
      [] c = 43 -> 62 [] c = 47 -> 63 [] c = 61 -> -1 [] OTHER -> -2
Char64(v) == CASE v < 26 -> v + 65 [] v < 52 -> v + 71 [] v < 62 -> v - 4 [] v = 62 -> 43 [] OTHER -> 47

\* base64_decode_atom: nothing for four characters that are not an atom.
DecodeAtom(atom) ==
    LET v == [i \in 1 .. 4 |-> Value64(atom[i])]
        word == v[1] * 262144 + v[2] * 4096 + (v[3] % 64) * 64 + (v[4] % 64)
        len == IF v[4] # -1 THEN 3 ELSE IF v[3] # -1 THEN 2 ELSE 1
    IN  IF -2 \in Range(v) \/ v[1] = -1 \/ v[2] = -1 \/ (v[3] = -1 /\ v[4] # -1) THEN <<>>
        ELSE SubSeq(<<word \div 65536, (word \div 256) % 256, word % 256>>, 1, len)

\* base64_encode_atom, of at most three bytes.
EncodeAtom(b) ==
    LET word == ByteAt(b, 1) * 65536 + ByteAt(b, 2) * 256 + ByteAt(b, 3)
    IN  <<Char64(word \div 262144), Char64((word \div 4096) % 64),
          IF Len(b) > 1 THEN Char64((word \div 64) % 64) ELSE 61,
          IF Len(b) > 2 THEN Char64(word % 64) ELSE 61>>

LineBytes == (LineLength \div 4) * 3
Base64Lines(len) == (len + LineBytes - 1) \div LineBytes
\* base64_encode, a newline after every line.
Atoms(b) ==
    LET atoms == [i \in 1 .. (Len(b) + 2) \div 3 |-> EncodeAtom(SubSeq(b, 3 * i - 2, Min({3 * i, Len(b)})))]
    IN  [i \in 1 .. 4 * Len(atoms) |-> atoms[(i + 3) \div 4][((i - 1) % 4) + 1]]
Base64Encode(b) ==
    FlattenSeq([i \in 1 .. Base64Lines(Len(b)) |->
        SubSeq(Atoms(b), (i - 1) * LineLength + 1, Min({i * LineLength, Len(Atoms(b))})) \o <<LF>>])

-----------------------------------------------------------------------------
(* Encryption, the same on both sides; pass is what the key is made from *)

AesKey(pass) == Digest(<<0, 0, 0, 0>> \o pass) \o Digest(<<0, 0, 0, 1>> \o pass)
With(key, b, sign) == [i \in 1 .. Len(b) |-> (b[i] + sign * key[((i - 1) % 40) + 1]) % 256]
Aes(pass, b, sign) == With(AesKey(pass), b, sign)
\* des3_encrypt_pubkey with the MD5 of the passphrase.
Des3(pass, b, sign) ==
    [i \in 1 .. Len(b) |-> (b[i] + sign * i * i * (1 + Number(pass))) % 256]

\* What the MAC is computed of in the format of today.
Str(b) == Word(Len(b)) \o b

\* Mutant: as in the old format, the comment is not covered.
MacDataOld(alg, encryption, comment, pub, priv) == Str(alg) \o Str(encryption) \o Str(pub) \o Str(priv)

MacData(alg, encryption, comment, pub, priv) ==
    Str(alg) \o Str(encryption) \o Str(comment) \o Str(pub) \o Str(priv)
Hmac(pass, data) == Digest(Digest(<<MacKey>> \o pass) \o data)
HexDigit(n) == IF n < 10 THEN 48 + n ELSE 87 + n
Hex(b) == FlattenSeq([i \in 1 .. Len(b) |-> <<HexDigit(b[i] \div 16), HexDigit(b[i] % 16)>>])

-----------------------------------------------------------------------------
(* Writing *)

Decimal(n) == (IF n >= 10 THEN <<48 + n \div 10>> ELSE <<>>) \o <<48 + (n % 10)>>
Line(header, body) == <<header, Colon, Space>> \o body \o <<LF>>

\* The private blob is filled up to a whole number of cipher blocks with its own hash.
PadBlob(b, cipherblk) ==
    b \o SubSeq(Digest(b), 1, (cipherblk - (Len(b) % cipherblk)) % cipherblk)

Lines(version, key, comment, pass, pub, priv, mac) ==
    LET crypted == IF pass = NoPass THEN priv ELSE Aes(pass, priv, 1)
    IN  Line(version, <<AlgWord(key.alg)>>)
        \o Line(Encryption, <<IF pass = NoPass THEN None ELSE Aes256Cbc>>)
        \o Line(Comment, comment)
        \o Line(PublicLines, Decimal(Base64Lines(Len(pub)))) \o Base64Encode(pub)
        \o Line(PrivateLines, Decimal(Base64Lines(Len(crypted)))) \o Base64Encode(crypted)
        \o mac

\* ssh2_save_userkey.
SaveUserkey(key, comment, pass) ==
    LET pub == PublicBlob(key)
        priv == PadBlob(PrivateBlob(key), IF pass = NoPass THEN 1 ELSE 16)
        mac == Hmac(IF pass = NoPass THEN <<>> ELSE pass,
                    MacData(<<AlgWord(key.alg)>>, <<IF pass = NoPass THEN None ELSE Aes256Cbc>>,
                            comment, pub, priv))
    IN  Lines(File2, key, comment, pass, pub, priv, Line(PrivateMac, Hex(mac)))

\* What a version from before 0.52 has left: the MAC of the private half alone, or its hash.
OldUserkey(key, comment, pass, hashed) ==
    LET pub == PublicBlob(key)
        priv == PadBlob(PrivateBlob(key), IF pass = NoPass THEN 1 ELSE 16)
    IN  Lines(File1, key, comment, pass, pub, priv,
              IF hashed THEN Line(PrivateHash, Hex(Digest(priv)))
              ELSE Line(PrivateMac, Hex(Hmac(IF pass = NoPass THEN <<>> ELSE pass, priv))))

\* saversakey: check is the two random bytes that are written twice.
Ssh3Des == 3
Zeros(n) == [i \in 1 .. n |-> 0]
Secret1(key, check) ==
    LET b == check \o check \o Write1(key.private_exponent) \o Write1(key.iqmp) \o Write1(key.q) \o Write1(key.p)
    IN  b \o Zeros((8 - (Len(b) % 8)) % 8)
SaveRsakey(key, comment, pass, check) ==
    <<Signature1, LF, 0, IF pass = NoPass THEN 0 ELSE Ssh3Des>> \o Word(0)
      \o Public1(key, 1) \o Str(comment)
      \o IF pass = NoPass THEN Secret1(key, check) ELSE Des3(pass, Secret1(key, check), 1)

-----------------------------------------------------------------------------
(* Reading; at is how much has been read *)

\* The first place from at on where a character of stops is, or one past the end.
FirstOf(f, at, stops) ==
    LET places == {i \in at + 1 .. Len(f) : f[i] \in stops}
    IN  IF places = {} THEN Len(f) + 1 ELSE Min(places)

\* read_header: what is before ": ", or failure.  (More than 39 characters are never a header.)
ReadHeader(f, at) ==
    LET stop == FirstOf(f, at, {Colon, LF, CR})
    IN  [ok |-> stop < Len(f) /\ f[stop] = Colon /\ f[stop + 1] = Space,
         val |-> SubSeq(f, at + 1, stop - 1), at |-> stop + 1]

\* Mutant: a CR is not taken to end a line when an LF follows.
ReadBodyUnix(f, at) ==
    LET stop == FirstOf(f, at, {LF})
    IN  [ok |-> stop <= Len(f), val |-> SubSeq(f, at + 1, stop - 1), at |-> stop]

\* read_body: up to the end of the line, and whatever second CR or LF follows it.
ReadBody(f, at) ==
    LET stop == FirstOf(f, at, {LF, CR})
    IN  [ok |-> stop <= Len(f), val |-> SubSeq(f, at + 1, stop - 1),
         at |-> IF stop < Len(f) /\ f[stop + 1] \in {LF, CR} THEN stop + 1 ELSE stop]

Fail == [ok |-> FALSE, val |-> <<>>, at |-> 0]

\* read_blob: so many lines of base64.
DecodeLine(line) ==
    LET atoms == [i \in 1 .. Len(line) \div 4 |-> DecodeAtom(SubSeq(line, 4 * i - 3, 4 * i))]
    IN  [ok |-> \A i \in DOMAIN atoms : atoms[i] # <<>>, val |-> FlattenSeq(atoms)]
AddLine(r, body, line) ==
    IF body.ok /\ Len(body.val) % 4 = 0 /\ Len(body.val) <= LineLength /\ line.ok
      THEN [ok |-> TRUE, val |-> r.val \o line.val, at |-> body.at] ELSE Fail
ReadLine(r, body) == AddLine(r, body, DecodeLine(body.val))
ReadBlob(f, at, count) ==
    LET read[i \in 0 .. count] ==
            IF i = 0 THEN [ok |-> TRUE, val |-> <<>>, at |-> at]
            ELSE IF read[i - 1].ok THEN ReadLine(read[i - 1], ReadBody(f, read[i - 1].at)) ELSE Fail
    IN  read[count]

Atoi(b) ==
    LET digits == CHOOSE n \in 0 .. 3 : /\ n <= Len(b) /\ \A i \in 1 .. n : b[i] \in 48 .. 57
                                       /\ n < 3 /\ n < Len(b) => b[n + 1] \notin 48 .. 57
        val[i \in 0 .. digits] == IF i = 0 THEN 0 ELSE 10 * val[i - 1] + b[i] - 48
    IN  val[digits]

\* One header with its body, or with the blob whose lines it counts.  got is what was read.
Put(r, header, g) == IF g.ok THEN [r EXCEPT !.at = g.at, !.got = Append(@, <<header, g.val>>)]
                     ELSE [r EXCEPT !.ok = FALSE]
Body(f, r, header, body) ==
    IF header \in {PublicLines, PrivateLines} /\ body.ok
      THEN Put(r, header, ReadBlob(f, body.at, Atoi(body.val))) ELSE Put(r, header, body)
Field(f, r, headers, h) ==
    IF h.ok /\ Len(h.val) = 1 /\ h.val[1] \in headers THEN Body(f, r, h.val[1], ReadBody(f, h.at))
    ELSE [r EXCEPT !.ok = FALSE]
FieldAfter(f, r, headers) == IF r.ok THEN Field(f, r, headers, ReadHeader(f, r.at)) ELSE r
ReadFields(f, fields) ==
    LET read[i \in 0 .. Len(fields)] ==
            IF i = 0 THEN [ok |-> TRUE, at |-> 0, got |-> <<>>]
            ELSE FieldAfter(f, read[i - 1], fields[i])
    IN  read[Len(fields)]

-----------------------------------------------------------------------------
(* Loading *)

\* What a loader gives back: ret is "key", "wrong" (the passphrase) or "null".
Answer(ret, error) == [ret |-> ret, error |-> error, key |-> NoKey, comment |-> <<>>]
Loaded(key, comment) == [ret |-> "key", error |-> "", key |-> key, comment |-> comment]
NoHeader == ""      \* the first line cannot be read: no error is set

Heading == <<{File1, File2}, {Encryption}, {Comment}, {PublicLines}>>
AllFields == Heading \o <<{PrivateLines}, {PrivateMac, PrivateHash}>>

\* The key that the fields of a file hold, once they are decrypted.
Unlock(version, alg, encryption, comment, pub, priv, macheader, mac, pass) ==
    LET old == version = File1
        macpass == IF encryption = <<Aes256Cbc>> THEN pass ELSE <<>>
        data == IF old THEN priv ELSE MacData(alg, encryption, comment, pub, priv)
        real == IF macheader = PrivateMac THEN Hmac(macpass, data) ELSE Digest(data)
        key == CreateKey(Alg(alg[1]), pub, priv)
    IN  IF mac # Hex(real)
          THEN IF encryption = <<Aes256Cbc>> THEN Answer("wrong", "file format error")
               ELSE Answer("null", "MAC failed")
        ELSE IF key = NoKey THEN Answer("null", "createkey failed")
        ELSE Loaded(key, comment)

Open(got, pass) ==
    LET version == got[1][1]
        alg == got[1][2]
        encryption == got[2][2]
        pub == got[4][2]
        priv == got[5][2]
        macheader == got[6][1]
    IN  IF \/ alg \notin {<<Rsa>>, <<Dss>>} \/ encryption \notin {<<Aes256Cbc>>, <<None>>}
           \/ macheader = PrivateHash /\ ~(alg = <<Rsa>> /\ version = File1)
           \/ encryption = <<Aes256Cbc>> /\ (pass = NoPass \/ Len(priv) % 16 # 0)
          THEN Answer("null", "file format error")
        ELSE Unlock(version, alg, encryption, got[3][2], pub,
                    IF encryption = <<Aes256Cbc>> THEN Aes(pass, priv, -1) ELSE priv,
                    macheader, got[6][2], pass)

\* ssh2_load_userkey.
LoadRead(r, pass) == IF r.ok THEN Open(r.got, pass) ELSE Answer("null", "file format error")
LoadUserkey(f, pass) ==
    LET h == ReadHeader(f, 0)
    IN  IF f = Absent THEN Answer("null", "can't open file")
        ELSE IF ~h.ok THEN Answer("null", NoHeader)
        ELSE IF h.val \notin {<<File1>>, <<File2>>} THEN Answer("null", "not a PuTTY SSH-2 private key")
        ELSE LoadRead(ReadFields(f, AllFields), pass)

\* ssh2_userkey_loadpub: the public blob, or NULL.
LoadPub(f) ==
    LET r == ReadFields(f, Heading)
    IN  IF f # Absent /\ r.ok /\ r.got[1][2] \in {<<Rsa>>, <<Dss>>} THEN r.got[4][2] ELSE NULL

\* ssh2_userkey_encrypted: whether a passphrase is to be asked for.  Once the encryption is
\* known, a file without a comment counts as encrypted.
UserkeyEncrypted(f) ==
    LET head == ReadFields(f, SubSeq(Heading, 1, 2))
    IN  /\ f # Absent /\ head.ok
        /\ head.got[2][2] = <<Aes256Cbc>> \/ ~ReadFields(f, SubSeq(Heading, 1, 3)).ok

\* Past the end of an SSH-1 file there is what the buffer has, here zeros.
Word1(f, at) == Unsigned([i \in 1 .. 4 |-> ByteAt(f, at + i)])
Prelude == 2
Framed(f) ==
    /\ Len(f) >= Prelude + 6 /\ f[3] = 0 /\ f[4] \in {0, Ssh3Des}
    /\ SubSeq(f, 5, 8) = Word(0)
IsRsaFile(f) == f # Absent /\ Len(f) >= Prelude /\ f[1] = Signature1 /\ f[2] = LF

\* The private half of an SSH-1 key: the two bytes twice, then four numbers.
Private1(b, public, comment) ==
    LET iqmp == Next1(b, 4)
        q == Next1(b, iqmp)
        p == Next1(b, q)
        key == RsaKey(<<public.exponent, public.modulus>>,
                      <<Read1(b, 4), Read1(b, p), Read1(b, q), Read1(b, iqmp)>>)
    IN  IF Len(b) < 4 THEN Answer("null", "file format error")
        ELSE IF b[1] # b[3] \/ b[2] # b[4] THEN Answer("wrong", "wrong passphrase")
        ELSE IF Next1(b, p) > Len(b) THEN Answer("null", "file format error")
        ELSE IF ~RsaVerify(key) THEN Answer("null", "rsa_verify failed")
        ELSE Loaded(key, comment)

\* loadrsakey_main, for the private half.
Secret(f, at) == SubSeq(f, at + 1, Len(f))
LoadMain(f, pass, public) ==
    LET comment == public.at + 4
        at == comment + Word1(f, public.at)
    IN  IF public.at > Len(f) \/ at > Len(f) THEN Answer("null", "file format error")
        ELSE Private1(IF f[4] = Ssh3Des THEN Des3(pass, Secret(f, at), -1) ELSE Secret(f, at),
                      public.nums, SubSeq(f, comment + 1, at))

\* loadrsakey.
LoadRsakey(f, pass) ==
    IF f = Absent THEN Answer("null", "can't open file")
    ELSE IF ~IsRsaFile(f) THEN Answer("null", "not an SSH-1 RSA file")
    ELSE IF ~Framed(f) THEN Answer("null", "file format error")
    ELSE LoadMain(f, pass, MakeKey(f, Prelude + 6, 1))

\* rsakey_encrypted: the private half is not read.
RsakeyEncrypted(f) ==
    LET public == MakeKey(f, Prelude + 6, 1)
    IN  /\ IsRsaFile(f) /\ Framed(f)
        /\ public.at <= Len(f) /\ public.at + 4 + Word1(f, public.at) <= Len(f)
        /\ f[4] # 0

\* rsakey_pubblob.
RsakeyPubblob(f) ==
    LET public == MakeKey(f, Prelude + 6, 1)
    IN  IF IsRsaFile(f) /\ Framed(f) /\ public.at <= Len(f) THEN RsaPublicBlob(public.nums) ELSE NULL

\* key_type, from the first 32 characters.
Wide(f) ==
    LET width[i \in 0 .. Min({32, Len(f)})] == IF i = 0 THEN 0 ELSE width[i - 1] + Width(f[i])
    IN  width[Min({32, Len(f)})]
KeyType(f) ==
    IF f = Absent THEN "unopenable"
    ELSE IF Wide(f) < 32 THEN "unknown"
    ELSE CASE f[1] = Signature1 -> "ssh1" [] f[1] \in {File1, File2} -> "ssh2" [] OTHER -> "unknown"

-----------------------------------------------------------------------------
(* A file is made, perhaps damaged, and read *)

Comments == {<<>>, <<Text, Colon, Space, Text>>}
\* The end of a line is CR LF on Windows; a file may have been carried elsewhere.
Layouts == {<<<<>>, <<LF>>>>, <<<<Text>>, <<CR>>>>, <<<<Text, Colon, Space, Text>>, <<CR, LF>>>>}
LineEnds(f) == {i \in 1 .. Len(f) : f[i] = LF}
LineOf(f, end, last) == SubSeq(f, Max({0} \cup {i \in LineEnds(f) : i < last}) + 1, last - 1) \o end
WithEnds(f, end) ==
    FlattenSeq([n \in 1 .. Cardinality(LineEnds(f)) |->
        LineOf(f, end, CHOOSE i \in LineEnds(f) : Cardinality({j \in LineEnds(f) : j <= i}) = n)])
Saved(format, pass, comment) == [format |-> format, pass |-> pass, comment |-> comment, sound |-> TRUE]

Save2 ==
    /\ file = Absent /\ made = Nothing /\ pair \in Filed
    /\ \E pass \in Chosen \cup {NoPass}, layout \in Layouts :
           /\ file' = WithEnds(SaveUserkey(pair, layout[1], pass), layout[2])
           /\ saved' = Saved("ssh2", pass, layout[1])
    /\ UNCHANGED <<pair, made>>

SaveOld ==
    /\ file = Absent /\ made = Nothing /\ pair \in Filed
    /\ \E pass \in Chosen \cup {NoPass}, hashed \in BOOLEAN :
           /\ hashed => pair.alg = "rsa"
           /\ file' = OldUserkey(pair, <<Text>>, pass, hashed)
           /\ saved' = Saved("old", pass, <<Text>>)
    /\ UNCHANGED <<pair, made>>

Save1 ==
    /\ file = Absent /\ made = Nothing /\ pair \in Filed /\ pair.alg = "rsa"
    /\ \E pass \in Chosen \cup {NoPass}, comment \in Comments :
           /\ file' = SaveRsakey(pair, comment, pass, <<5, 200>>)
           /\ saved' = Saved("ssh1", pass, comment)
    /\ UNCHANGED <<pair, made>>

\* One character is not what it was; the layout of the old format is not protected.
Damage ==
    /\ saved.sound /\ saved.format # "old" /\ made = Nothing
    /\ \E i \in 1 .. Len(file) :
           file' = [file EXCEPT ![i] = IF saved.format = "ssh1" /\ i > Prelude THEN (@ + 1) % 256 ELSE @ + 1]
    /\ saved' = [saved EXCEPT !.sound = FALSE]
    /\ UNCHANGED <<pair, made>>

\* The file is as long as the disk had room for.
CutOff ==
    /\ saved.sound /\ saved.format # "none" /\ made = Nothing
    /\ \E n \in 0 .. Len(file) - 1 : file' = SubSeq(file, 1, n)
    /\ saved' = [saved EXCEPT !.sound = FALSE]
    /\ UNCHANGED <<pair, made>>

\* What is made of it: first without a passphrase, as do_ssh2_authconn does to find out.
Inspect ==
    /\ made = Nothing
    /\ made' = [what |-> "inspected", type |-> KeyType(file),
                encrypted |-> UserkeyEncrypted(file), pub |-> LoadPub(file),
                encrypted1 |-> RsakeyEncrypted(file), pub1 |-> RsakeyPubblob(file)]
    /\ UNCHANGED <<pair, file, saved>>

Load ==
    /\ made.what = "inspected"
    /\ \E pass \in Passphrases \cup {NoPass} :
           made' = [what |-> "loaded", pass |-> pass,
                    answer |-> LoadUserkey(file, pass),
                    answer1 |-> LoadRsakey(file, IF pass = NoPass THEN <<>> ELSE pass)]
    /\ UNCHANGED <<pair, file, saved>>

\* The key is used without a file.
WithoutFile ==
    /\ saved.format = "none" /\ KNext
    /\ UNCHANGED <<file, saved>>

KFInit == KInit /\ file = Absent /\ saved = [format |-> "none", sound |-> TRUE]
KFNext == Save2 \/ SaveOld \/ Save1 \/ Damage \/ CutOff \/ Inspect \/ Load
            \/ WithoutFile
KFSpec == KFInit /\ [][KFNext]_kfvars

-----------------------------------------------------------------------------
(* Properties *)

Right(pass) == saved.pass = NoPass \/ pass = saved.pass
\* What the loader for the format of the file has answered, and the other one.
TheAnswer == IF saved.format = "ssh1" THEN made.answer1 ELSE made.answer
OtherAnswer == IF saved.format = "ssh1" THEN made.answer ELSE made.answer1

\* A key comes out of its file with the right passphrase and only with it; a wrong one is told
\* from a broken file; a key that comes out of a file is the one that went in, whatever has
\* happened to the file - of the lines of SSH-2 with the same comment.
KeySafe ==
    (made.what = "loaded" /\ saved.format # "none") =>
        /\ OtherAnswer.ret = "null"
        /\ saved.sound =>
              TheAnswer = IF Right(made.pass) THEN Loaded(pair, saved.comment)
                          ELSE IF made.pass = NoPass /\ saved.format # "ssh1"
                            THEN Answer("null", "file format error")
                          ELSE Answer("wrong", IF saved.format = "ssh1" THEN "wrong passphrase"
                                               ELSE "file format error")
        /\ TheAnswer.ret = "key" =>
              /\ Right(made.pass)
              /\ TheAnswer.key.alg = pair.alg /\ Publics(TheAnswer.key) = Publics(pair)
              /\ saved.format = "ssh2" =>
                    TheAnswer.key = pair /\ TheAnswer.comment = saved.comment

\* What is found out before a passphrase is asked for is what the loader goes by.
InspectionRight ==
    (made.what = "inspected" /\ saved.format # "none" /\ saved.sound) =>
        /\ made.type = IF saved.format = "ssh1" THEN "ssh1" ELSE "ssh2"
        /\ (IF saved.format = "ssh1" THEN made.encrypted1 ELSE made.encrypted) <=> saved.pass # NoPass
        /\ IF saved.format = "ssh1" THEN made.pub1 = RsaPublicBlob(pair) ELSE made.pub = PublicBlob(pair)
        /\ IF saved.format = "ssh1" THEN made.pub = NULL ELSE made.pub1 = NULL

\* The states a key and its file may be in.
KFTypeOK == KTypeOK \/ made.what \in {"inspected", "loaded"}
=============================================================================
