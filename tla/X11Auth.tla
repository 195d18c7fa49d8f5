------------------------------ MODULE X11Auth ------------------------------
(***************************************************************************)
(* One forwarded X11 connection (x11fwd.c): what the client sends comes    *)
(* through the channel, cut anywhere.  Its first packet must carry the     *)
(* cookie that was invented for the server; it is taken out, the real one  *)
(* put in, and from then on data is copied.  A cookie of MIT is compared;  *)
(* one of XDM is encrypted with the address of the client, and its time is *)
(* not looked at in this build.  Encryption is told by a sum.              *)
(***************************************************************************)
EXTENDS Integers, SequencesExt

CONSTANTS
    Visits,     \* what a client sends, what it is to be checked against, what is to come of it
    Parts       \* how many bytes come at a time

VARIABLES visit, coming, x     \* x: an X11Private

xvars == <<visit, coming, x>>

\* x11_authnames, shortened; their lengths differ modulo 4.
AuthName(proto) == CASE proto = "none" -> <<>> [] proto = "MIT" -> <<77, 73>> [] proto = "XDM" -> <<88, 68, 77>>

Get16(endian, a, b) == IF endian = 66 THEN a * 256 + b ELSE b * 256 + a
Put16(endian, n) == IF endian = 66 THEN <<n \div 256, n % 256>> ELSE <<n % 256, n \div 256>>
RoundUp(n) == ((n + 3) \div 4) * 4
Blank(n) == [i \in 1 .. n |-> 0]
PadTo4(bytes) == bytes \o Blank(RoundUp(Len(bytes)) - Len(bytes))

\* des_encrypt_xdmauth and back.
XdmCrypt(key, bytes, sign) == [i \in 1 .. Len(bytes) |-> (bytes[i] + sign * (Last(key) + i)) % 256]

\* Mutant: the data of a cookie is compared as far as it goes.
VerifyShort(proto, data) ==
    /\ proto = AuthName(visit.fake.proto)
    /\ visit.fake.proto = "MIT" => IsPrefix(data, visit.fake.data)
    /\ visit.fake.proto = "XDM" => Len(data) = 24

\* x11_verify.  Of an XDM cookie the first eight bytes are compared; then the address.
Verify(proto, data) ==
    LET fake == visit.fake
        plain == XdmCrypt(fake.data, data, -1)
    IN  /\ proto = AuthName(fake.proto)
        /\ fake.proto = "MIT" => data = fake.data
        /\ fake.proto = "XDM" =>
              /\ Len(data) = 24 /\ visit.port # <<>>
              /\ SubSeq(plain, 1, 8) = SubSeq(fake.data, 1, 8)
              /\ SubSeq(plain, 9, 14) = visit.ip \o visit.port
              /\ SubSeq(plain, 19, 24) = Blank(6)

\* What is put in place of the fake: the time in an XDM cookie is never set (t).
RealData(time) ==
    CASE visit.real.proto = "MIT" -> visit.real.data
      [] visit.real.proto = "XDM" /\ visit.local # <<>> ->
             XdmCrypt(visit.real.data, SubSeq(visit.real.data, 1, 8) \o visit.local \o time \o Blank(6), 1)
      [] OTHER -> <<>>

Opening(first, time) ==
    LET name == AuthName(visit.real.proto)
        data == RealData(time)
    IN  SubSeq(first, 1, 6) \o Put16(first[1], Len(name)) \o Put16(first[1], Len(data))
          \o SubSeq(first, 11, 12) \o PadTo4(name) \o PadTo4(data)

\* The answer to a client that is refused: how long the message is, in bytes and in words.
Message == <<78, 79, 33, 33, 33>>
Refusal(first) ==
    <<0, Len(Message)>> \o SubSeq(first, 3, 6)
      \o Put16(first[1], RoundUp(Len(Message)) \div 4) \o PadTo4(Message)

\* How much of the first packet there is to read: its sizes are known after twelve bytes.
PLen(b) == Get16(b[1], b[7], b[8])
DLen(b) == Get16(b[1], b[9], b[10])
Want(b) == IF Len(b) < 12 THEN 12 ELSE 12 + RoundUp(PLen(b)) + RoundUp(DLen(b))

\* x11_send.
Accepted(b, data, time) ==
    [x EXCEPT !.first = b, !.verified = TRUE, !.sent = @ \o Opening(b, time) \o data]
Refused(b) == [x EXCEPT !.first = b, !.open = FALSE, !.back = Refusal(b)]
Complete(b, data) ==
    IF Verify(SubSeq(b, 13, 12 + PLen(b)),
              SubSeq(b, 13 + RoundUp(PLen(b)), 12 + RoundUp(PLen(b)) + DLen(b)))
      THEN \E time \in {<<0, 0, 0, 0>>, <<1, 2, 3, 4>>} : x' = Accepted(b, data, time)
      ELSE x' = Refused(b)

Upto(b, data, want) == b \o SubSeq(data, 1, Min({Len(data), want - Len(b)}))
Rest(b, data, want) == SubSeq(data, Min({Len(data), want - Len(b)}) + 1, Len(data))

ReadOn(b, data) ==
    IF Len(b) < Want(b) THEN x' = [x EXCEPT !.first = b] ELSE Complete(b, data)

X11Send(data) ==
    IF x.verified THEN x' = [x EXCEPT !.sent = @ \o data]
    ELSE \E b \in {Upto(x.first, data, IF Len(x.first) < 12 THEN 12 ELSE Len(x.first))} :
         \E d \in {Rest(x.first, data, IF Len(x.first) < 12 THEN 12 ELSE Len(x.first))} :
             IF Len(b) < 12 THEN x' = [x EXCEPT !.first = b]
             ELSE ReadOn(Upto(b, d, Want(b)), Rest(b, d, Want(b)))

FromChannel ==
    /\ coming # <<>> /\ x.open
    /\ \E n \in Parts :
           /\ n <= Len(coming) \/ n = Max(Parts)
           /\ X11Send(SubSeq(coming, 1, Min({n, Len(coming)})))
           /\ coming' = SubSeq(coming, Min({n, Len(coming)}) + 1, Len(coming))
    /\ UNCHANGED visit

\* x11_init.
XInit ==
    /\ visit \in Visits
    /\ coming = visit.packet \o visit.rest
    /\ x = [first |-> <<>>, verified |-> FALSE, sent |-> <<>>, back |-> <<>>, open |-> TRUE]
XSpec == XInit /\ [][FromChannel]_xvars

-----------------------------------------------------------------------------
XTypeOK ==
    /\ x.verified => x.open
    /\ Len(x.first) <= Want(x.first)

\* What an X server is to be sent for a client that is let in.
Proper(sent) ==
    \E time \in {<<0, 0, 0, 0>>, <<1, 2, 3, 4>>} :
        IsPrefix(sent, Opening(visit.packet, time) \o visit.rest)
ProperLength == Len(Opening(visit.packet, <<0, 0, 0, 0>>) \o visit.rest)

\* An X server hears nothing of a client that does not know the cookie; of one that does it
\* hears the real cookie and then every byte, however the stream is cut; the cookie that was
\* invented never gets to it.  Lengths in what is sent are those of what follows them.
CookieChecked ==
    /\ x.sent # <<>> => visit.welcome /\ Proper(x.sent)
    /\ x.back # <<>> => ~visit.welcome /\ Len(x.back) = 8 + 4 * Get16(x.first[1], x.back[7], x.back[8])
    /\ coming = <<>> =>
          IF visit.welcome THEN Len(x.sent) = ProperLength ELSE x.back # <<>> /\ ~x.open
=============================================================================
