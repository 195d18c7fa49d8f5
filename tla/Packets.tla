------------------------------ MODULE Packets ------------------------------
(***************************************************************************)
(* The wire of SSH: the greeting that decides the version, then packets    *)
(* with padding, checksum or MAC, encryption and compression, built at one *)
(* end and taken apart at the other, from a stream that is cut anywhere.   *)
(* Both ends are this program: what it sends is what it reads.  The server *)
(* is a greeting (plan.before, plan.server) and a program of messages.     *)
(* A cipher is told by how many bytes it has worked on, compression by how *)
(* many packets; checksum and MAC by a sum: enough to notice that one end  *)
(* is out of step with the other.                                          *)
(***************************************************************************)
EXTENDS Marshal

CONSTANTS
    Plans,      \* greeting, settings of the user, messages
    Cuts        \* how many bytes arrive at a time

VARIABLES
    plan,
    out,        \* the writer: next message, key, pos, comp, seq, deferred
    wire,       \* bytes on their way
    rd          \* the reader

pvars == <<plan, out, wire, rd>>

S == 83  H == 72  Dash == 45  Dot == 46  LF == 10  CR == 13

-----------------------------------------------------------------------------
(* The greeting *)

\* The number that text begins with, and what follows it (strtoul).
Digits(text) == SelectInSubSeq(text, 1, Len(text), LAMBDA c : c \notin 48 .. 57)
Lead(text) == IF Digits(text) = 0 THEN text ELSE SubSeq(text, 1, Digits(text) - 1)
After(text) == SubSeq(text, Len(Lead(text)) + 1, Len(text))
Strtoul(text) == FoldLeft(LAMBDA sum, c : 10 * sum + c - 48, 0, Lead(text))
AfterDot(text) == IF text # <<>> /\ text[1] = Dot THEN Tail(text) ELSE text

\* ssh_versioncmp.
Minor(text) == Strtoul(AfterDot(After(text)))
VersionLess(a, b) ==
    \/ Strtoul(a) < Strtoul(b)
    \/ Strtoul(a) = Strtoul(b) /\ Minor(a) < Minor(b)

V15 == <<49, Dot, 53>>
V199 == <<49, Dot, 57, 57>>
V20 == <<50, Dot, 48>>

\* What follows the first dash of text; text without what ends its line.
AfterDash(text) ==
    LET at == SelectInSeq(text, LAMBDA c : c = Dash)
    IN  IF at = 0 THEN <<>> ELSE SubSeq(text, at + 1, Len(text))
FirstLine(text) ==
    LET at == SelectInSeq(text, LAMBDA c : c \in {CR, LF})
    IN  IF at = 0 THEN text ELSE SubSeq(text, 1, at - 1)

\* Names of implementations, a word being one character.
Cisco == 301  Number125 == 302  OSU == 303  Old12 == 304  OpenSSH20 == 305  OpenSSH25 == 306
OpenSSH30 == 307  Shell200 == 308  Shell21 == 309  Space == 32  VShell == 310

\* The patterns of ssh_detect_bugs.
CiscoName == <<Cisco, Dash, Number125>>
Suspects ==
    [ignore1 |-> {<<Old12>>, CiscoName, <<OSU>>},
     plainpw1 |-> {CiscoName, <<OSU>>},
     rsa1 |-> {CiscoName},
     hmac2 |-> {<<Shell200>>, <<Shell21>>},
     derivekey2 |-> {<<Shell200>>},
     rsapad2 |-> {<<OpenSSH25>>, <<OpenSSH30>>},
     pksessid2 |-> {<<OpenSSH20>>},
     dhgex2 |-> {}]
Bugs == DOMAIN Suspects

\* ssh_detect_bugs; force says of a bug that it is ON or OFF whatever the server.
DetectBugs(vstring, force) ==
    LET imp == AfterDash(AfterDash(vstring))
    IN  {b \in Bugs : \/ b \in DOMAIN force /\ force[b] = "on"
                      \/ b \notin DOMAIN force /\ imp \in Suspects[b]}

\* The search for "SSH-": how much of it has been seen.
Seen(i, c) ==
    CASE c = S -> <<1, 2, 2, 1>>[i + 1]
      [] c = H -> <<0, 0, 3, 0>>[i + 1]
      [] c = Dash -> <<0, 0, 0, -1>>[i + 1]
      [] OTHER -> 0

\* The end of the greeting: do_ssh_init decides.
Decide(r) ==
    LET proto1 == VersionLess(r.version, V20)
        proto2 == ~VersionLess(r.version, V199)
        prot == plan.sshprot
        found == [r EXCEPT !.bugs = DetectBugs(FirstLine(r.vstring), plan.force)]
    IN  IF (prot = 0 /\ ~proto1) \/ (prot = 3 /\ ~proto2) THEN [found EXCEPT !.stage = "closed"]
        ELSE IF proto2 /\ (prot >= 2 \/ ~proto1)
          THEN [found EXCEPT !.stage = "idle", !.protocol = 2, !.claim = V20]
          ELSE [found EXCEPT !.stage = "idle", !.protocol = 1,
                             !.claim = IF VersionLess(V15, r.version) THEN V15 ELSE r.version]

\* do_ssh_init is given one character.
Greet(r, c) ==
    CASE r.stage = "search" ->
             IF Seen(r.i, c) = -1 THEN [r EXCEPT !.stage = "version", !.vstring = <<S, S, H, Dash>>]
             ELSE [r EXCEPT !.i = Seen(r.i, c)]
      [] r.stage = "version" ->
             [r EXCEPT !.vstring = Append(@, c), !.stage = IF c = Dash THEN "name" ELSE @,
                       !.version = IF c # Dash /\ Len(@) < 9 THEN Append(@, c) ELSE @]
      [] r.stage = "name" ->
             IF c = LF THEN Decide([r EXCEPT !.vstring = Append(@, c)])
             ELSE [r EXCEPT !.vstring = Append(@, c)]

-----------------------------------------------------------------------------
(* Ciphers and their like, told by how far they have got *)

Block(key) == IF key = 2 THEN 16 ELSE 8
MacLen(key) == IF key = 0 THEN 0 ELSE 2

\* Whole blocks only: what is left over stays as it is.
Crypt(x, bytes, sign) ==
    [i \in 1 .. Len(bytes) |->
        IF x.key = 0 \/ i > Len(bytes) - (Len(bytes) % Block(x.key)) THEN bytes[i]
        ELSE (bytes[i] + sign * (7 * (x.pos + i) + 31 * x.key)) % 256]
Sum(bytes) == FoldLeftDomain(LAMBDA sum, i : (sum + i * bytes[i]) % 256, 0, bytes)
Crc(bytes) == Word(Sum(bytes))
Mac(x, bytes) == IF x.key = 0 THEN <<>> ELSE <<Sum(bytes), (x.seq + x.key) % 256>>

\* comp is the number of packets compressed, -1 without compression.
Compress(x, payload) == IF x.comp = -1 THEN payload ELSE <<x.comp>> \o payload
Inflates(x, payload) == payload # <<>> /\ payload[1] = x.comp
Inflate(x, payload) == IF x.comp # -1 /\ Inflates(x, payload) THEN Tail(payload) ELSE payload
Packed(x) == IF x.comp = -1 THEN -1 ELSE x.comp + 1

\* What the message of a type changes for the packets after it, at either end.
NewKeys(x) == [x EXCEPT !.key = @ + 1, !.pos = 0, !.comp = 0]
PublicKey == 2      \* SSH-1: answered with the session key
Success == 14       \* SSH-1: the second one answers the request to compress
NewKeysMsg == 21
Switch(x, protocol, type) ==
    CASE protocol = 2 /\ type = NewKeysMsg -> NewKeys(x)
      [] protocol = 1 /\ type = PublicKey -> [x EXCEPT !.key = 1, !.pos = 0]
      [] protocol = 1 /\ type = Success -> [x EXCEPT !.succeeded = TRUE,
                                                     !.comp = IF x.succeeded THEN 0 ELSE @]
      [] OTHER -> x

-----------------------------------------------------------------------------
(* The writer *)

Padding(n) == [i \in 1 .. n |-> 170]

\* s_wrpkt_prepare.
Packet1(x, payload) ==
    LET len == Len(payload) + 4
        pad == 8 - (len % 8)
        block == Padding(pad) \o payload
    IN  Word(len) \o Crypt(x, block \o Crc(block), 1)

\* ssh2_pkt_construct: at least four bytes of padding, up to a whole number of blocks.
PadLength(x, n) == 4 + ((Block(x.key) - ((n + 4) % Block(x.key))) % Block(x.key))
Packet2(x, payload) ==
    LET pad == PadLength(x, Len(payload) + 5)
        plain == Word(Len(payload) + pad + 1) \o <<pad>> \o payload \o Padding(pad)
    IN  Crypt(x, plain, 1) \o Mac(x, plain)

Payload(x, msg) ==
    Compress(x, <<msg.type>> \o (IF plan.protocol = 1 THEN Construct(msg.items) ELSE Build(msg.items, plan.pads)))
Construct12(x, msg) ==
    IF plan.protocol = 1 THEN Packet1(x, Payload(x, msg)) ELSE Packet2(x, Payload(x, msg))

\* How far the ciphers have got after a packet of so many bytes: the length of an SSH-1 packet
\* and the MAC are not encrypted.
Advance(x, n) == [x EXCEPT !.pos = IF x.key = 0 THEN 0 ELSE @ + n,
                           !.comp = Packed(x), !.seq = @ + 1]
Encrypted(x, n) == IF plan.protocol = 1 THEN n - 4 ELSE n - MacLen(x.key)

\* What the client has decided on lets the server go on; a server that speaks SSH-2 alone
\* need not wait for it.
MayWrite ==
    /\ out.next <= Len(plan.messages)
    /\ rd.protocol # 0 \/ plan.early

Message == plan.messages[out.next]
Written12(bytes) ==
    [Switch(Advance(out, Encrypted(out, Len(bytes))), plan.protocol, Message.type) EXCEPT !.next = @ + 1]

\* s_wrpkt, ssh2_pkt_send.
Send ==
    /\ MayWrite /\ out.deferred = <<>>
    /\ \E bytes \in {Construct12(out, Message)} : wire' = wire \o bytes /\ out' = Written12(bytes)
    /\ UNCHANGED <<plan, rd>>

\* s_wrpkt_defer, ssh2_pkt_defer.
Defer ==
    /\ MayWrite
    /\ \E bytes \in {Construct12(out, Message)} :
           out' = [Written12(bytes) EXCEPT !.deferred = @ \o bytes]
    /\ UNCHANGED <<plan, wire, rd>>

\* ssh_pkt_defersend.
DeferSend ==
    /\ out.deferred # <<>>
    /\ wire' = wire \o out.deferred /\ out' = [out EXCEPT !.deferred = <<>>]
    /\ UNCHANGED <<plan, rd>>

-----------------------------------------------------------------------------
(* The reader *)

Disconnect == 1
Ignored(protocol) == IF protocol = 1 THEN {32, 36} ELSE {2, 4}
Strings1 == {17, 18, 36, 39, 41}    \* data, debugging and challenges: one string is all there is
Known2 == {3, 5, 6, 20, 21, 30, 31, 32, 33, 34, 50, 51, 52, 53, 60, 61, 80, 81, 82} \cup 90 .. 100

\* What a handler takes out of a message.
Shape(type) ==
    CASE type = 31 -> <<"str", "num", "sig">>
      [] type = 51 -> <<"str", "char">>
      [] type = 93 -> <<"int", "int">>
      [] type = 94 -> <<"int", "str">>
      [] OTHER -> <<>>

Close(r) == [r EXCEPT !.stage = "closed", !.buf = <<>>]

\* The packet goes to the protocol (ssh->protocol), which may change what reads the next one.
Deliver(r, type, vals) ==
    [Switch(r, r.protocol, type) EXCEPT !.stage = "idle", !.buf = <<>>,
                                        !.got = Append(@, [type |-> type, vals |-> vals])]
Skip(r) == [r EXCEPT !.stage = "idle", !.buf = <<>>]

\* The rest of ssh1_rdpkt, once the packet is decrypted and unpacked.
Bogus(type, body) == type \in Strings1 /\ (Len(body) < 4 \/ WordAt(body, 1) + 4 # Len(body))
Dispatch1(r, type, body) ==
    IF Bogus(type, body) \/ type = Disconnect THEN Close(r)
    ELSE IF type \in Ignored(1) THEN Skip(r) ELSE Deliver(r, type, body)

\* ssh1_rdpkt has read a packet: p is what was encrypted.
Checked1(r, p) ==
    LET block == SubSeq(p, 1, Len(p) - 4)
        payload == Inflate(r, SubSeq(block, r.pad + 1, Len(block)))
    IN  IF \/ SubSeq(p, Len(p) - 3, Len(p)) # Crc(block)
           \/ r.comp # -1 /\ ~Inflates(r, SubSeq(block, r.pad + 1, Len(block)))
          THEN Close(r)
          ELSE Dispatch1(Advance(r, Len(p)), payload[1], Tail(payload))

\* The rest of ssh2_rdpkt; the packet before this one had the number r.seq - 1.
Dispatch2(r, type, body) ==
    CASE type = Disconnect -> Close(r)
      [] type \in Ignored(2) -> Skip(r)
      [] type \in Known2 -> Deliver([r EXCEPT !.over = @ \/ Parse(Shape(type), body).at > Len(body)],
                                    type, Parse(Shape(type), body).vals)
      [] OTHER -> Deliver([r EXCEPT !.said = Append(@, r.seq - 1)], type, <<>>)

\* ssh2_rdpkt has read a packet: plain without its MAC.
Checked2(r, plain, mac) ==
    LET payload == Inflate(r, Chunk(plain, 6, r.len - r.pad - 1))
    IN  IF mac # Mac(r, plain) THEN Close(r)
        ELSE Dispatch2(Advance(r, r.len + 4 - r.first), payload[1], Tail(payload))
Packet2In(r) ==
    Checked2(r, SubSeq(r.buf, 1, r.first)
                  \o Crypt(r, SubSeq(r.buf, r.first + 1, r.len + 4), -1),
             SubSeq(r.buf, r.len + 5, r.want))

\* The first block of an SSH-2 packet holds its length; it may be the whole packet.
Sized(r) ==
    IF r.buf[1] >= 128 THEN Close(r)
    ELSE IF r.want <= r.first THEN Packet2In(r) ELSE r
First(r, plain) ==
    Sized([r EXCEPT !.buf = plain, !.stage = "rest", !.pos = IF r.key = 0 THEN 0 ELSE @ + r.first,
                    !.len = Value(plain), !.pad = plain[5],
                    !.want = Value(plain) + 4 + MacLen(r.key)])

\* As much is there as was waited for.
Filled(r) ==
    CASE r.stage = "length" ->
             [r EXCEPT !.stage = "body", !.len = Value(r.buf), !.pad = 8 - (Value(r.buf) % 8),
                       !.want = Value(r.buf) + 8 - (Value(r.buf) % 8), !.buf = <<>>]
      [] r.stage = "body" -> Checked1(r, Crypt(r, r.buf, -1))
      [] r.stage = "first" -> First(r, Crypt(r, r.buf, -1))
      [] r.stage = "rest" -> Packet2In(r)

\* Mutant: the size of the first block is that of the packet before it.
BeginStale(r) ==
    IF r.stage # "idle" THEN r
    ELSE IF r.protocol = 1 THEN [r EXCEPT !.stage = "length", !.want = 4]
    ELSE [r EXCEPT !.stage = "first", !.want = IF r.first = 0 THEN 8 ELSE r.first,
                   !.first = IF r.first = 0 THEN 8 ELSE r.first]

\* A new packet: the size of its first block is that of the cipher there is now.
Begin(r) ==
    IF r.stage # "idle" THEN r
    ELSE IF r.protocol = 1 THEN [r EXCEPT !.stage = "length", !.want = 4]
    ELSE [r EXCEPT !.stage = "first", !.want = Block(r.key), !.first = Block(r.key)]

Taken(r, data) == Min({r.want - Len(r.buf), Len(data)})
Fill(r, bytes) ==
    IF Len(r.buf) + Len(bytes) = r.want THEN Filled([r EXCEPT !.buf = @ \o bytes])
    ELSE [r EXCEPT !.buf = @ \o bytes]

\* ssh_gotdata.
RECURSIVE Gotdata(_, _)
Gotdata(r, data) ==
    IF data = <<>> \/ r.stage = "closed" THEN r
    ELSE IF r.protocol = 0 THEN Gotdata(Greet(r, Head(data)), Tail(data))
    ELSE Gotdata(Fill(Begin(r), SubSeq(data, 1, Taken(Begin(r), data))),
                 SubSeq(data, Taken(Begin(r), data) + 1, Len(data)))

\* ssh_receive: some of what is on its way arrives.
Receive ==
    /\ wire # <<>> /\ rd.stage # "closed"
    /\ \E n \in Cuts :
           /\ n <= Len(wire) \/ n = Max(Cuts)
           /\ rd' = Gotdata(rd, SubSeq(wire, 1, Min({n, Len(wire)})))
           /\ wire' = SubSeq(wire, Min({n, Len(wire)}) + 1, Len(wire))
    /\ UNCHANGED <<plan, out>>

-----------------------------------------------------------------------------
Cleartext == [key |-> 0, pos |-> 0, comp |-> -1, seq |-> 0, succeeded |-> FALSE]

PInit ==
    /\ plan \in Plans
    /\ wire = plan.before \o <<S, S, H, Dash>> \o plan.text \o <<Dash>> \o plan.name \o <<CR, LF>>
    /\ out = Cleartext @@ [next |-> 1, deferred |-> <<>>]
    /\ rd = Cleartext @@
              [stage |-> "search", i |-> 0, vstring |-> <<>>, version |-> <<>>, bugs |-> {},
               protocol |-> 0, claim |-> <<>>, buf |-> <<>>, want |-> 0, first |-> 0, len |-> 0,
               pad |-> 0, got |-> <<>>, said |-> <<>>, over |-> FALSE]

PNext == Send \/ Defer \/ DeferSend \/ Receive
PSpec == PInit /\ [][PNext]_pvars

-----------------------------------------------------------------------------
(* Properties *)

PTypeOK ==
    /\ plan \in Plans /\ wire \in Seq(0 .. 400)
    /\ out.next \in 1 .. Len(plan.messages) + 1 /\ out.key \in 0 .. 2
    /\ rd.stage \in {"search", "version", "name", "idle", "length", "body", "first", "rest", "closed"}
    /\ rd.protocol \in 0 .. 2 /\ rd.i \in 0 .. 3 /\ Len(rd.buf) <= rd.want

\* The version agreed upon is one both sides have, the newer one unless the user prefers the
\* older, and never one the user has ruled out; the bugs are those of this server, whatever
\* came before its greeting and however it was cut.
VersionAgreed ==
    /\ rd.protocol # 0 =>
          /\ rd.protocol = plan.protocol
          /\ rd.bugs = plan.bugs
          /\ rd.claim = IF plan.protocol = 2 THEN V20 ELSE plan.claim
    /\ (rd.stage = "closed" /\ rd.protocol = 0) => plan.protocol = 0

\* What the reader is to make of what has been sent; fate says what becomes of a message.
Sent == SubSeq(plan.messages, 1, out.next - 1)
Ends == SelectInSeq(Sent, LAMBDA m : m.fate = "ends")
Arriving ==
    SelectSeq(IF Ends = 0 THEN Sent ELSE SubSeq(Sent, 1, Ends - 1), LAMBDA m : m.fate # "silent")
Meaning(m) ==
    [type |-> m.type,
     vals |-> IF plan.protocol = 1 THEN Written(m.items)
              ELSE IF Shape(m.type) = <<>> THEN <<>> ELSE Meant(m.vals, plan.pads)]
Expected == [i \in 1 .. Len(Arriving) |-> Meaning(Arriving[i])]
Unknown == {i \in 1 .. Len(Sent) : Sent[i].fate = "unknown" /\ (Ends = 0 \/ i < Ends)}
AllThere == wire = <<>> /\ out.deferred = <<>> /\ rd.protocol # 0

\* What comes out is what was put in, in order, without what is to be dropped, however the
\* stream is cut and whatever of it was deferred, and nothing is kept back once all is there;
\* getters never go past the end of a packet; a message nobody knows is answered with its number.
PacketsArrive ==
    /\ rd.protocol # 0 => IsPrefix(rd.got, Expected)
    /\ AllThere => /\ rd.got = Expected
                   /\ rd.stage = IF Ends = 0 THEN "idle" ELSE "closed"
                   /\ plan.protocol = 2 => Range(rd.said) = {i - 1 : i \in Unknown}
    /\ ~rd.over
=============================================================================
