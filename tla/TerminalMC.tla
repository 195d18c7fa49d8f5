----------------------------- MODULE TerminalMC -----------------------------
(***************************************************************************)
(* The terminal, and what works on bytes and keys alone: the screen, in    *)
(* scenarios small enough to be gone through completely; the decoding of   *)
(* UTF-8, the parser of control sequences, the line discipline, the        *)
(* packets of SSH, requests for forwarded connections, keys and their      *)
(* files.  live names the part a behaviour is about, and the others stay   *)
(* at their beginning.                                                     *)
(***************************************************************************)
EXTENDS Terminal

\* Live: the parts that are checked; the other constants are bounds of theirs.
CONSTANTS Live, MaxArgs, MaxValue, MaxOsc, MaxKeys, MaxModes, ByteBits, LineLength

VARIABLES live,
    dec,
    parse, chars,
    ld, lcfg, echo, edit, keys, modes, columns, margin, toBack, sentUpTo, mixed,
    plan, out, wire, rd,
    req, toCome, pr,
    visit, coming, x,
    pair, made, file, saved

-----------------------------------------------------------------------------
(* The scenarios of the screen. *)
\* Settings: ets (erase to scrollback), noalt (no alternate screen), ondisp
\* and onkey (the view returns to the bottom on output, on a key).
Keeper == [ets |-> TRUE, noalt |-> FALSE, ondisp |-> FALSE, onkey |-> TRUE]
Jumper == [ets |-> FALSE, noalt |-> FALSE, ondisp |-> TRUE, onkey |-> FALSE]
Plain == [ets |-> FALSE, noalt |-> TRUE, ondisp |-> FALSE, onkey |-> FALSE]

Scene(heights, widths, limits, glyphs, configs, groups, length) ==
    [heights |-> heights, widths |-> widths, limits |-> limits, glyphs |-> glyphs,
     configs |-> configs, groups |-> groups, length |-> length]

\* Lines that come and go; wide characters, at one size and while the window is resized; the
\* mouse, with and without erasing; and all that is left: "before", which WideWhole excepts, and
\* "clear" and "config", which with "mouse" and "view" lead out of reach (Stale).
Checked ==
    { Scene({2, 3}, {1, 2}, {0, 2}, {"a"}, {Keeper, Jumper},
            {"print", "lines", "erase", "alt", "reset", "view", "size"}, 5),
      Scene({2}, {3}, {1}, {"a", "W"}, {Jumper},
            {"print", "move", "erase", "cells", "modes", "tabs"}, 5),
      Scene({2}, {2, 3}, {1}, {"a", "W"}, {Keeper}, {"print", "size", "lines", "erase", "alt"}, 4),
      Scene({2}, {2}, {1}, {"a"}, {Keeper}, {"print", "lines", "mouse", "view"}, 5),
      Scene({2}, {1, 2}, {1}, {"a"}, {Keeper}, {"print", "lines", "mouse", "erase", "reset"}, 4),
      Scene({3}, {2}, {1}, {"a", "W"}, {Keeper, Plain},
            {"print", "lines", "before", "backtab", "region", "margins", "alt", "clear",
             "config", "save"}, 4) }

\* The scrollback is cleared under a selection, and the settings change under a view.
Stale ==
    { Scene({2}, {1}, {1}, {"a"}, {Keeper}, {"lines", "mouse", "clear", "view"}, 5),
      Scene({2}, {2}, {1}, {"a"}, {Keeper, Plain, [Keeper EXCEPT !.noalt = TRUE]},
            {"print", "alt", "view", "config"}, 5) }

-----------------------------------------------------------------------------
(* What the other parts are given to work on, and what is to come of it. *)
\* Sequences and parameters, character sets, strings.
Alphabets ==
    { {"CR", "SO", "ESC", "CSI", "DEL", "1", "2", "4", "6", ";", "?", "quote", "c", "h", "l",
       "p", "m", "<", "Y", "b"},
      {"SO", "SI", "ESC", "CSI", "DEL", "(", ")", "%", "0", "U", "A", "B", "G", "@", "1", "2",
       "m", "a"},
      {"CR", "BEL", "ESC", "OSC", "ST", "]", "backslash", "P", "W", "R", "L", "1", "2", ";",
       "c", "%", "G", "A"} }

\* Bytes of every kind, and code points at the ends of every range.
Bytes == {65, 10, 128, 191, 160, 192, 195, 224, 226, 237, 240, 247, 248, 252, 254, 255}
Points == {10, 65, 127, 160, 255, 2047, 2048, 8364, 55295, 57344, 65533}

\* Greetings: every version against every preference of the user, after several beginnings;
\* every known bug.
Item(kind, val) == [kind |-> kind, val |-> val]
Msg(type, items, fate) == [type |-> type, items |-> items, vals |-> items, fate |-> fate]
Versions ==
    [v13 |-> <<49, 46, 51>>, v15 |-> <<49, 46, 53>>, v110 |-> <<49, 46, 49, 48>>,
     v199 |-> <<49, 46, 57, 57>>, v20 |-> <<50, 46, 48>>, v21 |-> <<50, 46, 49>>]
Offers(v) == CASE v = "v199" -> {1, 2} [] v \in {"v20", "v21"} -> {2} [] OTHER -> {1}
Agreed(offers, prot) ==
    CASE prot = 0 -> IF 1 \in offers THEN 1 ELSE 0
      [] prot = 1 -> IF 1 \in offers THEN 1 ELSE 2
      [] prot = 2 -> IF 2 \in offers THEN 2 ELSE 1
      [] prot = 3 -> IF 2 \in offers THEN 2 ELSE 0
Plan(before, v, name, bugs, prot, force, pads, msgs) ==
    [before |-> before, text |-> Versions[v], name |-> name, bugs |-> bugs, sshprot |-> prot,
     force |-> force, pads |-> pads, messages |-> msgs, protocol |-> Agreed(Offers(v), prot),
     claim |-> IF v = "v13" THEN Versions["v13"] ELSE Versions["v15"], early |-> Offers(v) = {2}]
Greetings ==
    {Plan(before, v, <<311>>, {}, prot, <<>>, FALSE, <<Msg(5, <<>>, "read")>>) :
        before \in {<<>>, <<83, 83, 72>>, <<83>>, <<83, 72, 10>>},
        v \in DOMAIN Versions, prot \in 0 .. 3}
Cisco == <<301, 45, 302>>
Buggy ==
    {Plan(<<>>, "v15", Cisco, {"ignore1", "plainpw1", "rsa1"}, 2, <<>>, FALSE, <<>>),
     Plan(<<>>, "v15", Cisco, {"ignore1", "rsa1", "dhgex2"}, 2,
          [plainpw1 |-> "off", dhgex2 |-> "on"], FALSE, <<>>),
     Plan(<<>>, "v15", <<304>>, {"ignore1"}, 2, <<>>, FALSE, <<>>),
     Plan(<<>>, "v199", <<305>>, {"pksessid2"}, 2, <<>>, FALSE, <<>>),
     Plan(<<>>, "v20", <<308>>, {"hmac2", "derivekey2"}, 2, <<>>, FALSE, <<>>),
     Plan(<<>>, "v20", <<308, 32, 310>>, {}, 2, <<>>, FALSE, <<>>)}

\* Conversations: keys that change in the middle of what arrives, compression, messages that
\* are dropped, unknown, too short or the last.
Words == Item("str", <<104, 105>>)
Old ==
    <<Msg(2, <<Item("int", 70000), Item("num", 255), Item("num", 256)>>, "read"), Msg(14, <<>>, "read"),
      Msg(36, <<Words>>, "silent"), Msg(14, <<>>, "read"), Msg(17, <<Words>>, "read"),
      Msg(32, <<>>, "silent"), Msg(20, <<Item("data", <<1, 2, 3>>), Item("char", 7)>>, "read")>>
Signed == Item("sig", [exponent |-> 3, modulus |-> 40000, bytes |-> <<9>>])
New ==
    <<Msg(31, <<Words, Item("num", 200), Signed>>, "read"), Msg(21, <<>>, "read"),
      Msg(192, <<Item("int", 1)>>, "unknown"), Msg(4, <<Item("char", 0), Words>>, "silent"),
      Msg(21, <<>>, "read"), Msg(51, <<Words, Item("char", 1)>>, "read")>>
Short ==
    [type |-> 94, fate |-> "read", items |-> <<Item("int", 5), Item("int", 3), Item("char", 1)>>,
     vals |-> <<Item("int", 5), Item("str", <<-1>>)>>]
Stub ==
    [type |-> 93, fate |-> "read", items |-> <<Item("int", 5), Item("char", 1)>>,
     vals |-> <<Item("int", 5), Item("int", 0)>>]
Conversations ==
    {Plan(<<>>, "v15", <<311>>, {}, 2, <<>>, FALSE, msgs) :
        msgs \in {Old, <<Msg(17, <<Item("int", 9), Item("char", 1)>>, "ends"), Msg(14, <<>>, "read")>>,
                  <<Msg(14, <<>>, "read"), Msg(1, <<Words>>, "ends"), Msg(14, <<>>, "read")>>}}
    \cup {Plan(<<>>, "v20", <<306>>, {"rsapad2"}, 2, <<>>, TRUE, msgs) :
             msgs \in {New, <<Short, Stub, Msg(1, <<Item("int", 2), Words, Words>>, "ends"), Short>>}}
Plans == Greetings \cup Buggy \cup Conversations
Cuts == {1, 11, 64}

\* Clients of a forwarded port: their request, what is answered, and the data after it.
Client(kind, bytes, says, asks) ==
    [kind |-> kind, bytes |-> bytes, says |-> says, asks |-> asks, rest |-> <<4, 0, 5>>]
Ok5 == <<5, 0, 0, 1, 0, 0, 0, 0, 0, 0>>
No5(rep) == <<5, rep, 0, 1, 0, 0, 0, 0, 0, 0>>
No4 == <<0, 91, 0, 0, 0, 0, 0, 0>>
Hello5 == <<5, 2, 2, 0>>
Requests ==
    {Client("server", <<>>, <<>>, <<>>),
     Client("fixed", <<>>, <<>>, <<<<10, 0, 0, 1>>, 80>>),
     Client("dynamic", <<4, 1, 1, 2, 10, 0, 0, 1, 0>>, <<<<0, 90, 1, 2, 10, 0, 0, 1>>>>, <<<<10, 0, 0, 1>>, 258>>),
     Client("dynamic", <<4, 1, 1, 2, 0, 0, 0, 0, 7, 0>>, <<<<0, 90, 1, 2, 0, 0, 0, 0>>>>, <<<<0, 0, 0, 0>>, 258>>),
     Client("dynamic", <<4, 1, 1, 2, 0, 0, 0, 9, 7, 0, 8, 6, 0>>, <<<<0, 90, 1, 2, 0, 0, 0, 9>>>>, <<<<8, 6>>, 258>>),
     Client("dynamic", <<4, 1, 1, 2, 0, 0, 0, 9, 0, 8, 0>>, <<<<0, 90, 1, 2, 0, 0, 0, 9>>>>, <<<<8>>, 258>>),
     Client("dynamic", <<4, 2, 1>>, <<No4>>, <<>>),
     Client("dynamic", <<4, 1, 1, 2, 0, 0, 0, 9, 1, 1, 1, 1, 1, 1, 1, 1, 1, 1, 1>>, <<No4>>, <<>>),
     Client("dynamic", Hello5 \o <<5, 1, 0, 1, 10, 0, 0, 1, 1, 2>>, <<<<5, 0>>, Ok5>>, <<<<10, 0, 0, 1>>, 258>>),
     Client("dynamic", Hello5 \o <<5, 1, 0, 3, 2, 8, 6, 1, 2>>, <<<<5, 0>>, Ok5>>, <<<<8, 6>>, 258>>),
     Client("dynamic", Hello5 \o <<5, 1, 0, 3, 0, 1, 2>>, <<<<5, 0>>, Ok5>>, <<<<>>, 258>>),
     Client("dynamic", Hello5 \o <<5, 2, 0, 1, 10, 0, 0, 1, 1, 2>>, <<<<5, 0>>, No5(1)>>, <<>>),
     Client("dynamic", Hello5 \o <<5, 1, 0, 9, 0, 0>>, <<<<5, 0>>, No5(8)>>, <<>>),
     Client("dynamic", <<5, 0>> \o <<5, 1, 0, 3, 1, 8, 1, 2>>, <<<<5, 255>>, Ok5>>, <<<<8>>, 258>>),
     Client("dynamic", Hello5 \o <<4, 1>>, <<<<5, 0>>>>, <<>>),
     Client("dynamic", <<71, 69>>, <<>>, <<>>)}
BufSize == 16
Pieces == {1, 3, 7, 30}

\* Clients of X11 forwarding.
Padded(bytes) == bytes \o [i \in 1 .. (4 - (Len(bytes) % 4)) % 4 |-> 0]
Half(endian, n) == IF endian = 66 THEN <<0, n>> ELSE <<n, 0>>
Packet(endian, name, data) ==
    <<endian, 0>> \o Half(endian, 11) \o Half(endian, 0) \o Half(endian, Len(name))
      \o Half(endian, Len(data)) \o <<0, 0>> \o Padded(name) \o Padded(data)
Visit(endian, name, data, fake, real, local, welcome) ==
    [packet |-> Packet(endian, name, data), rest |-> <<1, 2, 3, 4, 5>>, fake |-> fake, real |-> real,
     ip |-> <<10, 0, 0, 1>>, port |-> <<23, 112>>, local |-> local, welcome |-> welcome]
MIT == <<77, 73>>
XDM == <<88, 68, 77>>
Cookie == [proto |-> "MIT", data |-> <<3, 1, 4, 1, 5>>]
Real == [proto |-> "MIT", data |-> <<9, 8, 7, 6, 5, 4, 3>>]
XKey == [proto |-> "XDM", data |-> <<1, 2, 3, 4, 5, 6, 7, 8, 0, 1, 1, 1, 1, 1, 1, 1>>]
XRealKey == [proto |-> "XDM", data |-> <<8, 7, 6, 5, 4, 3, 2, 1, 0, 2, 2, 2, 2, 2, 2, 2>>]
Nobody == [proto |-> "none", data |-> <<>>]
XPlain(ip, port) == SubSeq(XKey.data, 1, 8) \o ip \o port \o <<6, 6, 6, 6, 0, 0, 0, 0, 0, 0>>
XCoded(ip, port) == [i \in 1 .. 24 |-> (XPlain(ip, port)[i] + 1 + i) % 256]
Home == <<127, 0, 0, 1, 9, 9>>
Visits ==
    {Visit(e, MIT, Cookie.data, Cookie, real, <<>>, TRUE) : e \in {66, 108}, real \in {Real, Nobody}}
    \cup {Visit(108, name, data, Cookie, Real, <<>>, FALSE) :
             name \in {<<>>, XDM, MIT \o <<1>>}, data \in {Cookie.data, <<>>}}
    \cup {Visit(66, MIT, data, Cookie, Real, <<>>, FALSE) :
             data \in {<<>>, <<3, 1, 4, 1>>, <<3, 1, 4, 1, 6>>, <<3, 1, 4, 1, 5, 9>>}}
    \cup {Visit(66, XDM, XCoded(<<10, 0, 0, 1>>, <<23, 112>>), XKey, XRealKey, local, TRUE) :
             local \in {<<>>, Home}}
    \cup {Visit(66, XDM, data, XKey, XRealKey, Home, FALSE) :
             data \in {XKey.data, XCoded(<<10, 0, 0, 2>>, <<23, 112>>), XCoded(<<10, 0, 0, 1>>, <<23, 113>>),
                       XPlain(<<10, 0, 0, 1>>, <<23, 112>>)}}
Parts == {1, 5, 13, 100}

\* Key pairs: an RSA modulus that fills its bytes, one that does not, and one of DSS; what is
\* signed, what is drawn or added to a number - a multiple of (p-1)(q-1) among it - passphrases.
Pairs ==
    {[alg |-> "rsa", exponent |-> 7, modulus |-> 25159, private_exponent |-> 1183,
      p |-> 181, q |-> 139, iqmp |-> 56],
     [alg |-> "rsa", exponent |-> 3, modulus |-> 12367, private_exponent |-> 2023,
      p |-> 149, q |-> 83, iqmp |-> 79],
     [alg |-> "dss", p |-> 1019, q |-> 509, g |-> 4, y |-> 109, x |-> 77]}
Filed == {key \in Pairs : key.alg = "dss" \/ key.modulus = 25159}
Digests == {0, 1, 7}
Draws == {1, 180, 509, 1000, 4140}
Chosen == {<<1>>}
Passphrases == {<<1>>, <<2>>}

-----------------------------------------------------------------------------
Decoder == INSTANCE Utf8
Parser == INSTANCE TermParser
Line == INSTANCE Ldisc
Wire == INSTANCE Packets
Proxied == INSTANCE Socks
Display == INSTANCE X11Auth
Keys == INSTANCE KeyFile

parserVars == <<parse, chars>>
lineVars == <<ld, lcfg, echo, edit, keys, modes, columns, margin, toBack, sentUpTo, mixed>>
wireVars == <<plan, out, wire, rd>>
portVars == <<req, toCome, pr>>
displayVars == <<visit, coming, x>>
keyVars == <<pair, made, file, saved>>
allVars == <<live, vars, dec, parserVars, lineVars, wireVars, portVars, displayVars, keyVars>>

\* What a part that is not live starts from does not matter.
Idle ==
    LET s == CHOOSE s \in Scenarios : TRUE
    IN  /\ scene = s
        /\ term = (CHOOSE t \in {Fresh(r, c, l, cfg, "unset") : r \in s.heights, c \in s.widths,
                                   l \in s.limits, cfg \in s.configs} : TRUE)
MCInit ==
    /\ live \in Live
    /\ Init
    /\ live # "screen" => Idle
    /\ Decoder!UInit
    /\ Parser!PInit /\ (live # "parser" => "Y" \in chars)
    /\ Line!Init /\ (lcfg.keyboard <=> lcfg.protocol = "telnet")
    /\ live # "line" => echo /\ edit /\ lcfg.protocol = "ssh"
    /\ Proxied!SInit /\ (live # "port" => req.kind = "server")
    /\ Display!XInit /\ (live # "display" => visit.real = Nobody /\ visit.packet[1] = 66)
    /\ Keys!KFInit /\ (live # "keys" => pair.alg = "dss")
    /\ Wire!PInit
    /\ live # "wire" => plan = Plan(<<>>, "v15", <<304>>, {"ignore1"}, 2, <<>>, FALSE, <<>>)

MCNext ==
    \/ live = "screen" /\ Next
       /\ UNCHANGED <<live, dec, parserVars, lineVars, wireVars, portVars, displayVars, keyVars>>
    \/ live = "decoder" /\ Decoder!UNext
       /\ UNCHANGED <<live, vars, parserVars, lineVars, wireVars, portVars, displayVars, keyVars>>
    \/ live = "parser" /\ Parser!PNext
       /\ UNCHANGED <<live, vars, dec, lineVars, wireVars, portVars, displayVars, keyVars>>
    \/ live = "line" /\ Line!Next
       /\ UNCHANGED <<live, vars, dec, parserVars, wireVars, portVars, displayVars, keyVars>>
    \/ live = "wire" /\ Wire!PNext
       /\ UNCHANGED <<live, vars, dec, parserVars, lineVars, portVars, displayVars, keyVars>>
    \/ live = "port" /\ Proxied!SNext
       /\ UNCHANGED <<live, vars, dec, parserVars, lineVars, wireVars, displayVars, keyVars>>
    \/ live = "display" /\ Display!FromChannel
       /\ UNCHANGED <<live, vars, dec, parserVars, lineVars, wireVars, portVars, keyVars>>
    \/ live = "keys" /\ Keys!KFNext
       /\ UNCHANGED <<live, vars, dec, parserVars, lineVars, wireVars, portVars, displayVars>>

MCSpec == MCInit /\ [][MCNext]_allVars

\* Every character arrives whatever came before it, no control is smuggled in, and no sequence
\* swallows the controls after it (Utf8, TermParser); the version of SSH is the one to agree on,
\* and its packets come out as they were put in (Packets); requests for connections and X11
\* cookies are taken for what they are, however they are cut (Socks, X11Auth); a
\* key comes out of its file as it went in or not at all, and its operations fit (KeyFile, PublicKeys).
\* All stay in the states they know.
StreamSound ==
    /\ live = "decoder" => Decoder!UTypeOK /\ Decoder!Arrives /\ Decoder!NoOverlong
    /\ live = "parser" =>
          /\ Parser!PTypeOK
          /\ Parser!OscBounded /\ Parser!ControlsTransparent /\ Parser!ResetReached
    /\ live = "wire" => Wire!PTypeOK /\ Wire!VersionAgreed /\ Wire!PacketsArrive
    /\ live = "port" => Proxied!STypeOK /\ Proxied!ClientServed
    /\ live = "display" => Display!XTypeOK /\ Display!CookieChecked
    /\ live = "keys" =>
          /\ Keys!KFTypeOK /\ Keys!KeySafe /\ Keys!InspectionRight
          /\ Keys!KeysRebuilt /\ Keys!OperationsFit /\ Keys!TextsTell

\* The line that is edited is the line that is shown, erasing takes nothing else from the screen
\* (but for the two lines that ScreenShowsLine excepts), and what is typed is sent in order (Ldisc).
EditSound == live = "line" => Line!TypeOK /\ Line!ScreenShowsLine /\ Line!SentInOrder
=============================================================================
