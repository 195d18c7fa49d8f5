----------------------------- MODULE TelnetProofs -----------------------------
(***************************************************************************)
(* What TelnetSound says of the two ends of a Telnet connection, proved    *)
(* for any set of options and any bounds of the model.                     *)
(***************************************************************************)
EXTENDS NetMC, FiniteSets, Sequences, SequenceTheorems, FiniteSetTheorems, WellFoundedInduction, TLAPS

\* What is under way in each direction, and what of it concerns an option.
Commands == {"DO", "DONT", "WILL", "WONT"}
Codes == {"NAWS", "TSPEED", "TTYPE", "OENV", "NENV", "ECHO", "SGA", "BIN"}
ByteNames == {"IAC", "NUL", "CR", "x", "SB", "SE", "SEND", ""} \cup Commands \cup Codes
Query == <<"IAC", "SB", "TTYPE", "SEND", "IAC", "SE">>
Texts == {<<"x">>, <<"CR", "NUL">>, <<"IAC", "IAC">>}
Message(cmd, o) == <<"IAC", cmd, TelnetEnds!Code(o)>>
Asks(o) == Message(TelnetEnds!Send(o), o)
Drops(o) == Message(TelnetEnds!NSend(o), o)
Agrees(o) == Message(TelnetEnds!Yes(o), o)
Denies(o) == Message(TelnetEnds!No(o), o)
Ours(o) == {Asks(o), Drops(o)}
Its(o) == {Agrees(o), Denies(o)}
Tokens == Texts \cup {Query} \cup UNION {Its(o) : o \in Options}
KeyMessages == {<<"KEYS", b>> : b \in {<<"IAC", "IAC">>, <<"CR", "NUL">>, <<"CR">>, <<"CR", "LF">>}}
SizeMessages == {<<"SB", "NAWS", n>> : n \in Nat}
OutMessages ==
    KeyMessages \cup SizeMessages \cup {<<"KEYS", <<"IAC", "NOP">>>>}
    \cup {<<"SB", o, "IS">> : o \in Codes \ {"NAWS"}} \cup {<<"IAC", c, k>> : c \in Commands, k \in Codes}

\* w is what q has of M, in the order of q.
Only(q, M, w) ==
    \E p \in [1 .. Len(w) -> 1 .. Len(q)] :
        /\ \A i \in 1 .. Len(w) : q[p[i]] = w[i] /\ w[i] \in M
        /\ \A i, j \in 1 .. Len(w) : i < j => p[i] < p[j]
        /\ \A k \in 1 .. Len(q) : q[k] \in M => \E i \in 1 .. Len(w) : p[i] = k

\* The twelve stands the two ends can take to each other about an option that is not off for
\* good: ours, the server's, what is under way to the server and from it.
Stands(o) ==
    { <<"REQUESTED", "off", <<Asks(o)>>, <<>>>>, <<"REQUESTED", "off", <<>>, <<Denies(o)>>>>,
      <<"REQUESTED", "on", <<>>, <<Agrees(o)>>>>, <<"REQUESTED", "asked off", <<>>, <<Agrees(o), Denies(o)>>>>,
      <<"REQUESTED", "asked on", <<Asks(o)>>, <<Agrees(o)>>>>,
      <<"REQUESTED", "asked on", <<>>, <<Denies(o), Agrees(o)>>>>,
      <<"ACTIVE", "on", <<>>, <<>>>>, <<"ACTIVE", "asked off", <<>>, <<Denies(o)>>>>,
      <<"ACTIVE", "asked on", <<Asks(o)>>, <<>>>>,
      <<"INACTIVE", "off", <<>>, <<>>>>, <<"INACTIVE", "asked on", <<>>, <<Agrees(o)>>>>,
      <<"INACTIVE", "asked off", <<Drops(o)>>, <<>>>> }
\* An option that is off for good: a server that has it on, or will have, is to be told so.
Refusal(o, has, w) ==
    /\ has = "on" => \E i \in 1 .. Len(w) : w[i] = Drops(o)
    /\ \A i \in 1 .. Len(w) : w[i] = Asks(o) => \E j \in 1 .. Len(w) : i < j /\ w[j] = Drops(o)
Stand(o, st, has, out, toks) ==
    \E w \in Seq(Ours(o)), v \in Seq(Its(o)) :
        /\ Only(out, Ours(o), w) /\ Only(toks, Its(o), v)
        /\ IF st = "REALLY_INACTIVE" THEN Refusal(o, has, w) ELSE <<st, has, w, v>> \in Stands(o)

\* The client, and what the server and the user know that the client does not change.
OptStates == {"REQUESTED", "ACTIVE", "INACTIVE", "REALLY_INACTIVE"}
ReadStates == {"TOP_LEVEL", "SEENCR", "SEENIAC", "DO", "DONT", "WILL", "WONT", "SB", "SUBNEGOT", "SUBNEG_IAC"}
Shown == {"x", "CR", "IAC"}
Typed == {"CR", "IAC", "EOL"}
Clients ==
    [opt : [Options -> OptStates], echoing : BOOLEAN, editing : BOOLEAN, activated : BOOLEAN,
     state : ReadStates, sbOpt : ByteNames, sb : Seq(ByteNames), size : Nat, out : Seq(OutMessages),
     text : Seq(Shown), backlog : Nat, frozen : BOOLEAN]
Minds == {"off", "on", "asked on", "asked off"}
Theres ==
    [peer : [Options -> Minds], size : Nat, heard : Seq(Typed), typed : Seq(Typed), wrote : Seq(Shown)]
There == [peer |-> peer, size |-> peerSize, heard |-> peerText, typed |-> typed, wrote |-> text]

Environs(opt, has) ==
    {"OENV", "NENV"} \subseteq Options =>
        /\ opt["NENV"] # "REALLY_INACTIVE" =>
              /\ opt["OENV"] # "ACTIVE"
              /\ opt["OENV"] = "INACTIVE" => has["OENV"] # "asked off"
        /\ opt["NENV"] = "ACTIVE" => opt["OENV"] = "REALLY_INACTIVE"
Echo(opt, echoing) ==
    "ECHO" \in Options /\ opt["ECHO"] # "REQUESTED" => (echoing <=> opt["ECHO"] # "ACTIVE")
Passive(opt, has) == \A o \in Options : opt[o] = "INACTIVE" /\ has[o] # "asked off"
Untold(opt, has) == \A o \in Options : opt[o] = "INACTIVE" => has[o] # "asked off"
Askable(t, s, o) == o \in Options /\ t.opt[o] = "INACTIVE" => s.peer[o] # "asked off"
KeyOf(m) == IF m[2] = <<"CR", "NUL">> THEN "CR" ELSE IF m[2] = <<"IAC", "IAC">> THEN "IAC" ELSE "EOL"
KeysTold(out, s) ==
    \E w \in Seq(KeyMessages) :
        /\ Only(out, KeyMessages, w)
        /\ Len(s.typed) = Len(s.heard) + Len(w)
        /\ \A i \in 1 .. Len(s.heard) : s.typed[i] = s.heard[i]
        /\ \A i \in 1 .. Len(w) : s.typed[Len(s.heard) + i] = KeyOf(w[i])
SizeTold(out, on, size, s) ==
    \E w \in Seq(SizeMessages) :
        /\ Only(out, SizeMessages, w)
        /\ on => size = IF w = <<>> THEN s.size ELSE w[Len(w)][3]

\* The bytes on their way to the client are those of the messages toks, but for the first cut.
Stream(f, toks, cut) ==
    /\ toks \in Seq(Tokens) /\ cut \in Nat
    /\ IF toks = <<>> THEN cut = 0 ELSE cut < Len(toks[1])
    /\ \E ends \in [0 .. Len(toks) -> Nat] :
          /\ ends[0] = 0 /\ ends[Len(toks)] = cut + Len(f)
          /\ \A i \in 1 .. Len(toks) : ends[i] = ends[i - 1] + Len(toks[i])
          /\ \A i, j \in 0 .. Len(toks) : i <= j => ends[i] <= ends[j]
          /\ \A i \in 1 .. Len(toks) : \A j \in 1 .. Len(toks[i]) :
                 ends[i - 1] + j > cut => f[ends[i - 1] + j - cut] = toks[i][j]
\* A line end is shown with its first byte.
Skip(toks, cut) == IF cut > 0 /\ toks[1] = <<"CR", "NUL">> THEN 1 ELSE 0
TextShown(shown, s, toks, cut) ==
    \E w \in Seq(Texts) :
        /\ Only(toks, Texts, w)
        /\ Skip(toks, cut) <= Len(w) /\ Len(s.wrote) + Skip(toks, cut) = Len(shown) + Len(w)
        /\ \A i \in 1 .. Len(shown) : s.wrote[i] = shown[i]
        /\ \A i \in 1 .. Len(s.wrote) - Len(shown) : s.wrote[Len(shown) + i] = w[i + Skip(toks, cut)][1]
Parsing(state, toks, cut) ==
    state = IF cut = 0 THEN "TOP_LEVEL"
            ELSE IF toks[1] = <<"CR", "NUL">> THEN "SEENCR"
            ELSE IF cut = 1 THEN "SEENIAC"
            ELSE IF toks[1] # Query THEN toks[1][2]
            ELSE IF cut = 2 THEN "SB"
            ELSE IF cut = 5 THEN "SUBNEG_IAC" ELSE "SUBNEGOT"

\* What the handlers of an option keep; in a handler the echo is left until its end.
Stood(t, s, toks) ==
    /\ t \in Clients /\ s \in Theres /\ toks \in Seq(Tokens)
    /\ \A o \in Options : Stand(o, t.opt[o], s.peer[o], t.out, toks)
    /\ ~t.activated => Untold(t.opt, s.peer)
    /\ KeysTold(t.out, s)
Sized(t, s) == SizeTold(t.out, TelnetEnds!Is(t, "NAWS", "ACTIVE"), t.size, s)
Talk(t, s, toks) ==
    /\ Stood(t, s, toks) /\ Environs(t.opt, s.peer) /\ Sized(t, s) /\ Echo(t.opt, t.echoing)
\* An option changes its state, with an answer or without.
Changed(t, o, st, says) == [TelnetEnds!Put(t, o, st) EXCEPT !.out = @ \o says]
\* A byte read, and a byte shown.
Entered(t, x) == [t EXCEPT !.state = x]
Wrote(t, c, x) == [TelnetEnds!CWrite(t, c) EXCEPT !.state = x]
StateOnly(t, u, x) ==
    /\ u \in Clients /\ u.opt = t.opt /\ u.out = t.out /\ u.echoing = t.echoing /\ u.activated = t.activated
    /\ u.size = t.size /\ u.text = t.text /\ u.backlog = t.backlog /\ u.frozen = t.frozen /\ u.state = x
\* What an option's handlers leave alone.
Same(t, u) ==
    /\ u.state = t.state /\ u.sbOpt = t.sbOpt /\ u.sb = t.sb /\ u.size = t.size /\ u.text = t.text
    /\ u.backlog = t.backlog /\ u.frozen = t.frozen
Reading(t, s, toks, cut) ==
    /\ Parsing(t.state, toks, cut) /\ TextShown(t.text, s, toks, cut)
    /\ t.backlog <= Len(t.text) /\ t.frozen = (t.backlog > Backlog)
\* The whole of what holds when cut bytes of the first message have been read, and of bytes f that
\* are on their way to the client.
Midst(t, s, toks, cut) ==
    /\ Talk(t, s, toks) /\ Reading(t, s, toks, cut)
    /\ ~t.activated => Passive(t.opt, s.peer)
Holds(t, s, f) ==
    \E toks, cut : Midst(t, s, toks, cut) /\ f \in Seq(ByteNames) /\ Stream(f, toks, cut)
TelnetInv ==
    /\ Holds(tn, There, fromServer)
    /\ asks \in Nat /\ asks <= MaxServer /\ Len(text) <= asks /\ acts \in Nat

-----------------------------------------------------------------------------
(* Numbers and sequences.                                                    *)

\* A set of natural numbers has a least element.
LEMMA LeastElement ==
    ASSUME NEW T, T \subseteq Nat, T # {}
    PROVE  \E x \in T : \A y \in T : x <= y
  <1>1. PICK x \in T : \A y \in T : ~(<<y, x>> \in OpToRel(<, Nat))
    BY NatLessThanWellFounded, WFMin, Zenon
  <1>2. \A y \in T : ~(y < x)
    BY <1>1 DEF OpToRel
  <1> QED BY <1>2

\* What Append and Tail do to the elements.
LEMMA Appended ==
    ASSUME NEW A, NEW q \in Seq(A), NEW m \in A
    PROVE  /\ Append(q, m) \in Seq(A) /\ Len(Append(q, m)) = Len(q) + 1 /\ Len(q) \in Nat
           /\ \A i \in 1 .. Len(q) : Append(q, m)[i] = q[i] /\ q[i] \in A
           /\ Append(q, m)[Len(q) + 1] = m
  BY LenProperties, ElementOfSeq, AppendProperties

LEMMA Tailed ==
    ASSUME NEW A, NEW q \in Seq(A), q # <<>>
    PROVE  /\ Tail(q) \in Seq(A) /\ Len(Tail(q)) = Len(q) - 1 /\ Len(q) \in Nat /\ Len(q) >= 1
           /\ \A i \in 1 .. Len(q) - 1 : Tail(q)[i] = q[i + 1]
           /\ \A i \in 1 .. Len(q) : q[i] \in A
           /\ Head(q) = q[1] /\ Head(q) \in A
  BY LenProperties, ElementOfSeq, HeadTailProperties, EmptySeq

-----------------------------------------------------------------------------
(* The part of a queue that matters to somebody.                             *)

LEMMA OnlyOfNothing ==
    ASSUME NEW M
    PROVE  /\ Only(<<>>, M, <<>>)
           /\ \A w \in Seq(M) : Only(<<>>, M, w) => w = <<>>
  <1>1. Only(<<>>, M, <<>>)
    <2> DEFINE p == [i \in 1 .. 0 |-> 0]
    <2>1. p \in [1 .. Len(<<>>) -> 1 .. Len(<<>>)] /\ Len(<<>>) = 0
      OBVIOUS
    <2> HIDE DEF p
    <2>2. \A i \in 1 .. Len(<<>>) : FALSE
      BY <2>1
    <2> QED BY <2>1, <2>2 DEF Only
  <1>2. ASSUME NEW w \in Seq(M), Only(<<>>, M, w) PROVE w = <<>>
    <2>1. PICK p \in [1 .. Len(w) -> 1 .. Len(<<>>)] : TRUE
      BY <1>2 DEF Only
    <2>2. Len(w) \in Nat /\ Len(<<>>) = 0
      BY LenProperties
    <2>3. Len(w) = 0
      BY <2>1, <2>2
    <2> QED BY <2>3, EmptySeq
  <1> QED BY <1>1, <1>2

LEMMA OnlyAppended ==
    ASSUME NEW A, NEW M, NEW q \in Seq(A), NEW w \in Seq(M), NEW m \in A, Only(q, M, w)
    PROVE  /\ m \notin M => Only(Append(q, m), M, w)
           /\ m \in M => Only(Append(q, m), M, Append(w, m))
  <1>1. PICK p \in [1 .. Len(w) -> 1 .. Len(q)] :
            /\ \A i \in 1 .. Len(w) : q[p[i]] = w[i] /\ w[i] \in M
            /\ \A i, j \in 1 .. Len(w) : i < j => p[i] < p[j]
            /\ \A k \in 1 .. Len(q) : q[k] \in M => \E i \in 1 .. Len(w) : p[i] = k
    BY DEF Only
  <1>2. /\ Len(Append(q, m)) = Len(q) + 1 /\ Len(q) \in Nat
        /\ \A i \in 1 .. Len(q) : Append(q, m)[i] = q[i]
        /\ Append(q, m)[Len(q) + 1] = m /\ Len(w) \in Nat
    BY Appended, LenProperties
  <1> DEFINE r == Append(q, m)
  <1> HIDE DEF r
  <1>3. /\ Len(r) = Len(q) + 1 /\ \A i \in 1 .. Len(q) : r[i] = q[i]
        /\ r[Len(q) + 1] = m
    BY <1>2 DEF r
  <1>4. ASSUME m \notin M PROVE Only(r, M, w)
    <2>1. p \in [1 .. Len(w) -> 1 .. Len(r)]
      BY <1>2, <1>3
    <2>2. \A i \in 1 .. Len(w) : r[p[i]] = w[i] /\ w[i] \in M
      BY <1>1, <1>3
    <2>3. \A k \in 1 .. Len(r) : r[k] \in M => k \in 1 .. Len(q) /\ q[k] \in M
      BY <1>2, <1>3, <1>4
    <2>4. \A k \in 1 .. Len(r) : r[k] \in M => \E i \in 1 .. Len(w) : p[i] = k
      BY <1>1, <2>3
    <2> QED BY <1>1, <2>1, <2>2, <2>4 DEF Only
  <1>5. ASSUME m \in M PROVE Only(r, M, Append(w, m))
    <2> DEFINE v == Append(w, m)
    <2> HIDE DEF v
    <2>1. /\ Len(v) = Len(w) + 1 /\ v[Len(w) + 1] = m
          /\ \A i \in 1 .. Len(w) : v[i] = w[i]
      BY <1>5, Appended DEF v
    <2> DEFINE o == [i \in 1 .. Len(v) |-> IF i = Len(v) THEN Len(r) ELSE p[i]]
    <2> HIDE DEF o
    <2>2. o \in [1 .. Len(v) -> 1 .. Len(r)] /\ o[Len(v)] = Len(r) /\ \A i \in 1 .. Len(w) : o[i] = p[i]
      BY <1>2, <1>3, <2>1 DEF o
    <2>3. \A i \in 1 .. Len(v) : r[o[i]] = v[i] /\ v[i] \in M
      <3> SUFFICES ASSUME NEW i \in 1 .. Len(v) PROVE r[o[i]] = v[i] /\ v[i] \in M
        OBVIOUS
      <3>1. CASE i = Len(v)
        BY <3>1, <1>2, <1>3, <1>5, <2>1, <2>2
      <3>2. CASE i # Len(v)
        <4>0. Len(v) = Len(w) + 1 /\ Len(w) \in Nat
          BY <2>1, <1>2
        <4>1. i \in 1 .. Len(w)
          BY <3>2, <4>0
        <4>2. p[i] \in 1 .. Len(q)
          BY <4>1
        <4>3. q[p[i]] = w[i] /\ w[i] \in M /\ v[i] = w[i] /\ o[i] = p[i]
          BY <4>1, <1>1, <2>1, <2>2
        <4>4. r[p[i]] = q[p[i]]
          BY <4>2, <1>3
        <4> QED BY <4>3, <4>4
      <3> QED BY <3>1, <3>2
    <2>4. \A i, j \in 1 .. Len(v) : i < j => o[i] < o[j]
      <3> SUFFICES ASSUME NEW i \in 1 .. Len(v), NEW j \in 1 .. Len(v), i < j PROVE o[i] < o[j]
        OBVIOUS
      <3>1. i \in 1 .. Len(w) /\ p[i] \in 1 .. Len(q)
        BY <2>1, <1>2
      <3>2. CASE j = Len(v)
        BY <3>1, <3>2, <1>2, <1>3, <2>2
      <3>3. CASE j # Len(v)
        <4>0. Len(v) = Len(w) + 1 /\ Len(w) \in Nat
          BY <2>1, <1>2
        <4>1. j \in 1 .. Len(w)
          BY <3>3, <4>0
        <4>2. p[i] < p[j] /\ o[i] = p[i] /\ o[j] = p[j]
          BY <4>1, <3>1, <1>1, <2>2
        <4> QED BY <4>2
      <3> QED BY <3>2, <3>3
    <2>5. \A k \in 1 .. Len(r) : r[k] \in M => \E i \in 1 .. Len(v) : o[i] = k
      <3> SUFFICES ASSUME NEW k \in 1 .. Len(r), r[k] \in M PROVE \E i \in 1 .. Len(v) : o[i] = k
        OBVIOUS
      <3>1. CASE k = Len(r)
        BY <3>1, <1>2, <2>1, <2>2
      <3>2. CASE k # Len(r)
        <4>1. k \in 1 .. Len(q) /\ q[k] \in M
          BY <3>2, <1>2, <1>3
        <4>2. PICK i \in 1 .. Len(w) : p[i] = k
          BY <4>1, <1>1
        <4> QED BY <4>2, <2>1, <2>2, <1>2
      <3> QED BY <3>1, <3>2
    <2>6. Only(r, M, v)
      BY <2>2, <2>3, <2>4, <2>5 DEF Only
    <2> QED BY <2>6 DEF v
  <1> QED BY <1>4, <1>5 DEF r

LEMMA OnlyTailed ==
    ASSUME NEW A, NEW M, NEW q \in Seq(A), NEW w \in Seq(M), q # <<>>, Only(q, M, w)
    PROVE  /\ Head(q) \notin M => Only(Tail(q), M, w)
           /\ Head(q) \in M => w # <<>> /\ Head(w) = Head(q) /\ Tail(w) \in Seq(M) /\ Only(Tail(q), M, Tail(w))
  <1>1. PICK p \in [1 .. Len(w) -> 1 .. Len(q)] :
            /\ \A i \in 1 .. Len(w) : q[p[i]] = w[i] /\ w[i] \in M
            /\ \A i, j \in 1 .. Len(w) : i < j => p[i] < p[j]
            /\ \A k \in 1 .. Len(q) : q[k] \in M => \E i \in 1 .. Len(w) : p[i] = k
    BY DEF Only
  <1> DEFINE r == Tail(q)
  <1> HIDE DEF r
  <1>2. /\ Len(r) = Len(q) - 1 /\ Len(q) \in Nat /\ Len(q) >= 1
        /\ \A i \in 1 .. Len(q) - 1 : r[i] = q[i + 1]
        /\ Head(q) = q[1] /\ Len(w) \in Nat
    BY Tailed, LenProperties DEF r
  <1>3. ASSUME Head(q) \notin M PROVE Only(r, M, w)
    <2>1. \A i \in 1 .. Len(w) : p[i] \in 2 .. Len(q)
      BY <1>1, <1>2, <1>3
    <2> DEFINE o == [i \in 1 .. Len(w) |-> p[i] - 1]
    <2> HIDE DEF o
    <2>2. o \in [1 .. Len(w) -> 1 .. Len(r)] /\ \A i \in 1 .. Len(w) : o[i] = p[i] - 1
      BY <1>2, <2>1 DEF o
    <2>3. \A i \in 1 .. Len(w) : r[o[i]] = w[i] /\ w[i] \in M
      <3> SUFFICES ASSUME NEW i \in 1 .. Len(w) PROVE r[o[i]] = w[i] /\ w[i] \in M
        OBVIOUS
      <3>0. p[i] \in 2 .. Len(q) /\ o[i] = p[i] - 1
        BY <2>1, <2>2
      <3>1. o[i] \in 1 .. Len(q) - 1 /\ o[i] + 1 = p[i]
        BY <3>0, <1>2
      <3> QED BY <3>1, <1>1, <1>2
    <2>4. \A i, j \in 1 .. Len(w) : i < j => o[i] < o[j]
      BY <1>1, <2>1, <2>2
    <2>5. \A k \in 1 .. Len(r) : r[k] \in M => \E i \in 1 .. Len(w) : o[i] = k
      <3> SUFFICES ASSUME NEW k \in 1 .. Len(r), r[k] \in M PROVE \E i \in 1 .. Len(w) : o[i] = k
        OBVIOUS
      <3>1. k + 1 \in 1 .. Len(q) /\ q[k + 1] \in M
        BY <1>2
      <3>2. PICK i \in 1 .. Len(w) : p[i] = k + 1
        BY <3>1, <1>1
      <3> QED BY <3>2, <2>2
    <2> QED BY <2>2, <2>3, <2>4, <2>5 DEF Only
  <1>4. ASSUME Head(q) \in M PROVE w # <<>> /\ Head(w) = Head(q) /\ Tail(w) \in Seq(M) /\ Only(r, M, Tail(w))
    <2>1. PICK i \in 1 .. Len(w) : p[i] = 1
      BY <1>1, <1>2, <1>4
    <2>2. i = 1 /\ p[1] = 1 /\ Len(w) >= 1
      <3>1. i > 1 => p[1] < p[i]
        BY <1>1, <1>2, <2>1
      <3>2. i \in Nat /\ i >= 1 /\ i <= Len(w) /\ 1 \in 1 .. Len(w)
        BY <1>2, <2>1
      <3>3. p[1] \in 1 .. Len(q)
        BY <3>2
      <3>4. PICK first \in 1 .. Len(q) : first = p[1]
        BY <3>3
      <3>5. ~(first < 1)
        BY <1>2
      <3>6. i = 1
        BY <3>1, <3>2, <3>4, <3>5, <2>1
      <3> QED BY <3>2, <3>6, <2>1
    <2>3. w # <<>> /\ w[1] = q[1]
      <3>1. 1 \in 1 .. Len(w)
        BY <2>2, <1>2
      <3>2. q[p[1]] = w[1]
        BY <3>1, <1>1
      <3>3. Len(w) # 0
        BY <3>1
      <3> QED BY <3>2, <3>3, <2>2
    <2> DEFINE v == Tail(w)
    <2> HIDE DEF v
    <2>4. /\ v \in Seq(M) /\ Len(v) = Len(w) - 1 /\ Head(w) = w[1]
          /\ \A k \in 1 .. Len(w) - 1 : v[k] = w[k + 1]
      BY <2>3, Tailed DEF v
    <2>5. \A k \in 2 .. Len(w) : p[k] \in 2 .. Len(q)
      <3> SUFFICES ASSUME NEW k \in 2 .. Len(w) PROVE p[k] \in 2 .. Len(q)
        OBVIOUS
      <3>1. p[1] < p[k] /\ p[k] \in 1 .. Len(q)
        BY <1>1, <1>2, <2>2
      <3> QED BY <3>1, <2>2, <1>2
    <2> DEFINE o == [k \in 1 .. Len(v) |-> p[k + 1] - 1]
    <2> HIDE DEF o
    <2>6. o \in [1 .. Len(v) -> 1 .. Len(r)] /\ \A k \in 1 .. Len(v) : o[k] = p[k + 1] - 1
      BY <1>2, <2>4, <2>5 DEF o
    <2>7. \A k \in 1 .. Len(v) : r[o[k]] = v[k] /\ v[k] \in M
      <3> SUFFICES ASSUME NEW k \in 1 .. Len(v) PROVE r[o[k]] = v[k] /\ v[k] \in M
        OBVIOUS
      <3>1. k + 1 \in 2 .. Len(w) /\ v[k] = w[k + 1]
        BY <2>4, <1>2
      <3>2. o[k] \in 1 .. Len(q) - 1 /\ o[k] + 1 = p[k + 1]
        BY <3>1, <2>5, <2>6, <1>2
      <3> QED BY <3>1, <3>2, <1>1, <1>2
    <2>8. \A k, j \in 1 .. Len(v) : k < j => o[k] < o[j]
      <3> SUFFICES ASSUME NEW k \in 1 .. Len(v), NEW j \in 1 .. Len(v), k < j PROVE o[k] < o[j]
        OBVIOUS
      <3>1. k + 1 \in 1 .. Len(w) /\ j + 1 \in 1 .. Len(w) /\ k + 1 < j + 1
        BY <2>4, <1>2
      <3>0. p[k + 1] \in 1 .. Len(q) /\ p[j + 1] \in 1 .. Len(q) /\ p[k + 1] < p[j + 1]
        BY <3>1, <1>1
      <3>2. p[k + 1] < p[j + 1] /\ p[k + 1] \in Nat /\ p[j + 1] \in Nat
        BY <3>0, <1>2
      <3> QED BY <3>2, <2>6
    <2>9. \A k \in 1 .. Len(r) : r[k] \in M => \E j \in 1 .. Len(v) : o[j] = k
      <3> SUFFICES ASSUME NEW k \in 1 .. Len(r), r[k] \in M PROVE \E j \in 1 .. Len(v) : o[j] = k
        OBVIOUS
      <3>1. k + 1 \in 1 .. Len(q) /\ q[k + 1] \in M /\ k + 1 # 1
        BY <1>2
      <3>2. PICK j \in 1 .. Len(w) : p[j] = k + 1
        BY <3>1, <1>1
      <3>3. j # 1
        BY <3>1, <3>2, <2>2
      <3>4. j - 1 \in 1 .. Len(v) /\ o[j - 1] = k
        BY <3>2, <3>3, <2>4, <2>6, <1>2
      <3> QED BY <3>4
    <2>10. Only(r, M, v)
      BY <2>6, <2>7, <2>8, <2>9 DEF Only
    <2> QED BY <2>3, <2>4, <2>10, <1>2 DEF v
  <1> QED BY <1>3, <1>4 DEF r

-----------------------------------------------------------------------------
(* The bytes on their way to the client, as the messages they are made of.   *)

\* Places counted from the cut.
LEMMA Within ==
    /\ \A a, b, c, l, j \in Nat : (a + j > c /\ j <= b /\ a + b <= c + l) => a + j - c \in 1 .. l
    /\ \A a, c, j \in Nat : \A l : (l = a - (c + 1) /\ a >= c + 1 /\ j >= 1) =>
           l + j = a + j - (c + 1) /\ l + j >= 1
  OBVIOUS

LEMMA CodeIsCode == \A o \in TelnetEnds!OptionNames : TelnetEnds!Code(o) \in Codes
  BY DEF TelnetEnds!OptionNames, TelnetEnds!Code, Codes

LEMMA TokenIsBytes ==
    ASSUME NEW tok \in Tokens, Options \subseteq TelnetEnds!OptionNames
    PROVE  /\ tok \in Seq(ByteNames) /\ Len(tok) \in Nat /\ Len(tok) >= 1
           /\ tok \in Texts => tok = <<"x">> \/ tok = <<"CR", "NUL">> \/ tok = <<"IAC", "IAC">>
  <1>0. /\ "IAC" \in ByteNames /\ "CR" \in ByteNames /\ "NUL" \in ByteNames /\ "x" \in ByteNames /\ "SB" \in ByteNames
        /\ "SE" \in ByteNames /\ "SEND" \in ByteNames /\ "TTYPE" \in ByteNames
        /\ Commands \subseteq ByteNames /\ Codes \subseteq ByteNames
    BY DEF ByteNames, Codes
  <1>1. CASE tok \in Texts
    <2>1. <<"x">> \in Seq(ByteNames) /\ Len(<<"x">>) = 1
      BY <1>0
    <2>2. <<"CR", "NUL">> \in Seq(ByteNames) /\ Len(<<"CR", "NUL">>) = 2
      BY <1>0
    <2>3. <<"IAC", "IAC">> \in Seq(ByteNames) /\ Len(<<"IAC", "IAC">>) = 2
      BY <1>0
    <2>4. tok = <<"x">> \/ tok = <<"CR", "NUL">> \/ tok = <<"IAC", "IAC">>
      BY <1>1 DEF Texts
    <2>5. tok \in Seq(ByteNames) /\ Len(tok) \in Nat /\ Len(tok) >= 1
      <3>1. CASE tok = <<"x">>
        BY <3>1, <2>1
      <3>2. CASE tok = <<"CR", "NUL">>
        BY <3>2, <2>2
      <3>3. CASE tok = <<"IAC", "IAC">>
        BY <3>3, <2>3
      <3> QED BY <3>1, <3>2, <3>3, <2>4
    <2> QED BY <2>4, <2>5
  <1>2. CASE tok = Query
    <2>1. tok \in Seq(ByteNames) /\ Len(tok) = 6
      BY <1>0, <1>2 DEF Query
    <2>2. \A t \in Texts : Len(t) # 6
      BY DEF Texts
    <2>3. tok \notin Texts /\ Len(tok) \in Nat /\ Len(tok) >= 1
      BY <2>1, <2>2
    <2> QED BY <2>1, <2>3
  <1>3. ASSUME NEW o \in Options, tok \in Its(o) PROVE tok \in Seq(ByteNames) /\ Len(tok) = 3 /\ tok \notin Texts
    <2>1. PICK c \in Commands : tok = <<"IAC", c, TelnetEnds!Code(o)>>
      BY <1>3 DEF Its, Agrees, Denies, Message, TelnetEnds!Yes, TelnetEnds!No, Commands
    <2>2. TelnetEnds!Code(o) \in Codes
      BY CodeIsCode
    <2>3. tok \in Seq(ByteNames) /\ Len(tok) = 3
      BY <2>1, <2>2, <1>0
    <2>4. \A t \in Texts : Len(t) # 3
      BY DEF Texts
    <2> QED BY <2>3, <2>4
  <1>4. ASSUME NEW o \in Options, tok \in Its(o)
        PROVE  /\ tok \in Seq(ByteNames) /\ Len(tok) \in Nat /\ Len(tok) >= 1
               /\ tok \notin Texts
    <2>1. tok \in Seq(ByteNames) /\ Len(tok) = 3 /\ tok \notin Texts
      BY <1>3, <1>4
    <2>2. Len(tok) \in Nat /\ Len(tok) >= 1
      BY <2>1
    <2> QED BY <2>1, <2>2
  <1>5. \/ tok \in Texts
        \/ tok = Query
        \/ \E o \in Options : tok \in Its(o)
    BY Zenon DEF Tokens
  <1>6. CASE \E o \in Options : tok \in Its(o)
    <2>1. PICK o \in Options : tok \in Its(o)
      BY <1>6
    <2> QED BY <1>4, <2>1
  <1> QED BY <1>1, <1>2, <1>5, <1>6

LEMMA StreamGrows ==
    ASSUME NEW f \in Seq(ByteNames), NEW toks, NEW cut, Stream(f, toks, cut), NEW tok \in Tokens,
           Options \subseteq TelnetEnds!OptionNames
    PROVE  f \o tok \in Seq(ByteNames) /\ Stream(f \o tok, Append(toks, tok), cut)
  <1>1. PICK ends \in [0 .. Len(toks) -> Nat] :
          /\ ends[0] = 0 /\ ends[Len(toks)] = cut + Len(f)
          /\ \A i \in 1 .. Len(toks) : ends[i] = ends[i - 1] + Len(toks[i])
          /\ \A i, j \in 0 .. Len(toks) : i <= j => ends[i] <= ends[j]
          /\ \A i \in 1 .. Len(toks) : \A j \in 1 .. Len(toks[i]) :
                 ends[i - 1] + j > cut => f[ends[i - 1] + j - cut] = toks[i][j]
    BY DEF Stream
  <1>2. toks \in Seq(Tokens) /\ cut \in Nat /\ IF toks = <<>> THEN cut = 0 ELSE cut < Len(toks[1])
    BY DEF Stream
  <1>3. tok \in Seq(ByteNames) /\ Len(tok) \in Nat /\ Len(tok) >= 1 /\ Len(f) \in Nat
    BY TokenIsBytes, LenProperties
  <1> DEFINE g == f \o tok
  <1> DEFINE more == Append(toks, tok)
  <1> HIDE DEF g, more
  <1>4. /\ g \in Seq(ByteNames) /\ Len(g) = Len(f) + Len(tok)
        /\ \A i \in 1 .. Len(f) : g[i] = f[i]
        /\ \A i \in 1 .. Len(tok) : g[Len(f) + i] = tok[i]
    BY <1>3, ConcatProperties DEF g
  <1>5. /\ more \in Seq(Tokens) /\ Len(more) = Len(toks) + 1 /\ Len(toks) \in Nat
        /\ \A i \in 1 .. Len(toks) : more[i] = toks[i]
        /\ more[Len(toks) + 1] = tok
    BY <1>2, Appended DEF more
  <1>6. more # <<>> /\ cut < Len(more[1])
    <2>1. CASE toks = <<>>
      <3>1. Len(toks) = 0 /\ cut = 0
        BY <2>1, <1>2
      <3>2. more[1] = tok /\ Len(more) = 1
        BY <3>1, <1>5
      <3>3. Len(<<>>) = 0 /\ 0 < Len(tok) /\ Len(tok) \in Nat
        BY <1>3
      <3> QED BY <3>1, <3>2, <3>3
    <2>2. CASE toks # <<>>
      <3>1. Len(toks) >= 1
        BY <2>2, <1>2, <1>5, EmptySeq
      <3> QED BY <3>1, <2>2, <1>2, <1>5
    <2> QED BY <2>1, <2>2
  <1> DEFINE last == [i \in 0 .. Len(more) |-> IF i = Len(more) THEN cut + Len(g) ELSE ends[i]]
  <1> HIDE DEF last
  <1>7. /\ last \in [0 .. Len(more) -> Nat] /\ last[Len(more)] = cut + Len(g)
        /\ \A i \in 0 .. Len(toks) : last[i] = ends[i]
    BY <1>2, <1>3, <1>4, <1>5 DEF last
  <1>8. last[0] = 0
    BY <1>1, <1>5, <1>7
  <1>9. \A i \in 1 .. Len(more) : last[i] = last[i - 1] + Len(more[i])
    <2> SUFFICES ASSUME NEW i \in 1 .. Len(more) PROVE last[i] = last[i - 1] + Len(more[i])
      OBVIOUS
    <2>1. CASE i = Len(more)
      <3>1. last[i] = cut + Len(f) + Len(tok) /\ last[i - 1] = ends[Len(toks)] /\ more[i] = tok
        BY <2>1, <1>2, <1>3, <1>4, <1>5, <1>7
      <3> QED BY <3>1, <1>1
    <2>2. CASE i # Len(more)
      <3>1. i \in 1 .. Len(toks) /\ i - 1 \in 0 .. Len(toks) /\ i \in 0 .. Len(toks)
        BY <2>2, <1>5
      <3> QED BY <3>1, <1>1, <1>5, <1>7
    <2> QED BY <2>1, <2>2
  <1>10. \A i, j \in 0 .. Len(more) : i <= j => last[i] <= last[j]
    <2> SUFFICES ASSUME NEW i \in 0 .. Len(more), NEW j \in 0 .. Len(more), i <= j PROVE last[i] <= last[j]
      OBVIOUS
    <2>1. CASE j = Len(more) /\ i = Len(more)
      BY <2>1, <1>7
    <2>2. CASE j = Len(more) /\ i # Len(more)
      <3>1. i \in 0 .. Len(toks) /\ Len(toks) \in 0 .. Len(toks) /\ i <= Len(toks)
        BY <2>2, <1>5
      <3>2. last[i] = ends[i] /\ ends[i] <= cut + Len(f) /\ last[j] = cut + Len(f) + Len(tok) /\ ends[i] \in Nat
        <4>1. last[i] = ends[i] /\ ends[i] \in Nat
          BY <3>1, <1>7
        <4>2. ends[i] <= ends[Len(toks)]
          BY <3>1, <1>1
        <4>3. last[j] = cut + Len(f) + Len(tok)
          BY <2>2, <1>4, <1>7, <1>2, <1>3
        <4> QED BY <4>1, <4>2, <4>3, <1>1
      <3> QED BY <3>2, <1>2, <1>3
    <2>3. CASE j # Len(more)
      <3>1. i \in 0 .. Len(toks) /\ j \in 0 .. Len(toks)
        BY <2>3, <1>5
      <3> QED BY <3>1, <1>1, <1>7
    <2> QED BY <2>1, <2>2, <2>3
  <1>11. \A i \in 1 .. Len(more) : \A j \in 1 .. Len(more[i]) :
             last[i - 1] + j > cut => g[last[i - 1] + j - cut] = more[i][j]
    <2> SUFFICES ASSUME NEW i \in 1 .. Len(more), NEW j \in 1 .. Len(more[i]), last[i - 1] + j > cut
                 PROVE g[last[i - 1] + j - cut] = more[i][j]
      OBVIOUS
    <2>1. CASE i = Len(more)
      <3>1. last[i - 1] = cut + Len(f) /\ more[i] = tok
        BY <2>1, <1>1, <1>5, <1>7
      <3>2. last[i - 1] + j - cut = Len(f) + j /\ j \in 1 .. Len(tok)
        BY <3>1, <1>2, <1>3
      <3> QED BY <3>1, <3>2, <1>4
    <2>2. CASE i # Len(more)
      <3>1. /\ i \in 1 .. Len(toks) /\ i - 1 \in 0 .. Len(toks) /\ i \in 0 .. Len(toks) /\ Len(toks) \in 0 .. Len(toks)
            /\ more[i] = toks[i]
        BY <2>2, <1>5
      <3>2. last[i - 1] = ends[i - 1] /\ ends[i - 1] \in Nat /\ ends[i] <= cut + Len(f) /\ ends[i] = ends[i - 1] + Len(toks[i])
        <4>1. last[i - 1] = ends[i - 1] /\ ends[i - 1] \in Nat
          BY <3>1, <1>7
        <4>2. ends[i] <= ends[Len(toks)]
          BY <3>1, <1>1
        <4>3. ends[i] = ends[i - 1] + Len(toks[i])
          BY <3>1, <1>1
        <4> QED BY <4>1, <4>2, <4>3, <1>1
      <3>3. j \in Nat /\ j <= Len(toks[i]) /\ Len(toks[i]) \in Nat
        <4>1. toks[i] \in Tokens
          BY <3>1, <1>2, ElementOfSeq
        <4>2. Len(toks[i]) \in Nat
          BY <4>1, TokenIsBytes
        <4> QED BY <4>2, <3>1
      <3>4. ends[i - 1] + j - cut \in 1 .. Len(f)
        <4>1. ends[i - 1] + j > cut
          BY <3>2
        <4>2. j >= 1
          OBVIOUS
        <4> QED BY <4>1, <4>2, <3>2, <3>3, <1>2, <1>3, Within
      <3>5. f[ends[i - 1] + j - cut] = toks[i][j]
        BY <3>1, <3>2, <1>1
      <3> QED BY <3>1, <3>2, <3>4, <3>5, <1>4
    <2> QED BY <2>1, <2>2
  <1>12. Stream(g, more, cut)
    <2>1. IF more = <<>> THEN cut = 0 ELSE cut < Len(more[1])
      BY <1>6
    <2> QED BY <1>2, <1>5, <2>1, <1>7, <1>8, <1>9, <1>10, <1>11 DEF Stream
  <1> QED BY <1>4, <1>12 DEF g, more

LEMMA StreamEmpty == Stream(<<>>, <<>>, 0)
  <1> DEFINE ends == [i \in 0 .. 0 |-> 0]
  <1>1. /\ ends \in [0 .. Len(<<>>) -> Nat] /\ ends[0] = 0 /\ Len(<<>>) = 0 /\ ends[Len(<<>>)] = 0 + Len(<<>>)
        /\ \A i, j \in 0 .. Len(<<>>) : i <= j => ends[i] <= ends[j]
    OBVIOUS
  <1> HIDE DEF ends
  <1>2. \A i \in 1 .. Len(<<>>) : FALSE
    BY <1>1
  <1>3. <<>> \in Seq(Tokens) /\ 0 \in Nat
    OBVIOUS
  <1> QED BY <1>1, <1>2, <1>3 DEF Stream

\* The next byte is the next of the first message.
LEMMA StreamShrinks ==
    ASSUME NEW f \in Seq(ByteNames), NEW toks, NEW cut, Stream(f, toks, cut),
           Options \subseteq TelnetEnds!OptionNames
    PROVE  /\ f = <<>> => toks = <<>>
           /\ f # <<>> =>
                /\ toks # <<>> /\ Tail(f) \in Seq(ByteNames) /\ cut + 1 \in 1 .. Len(toks[1]) /\ f[1] = toks[1][cut + 1]
                /\ cut + 1 < Len(toks[1]) => Stream(Tail(f), toks, cut + 1)
                /\ cut + 1 = Len(toks[1]) => Stream(Tail(f), Tail(toks), 0)
  <1>1. PICK ends \in [0 .. Len(toks) -> Nat] :
          /\ ends[0] = 0 /\ ends[Len(toks)] = cut + Len(f)
          /\ \A i \in 1 .. Len(toks) : ends[i] = ends[i - 1] + Len(toks[i])
          /\ \A i, j \in 0 .. Len(toks) : i <= j => ends[i] <= ends[j]
          /\ \A i \in 1 .. Len(toks) : \A j \in 1 .. Len(toks[i]) :
                 ends[i - 1] + j > cut => f[ends[i - 1] + j - cut] = toks[i][j]
    BY DEF Stream
  <1>2. /\ toks \in Seq(Tokens) /\ cut \in Nat /\ IF toks = <<>> THEN cut = 0 ELSE cut < Len(toks[1])
        /\ Len(toks) \in Nat /\ Len(f) \in Nat
    BY LenProperties DEF Stream
  <1>3. \A i \in 1 .. Len(toks) : toks[i] \in Tokens /\ Len(toks[i]) \in Nat /\ Len(toks[i]) >= 1
    <2> SUFFICES ASSUME NEW i \in 1 .. Len(toks) PROVE toks[i] \in Tokens /\ Len(toks[i]) \in Nat /\ Len(toks[i]) >= 1
      OBVIOUS
    <2>1. toks[i] \in Tokens
      BY <1>2, ElementOfSeq
    <2> QED BY <2>1, TokenIsBytes
  <1>4. ASSUME toks # <<>> PROVE Len(f) >= 1 /\ Len(toks) >= 1 /\ ends[1] = Len(toks[1]) /\ ends[1] <= cut + Len(f)
    <2>1. Len(toks) >= 1
      BY <1>2, <1>4, EmptySeq
    <2>2. ends[1] = ends[0] + Len(toks[1]) /\ ends[1] <= ends[Len(toks)]
      BY <2>1, <1>1, <1>2
    <2>3. 1 \in 1 .. Len(toks) /\ Len(toks[1]) \in Nat
      BY <2>1, <1>2, <1>3
    <2>4. ends[0] = 0 /\ ends[Len(toks)] = cut + Len(f)
      BY <1>1
    <2> QED BY <2>1, <2>2, <2>3, <2>4, <1>2, <1>4
  <1>5. ASSUME f = <<>> PROVE toks = <<>>
    BY <1>4, <1>5
  <1>6. ASSUME f # <<>>
        PROVE  /\ toks # <<>> /\ Tail(f) \in Seq(ByteNames) /\ cut + 1 \in 1 .. Len(toks[1]) /\ f[1] = toks[1][cut + 1]
               /\ cut + 1 < Len(toks[1]) => Stream(Tail(f), toks, cut + 1)
               /\ cut + 1 = Len(toks[1]) => Stream(Tail(f), Tail(toks), 0)
    <2> DEFINE g == Tail(f)
    <2> HIDE DEF g
    <2>1. /\ g \in Seq(ByteNames) /\ Len(g) = Len(f) - 1 /\ Len(f) >= 1
          /\ \A i \in 1 .. Len(f) - 1 : g[i] = f[i + 1]
      BY <1>6, Tailed DEF g
    <2>2. toks # <<>>
      <3>1. toks = <<>> => Len(toks) = 0 /\ cut = 0
        BY <1>2
      <3>2. toks = <<>> => Len(f) = 0
        BY <3>1, <1>1, <1>2
      <3> QED BY <3>2, <2>1
    <2>3. 1 \in 1 .. Len(toks) /\ Len(toks[1]) \in Nat /\ Len(toks[1]) >= 1 /\ cut < Len(toks[1])
      BY <2>2, <1>2, <1>3, <1>4
    <2>4. cut + 1 \in 1 .. Len(toks[1])
      BY <2>3, <1>2
    <2>5. f[1] = toks[1][cut + 1]
      <3>1. 1 - 1 = 0 /\ ends[1 - 1] = 0 /\ ends[1 - 1] + (cut + 1) > cut /\ ends[1 - 1] + (cut + 1) - cut = 1
        BY <1>1, <1>2
      <3> QED BY <3>1, <2>3, <2>4, <1>1
    <2>6. ASSUME cut + 1 < Len(toks[1]) PROVE Stream(g, toks, cut + 1)
      <3>1. ends[Len(toks)] = (cut + 1) + Len(g)
        BY <1>1, <1>2, <2>1
      <3>2. \A i \in 1 .. Len(toks) : \A j \in 1 .. Len(toks[i]) :
                 ends[i - 1] + j > cut + 1 => g[ends[i - 1] + j - (cut + 1)] = toks[i][j]
        <4> SUFFICES ASSUME NEW i \in 1 .. Len(toks), NEW j \in 1 .. Len(toks[i]), ends[i - 1] + j > cut + 1
                     PROVE g[ends[i - 1] + j - (cut + 1)] = toks[i][j]
          OBVIOUS
        <4>1. i - 1 \in 0 .. Len(toks) /\ i \in 0 .. Len(toks) /\ Len(toks) \in 0 .. Len(toks)
          BY <1>2
        <4>2. /\ ends[i - 1] \in Nat /\ ends[i] = ends[i - 1] + Len(toks[i]) /\ ends[i] <= cut + Len(f)
              /\ Len(toks[i]) \in Nat
          <5>1. ends[i - 1] \in Nat /\ ends[i] = ends[i - 1] + Len(toks[i]) /\ Len(toks[i]) \in Nat
            BY <4>1, <1>1, <1>3
          <5>2. ends[i] <= ends[Len(toks)] /\ ends[Len(toks)] = cut + Len(f)
            BY <4>1, <1>1
          <5> QED BY <5>1, <5>2
        <4>3. j \in Nat /\ j <= Len(toks[i])
          BY <4>2
        <4>4. ends[i - 1] + j - (cut + 1) \in 1 .. Len(f) - 1
          <5>1. ends[i - 1] + j > cut + 1 /\ ends[i - 1] + j <= cut + Len(f)
            BY <4>2, <4>3, <1>2
          <5>2. ends[i - 1] \in Nat /\ j \in Nat /\ cut \in Nat /\ Len(f) \in Nat
            BY <4>2, <4>3, <1>2, LenProperties
          <5>3. \A a, b, c, l \in Nat : (a + b > c + 1 /\ a + b <= c + l) => a + b - (c + 1) \in 1 .. l - 1
            OBVIOUS
          <5> QED BY <5>1, <5>2, <5>3
        <4>5. f[ends[i - 1] + j - cut] = toks[i][j]
          <5>1. ends[i - 1] + j > cut
            BY <4>2, <4>3, <1>2
          <5> QED BY <5>1, <1>1
        <4>6. ends[i - 1] + j - (cut + 1) + 1 = ends[i - 1] + j - cut
          BY <4>2, <4>3, <1>2
        <4> QED BY <4>4, <4>5, <4>6, <2>1
      <3>3. cut + 1 \in Nat /\ IF toks = <<>> THEN cut + 1 = 0 ELSE cut + 1 < Len(toks[1])
        BY <1>2, <2>2, <2>6
      <3> QED BY <1>1, <1>2, <3>1, <3>2, <3>3 DEF Stream
    <2>7. ASSUME cut + 1 = Len(toks[1]) PROVE Stream(g, Tail(toks), 0)
      <3> DEFINE rest == Tail(toks)
      <3> HIDE DEF rest
      <3>1. /\ rest \in Seq(Tokens) /\ Len(rest) = Len(toks) - 1 /\ Len(toks) >= 1
            /\ \A i \in 1 .. Len(toks) - 1 : rest[i] = toks[i + 1]
        BY <1>2, <2>2, Tailed DEF rest
      <3>2. ends[1] = cut + 1 /\ \A i \in 1 .. Len(toks) : ends[i] >= cut + 1
        <4>1. ends[1] = cut + 1
          BY <1>4, <2>2, <2>7
        <4> QED BY <4>1, <1>1, <1>2, <3>1
      <3> DEFINE left == [i \in 0 .. Len(rest) |-> ends[i + 1] - (cut + 1)]
      <3> HIDE DEF left
      <3>3. \A i \in 0 .. Len(rest) : i + 1 \in 1 .. Len(toks) /\ left[i] = ends[i + 1] - (cut + 1) /\ ends[i + 1] \in Nat
        BY <3>1, <1>2 DEF left
      <3>4. left \in [0 .. Len(rest) -> Nat]
        BY <3>2, <3>3, <1>2 DEF left
      <3>5. left[0] = 0 /\ left[Len(rest)] = 0 + Len(g)
        <4>1. 0 \in 0 .. Len(rest) /\ Len(rest) \in 0 .. Len(rest) /\ Len(rest) + 1 = Len(toks)
          BY <3>1, <1>2
        <4>2. left[0] = ends[0 + 1] - (cut + 1) /\ left[Len(rest)] = ends[Len(toks)] - (cut + 1)
          BY <4>1, <3>3
        <4>3. left[0] = 0
          BY <4>2, <3>2, <1>2
        <4>4. left[Len(rest)] = 0 + Len(g)
          BY <4>2, <1>1, <1>2, <2>1
        <4> QED BY <4>3, <4>4
      <3>6. \A i \in 1 .. Len(rest) : left[i] = left[i - 1] + Len(rest[i])
        <4> SUFFICES ASSUME NEW i \in 1 .. Len(rest) PROVE left[i] = left[i - 1] + Len(rest[i])
          OBVIOUS
        <4>1. /\ i + 1 \in 1 .. Len(toks) /\ i \in 0 .. Len(rest) /\ i - 1 \in 0 .. Len(rest) /\ i - 1 + 1 = i
              /\ i + 1 - 1 = i /\ rest[i] = toks[i + 1]
          BY <3>1, <1>2
        <4>2. ends[i + 1] = ends[i] + Len(toks[i + 1])
          BY <4>1, <1>1
        <4>3. left[i] = ends[i + 1] - (cut + 1) /\ left[i - 1] = ends[i] - (cut + 1) /\ ends[i + 1] \in Nat /\ ends[i] \in Nat
          BY <4>1, <3>3
        <4>4. Len(toks[i + 1]) \in Nat
          BY <4>1, <1>3
        <4>5. PICK a, b, k : a = ends[i] /\ b = ends[i + 1] /\ k = Len(toks[i + 1])
          OBVIOUS
        <4>6. a \in Nat /\ b = a + k /\ k \in Nat /\ cut \in Nat
          BY <4>2, <4>3, <4>4, <4>5, <1>2
        <4>7. b - (cut + 1) = (a - (cut + 1)) + k
          BY <4>6
        <4> QED BY <4>1, <4>3, <4>5, <4>7
      <3>7. \A i, j \in 0 .. Len(rest) : i <= j => left[i] <= left[j]
        <4> SUFFICES ASSUME NEW i \in 0 .. Len(rest), NEW j \in 0 .. Len(rest), i <= j PROVE left[i] <= left[j]
          OBVIOUS
        <4>1. i + 1 \in 0 .. Len(toks) /\ j + 1 \in 0 .. Len(toks) /\ i + 1 <= j + 1
          BY <3>1, <1>2
        <4>2. ends[i + 1] <= ends[j + 1]
          BY <4>1, <1>1
        <4>3. /\ left[i] = ends[i + 1] - (cut + 1) /\ left[j] = ends[j + 1] - (cut + 1)
              /\ ends[i + 1] \in Nat /\ ends[j + 1] \in Nat
          BY <3>3
        <4> QED BY <4>2, <4>3, <1>2
      <3>8. \A i \in 1 .. Len(rest) : \A j \in 1 .. Len(rest[i]) :
                 left[i - 1] + j > 0 => g[left[i - 1] + j - 0] = rest[i][j]
        <4> SUFFICES ASSUME NEW i \in 1 .. Len(rest), NEW j \in 1 .. Len(rest[i])
                     PROVE g[left[i - 1] + j - 0] = rest[i][j]
          OBVIOUS
        <4>1. /\ i + 1 \in 1 .. Len(toks) /\ i \in 1 .. Len(toks) /\ i - 1 \in 0 .. Len(rest) /\ i - 1 + 1 = i
              /\ i + 1 - 1 = i /\ rest[i] = toks[i + 1] /\ i + 1 \in 0 .. Len(toks) /\ Len(toks) \in 0 .. Len(toks)
              /\ i + 1 <= Len(toks)
          BY <3>1, <1>2
        <4>2. /\ ends[i + 1] = ends[i] + Len(toks[i + 1]) /\ ends[i + 1] <= ends[Len(toks)]
              /\ Len(toks[i + 1]) \in Nat /\ ends[i] \in Nat /\ ends[i + 1] \in Nat
          <5>1. ends[i + 1] = ends[i + 1 - 1] + Len(toks[i + 1]) /\ Len(toks[i + 1]) \in Nat
            BY <4>1, <1>1, <1>3
          <5>2. ends[i + 1] <= ends[Len(toks)]
            BY <4>1, <1>1
          <5>3. ends[i] \in Nat /\ ends[i + 1] \in Nat
            BY <4>1
          <5> QED BY <4>1, <5>1, <5>2, <5>3
        <4>3. left[i - 1] = ends[i] - (cut + 1) /\ ends[i] >= cut + 1
          BY <4>1, <3>2, <3>3
        <4>4. j \in Nat /\ 1 <= j /\ j <= Len(toks[i + 1]) /\ ends[Len(toks)] = cut + Len(f)
          BY <4>1, <4>2, <1>1
        <4>5. left[i - 1] + j - 0 \in 1 .. Len(f) - 1 /\ left[i - 1] + j - 0 + 1 = ends[i] + j - cut /\ ends[i] + j > cut
          <5>0. ends[i] \in Nat /\ j \in Nat /\ j >= 1 /\ cut \in Nat /\ Len(f) \in Nat
            BY <4>2, <4>4, <1>2
          <5>1. left[i - 1] + j = ends[i] + j - (cut + 1) /\ left[i - 1] + j >= 1
            BY <5>0, <4>3, Within
          <5>2. ends[i] + j <= cut + Len(f)
            BY <4>2, <4>4, <1>2
          <5>3. ends[i] + j > cut
            BY <4>2, <4>3, <4>4, <1>2
          <5> QED BY <5>0, <5>1, <5>2, <5>3
        <4>6. f[ends[i] + j - cut] = toks[i + 1][j]
          BY <4>1, <4>5, <1>1
        <4> QED BY <4>1, <4>5, <4>6, <2>1
      <3>9. IF rest = <<>> THEN 0 = 0 ELSE 0 < Len(rest[1])
        <4>1. rest # <<>> => 1 \in 1 .. Len(toks) - 1
          BY <3>1, EmptySeq, <1>2
        <4>2. rest # <<>> => rest[1] = toks[2] /\ 2 \in 1 .. Len(toks)
          BY <4>1, <3>1, <1>2
        <4>3. rest # <<>> => Len(rest[1]) >= 1 /\ Len(rest[1]) \in Nat
          BY <4>2, <1>3
        <4> QED BY <4>3
      <3>10. Stream(g, rest, 0)
        BY <3>1, <3>4, <3>5, <3>6, <3>7, <3>8, <3>9 DEF Stream
      <3> QED BY <3>10 DEF rest
    <2> QED BY <2>1, <2>2, <2>4, <2>5, <2>6, <2>7 DEF g
  <1> QED BY <1>5, <1>6

-----------------------------------------------------------------------------
(* What is said of one option is not said of another.                        *)

LEMMA OptionOf ==
    ASSUME NEW o \in TelnetEnds!OptionNames, NEW q \in TelnetEnds!OptionNames,
           TelnetEnds!Code(o) = TelnetEnds!Code(q), o \in TelnetEnds!Theirs <=> q \in TelnetEnds!Theirs
    PROVE  o = q
  BY DEF TelnetEnds!OptionNames, TelnetEnds!Code, TelnetEnds!Theirs

LEMMA Sides ==
    ASSUME NEW o
    PROVE  /\ o \in TelnetEnds!Theirs => /\ TelnetEnds!Send(o) = "DO" /\ TelnetEnds!NSend(o) = "DONT"
                                         /\ TelnetEnds!Yes(o) = "WILL" /\ TelnetEnds!No(o) = "WONT"
           /\ o \notin TelnetEnds!Theirs => /\ TelnetEnds!Send(o) = "WILL" /\ TelnetEnds!NSend(o) = "WONT"
                                            /\ TelnetEnds!Yes(o) = "DO" /\ TelnetEnds!No(o) = "DONT"
           /\ TelnetEnds!Ack(o) = TelnetEnds!Yes(o) /\ TelnetEnds!Nak(o) = TelnetEnds!No(o)
           /\ {TelnetEnds!Send(o), TelnetEnds!NSend(o), TelnetEnds!Yes(o), TelnetEnds!No(o)} \subseteq Commands
           /\ TelnetEnds!Send(o) # TelnetEnds!NSend(o) /\ TelnetEnds!Yes(o) # TelnetEnds!No(o)
  BY DEF TelnetEnds!Send, TelnetEnds!NSend, TelnetEnds!Yes, TelnetEnds!No, TelnetEnds!Ack, TelnetEnds!Nak, Commands

LEMMA Apart ==
    ASSUME NEW o \in Options, NEW q \in Options, o # q, Options \subseteq TelnetEnds!OptionNames
    PROVE  /\ \A m \in Ours(o) : m \notin Ours(q)
           /\ \A m \in Its(o) : m \notin Its(q)
  <1>1. TelnetEnds!Code(o) = TelnetEnds!Code(q) => (o \in TelnetEnds!Theirs <=> q \notin TelnetEnds!Theirs)
    BY OptionOf
  <1>2. \A m \in Ours(o) : m \notin Ours(q)
    BY <1>1, Sides DEF Ours, Asks, Drops, Message
  <1>3. \A m \in Its(o) : m \notin Its(q)
    BY <1>1, Sides DEF Its, Agrees, Denies, Message
  <1> QED BY <1>2, <1>3

LEMMA SaysOfTwo ==
    ASSUME NEW o
    PROVE  /\ Asks(o) # Drops(o)
           /\ Agrees(o) # Denies(o)
           /\ Asks(o) \in Ours(o) /\ Drops(o) \in Ours(o)
           /\ Agrees(o) \in Its(o) /\ Denies(o) \in Its(o)
           /\ \A m \in Ours(o) : m = Asks(o) \/ m = Drops(o)
           /\ \A m \in Its(o) : m = Agrees(o) \/ m = Denies(o)
  BY Sides DEF Ours, Its, Asks, Drops, Agrees, Denies, Message

\* The kinds of messages the client sends.
LEMMA Kinds ==
    /\ \A c, k : /\ <<"IAC", c, k>> \notin KeyMessages /\ <<"IAC", c, k>> \notin SizeMessages
                 /\ c \in Commands /\ k \in Codes => <<"IAC", c, k>> \in OutMessages
    /\ \A o \in Codes \ {"NAWS"} :
           /\ <<"SB", o, "IS">> \notin KeyMessages /\ <<"SB", o, "IS">> \notin SizeMessages
           /\ <<"SB", o, "IS">> \in OutMessages /\ \A q : <<"SB", o, "IS">> \notin Ours(q)
    /\ \A n \in Nat : /\ <<"SB", "NAWS", n>> \notin KeyMessages /\ <<"SB", "NAWS", n>> \in SizeMessages
                      /\ <<"SB", "NAWS", n>> \in OutMessages /\ \A q : <<"SB", "NAWS", n>> \notin Ours(q)
    /\ \A m \in KeyMessages : m \notin SizeMessages /\ m \in OutMessages /\ \A q : m \notin Ours(q)
    /\ LET m == <<"KEYS", <<"IAC", "NOP">>>>
       IN  m \notin KeyMessages /\ m \notin SizeMessages /\ m \in OutMessages /\ \A q : m \notin Ours(q)
  <1>1. \A c, k : /\ <<"IAC", c, k>> \notin KeyMessages /\ <<"IAC", c, k>> \notin SizeMessages
                  /\ c \in Commands /\ k \in Codes => <<"IAC", c, k>> \in OutMessages
    BY DEF KeyMessages, SizeMessages, OutMessages
  <1>2. \A o \in Codes \ {"NAWS"} :
           /\ <<"SB", o, "IS">> \notin KeyMessages /\ <<"SB", o, "IS">> \notin SizeMessages
           /\ <<"SB", o, "IS">> \in OutMessages /\ \A q : <<"SB", o, "IS">> \notin Ours(q)
    BY DEF KeyMessages, SizeMessages, OutMessages, Ours, Asks, Drops, Message
  <1>3. \A n \in Nat : /\ <<"SB", "NAWS", n>> \notin KeyMessages /\ <<"SB", "NAWS", n>> \in SizeMessages
                       /\ <<"SB", "NAWS", n>> \in OutMessages /\ \A q : <<"SB", "NAWS", n>> \notin Ours(q)
    BY DEF KeyMessages, SizeMessages, OutMessages, Ours, Asks, Drops, Message
  <1>4. \A m \in KeyMessages : m \notin SizeMessages /\ m \in OutMessages /\ \A q : m \notin Ours(q)
    BY DEF KeyMessages, SizeMessages, OutMessages, Ours, Asks, Drops, Message
  <1>5. LET m == <<"KEYS", <<"IAC", "NOP">>>>
        IN  m \notin KeyMessages /\ m \notin SizeMessages /\ m \in OutMessages /\ \A q : m \notin Ours(q)
    <2>1. <<"IAC", "NOP">> \notin {<<"IAC", "IAC">>, <<"CR", "NUL">>, <<"CR">>, <<"CR", "LF">>}
      OBVIOUS
    <2> QED BY <2>1 DEF KeyMessages, SizeMessages, OutMessages, Ours, Asks, Drops, Message
  <1> QED BY <1>1, <1>2, <1>3, <1>4, <1>5

\* And the server.
LEMMA TokenKinds ==
    /\ \A tok \in Texts : \A o : tok \notin Its(o)
    /\ \A o : Query \notin Its(o)
    /\ Query \notin Texts
    /\ \A o : \A tok \in Its(o) : tok \notin Texts /\ tok # Query
  <1>1. \A tok \in Texts : Len(tok) # 3 /\ Len(tok) # 6
    BY DEF Texts
  <1>2. \A o : \A tok \in Its(o) : Len(tok) = 3
    BY DEF Its, Agrees, Denies, Message
  <1>3. Len(Query) = 6
    BY DEF Query
  <1> QED BY <1>1, <1>2, <1>3

-----------------------------------------------------------------------------
(* The stands of one option, step by step.                                   *)

\* A message about something else changes nothing.
LEMMA StandKept ==
    ASSUME NEW o, NEW st, NEW has, NEW out \in Seq(OutMessages), NEW toks \in Seq(Tokens),
           Stand(o, st, has, out, toks)
    PROVE  /\ \A m \in OutMessages : m \notin Ours(o) => Stand(o, st, has, Append(out, m), toks)
           /\ out # <<>> /\ Head(out) \notin Ours(o) => Stand(o, st, has, Tail(out), toks)
           /\ \A m \in Tokens : m \notin Its(o) => Stand(o, st, has, out, Append(toks, m))
           /\ toks # <<>> /\ Head(toks) \notin Its(o) => Stand(o, st, has, out, Tail(toks))
  <1>1. PICK w \in Seq(Ours(o)), v \in Seq(Its(o)) :
        /\ Only(out, Ours(o), w) /\ Only(toks, Its(o), v)
        /\ IF st = "REALLY_INACTIVE" THEN Refusal(o, has, w) ELSE <<st, has, w, v>> \in Stands(o)
    BY DEF Stand
  <1>2. \A m \in OutMessages : m \notin Ours(o) => Only(Append(out, m), Ours(o), w)
    BY <1>1, OnlyAppended
  <1>3. out # <<>> /\ Head(out) \notin Ours(o) => Only(Tail(out), Ours(o), w)
    BY <1>1, OnlyTailed
  <1>4. \A m \in Tokens : m \notin Its(o) => Only(Append(toks, m), Its(o), v)
    BY <1>1, OnlyAppended
  <1>5. toks # <<>> /\ Head(toks) \notin Its(o) => Only(Tail(toks), Its(o), v)
    BY <1>1, OnlyTailed
  <1> QED BY <1>1, <1>2, <1>3, <1>4, <1>5 DEF Stand

\* What the stands say one by one.
LEMMA StandWords ==
    ASSUME NEW o, NEW st, NEW has, NEW w, NEW v, <<st, has, w, v>> \in Stands(o)
    PROVE  \/ st = "REQUESTED" /\ has = "off" /\ w = <<Asks(o)>> /\ v = <<>>
           \/ st = "REQUESTED" /\ has = "off" /\ w = <<>> /\ v = <<Denies(o)>>
           \/ st = "REQUESTED" /\ has = "on" /\ w = <<>> /\ v = <<Agrees(o)>>
           \/ st = "REQUESTED" /\ has = "asked off" /\ w = <<>> /\ v = <<Agrees(o), Denies(o)>>
           \/ st = "REQUESTED" /\ has = "asked on" /\ w = <<Asks(o)>> /\ v = <<Agrees(o)>>
           \/ st = "REQUESTED" /\ has = "asked on" /\ w = <<>> /\ v = <<Denies(o), Agrees(o)>>
           \/ st = "ACTIVE" /\ has = "on" /\ w = <<>> /\ v = <<>>
           \/ st = "ACTIVE" /\ has = "asked off" /\ w = <<>> /\ v = <<Denies(o)>>
           \/ st = "ACTIVE" /\ has = "asked on" /\ w = <<Asks(o)>> /\ v = <<>>
           \/ st = "INACTIVE" /\ has = "off" /\ w = <<>> /\ v = <<>>
           \/ st = "INACTIVE" /\ has = "asked on" /\ w = <<>> /\ v = <<Agrees(o)>>
           \/ st = "INACTIVE" /\ has = "asked off" /\ w = <<Drops(o)>> /\ v = <<>>
  BY DEF Stands

LEMMA StandIs ==
    ASSUME NEW o, NEW st, NEW has, NEW w, NEW v,
           \/ st = "REQUESTED" /\ has = "off" /\ w = <<Asks(o)>> /\ v = <<>>
           \/ st = "REQUESTED" /\ has = "off" /\ w = <<>> /\ v = <<Denies(o)>>
           \/ st = "REQUESTED" /\ has = "on" /\ w = <<>> /\ v = <<Agrees(o)>>
           \/ st = "REQUESTED" /\ has = "asked off" /\ w = <<>> /\ v = <<Agrees(o), Denies(o)>>
           \/ st = "REQUESTED" /\ has = "asked on" /\ w = <<Asks(o)>> /\ v = <<Agrees(o)>>
           \/ st = "REQUESTED" /\ has = "asked on" /\ w = <<>> /\ v = <<Denies(o), Agrees(o)>>
           \/ st = "ACTIVE" /\ has = "on" /\ w = <<>> /\ v = <<>>
           \/ st = "ACTIVE" /\ has = "asked off" /\ w = <<>> /\ v = <<Denies(o)>>
           \/ st = "ACTIVE" /\ has = "asked on" /\ w = <<Asks(o)>> /\ v = <<>>
           \/ st = "INACTIVE" /\ has = "off" /\ w = <<>> /\ v = <<>>
           \/ st = "INACTIVE" /\ has = "asked on" /\ w = <<>> /\ v = <<Agrees(o)>>
           \/ st = "INACTIVE" /\ has = "asked off" /\ w = <<Drops(o)>> /\ v = <<>>
    PROVE  <<st, has, w, v>> \in Stands(o) /\ st # "REALLY_INACTIVE"
  <1>1. <<st, has, w, v>> \in Stands(o)
    BY DEF Stands
  <1> QED BY <1>1

\* Short sequences.
LEMMA Short ==
    /\ \A m : /\ <<m>> # <<>> /\ Head(<<m>>) = m /\ Tail(<<m>>) = <<>> /\ Append(<<>>, m) = <<m>>
              /\ Len(<<m>>) = 1
    /\ \A m, n : /\ <<m, n>> # <<>> /\ Head(<<m, n>>) = m /\ Tail(<<m, n>>) = <<n>>
                 /\ Append(<<m>>, n) = <<m, n>>
  <1>1. \A m : /\ <<m>> # <<>> /\ Head(<<m>>) = m /\ Tail(<<m>>) = <<>> /\ Append(<<>>, m) = <<m>>
               /\ Len(<<m>>) = 1
    OBVIOUS
  <1>2. ASSUME NEW m, NEW n PROVE <<m, n>> # <<>> /\ Head(<<m, n>>) = m
    OBVIOUS
  <1>4. ASSUME NEW m, NEW n PROVE Append(<<m>>, n) = <<m, n>>
    <2>1. <<m>> \in Seq({m, n}) /\ <<m, n>> \in Seq({m, n}) /\ Len(<<m, n>>) = 2 /\ n \in {m, n}
      OBVIOUS
    <2>2. /\ Append(<<m>>, n) \in Seq({m, n}) /\ Len(Append(<<m>>, n)) = 2
          /\ Append(<<m>>, n)[1] = m /\ Append(<<m>>, n)[2] = n
      BY <2>1, Appended
    <2> DEFINE q == Append(<<m>>, n)
               r == <<m, n>>
    <2>3. r[1] = m /\ r[2] = n /\ r \in Seq({m, n}) /\ Len(r) = 2
      BY <2>1
    <2> HIDE DEF q, r
    <2>4. Len(q) = Len(r) /\ \A i \in 1 .. Len(q) : q[i] = r[i]
      BY <2>2, <2>3 DEF q
    <2>5. q = r
      BY <2>2, <2>3, <2>4, SeqEqual DEF q
    <2> QED BY <2>5 DEF q, r
  <1>3. ASSUME NEW m, NEW n PROVE Tail(<<m, n>>) = <<n>>
    OBVIOUS
  <1> QED BY <1>1, <1>2, <1>3, <1>4

\* We ask for an option that is off.
LEMMA StandAsked ==
    ASSUME NEW o, NEW has, NEW out \in Seq(OutMessages), NEW toks \in Seq(Tokens),
           Stand(o, "INACTIVE", has, out, toks), has # "asked off", Asks(o) \in OutMessages
    PROVE  Stand(o, "REQUESTED", has, Append(out, Asks(o)), toks)
  <1>1. PICK w \in Seq(Ours(o)), v \in Seq(Its(o)) :
        Only(out, Ours(o), w) /\ Only(toks, Its(o), v) /\ <<"INACTIVE", has, w, v>> \in Stands(o)
    BY DEF Stand
  <1>2. Asks(o) \in Ours(o)
    BY SaysOfTwo
  <1>3. \/ has = "off" /\ w = <<>> /\ v = <<>>
        \/ has = "asked on" /\ w = <<>> /\ v = <<Agrees(o)>>
    BY <1>1 DEF Stands
  <1>4. /\ Only(Append(out, Asks(o)), Ours(o), Append(w, Asks(o)))
        /\ Append(w, Asks(o)) \in Seq(Ours(o)) /\ Append(w, Asks(o)) = <<Asks(o)>>
    BY <1>1, <1>2, <1>3, OnlyAppended, AppendProperties, Short
  <1>5. <<"REQUESTED", has, Append(w, Asks(o)), v>> \in Stands(o)
    BY <1>3, <1>4, StandIs
  <1> QED BY <1>1, <1>4, <1>5 DEF Stand

\* We give up an option for good.
LEMMA StandGivenUp ==
    ASSUME NEW o, NEW st, NEW has, NEW out \in Seq(OutMessages), NEW toks \in Seq(Tokens),
           Stand(o, st, has, out, toks), Drops(o) \in OutMessages
    PROVE  /\ Stand(o, "REALLY_INACTIVE", has, Append(out, Drops(o)), toks)
           /\ st \in {"INACTIVE", "REALLY_INACTIVE"} => Stand(o, "REALLY_INACTIVE", has, out, toks)
  <1>1. PICK w \in Seq(Ours(o)), v \in Seq(Its(o)) :
        /\ Only(out, Ours(o), w) /\ Only(toks, Its(o), v)
        /\ IF st = "REALLY_INACTIVE" THEN Refusal(o, has, w) ELSE <<st, has, w, v>> \in Stands(o)
    BY DEF Stand
  <1>2. Drops(o) \in Ours(o) /\ Asks(o) # Drops(o)
    BY SaysOfTwo
  <1>3. Stand(o, "REALLY_INACTIVE", has, Append(out, Drops(o)), toks)
    <2> DEFINE more == Append(w, Drops(o))
    <2>1. Only(Append(out, Drops(o)), Ours(o), more)
      BY <1>1, <1>2, OnlyAppended
    <2>2. /\ more \in Seq(Ours(o)) /\ Len(more) = Len(w) + 1 /\ more[Len(w) + 1] = Drops(o) /\ Len(w) \in Nat
      BY <1>2, Appended
    <2> HIDE DEF more
    <2>3. Refusal(o, has, more)
      <3>1. Len(w) + 1 \in 1 .. Len(more)
        BY <2>2
      <3>2. \A i \in 1 .. Len(more) : more[i] = Asks(o) => i < Len(w) + 1
        <4> SUFFICES ASSUME NEW i \in 1 .. Len(more), more[i] = Asks(o) PROVE i < Len(w) + 1
          OBVIOUS
        <4>1. i # Len(w) + 1
          BY <2>2, <1>2
        <4> QED BY <4>1, <2>2
      <3> QED BY <3>1, <3>2, <2>2 DEF Refusal
    <2> QED BY <1>1, <2>1, <2>2, <2>3 DEF Stand
  <1>4. ASSUME st \in {"INACTIVE", "REALLY_INACTIVE"} PROVE Stand(o, "REALLY_INACTIVE", has, out, toks)
    <2>1. CASE st = "REALLY_INACTIVE"
      BY <2>1
    <2>2. CASE st = "INACTIVE"
      <3>1. /\ has # "on" /\ \/ w = <<>>
                             \/ w = <<Drops(o)>>
        BY <1>1, <2>2, StandWords
      <3>2. Len(w) \in Nat /\ \A i \in 1 .. Len(w) : w[i] # Asks(o)
        <4>1. CASE w = <<>>
          BY <4>1
        <4>2. CASE w = <<Drops(o)>>
          <5>1. Len(w) = 1 /\ w[1] = Drops(o)
            BY <4>2
          <5> QED BY <5>1, <1>2
        <4> QED BY <4>1, <4>2, <3>1
      <3>3. Refusal(o, has, w)
        BY <3>1, <3>2 DEF Refusal
      <3> QED BY <1>1, <3>3 DEF Stand
    <2> QED BY <2>1, <2>2, <1>4
  <1> QED BY <1>3, <1>4

\* A refusal that is under way stays under way while the server reads what comes before it.
LEMMA RefusalTailed ==
    ASSUME NEW o, NEW has, NEW w \in Seq(Ours(o)), w # <<>>, Refusal(o, has, w), NEW has2,
           Head(w) = Asks(o) \/ has2 # "on"
    PROVE  Tail(w) \in Seq(Ours(o)) /\ Refusal(o, has2, Tail(w))
  <1> DEFINE v == Tail(w)
  <1>1. /\ v \in Seq(Ours(o)) /\ Len(v) = Len(w) - 1 /\ Len(w) \in Nat /\ Len(w) >= 1
        /\ \A i \in 1 .. Len(w) - 1 : v[i] = w[i + 1]
        /\ Head(w) = w[1]
    BY Tailed
  <1> HIDE DEF v
  <1>2. \A i \in 1 .. Len(w) : w[i] = Asks(o) => \E j \in 1 .. Len(w) : i < j /\ w[j] = Drops(o)
    BY DEF Refusal
  <1>3. \A i \in 1 .. Len(v) : v[i] = Asks(o) => \E j \in 1 .. Len(v) : i < j /\ v[j] = Drops(o)
    <2> SUFFICES ASSUME NEW i \in 1 .. Len(v), v[i] = Asks(o)
                 PROVE \E j \in 1 .. Len(v) : i < j /\ v[j] = Drops(o)
      OBVIOUS
    <2>1. i + 1 \in 1 .. Len(w) /\ w[i + 1] = Asks(o)
      BY <1>1
    <2>2. PICK j \in 1 .. Len(w) : i + 1 < j /\ w[j] = Drops(o)
      BY <2>1, <1>2
    <2>3. j - 1 \in 1 .. Len(v) /\ i < j - 1 /\ v[j - 1] = Drops(o)
      BY <2>2, <1>1
    <2> QED BY <2>3
  <1>4. ASSUME Head(w) = Asks(o) PROVE \E i \in 1 .. Len(v) : v[i] = Drops(o)
    <2>1. 1 \in 1 .. Len(w) /\ w[1] = Asks(o)
      BY <1>1, <1>4
    <2>2. PICK j \in 1 .. Len(w) : 1 < j /\ w[j] = Drops(o)
      BY <2>1, <1>2
    <2>3. j - 1 \in 1 .. Len(v) /\ v[j - 1] = Drops(o)
      BY <2>2, <1>1
    <2> QED BY <2>3
  <1>5. Refusal(o, has2, v)
    BY <1>3, <1>4 DEF Refusal
  <1> QED BY <1>1, <1>5 DEF v

\* The client reads that the server has an option on, or will have it.
LEMMA StandAgreed ==
    ASSUME NEW o, NEW st, NEW has, NEW out \in Seq(OutMessages), NEW toks \in Seq(Tokens),
           Stand(o, st, has, out, toks), toks # <<>>, Head(toks) = Agrees(o),
           Asks(o) \in OutMessages, Drops(o) \in OutMessages
    PROVE  /\ st = "REQUESTED" => Stand(o, "ACTIVE", has, out, Tail(toks))
           /\ st # "ACTIVE"
           /\ st = "INACTIVE" => Stand(o, "ACTIVE", has, Append(out, Asks(o)), Tail(toks))
           /\ st = "REALLY_INACTIVE" => Stand(o, st, has, Append(out, Drops(o)), Tail(toks))
  <1>0. /\ Asks(o) \in Ours(o) /\ Asks(o) # Drops(o) /\ Agrees(o) # Denies(o) /\ Agrees(o) \in Its(o)
    BY SaysOfTwo
  <1>1. PICK w \in Seq(Ours(o)), v \in Seq(Its(o)) :
        /\ Only(out, Ours(o), w) /\ Only(toks, Its(o), v)
        /\ IF st = "REALLY_INACTIVE" THEN Refusal(o, has, w) ELSE <<st, has, w, v>> \in Stands(o)
    BY DEF Stand
  <1>2. v # <<>> /\ Head(v) = Agrees(o) /\ Tail(v) \in Seq(Its(o)) /\ Only(Tail(toks), Its(o), Tail(v))
    BY <1>0, <1>1, OnlyTailed
  <1>3. v # <<Denies(o)>> /\ v # <<Denies(o), Agrees(o)>>
    BY <1>0, <1>2, Short
  <1>4. CASE st = "REALLY_INACTIVE"
    <2>1. Stand(o, st, has, out, Tail(toks))
      BY <1>1, <1>2, <1>4 DEF Stand
    <2>2. Tail(toks) \in Seq(Tokens)
      BY Tailed
    <2> QED BY <2>1, <2>2, <1>4, StandGivenUp
  <1>5. CASE st # "REALLY_INACTIVE"
    <2>1. \/ st = "REQUESTED" /\ has = "on" /\ w = <<>> /\ v = <<Agrees(o)>>
          \/ st = "REQUESTED" /\ has = "asked off" /\ w = <<>> /\ v = <<Agrees(o), Denies(o)>>
          \/ st = "REQUESTED" /\ has = "asked on" /\ w = <<Asks(o)>> /\ v = <<Agrees(o)>>
          \/ st = "INACTIVE" /\ has = "asked on" /\ w = <<>> /\ v = <<Agrees(o)>>
      BY <1>1, <1>2, <1>3, <1>5 DEF Stands
    <2>2. st # "ACTIVE"
      BY <2>1
    <2>3. ASSUME st = "REQUESTED" PROVE Stand(o, "ACTIVE", has, out, Tail(toks))
      <3>1. \/ has = "on" /\ w = <<>> /\ Tail(v) = <<>>
            \/ has = "asked off" /\ w = <<>> /\ Tail(v) = <<Denies(o)>>
            \/ has = "asked on" /\ w = <<Asks(o)>> /\ Tail(v) = <<>>
        BY <2>1, <2>3, Short
      <3>2. <<"ACTIVE", has, w, Tail(v)>> \in Stands(o)
        BY <3>1, StandIs
      <3> QED BY <3>2, <1>1, <1>2 DEF Stand
    <2>4. ASSUME st = "INACTIVE" PROVE Stand(o, "ACTIVE", has, Append(out, Asks(o)), Tail(toks))
      <3>1. has = "asked on" /\ w = <<>> /\ Tail(v) = <<>>
        BY <2>1, <2>4, Short
      <3>2. Only(Append(out, Asks(o)), Ours(o), Append(w, Asks(o))) /\ Append(w, Asks(o)) \in Seq(Ours(o))
        BY <1>0, <1>1, OnlyAppended, AppendProperties
      <3>3. Append(w, Asks(o)) = <<Asks(o)>>
        BY <3>1, Short
      <3>4. <<"ACTIVE", has, Append(w, Asks(o)), Tail(v)>> \in Stands(o)
        BY <3>1, <3>3, StandIs
      <3> QED BY <3>2, <3>4, <1>2 DEF Stand
    <2> QED BY <2>2, <2>3, <2>4, <1>5
  <1> QED BY <1>4, <1>5

\* The client reads that the server has it off, or will have.
LEMMA StandDenied ==
    ASSUME NEW o, NEW st, NEW has, NEW out \in Seq(OutMessages), NEW toks \in Seq(Tokens),
           Stand(o, st, has, out, toks), toks # <<>>, Head(toks) = Denies(o), Drops(o) \in OutMessages
    PROVE  /\ st = "REQUESTED" => Stand(o, "INACTIVE", has, out, Tail(toks)) /\ has # "asked off"
           /\ st = "ACTIVE" => Stand(o, "INACTIVE", has, Append(out, Drops(o)), Tail(toks))
           /\ st # "INACTIVE"
           /\ st = "REALLY_INACTIVE" => Stand(o, st, has, out, Tail(toks))
  <1>0. /\ Drops(o) \in Ours(o) /\ Agrees(o) # Denies(o) /\ Denies(o) \in Its(o)
    BY SaysOfTwo
  <1>1. PICK w \in Seq(Ours(o)), v \in Seq(Its(o)) :
        /\ Only(out, Ours(o), w) /\ Only(toks, Its(o), v)
        /\ IF st = "REALLY_INACTIVE" THEN Refusal(o, has, w) ELSE <<st, has, w, v>> \in Stands(o)
    BY DEF Stand
  <1>2. v # <<>> /\ Head(v) = Denies(o) /\ Tail(v) \in Seq(Its(o)) /\ Only(Tail(toks), Its(o), Tail(v))
    BY <1>0, <1>1, OnlyTailed
  <1>3. v # <<Agrees(o)>> /\ v # <<Agrees(o), Denies(o)>>
    BY <1>0, <1>2, Short
  <1>4. CASE st = "REALLY_INACTIVE"
    BY <1>1, <1>2, <1>4 DEF Stand
  <1>5. CASE st # "REALLY_INACTIVE"
    <2>1. \/ st = "REQUESTED" /\ has = "off" /\ w = <<>> /\ v = <<Denies(o)>>
          \/ st = "REQUESTED" /\ has = "asked on" /\ w = <<>> /\ v = <<Denies(o), Agrees(o)>>
          \/ st = "ACTIVE" /\ has = "asked off" /\ w = <<>> /\ v = <<Denies(o)>>
      BY <1>1, <1>2, <1>3, <1>5 DEF Stands
    <2>2. st # "INACTIVE"
      BY <2>1
    <2>3. ASSUME st = "REQUESTED" PROVE Stand(o, "INACTIVE", has, out, Tail(toks)) /\ has # "asked off"
      <3>1. \/ has = "off" /\ w = <<>> /\ Tail(v) = <<>>
            \/ has = "asked on" /\ w = <<>> /\ Tail(v) = <<Agrees(o)>>
        BY <2>1, <2>3, Short
      <3>2. <<"INACTIVE", has, w, Tail(v)>> \in Stands(o) /\ has # "asked off"
        BY <3>1, StandIs
      <3> QED BY <3>2, <1>1, <1>2 DEF Stand
    <2>4. ASSUME st = "ACTIVE" PROVE Stand(o, "INACTIVE", has, Append(out, Drops(o)), Tail(toks))
      <3>1. has = "asked off" /\ w = <<>> /\ Tail(v) = <<>>
        BY <2>1, <2>4, Short
      <3>2. Only(Append(out, Drops(o)), Ours(o), Append(w, Drops(o))) /\ Append(w, Drops(o)) \in Seq(Ours(o))
        BY <1>0, <1>1, OnlyAppended, AppendProperties
      <3>3. Append(w, Drops(o)) = <<Drops(o)>>
        BY <3>1, Short
      <3>4. <<"INACTIVE", has, Append(w, Drops(o)), Tail(v)>> \in Stands(o)
        BY <3>1, <3>3, StandIs
      <3> QED BY <3>2, <3>4, <1>2 DEF Stand
    <2> QED BY <2>2, <2>3, <2>4, <1>5
  <1> QED BY <1>4, <1>5

\* The server is asked for an option, and agrees or not, or took it for an answer.
LEMMA StandHeard ==
    ASSUME NEW o, NEW st, NEW has, NEW out \in Seq(OutMessages), NEW toks \in Seq(Tokens),
           Stand(o, st, has, out, toks), out # <<>>, Head(out) = Asks(o),
           Agrees(o) \in Tokens, Denies(o) \in Tokens
    PROVE  /\ has = "off" => /\ Stand(o, st, "on", Tail(out), Append(toks, Agrees(o)))
                             /\ Stand(o, st, "off", Tail(out), Append(toks, Denies(o)))
           /\ has # "off" => Stand(o, st, IF has = "asked on" THEN "on" ELSE has, Tail(out), toks)
  <1>0. /\ Asks(o) \in Ours(o) /\ Asks(o) # Drops(o) /\ Agrees(o) \in Its(o) /\ Denies(o) \in Its(o)
    BY SaysOfTwo
  <1>1. PICK w \in Seq(Ours(o)), v \in Seq(Its(o)) :
        /\ Only(out, Ours(o), w) /\ Only(toks, Its(o), v)
        /\ IF st = "REALLY_INACTIVE" THEN Refusal(o, has, w) ELSE <<st, has, w, v>> \in Stands(o)
    BY DEF Stand
  <1>2. w # <<>> /\ Head(w) = Asks(o) /\ Tail(w) \in Seq(Ours(o)) /\ Only(Tail(out), Ours(o), Tail(w))
    BY <1>0, <1>1, OnlyTailed
  <1>3. /\ Only(Append(toks, Agrees(o)), Its(o), Append(v, Agrees(o))) /\ Append(v, Agrees(o)) \in Seq(Its(o))
        /\ Only(Append(toks, Denies(o)), Its(o), Append(v, Denies(o))) /\ Append(v, Denies(o)) \in Seq(Its(o))
    BY <1>0, <1>1, OnlyAppended, AppendProperties
  <1>4. CASE st = "REALLY_INACTIVE"
    <2>1. \A has2 : Refusal(o, has2, Tail(w))
      BY <1>1, <1>2, <1>4, RefusalTailed
    <2> QED BY <2>1, <1>1, <1>2, <1>3, <1>4 DEF Stand
  <1>5. CASE st # "REALLY_INACTIVE"
    <2>0. w # <<Drops(o)>>
      BY <1>0, <1>2, Short
    <2>1. /\ w = <<Asks(o)>>
          /\ \/ st = "REQUESTED" /\ has = "off" /\ v = <<>>
             \/ st = "REQUESTED" /\ has = "asked on" /\ v = <<Agrees(o)>>
             \/ st = "ACTIVE" /\ has = "asked on" /\ v = <<>>
      BY <1>1, <1>2, <2>0, <1>5 DEF Stands
    <2>2. Tail(w) = <<>>
      BY <2>1, Short
    <2>3. CASE has = "off"
      <3>1. st = "REQUESTED" /\ Append(v, Agrees(o)) = <<Agrees(o)>> /\ Append(v, Denies(o)) = <<Denies(o)>>
        BY <2>1, <2>3, Short
      <3>2. /\ <<st, "on", Tail(w), Append(v, Agrees(o))>> \in Stands(o)
            /\ <<st, "off", Tail(w), Append(v, Denies(o))>> \in Stands(o)
        BY <3>1, <2>2, StandIs
      <3> QED BY <3>2, <2>3, <1>2, <1>3, <1>5 DEF Stand
    <2>4. CASE has # "off"
      <3>1. has = "asked on" /\ <<st, "on", Tail(w), v>> \in Stands(o)
        BY <2>1, <2>2, <2>4, StandIs
      <3>2. Stand(o, st, "on", Tail(out), toks)
        BY <3>1, <1>1, <1>2, <1>5 DEF Stand
      <3> QED BY <3>1, <3>2
    <2> QED BY <2>3, <2>4
  <1> QED BY <1>4, <1>5

\* The server is told that an option is off.
LEMMA StandDropped ==
    ASSUME NEW o, NEW st, NEW has, NEW out \in Seq(OutMessages), NEW toks \in Seq(Tokens),
           Stand(o, st, has, out, toks), out # <<>>, Head(out) = Drops(o), Denies(o) \in Tokens
    PROVE  /\ has = "on" => Stand(o, st, "off", Tail(out), Append(toks, Denies(o)))
           /\ has # "on" => Stand(o, st, "off", Tail(out), toks)
  <1>0. /\ Drops(o) \in Ours(o) /\ Asks(o) # Drops(o) /\ Denies(o) \in Its(o)
    BY SaysOfTwo
  <1>1. PICK w \in Seq(Ours(o)), v \in Seq(Its(o)) :
        /\ Only(out, Ours(o), w) /\ Only(toks, Its(o), v)
        /\ IF st = "REALLY_INACTIVE" THEN Refusal(o, has, w) ELSE <<st, has, w, v>> \in Stands(o)
    BY DEF Stand
  <1>2. w # <<>> /\ Head(w) = Drops(o) /\ Tail(w) \in Seq(Ours(o)) /\ Only(Tail(out), Ours(o), Tail(w))
    BY <1>0, <1>1, OnlyTailed
  <1>3. Only(Append(toks, Denies(o)), Its(o), Append(v, Denies(o))) /\ Append(v, Denies(o)) \in Seq(Its(o))
    BY <1>0, <1>1, OnlyAppended, AppendProperties
  <1>4. CASE st = "REALLY_INACTIVE"
    <2>1. Refusal(o, "off", Tail(w))
      BY <1>1, <1>2, <1>4, RefusalTailed
    <2> QED BY <2>1, <1>1, <1>2, <1>3, <1>4 DEF Stand
  <1>5. CASE st # "REALLY_INACTIVE"
    <2>0. w # <<Asks(o)>>
      BY <1>0, <1>2, Short
    <2>1. w = <<Drops(o)>> /\ st = "INACTIVE" /\ has = "asked off" /\ v = <<>>
      BY <1>1, <1>2, <2>0, <1>5 DEF Stands
    <2>2. Tail(w) = <<>>
      BY <2>1, Short
    <2>3. <<st, "off", Tail(w), v>> \in Stands(o)
      BY <2>1, <2>2, StandIs
    <2> QED BY <2>1, <2>3, <1>1, <1>2, <1>5 DEF Stand
  <1> QED BY <1>4, <1>5

\* The server asks for it of its own accord, or gives it up.
LEMMA StandOpened ==
    ASSUME NEW o, NEW st, NEW has, NEW out \in Seq(OutMessages), NEW toks \in Seq(Tokens),
           Stand(o, st, has, out, toks), Agrees(o) \in Tokens, Denies(o) \in Tokens
    PROVE  /\ has = "off" => Stand(o, st, "asked on", out, Append(toks, Agrees(o)))
           /\ has = "on" => Stand(o, st, "asked off", out, Append(toks, Denies(o))) /\ st # "INACTIVE"
  <1>0. Agrees(o) \in Its(o) /\ Denies(o) \in Its(o)
    BY SaysOfTwo
  <1>1. PICK w \in Seq(Ours(o)), v \in Seq(Its(o)) :
        /\ Only(out, Ours(o), w) /\ Only(toks, Its(o), v)
        /\ IF st = "REALLY_INACTIVE" THEN Refusal(o, has, w) ELSE <<st, has, w, v>> \in Stands(o)
    BY DEF Stand
  <1>3. /\ Only(Append(toks, Agrees(o)), Its(o), Append(v, Agrees(o))) /\ Append(v, Agrees(o)) \in Seq(Its(o))
        /\ Only(Append(toks, Denies(o)), Its(o), Append(v, Denies(o))) /\ Append(v, Denies(o)) \in Seq(Its(o))
    BY <1>0, <1>1, OnlyAppended, AppendProperties
  <1>4. CASE st = "REALLY_INACTIVE"
    <2>1. Refusal(o, "asked on", w) /\ Refusal(o, "asked off", w)
      BY <1>1, <1>4 DEF Refusal
    <2> QED BY <2>1, <1>1, <1>3, <1>4 DEF Stand
  <1>5. CASE st # "REALLY_INACTIVE"
    <2>1. CASE has = "off"
      <3>1. \/ st = "REQUESTED" /\ w = <<Asks(o)>> /\ v = <<>>
            \/ st = "REQUESTED" /\ w = <<>> /\ v = <<Denies(o)>>
            \/ st = "INACTIVE" /\ w = <<>> /\ v = <<>>
        BY <1>1, <1>5, <2>1 DEF Stands
      <3>2. \/ st = "REQUESTED" /\ w = <<Asks(o)>> /\ Append(v, Agrees(o)) = <<Agrees(o)>>
            \/ st = "REQUESTED" /\ w = <<>> /\ Append(v, Agrees(o)) = <<Denies(o), Agrees(o)>>
            \/ st = "INACTIVE" /\ w = <<>> /\ Append(v, Agrees(o)) = <<Agrees(o)>>
        BY <3>1, Short
      <3>3. <<st, "asked on", w, Append(v, Agrees(o))>> \in Stands(o)
        BY <3>2, StandIs
      <3> QED BY <3>3, <1>1, <1>3, <1>5, <2>1 DEF Stand
    <2>2. CASE has = "on"
      <3>1. \/ st = "REQUESTED" /\ w = <<>> /\ v = <<Agrees(o)>>
            \/ st = "ACTIVE" /\ w = <<>> /\ v = <<>>
        BY <1>1, <1>5, <2>2 DEF Stands
      <3>2. \/ st = "REQUESTED" /\ w = <<>> /\ Append(v, Denies(o)) = <<Agrees(o), Denies(o)>>
            \/ st = "ACTIVE" /\ w = <<>> /\ Append(v, Denies(o)) = <<Denies(o)>>
        BY <3>1, Short
      <3>3. <<st, "asked off", w, Append(v, Denies(o))>> \in Stands(o) /\ st # "INACTIVE"
        BY <3>2, StandIs
      <3> QED BY <3>3, <1>1, <1>3, <1>5, <2>2 DEF Stand
    <2> QED BY <2>1, <2>2
  <1> QED BY <1>4, <1>5

\* When nothing is under way the two are of one mind.
LEMMA StandAtRest ==
    ASSUME NEW o, NEW st, NEW has, Stand(o, st, has, <<>>, <<>>), has \in Minds
    PROVE  (st = "ACTIVE") <=> (has = "on")
  <1>1. PICK w \in Seq(Ours(o)), v \in Seq(Its(o)) :
        /\ Only(<<>>, Ours(o), w) /\ Only(<<>>, Its(o), v)
        /\ IF st = "REALLY_INACTIVE" THEN Refusal(o, has, w) ELSE <<st, has, w, v>> \in Stands(o)
    BY DEF Stand
  <1>2. w = <<>> /\ v = <<>>
    BY <1>1, OnlyOfNothing
  <1>3. CASE st = "REALLY_INACTIVE"
    <2>1. Len(w) = 0
      BY <1>2
    <2>2. has # "on"
      BY <2>1, <1>1, <1>3 DEF Refusal
    <2> QED BY <2>2, <1>3
  <1>4. CASE st # "REALLY_INACTIVE"
    BY <1>1, <1>2, <1>4 DEF Stands
  <1> QED BY <1>3, <1>4

-----------------------------------------------------------------------------
(* What the client does about an option, and what that keeps.                *)

LEMMA OptionSays ==
    ASSUME NEW o \in Options
    PROVE  /\ Asks(o) = <<"IAC", TelnetEnds!Send(o), TelnetEnds!Code(o)>>
           /\ Drops(o) = <<"IAC", TelnetEnds!NSend(o), TelnetEnds!Code(o)>>
           /\ Agrees(o) = <<"IAC", TelnetEnds!Ack(o), TelnetEnds!Code(o)>>
           /\ Denies(o) = <<"IAC", TelnetEnds!Nak(o), TelnetEnds!Code(o)>>
           /\ Agrees(o) \in Tokens /\ Denies(o) \in Tokens
           /\ \A m \in Ours(o) : m \in OutMessages /\ m \notin KeyMessages /\ m \notin SizeMessages
           /\ Asks(o) \in Ours(o) /\ Drops(o) \in Ours(o) /\ Agrees(o) \in Its(o) /\ Denies(o) \in Its(o)
  <1>1. /\ Asks(o) = <<"IAC", TelnetEnds!Send(o), TelnetEnds!Code(o)>>
        /\ Drops(o) = <<"IAC", TelnetEnds!NSend(o), TelnetEnds!Code(o)>>
        /\ Agrees(o) = <<"IAC", TelnetEnds!Ack(o), TelnetEnds!Code(o)>>
        /\ Denies(o) = <<"IAC", TelnetEnds!Nak(o), TelnetEnds!Code(o)>>
    BY Sides DEF Asks, Drops, Agrees, Denies, Message
  <1>2. /\ TelnetEnds!Send(o) \in Commands /\ TelnetEnds!NSend(o) \in Commands
        /\ TelnetEnds!Code(o) \in Codes
    BY Sides, CodeIsCode, TelnetAssumption
  <1>3. Asks(o) \in OutMessages /\ Asks(o) \notin KeyMessages /\ Asks(o) \notin SizeMessages
    BY <1>1, <1>2, Kinds
  <1>4. Drops(o) \in OutMessages /\ Drops(o) \notin KeyMessages /\ Drops(o) \notin SizeMessages
    BY <1>1, <1>2, Kinds
  <1>5. Agrees(o) \in Tokens /\ Denies(o) \in Tokens
    BY DEF Tokens, Its
  <1> QED BY <1>1, <1>3, <1>4, <1>5 DEF Ours, Its

LEMMA KeysKept ==
    ASSUME NEW out \in Seq(OutMessages), NEW s, KeysTold(out, s), NEW m \in OutMessages, m \notin KeyMessages
    PROVE  KeysTold(Append(out, m), s)
  <1>1. PICK w \in Seq(KeyMessages) :
        /\ Only(out, KeyMessages, w)
        /\ Len(s.typed) = Len(s.heard) + Len(w)
        /\ \A i \in 1 .. Len(s.heard) : s.typed[i] = s.heard[i]
        /\ \A i \in 1 .. Len(w) : s.typed[Len(s.heard) + i] = KeyOf(w[i])
    BY DEF KeysTold
  <1>2. Only(Append(out, m), KeyMessages, w)
    BY <1>1, OnlyAppended
  <1> QED BY <1>1, <1>2 DEF KeysTold

LEMMA SizeKept ==
    ASSUME NEW out \in Seq(OutMessages), NEW s, NEW on, NEW on2, NEW size, SizeTold(out, on, size, s), on2 => on
    PROVE  /\ SizeTold(out, on2, size, s)
           /\ \A m \in OutMessages : m \notin SizeMessages => SizeTold(Append(out, m), on2, size, s)
  <1>1. PICK w \in Seq(SizeMessages) :
        /\ Only(out, SizeMessages, w)
        /\ on => size = IF w = <<>> THEN s.size ELSE w[Len(w)][3]
    BY DEF SizeTold
  <1>2. \A m \in OutMessages : m \notin SizeMessages => Only(Append(out, m), SizeMessages, w)
    BY <1>1, OnlyAppended
  <1> QED BY <1>1, <1>2 DEF SizeTold

\* The size is told anew.
LEMMA SizeIsTold ==
    ASSUME NEW out \in Seq(OutMessages), NEW s, NEW on, NEW on2, NEW old, SizeTold(out, on, old, s), NEW size \in Nat
    PROVE  SizeTold(Append(out, <<"SB", "NAWS", size>>), on2, size, s)
  <1>1. PICK w \in Seq(SizeMessages) : Only(out, SizeMessages, w)
    BY DEF SizeTold
  <1> DEFINE m == <<"SB", "NAWS", size>>
             v == Append(w, m)
  <1>2. m \in SizeMessages /\ m \in OutMessages /\ m[3] = size
    BY Kinds
  <1> HIDE DEF m
  <1>3. Only(Append(out, m), SizeMessages, v)
    BY <1>1, <1>2, OnlyAppended
  <1>4. v \in Seq(SizeMessages) /\ v # <<>> /\ Len(v) = Len(w) + 1 /\ v[Len(w) + 1] = m
    BY <1>2, AppendProperties
  <1> HIDE DEF v
  <1>5. size = IF v = <<>> THEN s.size ELSE v[Len(v)][3]
    BY <1>2, <1>4
  <1> QED BY <1>3, <1>4, <1>5 DEF SizeTold, m

LEMMA PutIs ==
    ASSUME NEW t \in Clients, NEW o \in Options, NEW st \in OptStates, NEW u, u = TelnetEnds!Put(t, o, st)
    PROVE  /\ u \in Clients /\ Same(t, u) /\ u.out = t.out
           /\ u.echoing = t.echoing /\ u.editing = t.editing /\ u.activated = t.activated
           /\ u.opt[o] = st /\ \A q \in Options : q # o => u.opt[q] = t.opt[q]
  BY DEF Clients, TelnetEnds!Put, Same

LEMMA SendIs ==
    ASSUME NEW t \in Clients, NEW m \in OutMessages, NEW u, u = [t EXCEPT !.out = Append(@, m)]
    PROVE  /\ u \in Clients /\ Same(t, u) /\ u.out = Append(t.out, m) /\ u.opt = t.opt
           /\ u.echoing = t.echoing /\ u.editing = t.editing /\ u.activated = t.activated
  <1>1. Append(t.out, m) \in Seq(OutMessages)
    BY AppendProperties DEF Clients
  <1> QED BY <1>1 DEF Clients, Same

\* One option takes a step, and a message about it may be read or sent.
LEMMA Turn ==
    ASSUME NEW t, NEW s, NEW toks, Stood(t, s, toks), NEW o \in Options, NEW u \in Clients, NEW rest,
           u.out = t.out \/ \E m \in Ours(o) : u.out = Append(t.out, m),
           rest = toks \/ (toks # <<>> /\ Head(toks) \in Its(o) /\ rest = Tail(toks)),
           \A q \in Options : q # o => u.opt[q] = t.opt[q],
           Stand(o, u.opt[o], s.peer[o], u.out, rest),
           u.activated = t.activated, u.activated \/ u.opt[o] # "INACTIVE" \/ t.opt[o] = "INACTIVE"
    PROVE  Stood(u, s, rest)
  <1>1. t \in Clients /\ s \in Theres /\ toks \in Seq(Tokens) /\ t.out \in Seq(OutMessages)
    BY DEF Stood, Clients
  <1>2. rest \in Seq(Tokens)
    <2>1. toks # <<>> => Tail(toks) \in Seq(Tokens)
      BY <1>1, Tailed
    <2> QED BY <1>1, <2>1
  <1>3. \A q \in Options : Stand(q, u.opt[q], s.peer[q], u.out, rest)
    <2> SUFFICES ASSUME NEW q \in Options, q # o PROVE Stand(q, u.opt[q], s.peer[q], u.out, rest)
      OBVIOUS
    <2>1. Stand(q, t.opt[q], s.peer[q], t.out, toks) /\ u.opt[q] = t.opt[q]
      BY DEF Stood
    <2>2. \A m \in Ours(o) : m \in OutMessages /\ m \notin Ours(q)
      BY Apart, OptionSays, TelnetAssumption
    <2>3. \A m \in Its(o) : m \notin Its(q)
      BY Apart, TelnetAssumption
    <2>4. Stand(q, u.opt[q], s.peer[q], u.out, toks)
      BY <1>1, <2>1, <2>2, StandKept
    <2>5. u.out \in Seq(OutMessages)
      BY DEF Clients
    <2> QED BY <1>1, <2>3, <2>4, <2>5, StandKept
  <1>4. KeysTold(u.out, s)
    <2>1. KeysTold(t.out, s)
      BY DEF Stood
    <2>2. \A m \in Ours(o) : m \in OutMessages /\ m \notin KeyMessages
      BY OptionSays
    <2> QED BY <1>1, <2>1, <2>2, KeysKept
  <1>5. ~u.activated => Untold(u.opt, s.peer)
    BY DEF Stood, Untold
  <1> QED BY <1>1, <1>2, <1>3, <1>4, <1>5 DEF Stood

LEMMA SizedTurn ==
    ASSUME NEW t, NEW s, t \in Clients, Sized(t, s), NEW o \in Options, NEW u \in Clients, u.size = t.size,
           u.out = t.out \/ \E m \in Ours(o) : u.out = Append(t.out, m),
           TelnetEnds!Is(u, "NAWS", "ACTIVE") => TelnetEnds!Is(t, "NAWS", "ACTIVE")
    PROVE  Sized(u, s)
  <1>1. \A m \in Ours(o) : m \in OutMessages /\ m \notin SizeMessages
    BY OptionSays
  <1>2. SizeTold(t.out, TelnetEnds!Is(t, "NAWS", "ACTIVE"), t.size, s) /\ t.out \in Seq(OutMessages)
    BY DEF Sized, Clients
  <1> DEFINE on == TelnetEnds!Is(t, "NAWS", "ACTIVE")
             on2 == TelnetEnds!Is(u, "NAWS", "ACTIVE")
  <1>3. on2 => on
    OBVIOUS
  <1> HIDE DEF on, on2
  <1>4. SizeTold(t.out, on, t.size, s)
    BY <1>2 DEF on
  <1>5. SizeTold(u.out, on2, t.size, s)
    <2>1. /\ SizeTold(t.out, on2, t.size, s)
          /\ \A m \in OutMessages : m \notin SizeMessages => SizeTold(Append(t.out, m), on2, t.size, s)
      BY <1>2, <1>3, <1>4, SizeKept, Zenon
    <2> QED BY <1>1, <2>1
  <1> QED BY <1>5 DEF Sized, on2

\* Ask: an option that is off is asked for.
LEMMA AskKeeps ==
    ASSUME NEW t, NEW s, NEW toks, Talk(t, s, toks), NEW o, NEW u, u = TelnetEnds!Ask(t, o),
           Askable(t, s, o)
    PROVE  /\ Talk(u, s, toks) /\ Same(t, u) /\ u.activated = t.activated
           /\ \A q \in Options : u.opt[q] = "INACTIVE" => t.opt[q] = "INACTIVE"
  <1>1. CASE ~(o \in Options /\ t.opt[o] = "INACTIVE")
    <2>1. u = t
      BY <1>1 DEF TelnetEnds!Ask, TelnetEnds!Is
    <2> QED BY <2>1 DEF Same
  <1>2. CASE o \in Options /\ t.opt[o] = "INACTIVE"
    <2>00. PICK v : v = TelnetEnds!Put(t, o, "REQUESTED")
      OBVIOUS
    <2>0. t \in Clients /\ s \in Theres /\ toks \in Seq(Tokens) /\ t.out \in Seq(OutMessages)
      BY DEF Talk, Stood, Clients
    <2>1. /\ v \in Clients /\ Same(t, v) /\ v.out = t.out
          /\ v.echoing = t.echoing /\ v.editing = t.editing /\ v.activated = t.activated
          /\ v.opt[o] = "REQUESTED" /\ \A q \in Options : q # o => v.opt[q] = t.opt[q]
      <3>1. "REQUESTED" \in OptStates
        BY DEF OptStates
      <3>2. t \in Clients /\ o \in Options
        BY <1>2, <2>0
      <3> QED BY <3>1, <3>2, <2>00, PutIs
    <2>2. u = [v EXCEPT !.out = Append(@, Asks(o))]
      BY <1>2, <2>00, OptionSays DEF TelnetEnds!Ask, TelnetEnds!Is, TelnetEnds!SendOpt
    <2>3. Asks(o) \in Ours(o) /\ Asks(o) \in OutMessages
      BY <1>2, OptionSays
    <2>4. /\ u \in Clients /\ Same(v, u) /\ u.out = Append(v.out, Asks(o)) /\ u.opt = v.opt
          /\ u.echoing = v.echoing /\ u.editing = v.editing /\ u.activated = v.activated
      BY <2>1, <2>2, <2>3, SendIs
    <2>5. Stand(o, "REQUESTED", s.peer[o], Append(t.out, Asks(o)), toks)
      <3>1. Stand(o, "INACTIVE", s.peer[o], t.out, toks)
        BY <1>2 DEF Talk, Stood
      <3>2. s.peer[o] # "asked off"
        BY <1>2 DEF Askable
      <3> QED BY <3>1, <3>2, <1>2, <2>0, <2>3, StandAsked
    <2>6. Stood(u, s, toks)
      <3>1. Stood(t, s, toks)
        BY DEF Talk
      <3>2. u.out = Append(t.out, Asks(o)) /\ u.opt[o] = "REQUESTED" /\ u.activated = t.activated
        BY <2>1, <2>4
      <3>3. \A q \in Options : q # o => u.opt[q] = t.opt[q]
        BY <2>1, <2>4
      <3> QED BY <3>1, <3>2, <3>3, <1>2, <2>3, <2>4, <2>5, Turn
    <2>7. Sized(u, s)
      <3>1. Sized(t, s) /\ u.size = t.size
        BY <2>1, <2>4 DEF Talk, Same
      <3>2. TelnetEnds!Is(u, "NAWS", "ACTIVE") => TelnetEnds!Is(t, "NAWS", "ACTIVE")
        BY <2>1, <2>4 DEF TelnetEnds!Is
      <3>3. u.out = Append(t.out, Asks(o))
        BY <2>1, <2>4
      <3> QED BY <3>1, <3>2, <3>3, <1>2, <2>0, <2>3, <2>4, SizedTurn
    <2>8. Environs(u.opt, s.peer)
      BY <1>2, <2>1, <2>4 DEF Talk, Environs
    <2>9. Echo(u.opt, u.echoing)
      BY <1>2, <2>1, <2>4 DEF Talk, Echo
    <2>10. /\ Same(t, u) /\ u.activated = t.activated
           /\ \A q \in Options : u.opt[q] = "INACTIVE" => t.opt[q] = "INACTIVE"
      BY <2>1, <2>4 DEF Same
    <2> QED BY <2>6, <2>7, <2>8, <2>9, <2>10 DEF Talk
  <1> QED BY <1>1, <1>2

\* deactivate_option.
LEMMA DeactivateKeeps ==
    ASSUME NEW t, NEW s, NEW toks, Stood(t, s, toks), Sized(t, s), NEW o \in Options, NEW u,
           u = TelnetEnds!Deactivate(t, o)
    PROVE  /\ Stood(u, s, toks) /\ Sized(u, s) /\ Same(t, u) /\ u.activated = t.activated
           /\ u.echoing = t.echoing /\ u.opt[o] = "REALLY_INACTIVE"
           /\ \A q \in Options : q # o => u.opt[q] = t.opt[q]
  <1> DEFINE v == IF t.opt[o] \in {"REQUESTED", "ACTIVE"} THEN [t EXCEPT !.out = Append(@, Drops(o))] ELSE t
  <1>0. t \in Clients /\ s \in Theres /\ toks \in Seq(Tokens) /\ t.out \in Seq(OutMessages)
    BY DEF Stood, Clients
  <1>1. u = TelnetEnds!Put(v, o, "REALLY_INACTIVE")
    BY OptionSays DEF TelnetEnds!Deactivate, TelnetEnds!SendOpt
  <1>2. Drops(o) \in Ours(o) /\ Drops(o) \in OutMessages
    BY OptionSays
  <1>3. /\ v \in Clients /\ Same(t, v) /\ v.opt = t.opt
        /\ v.echoing = t.echoing /\ v.activated = t.activated
        /\ \/ v.out = t.out /\ t.opt[o] \in {"INACTIVE", "REALLY_INACTIVE"}
           \/ v.out = Append(t.out, Drops(o))
    <2>1. CASE t.opt[o] \in {"REQUESTED", "ACTIVE"}
      <3>1. v = [t EXCEPT !.out = Append(@, Drops(o))]
        BY <2>1
      <3> HIDE DEF v
      <3> QED BY <3>1, <1>0, <1>2, SendIs
    <2>2. CASE t.opt[o] \notin {"REQUESTED", "ACTIVE"}
      <3>1. v = t /\ t.opt[o] \in {"INACTIVE", "REALLY_INACTIVE"}
        BY <2>2, <1>0 DEF Clients, OptStates
      <3> QED BY <3>1, <1>0 DEF Same
    <2> QED BY <2>1, <2>2
  <1> HIDE DEF v
  <1>4. /\ u \in Clients /\ Same(v, u) /\ u.out = v.out
        /\ u.echoing = v.echoing /\ u.editing = v.editing /\ u.activated = v.activated
        /\ u.opt[o] = "REALLY_INACTIVE" /\ \A q \in Options : q # o => u.opt[q] = v.opt[q]
    <2>1. "REALLY_INACTIVE" \in OptStates
      BY DEF OptStates
    <2> QED BY <2>1, <1>1, <1>3, PutIs
  <1>5. Stand(o, "REALLY_INACTIVE", s.peer[o], u.out, toks)
    <2>1. Stand(o, t.opt[o], s.peer[o], t.out, toks)
      BY DEF Stood
    <2> QED BY <2>1, <1>0, <1>2, <1>3, <1>4, StandGivenUp
  <1>6. u.out = t.out \/ u.out = Append(t.out, Drops(o))
    BY <1>3, <1>4
  <1>7. Stood(u, s, toks)
    <2>1. /\ u.activated = t.activated /\ u.opt[o] = "REALLY_INACTIVE"
          /\ \A q \in Options : q # o => u.opt[q] = t.opt[q]
      BY <1>3, <1>4
    <2> QED BY <2>1, <1>2, <1>4, <1>5, <1>6, Turn
  <1>8. Sized(u, s)
    <2>1. u.size = t.size /\ TelnetEnds!Is(u, "NAWS", "ACTIVE") => TelnetEnds!Is(t, "NAWS", "ACTIVE")
      BY <1>3, <1>4 DEF TelnetEnds!Is, Same
    <2>2. u.size = t.size
      BY <1>3, <1>4 DEF Same
    <2> QED BY <2>1, <2>2, <1>0, <1>2, <1>4, <1>6, SizedTurn
  <1> QED BY <1>3, <1>4, <1>7, <1>8 DEF Same

\* telnet_size: what is told is the size.
LEMMA SendSizeKeeps ==
    ASSUME NEW t, NEW s, NEW toks, Stood(t, s, toks), NEW on, NEW old, SizeTold(t.out, on, old, s),
           NEW u, u = TelnetEnds!SendSize(t)
    PROVE  /\ Stood(u, s, toks) /\ Sized(u, s) /\ Same(t, u) /\ u.activated = t.activated
           /\ u.echoing = t.echoing /\ u.opt = t.opt
  <1>0. t \in Clients /\ s \in Theres /\ toks \in Seq(Tokens) /\ t.out \in Seq(OutMessages) /\ t.size \in Nat
    BY DEF Stood, Clients
  <1>1. CASE TelnetEnds!Is(t, "NAWS", "ACTIVE")
    <2> DEFINE m == <<"SB", "NAWS", t.size>>
    <2>1. u = [t EXCEPT !.out = Append(@, m)]
      BY <1>1 DEF TelnetEnds!SendSize
    <2>2. m \in OutMessages /\ m \notin KeyMessages /\ \A q : m \notin Ours(q)
      BY <1>0, Kinds
    <2>3. SizeTold(Append(t.out, m), TelnetEnds!Is(u, "NAWS", "ACTIVE"), t.size, s)
      BY <1>0, SizeIsTold
    <2> HIDE DEF m
    <2>4. /\ u \in Clients /\ Same(t, u) /\ u.out = Append(t.out, m) /\ u.opt = t.opt
          /\ u.echoing = t.echoing /\ u.editing = t.editing /\ u.activated = t.activated
      BY <1>0, <2>1, <2>2, SendIs
    <2>5. Sized(u, s)
      BY <2>3, <2>4 DEF Sized, Same
    <2>6. \A q \in Options : Stand(q, u.opt[q], s.peer[q], u.out, toks)
      <3> SUFFICES ASSUME NEW q \in Options PROVE Stand(q, u.opt[q], s.peer[q], u.out, toks)
        OBVIOUS
      <3>1. Stand(q, t.opt[q], s.peer[q], t.out, toks)
        BY DEF Stood
      <3> QED BY <3>1, <1>0, <2>2, <2>4, StandKept
    <2>7. KeysTold(u.out, s)
      <3>1. KeysTold(t.out, s)
        BY DEF Stood
      <3> QED BY <3>1, <1>0, <2>2, <2>4, KeysKept
    <2>8. Stood(u, s, toks)
      BY <1>0, <2>4, <2>6, <2>7 DEF Stood
    <2> QED BY <2>4, <2>5, <2>8
  <1>2. CASE ~TelnetEnds!Is(t, "NAWS", "ACTIVE")
    <2>1. u = t
      BY <1>2 DEF TelnetEnds!SendSize
    <2>2. Sized(u, s)
      BY <1>2, <2>1 DEF Sized, SizeTold
    <2> QED BY <2>1, <2>2 DEF Same
  <1> QED BY <1>1, <1>2

\* option_side_effects.
LEMMA SideEffectsKeep ==
    ASSUME NEW t, NEW s, NEW toks, Stood(t, s, toks), Environs(t.opt, s.peer), Sized(t, s), NEW o, NEW enabled \in BOOLEAN,
           Echo(t.opt, IF o = "ECHO" THEN ~enabled ELSE t.echoing), NEW u,
           u = TelnetEnds!SideEffects(t, o, enabled)
    PROVE  Talk(u, s, toks) /\ Same(t, u) /\ u.activated
  <1> DEFINE v == [t EXCEPT !.echoing = IF o = "ECHO" THEN ~enabled ELSE @,
                            !.editing = IF o = "THEY_SGA" THEN ~enabled ELSE @]
  <1>0. t \in Clients /\ s \in Theres
    BY DEF Stood
  <1>1. /\ v \in Clients /\ Same(t, v) /\ v.opt = t.opt /\ v.out = t.out /\ v.activated = t.activated
        /\ v.echoing = (IF o = "ECHO" THEN ~enabled ELSE t.echoing) /\ v.size = t.size
    BY <1>0 DEF Clients, Same
  <1>2. Talk(v, s, toks)
    <2>1. Stood(v, s, toks)
      BY <1>1 DEF Stood
    <2>2. Sized(v, s)
      BY <1>1 DEF Sized, TelnetEnds!Is
    <2>3. Environs(v.opt, s.peer)
      BY <1>1
    <2>4. Echo(v.opt, v.echoing)
      BY <1>1 DEF Echo
    <2> QED BY <2>1, <2>2, <2>3, <2>4 DEF Talk
  <1>3. u = IF v.activated THEN v
            ELSE [TelnetEnds!Ask(TelnetEnds!Ask(TelnetEnds!Ask(v, "ECHO"), "WE_SGA"), "THEY_SGA")
                     EXCEPT !.activated = TRUE]
    BY <1>1 DEF TelnetEnds!SideEffects
  <1> HIDE DEF v
  <1>4. CASE v.activated
    BY <1>1, <1>2, <1>3, <1>4
  <1>5. CASE ~v.activated
    <2>a. PICK a : a = TelnetEnds!Ask(v, "ECHO")
      OBVIOUS
    <2>b. PICK b : b = TelnetEnds!Ask(a, "WE_SGA")
      OBVIOUS
    <2>c. PICK c : c = TelnetEnds!Ask(b, "THEY_SGA")
      OBVIOUS
    <2>0. \A q : Askable(v, s, q)
      BY <1>2, <1>5 DEF Talk, Stood, Untold, Askable
    <2>00. u = [c EXCEPT !.activated = TRUE]
      BY <1>3, <1>5, <2>a, <2>b, <2>c
    <2>1. /\ Talk(a, s, toks) /\ Same(v, a) /\ a.activated = v.activated
          /\ \A q \in Options : a.opt[q] = "INACTIVE" => v.opt[q] = "INACTIVE"
      BY <1>2, <2>0, <2>a, AskKeeps
    <2>2. /\ Talk(b, s, toks) /\ Same(a, b) /\ b.activated = a.activated
          /\ \A q \in Options : b.opt[q] = "INACTIVE" => a.opt[q] = "INACTIVE"
      <3>1. Askable(a, s, "WE_SGA")
        BY <2>0, <2>1 DEF Askable
      <3> QED BY <2>b, <2>1, <3>1, AskKeeps
    <2>3. /\ Talk(c, s, toks) /\ Same(b, c) /\ c.activated = b.activated
      <3>1. Askable(b, s, "THEY_SGA")
        BY <2>0, <2>1, <2>2 DEF Askable
      <3> QED BY <2>c, <2>2, <3>1, AskKeeps
    <2>4. /\ u \in Clients /\ Same(c, u) /\ u.opt = c.opt /\ u.out = c.out /\ u.echoing = c.echoing
          /\ u.activated = TRUE /\ u.size = c.size
      <3>1. c \in Clients
        BY <2>3 DEF Talk, Stood
      <3> QED BY <3>1, <2>00 DEF Clients, Same
    <2>5. Talk(u, s, toks)
      <3>1. Stood(u, s, toks)
        BY <2>3, <2>4 DEF Talk, Stood
      <3>2. Sized(u, s)
        BY <2>3, <2>4 DEF Talk, Sized, TelnetEnds!Is
      <3>3. Environs(u.opt, s.peer) /\ Echo(u.opt, u.echoing)
        BY <2>3, <2>4 DEF Talk, Echo
      <3> QED BY <3>1, <3>2, <3>3 DEF Talk
    <2>6. Same(t, u)
      BY <1>1, <2>1, <2>2, <2>3, <2>4 DEF Same
    <2> QED BY <2>4, <2>5, <2>6
  <1> QED BY <1>4, <1>5

\* activate_option.
LEMMA EnvironGivenUp ==
    ASSUME NEW v, NEW s, NEW toks, Stood(v, s, toks), Sized(v, s), NEW o \in Options, v.opt[o] = "ACTIVE",
           NEW q \in {"OENV", "NENV"}, o \in {"OENV", "NENV"}, q # o, NEW w, w = TelnetEnds!Deactivate(v, q)
    PROVE  /\ Stood(w, s, toks) /\ Sized(w, s) /\ Same(v, w) /\ w.activated = v.activated
           /\ w.echoing = v.echoing /\ w.opt[o] = "ACTIVE" /\ ("ECHO" \in Options => w.opt["ECHO"] = v.opt["ECHO"])
           /\ Environs(w.opt, s.peer)
  <1>1. CASE q \in Options
    <2>1. /\ Stood(w, s, toks) /\ Sized(w, s) /\ Same(v, w) /\ w.activated = v.activated
          /\ w.echoing = v.echoing /\ w.opt[q] = "REALLY_INACTIVE"
          /\ \A p \in Options : p # q => w.opt[p] = v.opt[p]
      BY <1>1, DeactivateKeeps
    <2>2. w.opt[o] = "ACTIVE" /\ ("ECHO" \in Options => w.opt["ECHO"] = v.opt["ECHO"])
      BY <2>1
    <2>3. Environs(w.opt, s.peer)
      BY <2>1, <2>2 DEF Environs
    <2> QED BY <2>1, <2>2, <2>3
  <1>2. CASE q \notin Options
    <2>1. w = v
      BY <1>2 DEF TelnetEnds!Deactivate
    <2>2. Environs(w.opt, s.peer)
      BY <1>2 DEF Environs
    <2> QED BY <2>1, <2>2 DEF Same
  <1> QED BY <1>1, <1>2

LEMMA ActivateKeeps ==
    ASSUME NEW v, NEW s, NEW toks, Stood(v, s, toks), NEW o \in Options, v.opt[o] = "ACTIVE",
           NEW on, SizeTold(v.out, on, v.size, s), o # "NAWS" => Sized(v, s),
           o # "ECHO" => Echo(v.opt, v.echoing), o \notin {"OENV", "NENV"} => Environs(v.opt, s.peer),
           NEW u, u = TelnetEnds!Activate(v, o)
    PROVE  Talk(u, s, toks) /\ Same(v, u) /\ u.activated
  <1>1. PICK w : w = CASE o = "NAWS" -> TelnetEnds!SendSize(v)
                       [] o = "NENV" -> TelnetEnds!Deactivate(v, "OENV")
                       [] o = "OENV" -> TelnetEnds!Deactivate(v, "NENV")
                       [] OTHER -> v
    OBVIOUS
  <1>2. u = TelnetEnds!SideEffects(w, o, TRUE)
    BY <1>1 DEF TelnetEnds!Activate
  <1>3. /\ Stood(w, s, toks) /\ Sized(w, s) /\ Same(v, w) /\ w.activated = v.activated
        /\ w.echoing = v.echoing /\ w.opt[o] = "ACTIVE" /\ ("ECHO" \in Options => w.opt["ECHO"] = v.opt["ECHO"])
        /\ Environs(w.opt, s.peer)
    <2>1. CASE o = "NAWS"
      <3>1. w = TelnetEnds!SendSize(v)
        BY <1>1, <2>1
      <3>2. /\ Stood(w, s, toks) /\ Sized(w, s) /\ Same(v, w) /\ w.activated = v.activated
            /\ w.echoing = v.echoing /\ w.opt = v.opt
        BY <3>1, SendSizeKeeps
      <3>3. Environs(v.opt, s.peer)
        BY <2>1
      <3> QED BY <3>2, <3>3
    <2>2. ASSUME NEW q \in {"OENV", "NENV"}, o \in {"OENV", "NENV"}, q # o, w = TelnetEnds!Deactivate(v, q)
          PROVE  /\ Stood(w, s, toks) /\ Sized(w, s) /\ Same(v, w) /\ w.activated = v.activated
                 /\ w.echoing = v.echoing /\ w.opt[o] = "ACTIVE" /\ ("ECHO" \in Options => w.opt["ECHO"] = v.opt["ECHO"])
                 /\ Environs(w.opt, s.peer)
      <3>1. Sized(v, s)
        BY <2>2
      <3> QED BY <2>2, <3>1, EnvironGivenUp
    <2>3. CASE o = "NENV"
      <3>1. w = TelnetEnds!Deactivate(v, "OENV")
        BY <1>1, <2>3
      <3> QED BY <3>1, <2>2, <2>3
    <2>4. CASE o = "OENV"
      <3>1. w = TelnetEnds!Deactivate(v, "NENV")
        BY <1>1, <2>4
      <3> QED BY <3>1, <2>2, <2>4
    <2>5. CASE o \notin {"NAWS", "NENV", "OENV"}
      <3>1. w = v
        BY <1>1, <2>5
      <3> QED BY <3>1, <2>5 DEF Same
    <2> QED BY <2>1, <2>3, <2>4, <2>5
  <1>4. Echo(w.opt, IF o = "ECHO" THEN ~TRUE ELSE w.echoing)
    BY <1>3 DEF Echo
  <1>5. Talk(u, s, toks) /\ Same(w, u) /\ u.activated
    BY <1>2, <1>3, <1>4, SideEffectsKeep
  <1> QED BY <1>3, <1>5 DEF Same

\* refused_option.
LEMMA RefusedKeeps ==
    ASSUME NEW v, NEW s, NEW toks, Stood(v, s, toks), NEW o \in Options, v.opt[o] = "INACTIVE",
           Sized(v, s), o # "ECHO" => Echo(v.opt, v.echoing), Environs(v.opt, s.peer),
           NEW u, u = TelnetEnds!Refused(v, o)
    PROVE  Talk(u, s, toks) /\ Same(v, u) /\ u.activated
  <1>1. PICK w : w = IF o = "NENV" THEN TelnetEnds!Ask(v, "OENV") ELSE v
    OBVIOUS
  <1>2. u = TelnetEnds!SideEffects(w, o, FALSE)
    <2>1. TelnetEnds!Send("OENV") = "WILL"
      BY DEF TelnetEnds!Send, TelnetEnds!Theirs
    <2> QED BY <1>1, <2>1 DEF TelnetEnds!Refused, TelnetEnds!Ask
  <1>3. /\ Stood(w, s, toks) /\ Environs(w.opt, s.peer) /\ Sized(w, s) /\ Same(v, w)
        /\ Echo(w.opt, IF o = "ECHO" THEN ~FALSE ELSE w.echoing)
    <2>1. CASE o = "NENV"
      <3>1. Talk(v, s, toks)
        BY <2>1 DEF Talk
      <3>2. Askable(v, s, "OENV")
        BY <2>1 DEF Askable, Environs
      <3>3. Talk(w, s, toks) /\ Same(v, w)
        BY <1>1, <2>1, <3>1, <3>2, AskKeeps
      <3> QED BY <3>3, <2>1 DEF Talk
    <2>2. CASE o # "NENV"
      <3>1. w = v
        BY <1>1, <2>2
      <3>2. Echo(w.opt, IF o = "ECHO" THEN ~FALSE ELSE w.echoing)
        BY <3>1 DEF Echo
      <3> QED BY <3>1, <3>2 DEF Same
    <2> QED BY <2>1, <2>2
  <1>4. Talk(u, s, toks) /\ Same(w, u) /\ u.activated
    BY <1>2, <1>3, SideEffectsKeep
  <1> QED BY <1>3, <1>4 DEF Same

\* An option changes its state as a message about it is read, with an answer or without.
LEMMA Changes ==
    ASSUME NEW t, NEW s, NEW toks, Talk(t, s, toks), NEW o \in Options, toks # <<>>, Head(toks) \in Its(o),
           NEW st \in OptStates, NEW says, says = <<>> \/ \E m \in Ours(o) : says = <<m>>,
           NEW v, v = Changed(t, o, st, says),
           Stand(o, st, s.peer[o], t.out \o says, Tail(toks)),
           t.activated \/ st # "INACTIVE" \/ t.opt[o] = "INACTIVE"
    PROVE  /\ Stood(v, s, Tail(toks)) /\ Same(t, v) /\ v.opt[o] = st /\ v.echoing = t.echoing
           /\ v.activated = t.activated /\ \A q \in Options : q # o => v.opt[q] = t.opt[q]
           /\ \E on : SizeTold(v.out, on, v.size, s)
           /\ o # "NAWS" \/ st # "ACTIVE" \/ t.opt[o] = "ACTIVE" => Sized(v, s)
           /\ o # "ECHO" => Echo(v.opt, v.echoing)
  <1>0. /\ t \in Clients /\ s \in Theres /\ toks \in Seq(Tokens) /\ t.out \in Seq(OutMessages)
        /\ Stood(t, s, toks) /\ Sized(t, s) /\ Echo(t.opt, t.echoing)
    BY DEF Talk, Stood, Clients
  <1>1. PICK x : x = TelnetEnds!Put(t, o, st)
    OBVIOUS
  <1>2. /\ x \in Clients /\ Same(t, x) /\ x.out = t.out
        /\ x.echoing = t.echoing /\ x.editing = t.editing /\ x.activated = t.activated
        /\ x.opt[o] = st /\ \A q \in Options : q # o => x.opt[q] = t.opt[q]
    BY <1>0, <1>1, PutIs
  <1>3. /\ v \in Clients /\ Same(x, v) /\ v.opt = x.opt /\ v.echoing = x.echoing /\ v.activated = x.activated
        /\ v.out = t.out \o says
        /\ v.out = t.out \/ \E m \in Ours(o) : v.out = Append(t.out, m)
    <2>0. v = [x EXCEPT !.out = @ \o says]
      BY <1>1 DEF Changed
    <2>1. CASE says = <<>>
      <3>1. x.out \o says = x.out
        BY <2>1, <1>0, <1>2, ConcatEmptySeq
      <3>2. v = [x EXCEPT !.out = @]
        BY <2>0, <3>1, <1>2 DEF Clients
      <3>3. v = x
        BY <3>2, <1>2 DEF Clients
      <3> QED BY <1>2, <3>1, <3>3 DEF Same
    <2>2. ASSUME NEW m \in Ours(o), says = <<m>>
          PROVE  /\ v \in Clients /\ Same(x, v) /\ v.opt = x.opt /\ v.echoing = x.echoing /\ v.activated = x.activated
                 /\ v.out = t.out \o says /\ v.out = Append(t.out, m)
      <3>1. m \in OutMessages
        BY OptionSays
      <3>2. Append(x.out, m) = x.out \o says
        BY <1>0, <1>2, <2>2, <3>1, AppendIsConcat
      <3>3. v = [x EXCEPT !.out = Append(@, m)]
        BY <2>0, <3>2, <1>2 DEF Clients
      <3>4. /\ v \in Clients /\ Same(x, v) /\ v.out = Append(x.out, m) /\ v.opt = x.opt
            /\ v.echoing = x.echoing /\ v.activated = x.activated
        <4>1. x \in Clients
          BY <1>2
        <4>2. /\ v \in Clients /\ Same(x, v) /\ v.out = Append(x.out, m) /\ v.opt = x.opt
              /\ v.echoing = x.echoing /\ v.editing = x.editing /\ v.activated = x.activated
          BY <4>1, <3>1, <3>3, SendIs
        <4> QED BY <4>2
      <3> QED BY <3>2, <3>4, <1>2
    <2> QED BY <2>1, <2>2
  <1>4. /\ v.opt[o] = st /\ v.activated = t.activated /\ v.echoing = t.echoing /\ Same(t, v)
        /\ \A q \in Options : q # o => v.opt[q] = t.opt[q]
    BY <1>2, <1>3 DEF Same
  <1>5. Stood(v, s, Tail(toks))
    <2>1. Stand(o, v.opt[o], s.peer[o], v.out, Tail(toks))
      BY <1>3, <1>4
    <2>2. v.activated \/ v.opt[o] # "INACTIVE" \/ t.opt[o] = "INACTIVE"
      BY <1>4
    <2> QED BY <1>0, <1>3, <1>4, <2>1, <2>2, Turn
  <1>6. \E on : SizeTold(v.out, on, v.size, s)
    <2> DEFINE on == TelnetEnds!Is(t, "NAWS", "ACTIVE")
    <2>1. SizeTold(t.out, on, t.size, s) /\ v.size = t.size
      BY <1>0, <1>4 DEF Sized, Same
    <2> HIDE DEF on
    <2>2. \A m \in Ours(o) : m \in OutMessages /\ m \notin SizeMessages
      BY OptionSays
    <2>3. SizeTold(v.out, on, t.size, s)
      <3>1. \A m \in OutMessages : m \notin SizeMessages => SizeTold(Append(t.out, m), on, t.size, s)
        BY <1>0, <2>1, SizeKept, Zenon
      <3> QED BY <1>3, <2>1, <2>2, <3>1
    <2> QED BY <2>1, <2>3
  <1>7. ASSUME o # "NAWS" \/ st # "ACTIVE" \/ t.opt[o] = "ACTIVE" PROVE Sized(v, s)
    <2>1. TelnetEnds!Is(v, "NAWS", "ACTIVE") => TelnetEnds!Is(t, "NAWS", "ACTIVE")
      BY <1>4, <1>7 DEF TelnetEnds!Is
    <2>2. v.size = t.size
      BY <1>4 DEF Same
    <2> QED BY <1>0, <1>3, <2>1, <2>2, SizedTurn
  <1>8. o # "ECHO" => Echo(v.opt, v.echoing)
    BY <1>0, <1>4 DEF Echo
  <1> QED BY <1>4, <1>5, <1>6, <1>7, <1>8

\* proc_rec_opt for an acknowledgement.
LEMMA OnAckKeeps ==
    ASSUME NEW t, NEW s, NEW toks, Talk(t, s, toks), NEW o \in Options, toks # <<>>, Head(toks) = Agrees(o),
           t.activated \/ t.opt[o] = "INACTIVE", NEW u, u = TelnetEnds!OnAck(t, o)
    PROVE  Talk(u, s, Tail(toks)) /\ Same(t, u) /\ u.activated
  <1>0. /\ t \in Clients /\ s \in Theres /\ toks \in Seq(Tokens) /\ t.out \in Seq(OutMessages)
        /\ Environs(t.opt, s.peer) /\ t.opt[o] \in OptStates /\ Stand(o, t.opt[o], s.peer[o], t.out, toks)
    BY DEF Talk, Stood, Clients
  <1>1. /\ Asks(o) \in Ours(o) /\ Drops(o) \in Ours(o) /\ Agrees(o) \in Its(o)
        /\ Asks(o) \in OutMessages /\ Drops(o) \in OutMessages
    BY OptionSays
  <1>2. /\ t.opt[o] = "REQUESTED" => Stand(o, "ACTIVE", s.peer[o], t.out, Tail(toks))
        /\ t.opt[o] # "ACTIVE"
        /\ t.opt[o] = "INACTIVE" => Stand(o, "ACTIVE", s.peer[o], Append(t.out, Asks(o)), Tail(toks))
        /\ t.opt[o] = "REALLY_INACTIVE" =>
              Stand(o, "REALLY_INACTIVE", s.peer[o], Append(t.out, Drops(o)), Tail(toks))
    <2>1. PICK st, has : st = t.opt[o] /\ has = s.peer[o]
      OBVIOUS
    <2>2. Stand(o, st, has, t.out, toks) /\ t.out \in Seq(OutMessages) /\ toks \in Seq(Tokens)
      BY <1>0, <2>1
    <2>3. /\ st = "REQUESTED" => Stand(o, "ACTIVE", has, t.out, Tail(toks))
          /\ st # "ACTIVE"
          /\ st = "INACTIVE" => Stand(o, "ACTIVE", has, Append(t.out, Asks(o)), Tail(toks))
          /\ st = "REALLY_INACTIVE" => Stand(o, st, has, Append(t.out, Drops(o)), Tail(toks))
      BY <1>1, <2>2, StandAgreed
    <2> QED BY <2>1, <2>3
  <1>3. ASSUME NEW says, says = <<>> \/ says = <<Asks(o)>>, NEW v,
               v = Changed(t, o, "ACTIVE", says),
               Stand(o, "ACTIVE", s.peer[o], t.out \o says, Tail(toks)), u = TelnetEnds!Activate(v, o)
        PROVE  Talk(u, s, Tail(toks)) /\ Same(t, u) /\ u.activated
    <2>1. "ACTIVE" \in OptStates /\ (says = <<>> \/ \E m \in Ours(o) : says = <<m>>)
      BY <1>1, <1>3 DEF OptStates
    <2>2. /\ Stood(v, s, Tail(toks)) /\ Same(t, v) /\ v.opt[o] = "ACTIVE" /\ v.echoing = t.echoing
          /\ v.activated = t.activated /\ \A q \in Options : q # o => v.opt[q] = t.opt[q]
          /\ \E on : SizeTold(v.out, on, v.size, s)
          /\ o # "NAWS" \/ "ACTIVE" # "ACTIVE" \/ t.opt[o] = "ACTIVE" => Sized(v, s)
          /\ o # "ECHO" => Echo(v.opt, v.echoing)
      BY <1>1, <1>3, <2>1, Changes
    <2>3. o \notin {"OENV", "NENV"} => Environs(v.opt, s.peer)
      BY <1>0, <2>2 DEF Environs
    <2>4. PICK on : SizeTold(v.out, on, v.size, s)
      BY <2>2
    <2>5. o # "NAWS" => Sized(v, s)
      BY <2>2
    <2>6. Talk(u, s, Tail(toks)) /\ Same(v, u) /\ u.activated
      BY <1>3, <2>2, <2>3, <2>4, <2>5, ActivateKeeps
    <2> QED BY <2>2, <2>6 DEF Same
  <1>4. CASE t.opt[o] = "REQUESTED"
    <2>1. PICK v : v = TelnetEnds!Put(t, o, "ACTIVE")
      OBVIOUS
    <2>2. v \in Clients /\ v.out = t.out
      <3>1. t \in Clients /\ "ACTIVE" \in OptStates
        BY <1>0 DEF OptStates
      <3> QED BY <2>1, <3>1, PutIs
    <2>3. t.out \o <<>> = t.out
      BY <1>0, ConcatEmptySeq
    <2>4. v = Changed(t, o, "ACTIVE", <<>>)
      BY <2>1, <2>2, <2>3 DEF Clients, Changed
    <2>5. u = TelnetEnds!Activate(v, o)
      BY <1>4, <2>1 DEF TelnetEnds!OnAck
    <2> QED BY <1>2, <1>3, <1>4, <2>3, <2>4, <2>5
  <1>5. CASE t.opt[o] = "INACTIVE"
    <2>1. PICK x : x = TelnetEnds!Put(t, o, "ACTIVE")
      OBVIOUS
    <2>2. x \in Clients /\ x.out = t.out
      <3>1. t \in Clients /\ "ACTIVE" \in OptStates
        BY <1>0 DEF OptStates
      <3> QED BY <2>1, <3>1, PutIs
    <2>3. Append(t.out, Asks(o)) = t.out \o <<Asks(o)>>
      BY <1>0, <1>1, AppendIsConcat
    <2>4. PICK v : v = [x EXCEPT !.out = @ \o <<Asks(o)>>]
      OBVIOUS
    <2>5. v = [x EXCEPT !.out = Append(@, Asks(o))]
      BY <2>2, <2>3, <2>4 DEF Clients
    <2>6. u = TelnetEnds!Activate(v, o)
      BY <1>5, <2>1, <2>5, OptionSays DEF TelnetEnds!OnAck, TelnetEnds!SendOpt
    <2>7. Stand(o, "ACTIVE", s.peer[o], t.out \o <<Asks(o)>>, Tail(toks))
      BY <1>2, <1>5, <2>3
    <2>8. v = Changed(t, o, "ACTIVE", <<Asks(o)>>)
      BY <2>1, <2>4 DEF Changed
    <2> QED BY <1>3, <2>6, <2>7, <2>8
  <1>6. CASE t.opt[o] = "REALLY_INACTIVE"
    <2>1. u = [t EXCEPT !.out = Append(@, Drops(o))]
      BY <1>6, OptionSays DEF TelnetEnds!OnAck, TelnetEnds!SendOpt
    <2>2. /\ u \in Clients /\ Same(t, u) /\ u.out = Append(t.out, Drops(o)) /\ u.opt = t.opt
          /\ u.echoing = t.echoing /\ u.editing = t.editing /\ u.activated = t.activated
      BY <1>0, <1>1, <2>1, SendIs
    <2>3. Stood(u, s, Tail(toks))
      <3>1. Stood(t, s, toks) /\ Head(toks) \in Its(o)
        BY <1>1 DEF Talk
      <3>2. Stand(o, u.opt[o], s.peer[o], u.out, Tail(toks))
        BY <1>2, <1>6, <2>2
      <3>3. /\ \A q \in Options : q # o => u.opt[q] = t.opt[q]
            /\ u.activated = t.activated /\ u.opt[o] # "INACTIVE"
        BY <1>6, <2>2
      <3>4. u \in Clients /\ \E m \in Ours(o) : u.out = Append(t.out, m)
        BY <1>1, <2>2
      <3> QED BY <3>1, <3>2, <3>3, <3>4, Turn
    <2>4. Sized(u, s)
      <3>1. Sized(t, s) /\ u.size = t.size
        BY <2>2 DEF Talk, Same
      <3>2. TelnetEnds!Is(u, "NAWS", "ACTIVE") => TelnetEnds!Is(t, "NAWS", "ACTIVE")
        BY <2>2 DEF TelnetEnds!Is
      <3> QED BY <1>0, <1>1, <2>2, <3>1, <3>2, SizedTurn
    <2>5. Environs(u.opt, s.peer) /\ Echo(u.opt, u.echoing)
      BY <2>2 DEF Talk, Echo
    <2>6. u.activated
      BY <1>6, <2>2
    <2> QED BY <2>2, <2>3, <2>4, <2>5, <2>6 DEF Talk
  <1> QED BY <1>0, <1>2, <1>4, <1>5, <1>6 DEF OptStates

\* proc_rec_opt for a refusal.
LEMMA OnNakKeeps ==
    ASSUME NEW t, NEW s, NEW toks, Talk(t, s, toks), NEW o \in Options, toks # <<>>, Head(toks) = Denies(o),
           t.activated \/ t.opt[o] = "INACTIVE", NEW u, u = TelnetEnds!OnNak(t, o)
    PROVE  Talk(u, s, Tail(toks)) /\ Same(t, u) /\ u.activated
  <1>0. /\ t \in Clients /\ s \in Theres /\ toks \in Seq(Tokens) /\ t.out \in Seq(OutMessages)
        /\ Environs(t.opt, s.peer) /\ t.opt[o] \in OptStates /\ Stand(o, t.opt[o], s.peer[o], t.out, toks)
    BY DEF Talk, Stood, Clients
  <1>1. /\ Drops(o) \in Ours(o) /\ Denies(o) \in Its(o) /\ Drops(o) \in OutMessages
    BY OptionSays
  <1>2. /\ t.opt[o] = "REQUESTED" =>
              Stand(o, "INACTIVE", s.peer[o], t.out, Tail(toks)) /\ s.peer[o] # "asked off"
        /\ t.opt[o] = "ACTIVE" => Stand(o, "INACTIVE", s.peer[o], Append(t.out, Drops(o)), Tail(toks))
        /\ t.opt[o] # "INACTIVE"
        /\ t.opt[o] = "REALLY_INACTIVE" => Stand(o, "REALLY_INACTIVE", s.peer[o], t.out, Tail(toks))
    <2>1. PICK st, has : st = t.opt[o] /\ has = s.peer[o]
      OBVIOUS
    <2>2. Stand(o, st, has, t.out, toks) /\ t.out \in Seq(OutMessages) /\ toks \in Seq(Tokens)
      BY <1>0, <2>1
    <2>3. /\ st = "REQUESTED" => Stand(o, "INACTIVE", has, t.out, Tail(toks)) /\ has # "asked off"
          /\ st = "ACTIVE" => Stand(o, "INACTIVE", has, Append(t.out, Drops(o)), Tail(toks))
          /\ st # "INACTIVE"
          /\ st = "REALLY_INACTIVE" => Stand(o, st, has, t.out, Tail(toks))
      BY <1>1, <2>2, StandDenied
    <2> QED BY <2>1, <2>3
  <1>3. "INACTIVE" \in OptStates /\ t.activated
    BY <1>2 DEF OptStates
  <1>4. CASE t.opt[o] = "REQUESTED"
    <2>1. PICK v : v = TelnetEnds!Put(t, o, "INACTIVE")
      OBVIOUS
    <2>2. v \in Clients /\ v.out = t.out
      BY <1>0, <1>3, <2>1, PutIs
    <2>3. t.out \o <<>> = t.out
      BY <1>0, ConcatEmptySeq
    <2>4. v = Changed(t, o, "INACTIVE", <<>>)
      BY <2>1, <2>2, <2>3 DEF Clients, Changed
    <2>5. u = TelnetEnds!Refused(v, o)
      BY <1>4, <2>1 DEF TelnetEnds!OnNak
    <2>6. Stand(o, "INACTIVE", s.peer[o], t.out \o <<>>, Tail(toks))
      BY <1>2, <1>4, <2>3
    <2>7. /\ Stood(v, s, Tail(toks)) /\ Same(t, v) /\ v.opt[o] = "INACTIVE" /\ v.echoing = t.echoing
          /\ v.activated = t.activated /\ \A q \in Options : q # o => v.opt[q] = t.opt[q]
          /\ o # "NAWS" \/ "INACTIVE" # "ACTIVE" \/ t.opt[o] = "ACTIVE" => Sized(v, s)
          /\ o # "ECHO" => Echo(v.opt, v.echoing)
      <3>1. t.activated = TRUE
        BY <1>0, <1>3 DEF Clients
      <3>2. PICK says, st : says = <<>> /\ st = "INACTIVE" /\ st \in OptStates
        BY <1>3
      <3>3. /\ v = Changed(t, o, st, says) /\ Stand(o, st, s.peer[o], t.out \o says, Tail(toks))
            /\ says = <<>> \/ \E m \in Ours(o) : says = <<m>>
            /\ t.activated \/ st # "INACTIVE" \/ t.opt[o] = "INACTIVE"
            /\ st \in OptStates
        BY <2>4, <2>6, <3>1, <3>2
      <3>4. /\ Stood(v, s, Tail(toks)) /\ Same(t, v) /\ v.opt[o] = st /\ v.echoing = t.echoing
            /\ v.activated = t.activated /\ \A q \in Options : q # o => v.opt[q] = t.opt[q]
            /\ o # "NAWS" \/ st # "ACTIVE" \/ t.opt[o] = "ACTIVE" => Sized(v, s)
            /\ o # "ECHO" => Echo(v.opt, v.echoing)
        BY <1>1, <3>3, Changes
      <3> QED BY <3>2, <3>4
    <2>8. Environs(v.opt, s.peer)
      BY <1>0, <1>2, <1>4, <2>7 DEF Environs
    <2>9. Talk(u, s, Tail(toks)) /\ Same(v, u) /\ u.activated
      BY <2>5, <2>7, <2>8, RefusedKeeps
    <2> QED BY <2>7, <2>9 DEF Same
  <1>5. CASE t.opt[o] = "ACTIVE"
    <2>1. PICK x : x = TelnetEnds!Put(t, o, "INACTIVE")
      OBVIOUS
    <2>2. x \in Clients /\ x.out = t.out
      BY <1>0, <1>3, <2>1, PutIs
    <2>3. Append(t.out, Drops(o)) = t.out \o <<Drops(o)>>
      BY <1>0, <1>1, AppendIsConcat
    <2>4. PICK v : v = [x EXCEPT !.out = @ \o <<Drops(o)>>]
      OBVIOUS
    <2>5. v = [x EXCEPT !.out = Append(@, Drops(o))]
      BY <2>2, <2>3, <2>4 DEF Clients
    <2>6. u = TelnetEnds!SideEffects(v, o, FALSE)
      BY <1>5, <2>1, <2>5, OptionSays DEF TelnetEnds!OnNak, TelnetEnds!SendOpt
    <2>7. Stand(o, "INACTIVE", s.peer[o], t.out \o <<Drops(o)>>, Tail(toks))
      BY <1>2, <1>5, <2>3
    <2>8. v = Changed(t, o, "INACTIVE", <<Drops(o)>>)
      BY <2>1, <2>4 DEF Changed
    <2>9. /\ Stood(v, s, Tail(toks)) /\ Same(t, v) /\ v.opt[o] = "INACTIVE" /\ v.echoing = t.echoing
          /\ v.activated = t.activated /\ \A q \in Options : q # o => v.opt[q] = t.opt[q]
          /\ o # "NAWS" \/ "INACTIVE" # "ACTIVE" \/ t.opt[o] = "ACTIVE" => Sized(v, s)
          /\ o # "ECHO" => Echo(v.opt, v.echoing)
      <3>1. <<Drops(o)>> = <<>> \/ \E m \in Ours(o) : <<Drops(o)>> = <<m>>
        BY <1>1
      <3>2. PICK says, st : says = <<Drops(o)>> /\ st = "INACTIVE" /\ st \in OptStates
        BY <1>3
      <3>3. /\ v = Changed(t, o, st, says) /\ Stand(o, st, s.peer[o], t.out \o says, Tail(toks))
            /\ says = <<>> \/ \E m \in Ours(o) : says = <<m>>
            /\ t.activated \/ st # "INACTIVE" \/ t.opt[o] = "INACTIVE"
        BY <1>3, <2>7, <2>8, <3>1, <3>2
      <3>4. /\ Stood(v, s, Tail(toks)) /\ Same(t, v) /\ v.opt[o] = st /\ v.echoing = t.echoing
            /\ v.activated = t.activated /\ \A q \in Options : q # o => v.opt[q] = t.opt[q]
            /\ o # "NAWS" \/ st # "ACTIVE" \/ t.opt[o] = "ACTIVE" => Sized(v, s)
            /\ o # "ECHO" => Echo(v.opt, v.echoing)
        BY <1>1, <3>2, <3>3, Changes
      <3> QED BY <3>2, <3>4
    <2>10. Environs(v.opt, s.peer)
      BY <1>0, <1>5, <2>9 DEF Environs
    <2>11. Echo(v.opt, IF o = "ECHO" THEN ~FALSE ELSE v.echoing)
      BY <2>9 DEF Echo
    <2>12. Sized(v, s)
      BY <2>9
    <2>13. Talk(u, s, Tail(toks)) /\ Same(v, u) /\ u.activated
      BY <2>6, <2>9, <2>10, <2>11, <2>12, SideEffectsKeep
    <2> QED BY <2>9, <2>13 DEF Same
  <1>6. CASE t.opt[o] = "REALLY_INACTIVE"
    <2>1. u = t
      BY <1>6 DEF TelnetEnds!OnNak
    <2>2. Stood(t, s, Tail(toks))
      <3>1. Stood(t, s, toks) /\ Head(toks) \in Its(o)
        BY <1>1 DEF Talk
      <3>2. Stand(o, t.opt[o], s.peer[o], t.out, Tail(toks))
        BY <1>2, <1>6
      <3> QED BY <1>0, <1>6, <3>1, <3>2, Turn
    <2> QED BY <1>3, <2>1, <2>2 DEF Talk, Same
  <1> QED BY <1>0, <1>2, <1>4, <1>5, <1>6 DEF OptStates

\* proc_rec_opt finds the option that is meant.
LEMMA ProcRecOptKeeps ==
    ASSUME NEW t, NEW s, NEW toks, Talk(t, s, toks), NEW o \in Options, toks # <<>>, Head(toks) \in Its(o),
           ~t.activated => Passive(t.opt, s.peer), NEW cmd, NEW code, Head(toks) = <<"IAC", cmd, code>>,
           NEW u, u = TelnetEnds!ProcRecOpt(t, cmd, code)
    PROVE  Talk(u, s, Tail(toks)) /\ Same(t, u) /\ u.activated
  <1>1. t.activated \/ t.opt[o] = "INACTIVE"
    BY DEF Passive
  <1>2. code = TelnetEnds!Code(o) /\ cmd \in {TelnetEnds!Ack(o), TelnetEnds!Nak(o)}
    BY OptionSays DEF Its
  <1>3. ASSUME NEW q \in Options, TelnetEnds!Code(q) = code, cmd \in {TelnetEnds!Ack(q), TelnetEnds!Nak(q)}
        PROVE  q = o
    <2>1. o \in TelnetEnds!Theirs <=> q \in TelnetEnds!Theirs
      BY <1>2, <1>3, Sides
    <2> QED BY <1>2, <1>3, <2>1, OptionOf, TelnetAssumption
  <1>4. u = IF cmd = TelnetEnds!Ack(o) THEN TelnetEnds!OnAck(t, o) ELSE TelnetEnds!OnNak(t, o)
    BY <1>2, <1>3 DEF TelnetEnds!ProcRecOpt
  <1>5. CASE cmd = TelnetEnds!Ack(o)
    <2>1. Head(toks) = Agrees(o)
      BY <1>2, <1>5, OptionSays
    <2> QED BY <1>1, <1>4, <1>5, <2>1, OnAckKeeps
  <1>6. CASE cmd # TelnetEnds!Ack(o)
    <2>1. Head(toks) = Denies(o)
      BY <1>2, <1>6, OptionSays
    <2> QED BY <1>1, <1>4, <1>6, <2>1, OnNakKeeps
  <1> QED BY <1>5, <1>6

-----------------------------------------------------------------------------
(* The client reads a byte.                                                  *)

\* What is not of the negotiation changes nothing of it.
LEMMA Alike ==
    ASSUME NEW t, NEW s, NEW toks, Talk(t, s, toks), ~t.activated => Passive(t.opt, s.peer), NEW u \in Clients,
           u.opt = t.opt, u.out = t.out, u.echoing = t.echoing, u.activated = t.activated, u.size = t.size
    PROVE  Talk(u, s, toks) /\ (~u.activated => Passive(u.opt, s.peer))
  <1>1. Stood(u, s, toks)
    BY DEF Talk, Stood
  <1>2. Sized(u, s)
    BY DEF Talk, Sized, TelnetEnds!Is
  <1>3. Environs(u.opt, s.peer) /\ Echo(u.opt, u.echoing)
    BY DEF Talk
  <1> QED BY <1>1, <1>2, <1>3 DEF Talk

LEMMA Passed ==
    ASSUME NEW t, NEW s, NEW toks, Talk(t, s, toks), toks # <<>>, Head(toks) \in Texts \cup {Query}
    PROVE  Talk(t, s, Tail(toks))
  <1>1. toks \in Seq(Tokens) /\ t.out \in Seq(OutMessages)
    BY DEF Talk, Stood, Clients
  <1>2. \A o \in Options : Stand(o, t.opt[o], s.peer[o], t.out, Tail(toks))
    <2> SUFFICES ASSUME NEW o \in Options PROVE Stand(o, t.opt[o], s.peer[o], t.out, Tail(toks))
      OBVIOUS
    <2>1. PICK st, has : st = t.opt[o] /\ has = s.peer[o]
      OBVIOUS
    <2>2. Stand(o, st, has, t.out, toks)
      BY <2>1 DEF Talk, Stood
    <2>3. Head(toks) \notin Its(o)
      BY TokenKinds
    <2>4. Stand(o, st, has, t.out, Tail(toks))
      BY <1>1, <2>2, <2>3, StandKept
    <2> QED BY <2>1, <2>4
  <1>3. Tail(toks) \in Seq(Tokens)
    BY <1>1, Tailed
  <1>4. Stood(t, s, Tail(toks))
    BY <1>2, <1>3 DEF Talk, Stood
  <1> QED BY <1>4 DEF Talk

\* The text that is shown, and what is left of it on the way.
LEMMA ShownOn ==
    ASSUME NEW shown, NEW s, NEW toks, NEW cut, NEW cut2, TextShown(shown, s, toks, cut),
           Skip(toks, cut2) = Skip(toks, cut)
    PROVE  TextShown(shown, s, toks, cut2)
  BY DEF TextShown

LEMMA ShownPassed ==
    ASSUME NEW shown, NEW s, NEW toks \in Seq(Tokens), NEW cut, TextShown(shown, s, toks, cut),
           toks # <<>>, Head(toks) \notin Texts, Skip(toks, cut) = 0
    PROVE  TextShown(shown, s, Tail(toks), 0)
  <1>1. PICK w \in Seq(Texts) :
        /\ Only(toks, Texts, w)
        /\ Skip(toks, cut) <= Len(w) /\ Len(s.wrote) + Skip(toks, cut) = Len(shown) + Len(w)
        /\ \A i \in 1 .. Len(shown) : s.wrote[i] = shown[i]
        /\ \A i \in 1 .. Len(s.wrote) - Len(shown) : s.wrote[Len(shown) + i] = w[i + Skip(toks, cut)][1]
    BY DEF TextShown
  <1>2. Only(Tail(toks), Texts, w)
    BY <1>1, OnlyTailed
  <1>3. Skip(Tail(toks), 0) = 0
    BY DEF Skip
  <1> QED BY <1>1, <1>2, <1>3 DEF TextShown

\* A character that is shown: the rest of its message is skipped, or is read already.
LEMMA ShownMore ==
    ASSUME NEW shown \in Seq(Shown), NEW s \in Theres, NEW toks \in Seq(Tokens), TextShown(shown, s, toks, 0),
           toks # <<>>, Head(toks) \in Texts, NEW c \in Shown, c = Head(toks)[1]
    PROVE  /\ Head(toks) # <<"CR", "NUL">> => TextShown(Append(shown, c), s, Tail(toks), 0)
           /\ Head(toks) = <<"CR", "NUL">> => TextShown(Append(shown, c), s, toks, 1)
  <1>0. /\ Skip(toks, 0) = 0 /\ Skip(Tail(toks), 0) = 0 /\ Head(toks) = toks[1]
        /\ Head(toks) = <<"CR", "NUL">> => Skip(toks, 1) = 1
    BY Tailed DEF Skip
  <1>1. PICK w \in Seq(Texts) :
        /\ Only(toks, Texts, w)
        /\ Skip(toks, 0) <= Len(w) /\ Len(s.wrote) + Skip(toks, 0) = Len(shown) + Len(w)
        /\ \A i \in 1 .. Len(shown) : s.wrote[i] = shown[i]
        /\ \A i \in 1 .. Len(s.wrote) - Len(shown) : s.wrote[Len(shown) + i] = w[i + Skip(toks, 0)][1]
    BY DEF TextShown
  <1>2. w # <<>> /\ Head(w) = Head(toks) /\ Tail(w) \in Seq(Texts) /\ Only(Tail(toks), Texts, Tail(w))
    BY <1>1, OnlyTailed
  <1> DEFINE rest == Tail(w)
             more == Append(shown, c)
  <1>3. /\ rest \in Seq(Texts) /\ Len(rest) = Len(w) - 1 /\ Len(w) \in Nat /\ Len(w) >= 1
        /\ \A i \in 1 .. Len(w) - 1 : rest[i] = w[i + 1]
        /\ w[1] = Head(w)
    BY <1>2, Tailed
  <1>4. /\ more \in Seq(Shown) /\ Len(more) = Len(shown) + 1 /\ Len(shown) \in Nat
        /\ \A i \in 1 .. Len(shown) : more[i] = shown[i]
        /\ more[Len(shown) + 1] = c
    BY Appended
  <1>5. Len(s.wrote) \in Nat
    BY LenProperties DEF Theres
  <1>6. Only(Tail(toks), Texts, rest)
    BY <1>2
  <1> HIDE DEF rest, more
  <1>7. Len(s.wrote) = Len(shown) + Len(w)
    BY <1>0, <1>1, <1>3, <1>4, <1>5
  <1>8. \A i \in 1 .. Len(more) : s.wrote[i] = more[i]
    <2> SUFFICES ASSUME NEW i \in 1 .. Len(more) PROVE s.wrote[i] = more[i]
      OBVIOUS
    <2>1. CASE i = Len(shown) + 1
      <3>1. 1 \in 1 .. Len(s.wrote) - Len(shown)
        BY <1>3, <1>4, <1>7
      <3>2. s.wrote[Len(shown) + 1] = w[1 + Skip(toks, 0)][1]
        BY <3>1, <1>1
      <3>3. 1 + Skip(toks, 0) = 1
        BY <1>0
      <3> QED BY <2>1, <3>2, <3>3, <1>2, <1>3, <1>4
    <2>2. CASE i # Len(shown) + 1
      <3>1. i \in 1 .. Len(shown)
        BY <2>2, <1>4
      <3> QED BY <3>1, <1>1, <1>4
    <2> QED BY <2>1, <2>2
  <1>9. \A i \in 1 .. Len(s.wrote) - Len(more) :
            /\ s.wrote[Len(more) + i] = rest[i][1] /\ rest[i] = w[i + 1]
    <2> SUFFICES ASSUME NEW i \in 1 .. Len(s.wrote) - Len(more)
                 PROVE s.wrote[Len(more) + i] = rest[i][1] /\ rest[i] = w[i + 1]
      OBVIOUS
    <2>1. i \in Nat /\ i >= 1 /\ i <= Len(w) - 1 /\ Len(more) + i = Len(shown) + (i + 1)
      BY <1>3, <1>4, <1>7
    <2>2. i + 1 \in 1 .. Len(s.wrote) - Len(shown) /\ i \in 1 .. Len(w) - 1 /\ i + 1 + Skip(toks, 0) = i + 1
      BY <2>1, <1>0, <1>3, <1>4, <1>7
    <2>3. s.wrote[Len(shown) + (i + 1)] = w[i + 1 + Skip(toks, 0)][1]
      BY <2>2, <1>1
    <2> QED BY <2>1, <2>2, <2>3, <1>3
  <1>10. TextShown(more, s, Tail(toks), 0)
    <2>1. Skip(Tail(toks), 0) <= Len(rest) /\ Len(s.wrote) + Skip(Tail(toks), 0) = Len(more) + Len(rest)
      BY <1>0, <1>3, <1>4, <1>7
    <2>2. \A i \in 1 .. Len(s.wrote) - Len(more) : i + Skip(Tail(toks), 0) = i
      BY <1>0, <1>4, <1>5
    <2>3. \A i \in 1 .. Len(s.wrote) - Len(more) : s.wrote[Len(more) + i] = rest[i + Skip(Tail(toks), 0)][1]
      BY <1>9, <2>2
    <2> QED BY <1>3, <1>6, <1>8, <2>1, <2>3 DEF TextShown
  <1>11. ASSUME Head(toks) = <<"CR", "NUL">> PROVE TextShown(more, s, toks, 1)
    <2>1. Skip(toks, 1) <= Len(w) /\ Len(s.wrote) + Skip(toks, 1) = Len(more) + Len(w)
      BY <1>0, <1>3, <1>4, <1>7, <1>11
    <2>2. \A i \in 1 .. Len(s.wrote) - Len(more) : i + Skip(toks, 1) = i + 1
      BY <1>0, <1>4, <1>5, <1>11
    <2>3. \A i \in 1 .. Len(s.wrote) - Len(more) : s.wrote[Len(more) + i] = w[i + Skip(toks, 1)][1]
      <3> SUFFICES ASSUME NEW i \in 1 .. Len(s.wrote) - Len(more)
                   PROVE s.wrote[Len(more) + i] = w[i + Skip(toks, 1)][1]
        OBVIOUS
      <3>1. s.wrote[Len(more) + i] = rest[i][1] /\ rest[i] = w[i + 1]
        BY <1>9
      <3>2. i + Skip(toks, 1) = i + 1
        BY <2>2
      <3>3. w[i + Skip(toks, 1)] = w[i + 1]
        BY <3>2
      <3> QED BY <3>1, <3>3
    <2> QED BY <1>1, <1>8, <2>1, <2>3 DEF TextShown
  <1> QED BY <1>10, <1>11 DEF more

\* The NUL after a CR.
LEMMA ShownEnd ==
    ASSUME NEW shown \in Seq(Shown), NEW s \in Theres, NEW toks \in Seq(Tokens), TextShown(shown, s, toks, 1),
           toks # <<>>, Head(toks) = <<"CR", "NUL">>
    PROVE  TextShown(shown, s, Tail(toks), 0)
  <1>0. Skip(toks, 1) = 1 /\ Skip(Tail(toks), 0) = 0
    BY Tailed DEF Skip
  <1>1. PICK w \in Seq(Texts) :
        /\ Only(toks, Texts, w)
        /\ Skip(toks, 1) <= Len(w) /\ Len(s.wrote) + Skip(toks, 1) = Len(shown) + Len(w)
        /\ \A i \in 1 .. Len(shown) : s.wrote[i] = shown[i]
        /\ \A i \in 1 .. Len(s.wrote) - Len(shown) : s.wrote[Len(shown) + i] = w[i + Skip(toks, 1)][1]
    BY DEF TextShown
  <1>2. w # <<>> /\ Tail(w) \in Seq(Texts) /\ Only(Tail(toks), Texts, Tail(w))
    <2>1. Head(toks) \in Texts
      BY DEF Texts
    <2> QED BY <1>1, <2>1, OnlyTailed
  <1> DEFINE rest == Tail(w)
  <1>3. /\ rest \in Seq(Texts) /\ Len(rest) = Len(w) - 1 /\ Len(w) \in Nat /\ Len(w) >= 1
        /\ \A i \in 1 .. Len(w) - 1 : rest[i] = w[i + 1]
        /\ Only(Tail(toks), Texts, rest)
    BY <1>2, Tailed
  <1> HIDE DEF rest
  <1>4. Len(s.wrote) \in Nat /\ Len(shown) \in Nat
    BY LenProperties DEF Theres
  <1>5. Len(s.wrote) = Len(shown) + Len(rest) /\ Len(rest) \in Nat
    BY <1>0, <1>1, <1>3, <1>4
  <1>6. \A i \in 1 .. Len(s.wrote) - Len(shown) : s.wrote[Len(shown) + i] = rest[i + Skip(Tail(toks), 0)][1]
    <2> SUFFICES ASSUME NEW i \in 1 .. Len(s.wrote) - Len(shown)
                 PROVE s.wrote[Len(shown) + i] = rest[i + Skip(Tail(toks), 0)][1]
      OBVIOUS
    <2>1. i \in 1 .. Len(w) - 1 /\ i + Skip(Tail(toks), 0) = i /\ i + Skip(toks, 1) = i + 1
      BY <1>0, <1>3, <1>4, <1>5
    <2>2. s.wrote[Len(shown) + i] = w[i + Skip(toks, 1)][1]
      BY <1>1
    <2>3. rest[i] = w[i + 1]
      BY <2>1, <1>3
    <2> QED BY <2>1, <2>2, <2>3
  <1>7. Skip(Tail(toks), 0) <= Len(rest) /\ Len(s.wrote) + Skip(Tail(toks), 0) = Len(shown) + Len(rest)
    BY <1>0, <1>4, <1>5
  <1> QED BY <1>1, <1>3, <1>6, <1>7 DEF TextShown

\* do_telnet_read, by the state it is in.
LEMMA ByteAtTop ==
    ASSUME NEW t \in Clients
    PROVE  /\ t.state = "TOP_LEVEL" => /\ TelnetEnds!Byte(t, "x") = Wrote(t, "x", "TOP_LEVEL")
                                       /\ TelnetEnds!Byte(t, "CR") = Wrote(t, "CR", "SEENCR")
                                       /\ TelnetEnds!Byte(t, "IAC") = Entered(t, "SEENIAC")
           /\ t.state = "SEENCR" => TelnetEnds!Byte(t, "NUL") = Entered(t, "TOP_LEVEL")
  <1>1. ~TelnetEnds!Is(t, "THEY_BIN", "ACTIVE")
    BY TelnetAssumption DEF TelnetEnds!Is
  <1>2. t.state = "TOP_LEVEL" => TelnetEnds!Byte(t, "x") = Wrote(t, "x", "TOP_LEVEL")
    BY DEF TelnetEnds!Byte, Wrote
  <1>3. t.state = "TOP_LEVEL" => TelnetEnds!Byte(t, "CR") = Wrote(t, "CR", "SEENCR")
    BY <1>1 DEF TelnetEnds!Byte, Wrote
  <1>4. t.state = "TOP_LEVEL" => TelnetEnds!Byte(t, "IAC") = Entered(t, "SEENIAC")
    BY DEF TelnetEnds!Byte, Entered
  <1>5. t.state = "SEENCR" => TelnetEnds!Byte(t, "NUL") = Entered(t, "TOP_LEVEL")
    BY DEF TelnetEnds!Byte, Entered
  <1> QED BY <1>2, <1>3, <1>4, <1>5

LEMMA ByteInside ==
    ASSUME NEW t \in Clients
    PROVE  /\ t.state = "SEENIAC" => /\ \A c \in Commands \cup {"SB"} : TelnetEnds!Byte(t, c) = Entered(t, c)
                                     /\ TelnetEnds!Byte(t, "IAC") = Wrote(t, "IAC", "TOP_LEVEL")
           /\ t.state \in Commands =>
                 \A c : TelnetEnds!Byte(t, c) = Entered(TelnetEnds!ProcRecOpt(t, t.state, c), "TOP_LEVEL")
           /\ t.state = "SB" =>
                 TelnetEnds!Byte(t, "TTYPE") = [t EXCEPT !.sbOpt = "TTYPE", !.sb = <<>>, !.state = "SUBNEGOT"]
           /\ t.state = "SUBNEGOT" =>
                 /\ TelnetEnds!Byte(t, "SEND") = [t EXCEPT !.sb = Append(@, "SEND"), !.state = "SUBNEGOT"]
                 /\ TelnetEnds!Byte(t, "IAC") = Entered(t, "SUBNEG_IAC")
           /\ t.state = "SUBNEG_IAC" =>
                 TelnetEnds!Byte(t, "SE") = Entered(TelnetEnds!ProcessSubneg(t), "TOP_LEVEL")
  <1>1. t.state = "SEENIAC" => /\ \A c \in Commands \cup {"SB"} : TelnetEnds!Byte(t, c) = Entered(t, c)
                               /\ TelnetEnds!Byte(t, "IAC") = Wrote(t, "IAC", "TOP_LEVEL")
    BY DEF TelnetEnds!Byte, Entered, Wrote, Commands
  <1>2. t.state \in Commands =>
            \A c : TelnetEnds!Byte(t, c) = Entered(TelnetEnds!ProcRecOpt(t, t.state, c), "TOP_LEVEL")
    BY DEF TelnetEnds!Byte, Entered, Commands
  <1>3. t.state = "SB" =>
            TelnetEnds!Byte(t, "TTYPE") = [t EXCEPT !.sbOpt = "TTYPE", !.sb = <<>>, !.state = "SUBNEGOT"]
    BY DEF TelnetEnds!Byte
  <1>4. t.state = "SUBNEGOT" =>
            /\ TelnetEnds!Byte(t, "SEND") = [t EXCEPT !.sb = Append(@, "SEND"), !.state = "SUBNEGOT"]
            /\ TelnetEnds!Byte(t, "IAC") = Entered(t, "SUBNEG_IAC")
    BY DEF TelnetEnds!Byte, Entered
  <1>5. t.state = "SUBNEG_IAC" =>
            TelnetEnds!Byte(t, "SE") = Entered(TelnetEnds!ProcessSubneg(t), "TOP_LEVEL")
    BY DEF TelnetEnds!Byte, Entered
  <1> QED BY <1>1, <1>2, <1>3, <1>4, <1>5

LEMMA EnteredIs ==
    ASSUME NEW t \in Clients, NEW x \in ReadStates
    PROVE  /\ StateOnly(t, Entered(t, x), x)
           /\ \A u : u = [t EXCEPT !.sbOpt = "TTYPE", !.sb = <<>>, !.state = "SUBNEGOT"] => StateOnly(t, u, "SUBNEGOT")
           /\ \A u : u = [t EXCEPT !.sb = Append(@, "SEND"), !.state = "SUBNEGOT"] => StateOnly(t, u, "SUBNEGOT")
  <1>1. StateOnly(t, Entered(t, x), x)
    BY DEF StateOnly, Entered, Clients
  <1>2. "SUBNEGOT" \in ReadStates /\ "TTYPE" \in ByteNames /\ "SEND" \in ByteNames /\ <<>> \in Seq(ByteNames)
    BY DEF ReadStates, ByteNames, Codes
  <1>3. ASSUME NEW u, u = [t EXCEPT !.sbOpt = "TTYPE", !.sb = <<>>, !.state = "SUBNEGOT"]
        PROVE  StateOnly(t, u, "SUBNEGOT")
    BY <1>2, <1>3 DEF StateOnly, Clients
  <1>4. ASSUME NEW u, u = [t EXCEPT !.sb = Append(@, "SEND"), !.state = "SUBNEGOT"]
        PROVE  StateOnly(t, u, "SUBNEGOT")
    <2>1. t.sb \in Seq(ByteNames)
      BY DEF Clients
    <2>2. Append(t.sb, "SEND") \in Seq(ByteNames)
      BY <1>2, <2>1, AppendProperties
    <2> QED BY <1>2, <1>4, <2>2 DEF StateOnly, Clients
  <1> QED BY <1>1, <1>3, <1>4

LEMMA WroteIs ==
    ASSUME NEW t \in Clients, NEW c \in Shown, NEW x \in ReadStates, NEW u, u = Wrote(t, c, x)
    PROVE  /\ u \in Clients /\ u.opt = t.opt /\ u.out = t.out /\ u.echoing = t.echoing /\ u.activated = t.activated
           /\ u.size = t.size /\ u.text = Append(t.text, c) /\ u.backlog = t.backlog + 1
           /\ u.frozen = (t.backlog + 1 > Backlog) /\ u.state = x
  <1>1. t.text \in Seq(Shown) /\ t.backlog \in Nat
    BY DEF Clients
  <1>2. Append(t.text, c) \in Seq(Shown) /\ t.backlog + 1 \in Nat /\ (t.backlog + 1 > Backlog) \in BOOLEAN
    BY <1>1, AppendProperties
  <1> QED BY <1>2 DEF Wrote, TelnetEnds!CWrite, Clients

\* A byte inside a message; the end of one that is not shown; and a byte that is.
LEMMA MidstOn ==
    ASSUME NEW t, NEW s, NEW toks, NEW cut, NEW cut2, NEW u, NEW x, Midst(t, s, toks, cut), StateOnly(t, u, x),
           Parsing(x, toks, cut2), Skip(toks, cut2) = Skip(toks, cut)
    PROVE  Midst(u, s, toks, cut2)
  <1>1. Talk(t, s, toks) /\ (~t.activated => Passive(t.opt, s.peer)) /\ Reading(t, s, toks, cut)
    BY DEF Midst
  <1>2. /\ u \in Clients /\ u.opt = t.opt /\ u.out = t.out /\ u.echoing = t.echoing /\ u.activated = t.activated
        /\ u.size = t.size /\ u.text = t.text /\ u.backlog = t.backlog /\ u.frozen = t.frozen /\ u.state = x
    BY DEF StateOnly
  <1>3. Talk(u, s, toks) /\ (~u.activated => Passive(u.opt, s.peer))
    BY <1>1, <1>2, Alike
  <1>4. TextShown(u.text, s, toks, cut2)
    BY <1>1, <1>2, ShownOn DEF Reading
  <1>5. Reading(u, s, toks, cut2)
    BY <1>1, <1>2, <1>4 DEF Reading
  <1> QED BY <1>3, <1>5 DEF Midst

LEMMA MidstPassed ==
    ASSUME NEW t, NEW s, NEW toks, NEW cut, NEW u, Midst(t, s, toks, cut), StateOnly(t, u, "TOP_LEVEL"),
           toks # <<>>,
           \/ Head(toks) = Query
           \/ Head(toks) = <<"CR", "NUL">> /\ cut = 1
    PROVE  Midst(u, s, Tail(toks), 0)
  <1>1. /\ Talk(t, s, toks) /\ (~t.activated => Passive(t.opt, s.peer)) /\ Reading(t, s, toks, cut)
        /\ t \in Clients /\ s \in Theres /\ toks \in Seq(Tokens) /\ t.text \in Seq(Shown)
    BY DEF Midst, Talk, Stood, Clients
  <1>2. /\ u \in Clients /\ u.opt = t.opt /\ u.out = t.out /\ u.echoing = t.echoing /\ u.activated = t.activated
        /\ u.size = t.size /\ u.text = t.text /\ u.backlog = t.backlog /\ u.frozen = t.frozen /\ u.state = "TOP_LEVEL"
    BY DEF StateOnly
  <1>3. Talk(t, s, Tail(toks))
    BY <1>1, Passed DEF Texts
  <1>4. Talk(u, s, Tail(toks)) /\ (~u.activated => Passive(u.opt, s.peer))
    BY <1>1, <1>2, <1>3, Alike
  <1>5. TextShown(t.text, s, Tail(toks), 0)
    <2>0. TextShown(t.text, s, toks, cut)
      BY <1>1 DEF Reading
    <2>1. CASE Head(toks) = Query
      <3>1. Head(toks) = toks[1] /\ Query # <<"CR", "NUL">>
        BY <1>1, Tailed DEF Query
      <3>2. Skip(toks, cut) = 0
        BY <2>1, <3>1 DEF Skip
      <3> QED BY <1>1, <2>0, <2>1, <3>2, TokenKinds, ShownPassed
    <2>2. CASE Head(toks) = <<"CR", "NUL">> /\ cut = 1
      BY <1>1, <2>0, <2>2, ShownEnd
    <2> QED BY <2>1, <2>2
  <1>6. Reading(u, s, Tail(toks), 0)
    BY <1>1, <1>2, <1>5 DEF Reading, Parsing
  <1> QED BY <1>4, <1>6 DEF Midst

LEMMA MidstShows ==
    ASSUME NEW t, NEW s, NEW toks, NEW cut, NEW u, Midst(t, s, toks, cut), toks # <<>>, Head(toks) \in Texts,
           cut = 0 \/ Head(toks) # <<"CR", "NUL">>, NEW c \in Shown, c = Head(toks)[1]
    PROVE  /\ Head(toks) # <<"CR", "NUL">> /\ u = Wrote(t, c, "TOP_LEVEL") => Midst(u, s, Tail(toks), 0)
           /\ Head(toks) = <<"CR", "NUL">> /\ u = Wrote(t, c, "SEENCR") => Midst(u, s, toks, 1)
  <1>1. /\ Talk(t, s, toks) /\ (~t.activated => Passive(t.opt, s.peer)) /\ Reading(t, s, toks, cut)
        /\ t \in Clients /\ s \in Theres /\ toks \in Seq(Tokens) /\ t.text \in Seq(Shown) /\ t.backlog \in Nat
    BY DEF Midst, Talk, Stood, Clients
  <1>2. Head(toks) = toks[1]
    BY <1>1, Tailed
  <1>3. TextShown(t.text, s, toks, 0)
    <2>1. TextShown(t.text, s, toks, cut) /\ Skip(toks, cut) = Skip(toks, 0)
      BY <1>1, <1>2 DEF Reading, Skip
    <2> QED BY <2>1, ShownOn
  <1>4. /\ Head(toks) # <<"CR", "NUL">> => TextShown(Append(t.text, c), s, Tail(toks), 0)
        /\ Head(toks) = <<"CR", "NUL">> => TextShown(Append(t.text, c), s, toks, 1)
    BY <1>1, <1>3, ShownMore
  <1>5. Len(Append(t.text, c)) = Len(t.text) + 1 /\ Len(t.text) \in Nat
    BY <1>1, Appended
  <1>6. ASSUME NEW x \in ReadStates, NEW rest, NEW at, u = Wrote(t, c, x), Talk(t, s, rest),
               TextShown(Append(t.text, c), s, rest, at), Parsing(x, rest, at)
        PROVE  Midst(u, s, rest, at)
    <2>1. /\ u \in Clients /\ u.opt = t.opt /\ u.out = t.out /\ u.echoing = t.echoing /\ u.activated = t.activated
          /\ u.size = t.size /\ u.text = Append(t.text, c) /\ u.backlog = t.backlog + 1
          /\ u.frozen = (t.backlog + 1 > Backlog) /\ u.state = x
      BY <1>1, <1>6, WroteIs
    <2>2. Talk(u, s, rest) /\ (~u.activated => Passive(u.opt, s.peer))
      BY <1>1, <1>6, <2>1, Alike
    <2>3. u.backlog <= Len(u.text)
      BY <1>1, <1>5, <2>1 DEF Reading
    <2>4. Reading(u, s, rest, at)
      BY <1>6, <2>1, <2>3 DEF Reading
    <2> QED BY <2>2, <2>4 DEF Midst
  <1>7. ASSUME Head(toks) # <<"CR", "NUL">>, u = Wrote(t, c, "TOP_LEVEL") PROVE Midst(u, s, Tail(toks), 0)
    <2>1. Talk(t, s, Tail(toks))
      BY <1>1, Passed
    <2>2. Parsing("TOP_LEVEL", Tail(toks), 0) /\ "TOP_LEVEL" \in ReadStates
      BY DEF Parsing, ReadStates
    <2> QED BY <1>4, <1>6, <1>7, <2>1, <2>2
  <1>8. ASSUME Head(toks) = <<"CR", "NUL">>, u = Wrote(t, c, "SEENCR") PROVE Midst(u, s, toks, 1)
    <2>1. Parsing("SEENCR", toks, 1) /\ "SEENCR" \in ReadStates
      BY <1>2, <1>8 DEF Parsing, ReadStates
    <2> QED BY <1>1, <1>4, <1>6, <1>8, <2>1
  <1> QED BY <1>7, <1>8

\* The answer to a question that a subnegotiation asked.
LEMMA AnswerKeeps ==
    ASSUME NEW t, NEW s, NEW toks, NEW cut, Midst(t, s, toks, cut), NEW u, u = TelnetEnds!ProcessSubneg(t)
    PROVE  Midst(u, s, toks, cut)
  <1>1. CASE u = t
    BY <1>1
  <1>2. CASE u # t
    <2>1. t.sbOpt \in {"TSPEED", "TTYPE", "OENV", "NENV"} /\ u = [t EXCEPT !.out = Append(@, <<"SB", t.sbOpt, "IS">>)]
      BY <1>2 DEF TelnetEnds!ProcessSubneg
    <2>2. t.sbOpt \in Codes \ {"NAWS"}
      BY <2>1 DEF Codes
    <2>3. PICK m : m = <<"SB", t.sbOpt, "IS">>
      OBVIOUS
    <2>4. m \in OutMessages /\ m \notin KeyMessages /\ m \notin SizeMessages /\ \A q : m \notin Ours(q)
      BY <2>2, <2>3, Kinds
    <2>5. /\ Talk(t, s, toks) /\ (~t.activated => Passive(t.opt, s.peer)) /\ Reading(t, s, toks, cut)
          /\ t \in Clients /\ s \in Theres /\ toks \in Seq(Tokens) /\ t.out \in Seq(OutMessages)
          /\ KeysTold(t.out, s) /\ Sized(t, s)
      BY DEF Midst, Talk, Stood, Clients
    <2>6. /\ u \in Clients /\ Same(t, u) /\ u.out = Append(t.out, m) /\ u.opt = t.opt
          /\ u.echoing = t.echoing /\ u.activated = t.activated
      <3>1. u = [t EXCEPT !.out = Append(@, m)]
        BY <2>1, <2>3
      <3> QED BY <2>4, <2>5, <3>1, SendIs
    <2>7. \A o \in Options : Stand(o, u.opt[o], s.peer[o], u.out, toks)
      <3> SUFFICES ASSUME NEW o \in Options PROVE Stand(o, u.opt[o], s.peer[o], u.out, toks)
        OBVIOUS
      <3>1. PICK st, has : st = t.opt[o] /\ has = s.peer[o]
        OBVIOUS
      <3>2. Stand(o, st, has, t.out, toks)
        BY <2>5, <3>1 DEF Talk, Stood
      <3>3. Stand(o, st, has, Append(t.out, m), toks)
        BY <2>4, <2>5, <3>2, StandKept
      <3> QED BY <2>6, <3>1, <3>3
    <2>8. KeysTold(u.out, s)
      BY <2>4, <2>5, <2>6, KeysKept
    <2>9. Stood(u, s, toks)
      BY <2>5, <2>6, <2>7, <2>8 DEF Talk, Stood
    <2>10. Sized(u, s)
      <3>1. PICK on : on = TelnetEnds!Is(t, "NAWS", "ACTIVE") /\ SizeTold(t.out, on, t.size, s)
        BY <2>5 DEF Sized
      <3>2. SizeTold(Append(t.out, m), on, t.size, s)
        BY <2>4, <2>5, <3>1, SizeKept, Zenon
      <3> QED BY <2>6, <3>1, <3>2 DEF Sized, Same, TelnetEnds!Is
    <2>11. Talk(u, s, toks)
      BY <2>5, <2>6, <2>9, <2>10 DEF Talk
    <2>12. Reading(u, s, toks, cut)
      BY <2>5, <2>6 DEF Reading, Same
    <2> QED BY <2>5, <2>6, <2>11, <2>12 DEF Midst
  <1> QED BY <1>1, <1>2

\* The end of a message about an option.
LEMMA MidstNegotiates ==
    ASSUME NEW t, NEW s, NEW toks, Midst(t, s, toks, 2), NEW o \in Options, toks # <<>>, Head(toks) \in Its(o),
           NEW cmd, NEW code, Head(toks) = <<"IAC", cmd, code>>, NEW u,
           u = Entered(TelnetEnds!ProcRecOpt(t, cmd, code), "TOP_LEVEL")
    PROVE  Midst(u, s, Tail(toks), 0)
  <1>1. /\ Talk(t, s, toks) /\ (~t.activated => Passive(t.opt, s.peer)) /\ Reading(t, s, toks, 2)
        /\ t \in Clients /\ s \in Theres /\ toks \in Seq(Tokens) /\ t.text \in Seq(Shown)
    BY DEF Midst, Talk, Stood, Clients
  <1>2. PICK v : v = TelnetEnds!ProcRecOpt(t, cmd, code)
    OBVIOUS
  <1>3. Talk(v, s, Tail(toks)) /\ Same(t, v) /\ v.activated
    BY <1>1, <1>2, ProcRecOptKeeps
  <1>4. v \in Clients /\ "TOP_LEVEL" \in ReadStates
    BY <1>3 DEF Talk, Stood, ReadStates
  <1>5. StateOnly(v, u, "TOP_LEVEL")
    BY <1>2, <1>4, EnteredIs
  <1>6. /\ u \in Clients /\ u.opt = v.opt /\ u.out = v.out /\ u.echoing = v.echoing /\ u.activated = v.activated
        /\ u.size = v.size /\ u.text = v.text /\ u.backlog = v.backlog /\ u.frozen = v.frozen /\ u.state = "TOP_LEVEL"
    BY <1>5 DEF StateOnly
  <1>7. Talk(u, s, Tail(toks)) /\ (~u.activated => Passive(u.opt, s.peer))
    <2>1. ~v.activated => Passive(v.opt, s.peer)
      BY <1>3
    <2> QED BY <1>3, <1>6, <2>1, Alike
  <1>8. TextShown(t.text, s, Tail(toks), 0)
    <2>1. Head(toks) \notin Texts
      BY TokenKinds
    <2>2. Skip(toks, 2) = 0
      BY <1>1, <2>1, Tailed DEF Skip, Texts
    <2> QED BY <1>1, <2>1, <2>2, ShownPassed DEF Reading
  <1>9. Reading(u, s, Tail(toks), 0)
    BY <1>1, <1>3, <1>6, <1>8 DEF Reading, Parsing, Same
  <1> QED BY <1>7, <1>9 DEF Midst

\* A byte that is on its way is read.
LEMMA ByteKeeps ==
    ASSUME NEW t, NEW s, NEW toks, NEW cut, Midst(t, s, toks, cut), NEW f \in Seq(ByteNames), f # <<>>,
           Stream(f, toks, cut)
    PROVE  Holds(TelnetEnds!Byte(t, f[1]), s, Tail(f))
  <1>1. /\ toks # <<>> /\ Tail(f) \in Seq(ByteNames) /\ cut + 1 \in 1 .. Len(toks[1]) /\ f[1] = toks[1][cut + 1]
        /\ cut + 1 < Len(toks[1]) => Stream(Tail(f), toks, cut + 1)
        /\ cut + 1 = Len(toks[1]) => Stream(Tail(f), Tail(toks), 0)
    BY StreamShrinks, TelnetAssumption
  <1>2. t \in Clients /\ toks \in Seq(Tokens) /\ cut \in Nat /\ t.state \in ReadStates /\ Parsing(t.state, toks, cut)
    BY DEF Midst, Talk, Stood, Clients, Stream, Reading
  <1>3. Head(toks) = toks[1] /\ toks[1] \in Tokens
    BY <1>1, <1>2, Tailed
  <1>4. PICK u : u = TelnetEnds!Byte(t, f[1])
    OBVIOUS
  <1>5. ASSUME cut + 1 < Len(toks[1]), Midst(u, s, toks, cut + 1) PROVE Holds(u, s, Tail(f))
    BY <1>1, <1>5 DEF Holds
  <1>6. ASSUME cut + 1 = Len(toks[1]), Midst(u, s, Tail(toks), 0) PROVE Holds(u, s, Tail(f))
    BY <1>1, <1>6 DEF Holds
  <1>7. CASE toks[1] = <<"x">>
    <2>1. cut = 0 /\ cut + 1 = Len(toks[1]) /\ f[1] = "x" /\ t.state = "TOP_LEVEL"
      BY <1>1, <1>2, <1>7 DEF Parsing
    <2>2. u = Wrote(t, "x", "TOP_LEVEL")
      BY <1>2, <1>4, <2>1, ByteAtTop
    <2>3. Head(toks) \in Texts /\ "x" \in Shown /\ "x" = Head(toks)[1] /\ Head(toks) # <<"CR", "NUL">>
      BY <1>3, <1>7 DEF Texts, Shown
    <2>4. Midst(u, s, Tail(toks), 0)
      BY <1>1, <2>1, <2>2, <2>3, MidstShows
    <2> QED BY <1>4, <1>6, <2>1, <2>4
  <1>8. CASE toks[1] = <<"CR", "NUL">>
    <2>1. CASE cut = 0
      <3>1. cut + 1 < Len(toks[1]) /\ f[1] = "CR" /\ t.state = "TOP_LEVEL" /\ cut + 1 = 1
        BY <1>1, <1>2, <1>8, <2>1 DEF Parsing
      <3>2. u = Wrote(t, "CR", "SEENCR")
        BY <1>2, <1>4, <3>1, ByteAtTop
      <3>3. Head(toks) \in Texts /\ "CR" \in Shown /\ "CR" = Head(toks)[1] /\ Head(toks) = <<"CR", "NUL">>
        BY <1>3, <1>8 DEF Texts, Shown
      <3>4. Midst(u, s, toks, 1)
        BY <1>1, <2>1, <3>2, <3>3, MidstShows
      <3> QED BY <1>4, <1>5, <3>1, <3>4
    <2>2. CASE cut # 0
      <3>1. cut = 1 /\ cut + 1 = Len(toks[1]) /\ f[1] = "NUL" /\ t.state = "SEENCR"
        BY <1>1, <1>2, <1>8, <2>2 DEF Parsing
      <3>2. u = Entered(t, "TOP_LEVEL") /\ "TOP_LEVEL" \in ReadStates
        BY <1>2, <1>4, <3>1, ByteAtTop DEF ReadStates
      <3>3. StateOnly(t, u, "TOP_LEVEL")
        BY <1>2, <3>2, EnteredIs
      <3>4. Midst(u, s, Tail(toks), 0)
        BY <1>1, <1>3, <1>8, <3>1, <3>3, MidstPassed
      <3> QED BY <1>4, <1>6, <3>1, <3>4
    <2> QED BY <2>1, <2>2
  <1>9. ASSUME cut = 0, toks[1][1] = "IAC", Len(toks[1]) > 1, toks[1] # <<"CR", "NUL">> PROVE Holds(u, s, Tail(f))
    <2>1. cut + 1 < Len(toks[1]) /\ f[1] = "IAC" /\ t.state = "TOP_LEVEL" /\ cut + 1 = 1
      BY <1>1, <1>2, <1>9 DEF Parsing
    <2>2. u = Entered(t, "SEENIAC") /\ "SEENIAC" \in ReadStates
      BY <1>2, <1>4, <2>1, ByteAtTop DEF ReadStates
    <2>3. StateOnly(t, u, "SEENIAC")
      BY <1>2, <2>2, EnteredIs
    <2>4. Parsing("SEENIAC", toks, cut + 1) /\ Skip(toks, cut + 1) = Skip(toks, cut)
      BY <1>9, <2>1 DEF Parsing, Skip
    <2>5. Midst(u, s, toks, cut + 1)
      BY <2>3, <2>4, MidstOn
    <2> QED BY <1>5, <2>1, <2>5
  <1>10. CASE toks[1] = <<"IAC", "IAC">>
    <2>1. CASE cut = 0
      BY <1>4, <1>9, <1>10, <2>1
    <2>2. CASE cut # 0
      <3>1. cut + 1 = Len(toks[1]) /\ f[1] = "IAC" /\ t.state = "SEENIAC"
        BY <1>1, <1>2, <1>10, <2>2 DEF Parsing
      <3>2. u = Wrote(t, "IAC", "TOP_LEVEL")
        BY <1>2, <1>4, <3>1, ByteInside
      <3>3. Head(toks) \in Texts /\ "IAC" \in Shown /\ "IAC" = Head(toks)[1] /\ Head(toks) # <<"CR", "NUL">>
        BY <1>3, <1>10 DEF Texts, Shown
      <3>4. Midst(u, s, Tail(toks), 0)
        BY <1>1, <3>2, <3>3, MidstShows
      <3> QED BY <1>4, <1>6, <3>1, <3>4
    <2> QED BY <2>1, <2>2
  <1>11. ASSUME NEW x \in ReadStates, StateOnly(t, u, x), cut + 1 < Len(toks[1]), Parsing(x, toks, cut + 1),
                toks[1] # <<"CR", "NUL">>
         PROVE  Holds(u, s, Tail(f))
    <2>1. Skip(toks, cut + 1) = Skip(toks, cut)
      BY <1>11 DEF Skip
    <2>2. Midst(u, s, toks, cut + 1)
      BY <1>11, <2>1, MidstOn
    <2> QED BY <1>5, <1>11, <2>2
  <1>12. CASE toks[1] = Query
    <2>0. /\ Len(toks[1]) = 6 /\ toks[1][1] = "IAC" /\ toks[1][2] = "SB" /\ toks[1][3] = "TTYPE" /\ toks[1][4] = "SEND"
          /\ toks[1][5] = "IAC" /\ toks[1][6] = "SE" /\ toks[1] # <<"CR", "NUL">>
      BY <1>12 DEF Query
    <2>a. /\ "SB" \in ReadStates /\ "SUBNEGOT" \in ReadStates /\ "SUBNEG_IAC" \in ReadStates
          /\ "TOP_LEVEL" \in ReadStates
      BY DEF ReadStates
    <2>1. CASE cut = 0
      BY <1>4, <1>9, <2>0, <2>1
    <2>2. CASE cut = 1
      <3>1. f[1] = "SB" /\ t.state = "SEENIAC" /\ cut + 1 = 2 /\ Parsing("SB", toks, cut + 1)
        BY <1>1, <1>2, <1>12, <2>0, <2>2 DEF Parsing
      <3>2. u = Entered(t, "SB")
        BY <1>2, <1>4, <3>1, ByteInside
      <3>3. StateOnly(t, u, "SB")
        BY <1>2, <2>a, <3>2, EnteredIs
      <3> QED BY <1>4, <1>11, <2>0, <2>a, <3>1, <3>3
    <2>3. CASE cut = 2
      <3>1. f[1] = "TTYPE" /\ t.state = "SB" /\ cut + 1 = 3 /\ Parsing("SUBNEGOT", toks, cut + 1)
        BY <1>1, <1>2, <1>12, <2>0, <2>3 DEF Parsing
      <3>2. u = [t EXCEPT !.sbOpt = "TTYPE", !.sb = <<>>, !.state = "SUBNEGOT"]
        BY <1>2, <1>4, <3>1, ByteInside
      <3>3. StateOnly(t, u, "SUBNEGOT")
        BY <1>2, <2>a, <3>2, EnteredIs
      <3> QED BY <1>4, <1>11, <2>0, <2>a, <3>1, <3>3
    <2>4. CASE cut = 3
      <3>1. f[1] = "SEND" /\ t.state = "SUBNEGOT" /\ cut + 1 = 4 /\ Parsing("SUBNEGOT", toks, cut + 1)
        BY <1>1, <1>2, <1>12, <2>0, <2>4 DEF Parsing
      <3>2. u = [t EXCEPT !.sb = Append(@, "SEND"), !.state = "SUBNEGOT"]
        BY <1>2, <1>4, <3>1, ByteInside
      <3>3. StateOnly(t, u, "SUBNEGOT")
        BY <1>2, <2>a, <3>2, EnteredIs
      <3> QED BY <1>4, <1>11, <2>0, <2>a, <3>1, <3>3
    <2>5. CASE cut = 4
      <3>1. f[1] = "IAC" /\ t.state = "SUBNEGOT" /\ cut + 1 = 5 /\ Parsing("SUBNEG_IAC", toks, cut + 1)
        BY <1>1, <1>2, <1>12, <2>0, <2>5 DEF Parsing
      <3>2. u = Entered(t, "SUBNEG_IAC")
        BY <1>2, <1>4, <3>1, ByteInside
      <3>3. StateOnly(t, u, "SUBNEG_IAC")
        BY <1>2, <2>a, <3>2, EnteredIs
      <3> QED BY <1>4, <1>11, <2>0, <2>a, <3>1, <3>3
    <2>6. CASE cut = 5
      <3>1. f[1] = "SE" /\ t.state = "SUBNEG_IAC" /\ cut + 1 = Len(toks[1])
        BY <1>1, <1>2, <1>12, <2>0, <2>6 DEF Parsing
      <3>2. PICK v : v = TelnetEnds!ProcessSubneg(t)
        OBVIOUS
      <3>3. u = Entered(v, "TOP_LEVEL")
        BY <1>2, <1>4, <3>1, <3>2, ByteInside
      <3>4. Midst(v, s, toks, cut)
        BY <3>2, AnswerKeeps
      <3>5. StateOnly(v, u, "TOP_LEVEL")
        <4>1. v \in Clients
          BY <3>4 DEF Midst, Talk, Stood
        <4> QED BY <2>a, <3>3, <4>1, EnteredIs
      <3>6. Midst(u, s, Tail(toks), 0)
        BY <1>1, <1>3, <1>12, <3>4, <3>5, MidstPassed
      <3> QED BY <1>4, <1>6, <3>1, <3>6
    <2>7. cut \in {0, 1, 2, 3, 4, 5}
      BY <1>1, <1>2, <2>0
    <2> QED BY <2>1, <2>2, <2>3, <2>4, <2>5, <2>6, <2>7
  <1>13. ASSUME NEW o \in Options, toks[1] \in Its(o) PROVE Holds(u, s, Tail(f))
    <2>1. PICK cmd, code : toks[1] = <<"IAC", cmd, code>> /\ cmd \in Commands
      BY <1>13, Sides DEF Its, Agrees, Denies, Message
    <2>0. Len(toks[1]) = 3 /\ toks[1][1] = "IAC" /\ toks[1][2] = cmd /\ toks[1][3] = code
      BY <2>1
    <2>a. toks[1] # <<"CR", "NUL">> /\ toks[1] # Query
      BY <1>13, TokenKinds DEF Texts
    <2>2. CASE cut = 0
      BY <1>9, <2>0, <2>a, <2>2
    <2>3. CASE cut = 1
      <3>1. f[1] = cmd /\ t.state = "SEENIAC" /\ cut + 1 = 2 /\ Parsing(cmd, toks, cut + 1) /\ cmd \in ReadStates
        BY <1>1, <1>2, <2>0, <2>1, <2>a, <2>3 DEF Parsing, Commands, ReadStates
      <3>2. u = Entered(t, cmd)
        BY <1>2, <1>4, <2>1, <3>1, ByteInside
      <3>3. StateOnly(t, u, cmd)
        BY <1>2, <3>1, <3>2, EnteredIs
      <3> QED BY <1>11, <2>0, <2>a, <3>1, <3>3
    <2>4. CASE cut = 2
      <3>1. f[1] = code /\ t.state = cmd /\ cut + 1 = Len(toks[1])
        BY <1>1, <1>2, <2>0, <2>a, <2>4 DEF Parsing
      <3>2. u = Entered(TelnetEnds!ProcRecOpt(t, cmd, code), "TOP_LEVEL")
        BY <1>2, <1>4, <2>1, <3>1, ByteInside
      <3>3. Midst(t, s, toks, 2) /\ Head(toks) \in Its(o) /\ Head(toks) = <<"IAC", cmd, code>>
        BY <1>3, <1>13, <2>1, <2>4
      <3>4. Midst(u, s, Tail(toks), 0)
        BY <1>1, <3>2, <3>3, MidstNegotiates
      <3> QED BY <1>6, <3>1, <3>4
    <2>5. cut \in {0, 1, 2}
      BY <1>1, <1>2, <2>0
    <2> QED BY <2>2, <2>3, <2>4, <2>5
  <1> QED BY <1>3, <1>4, <1>7, <1>8, <1>10, <1>12, <1>13 DEF Tokens, Texts

\* Reading a buffer is reading its bytes.
LEMMA ReadDef ==
    ASSUME NEW t, NEW bytes, Len(bytes) \in Nat
    PROVE  \E g : /\ g = [i \in 0 .. Len(bytes) |-> IF i = 0 THEN t ELSE TelnetEnds!Byte(g[i - 1], bytes[i])]
                  /\ TelnetEnds!Read(t, bytes) = g[Len(bytes)]
  <1> DEFINE Is(g, n) == g = [i \in 0 .. n |-> IF i = 0 THEN t ELSE TelnetEnds!Byte(g[i - 1], bytes[i])]
  <1> DEFINE bad == {n \in Nat : ~\E g : Is(g, n)}
  <1>1. bad = {}
    <2> SUFFICES ASSUME bad # {} PROVE FALSE
      OBVIOUS
    <2>1. PICK n \in bad : \A m \in bad : n <= m
      BY LeastElement
    <2>2. CASE n = 0
      <3>1. Is([i \in 0 .. 0 |-> t], 0)
        OBVIOUS
      <3> QED BY <3>1, <2>1, <2>2
    <2>3. CASE n # 0
      <3>0. n \in Nat /\ n - 1 \in Nat /\ n - 1 \notin bad
        BY <2>1, <2>3
      <3>1. PICK g : Is(g, n - 1)
        BY <3>0
      <3> DEFINE h == [i \in 0 .. n |-> IF i = n THEN TelnetEnds!Byte(g[n - 1], bytes[n]) ELSE g[i]]
      <3> HIDE DEF h
      <3>2. \A i \in 0 .. n - 1 : h[i] = g[i]
        BY <2>1, <2>3 DEF h
      <3>3. \A i \in 0 .. n : h[i] = IF i = 0 THEN t ELSE TelnetEnds!Byte(h[i - 1], bytes[i])
        <4> SUFFICES ASSUME NEW i \in 0 .. n PROVE h[i] = IF i = 0 THEN t ELSE TelnetEnds!Byte(h[i - 1], bytes[i])
          OBVIOUS
        <4>1. CASE i = n
          BY <4>1, <3>2, <2>1, <2>3 DEF h
        <4>2. CASE i # n
          <5>1. i \in 0 .. n - 1 /\ (i # 0 => i - 1 \in 0 .. n - 1)
            BY <4>2, <2>1
          <5>2. g[i] = IF i = 0 THEN t ELSE TelnetEnds!Byte(g[i - 1], bytes[i])
            BY <5>1, <3>1
          <5> QED BY <5>1, <5>2, <3>2
        <4> QED BY <4>1, <4>2
      <3>4. Is(h, n)
        BY <3>3 DEF h
      <3> QED BY <3>4, <2>1
    <2> QED BY <2>2, <2>3
  <1>2. \E g : Is(g, Len(bytes))
    BY <1>1
  <1> DEFINE read == CHOOSE g : Is(g, Len(bytes))
  <1>3. Is(read, Len(bytes))
    BY <1>2
  <1>4. TelnetEnds!Read(t, bytes) = read[Len(bytes)]
    BY DEF TelnetEnds!Read
  <1> QED BY <1>3, <1>4

LEMMA ReadKeeps ==
    ASSUME NEW t, NEW s, NEW f, Holds(t, s, f), NEW k \in 0 .. Len(f)
    PROVE  Holds(TelnetEnds!Read(t, SubSeq(f, 1, k)), s, SubSeq(f, k + 1, Len(f)))
  <1>0. f \in Seq(ByteNames) /\ Len(f) \in Nat /\ k \in Nat /\ k <= Len(f)
    BY LenProperties DEF Holds
  <1> DEFINE bytes == SubSeq(f, 1, k)
             rest(n) == SubSeq(f, n + 1, Len(f))
  <1>1. Len(bytes) = k /\ \A i \in 1 .. k : bytes[i] = f[i]
    <2>1. \A i \in 1 .. k : f[i] \in ByteNames
      BY <1>0, ElementOfSeq
    <2> QED BY <1>0, <2>1, SubSeqProperties
  <1>2. rest(0) = f
    BY <1>0, SubSeqFull
  <1>3. \A n \in 0 .. Len(f) - 1 : rest(n) # <<>> /\ rest(n)[1] = f[n + 1] /\ Tail(rest(n)) = rest(n + 1)
    <2> SUFFICES ASSUME NEW n \in 0 .. Len(f) - 1
                 PROVE  rest(n) # <<>> /\ rest(n)[1] = f[n + 1] /\ Tail(rest(n)) = rest(n + 1)
      OBVIOUS
    <2>1. n + 1 \in 1 .. Len(f) /\ Len(f) \in n + 1 .. Len(f) /\ n + 1 \in Int /\ Len(f) \in Int
      BY <1>0
    <2>2. \A i \in n + 1 .. Len(f) : f[i] \in ByteNames
      BY <1>0, <2>1, ElementOfSeq
    <2>3. /\ rest(n) \in Seq(ByteNames) /\ Len(rest(n)) = Len(f) - (n + 1) + 1
          /\ \A i \in 1 .. Len(f) - (n + 1) + 1 : rest(n)[i] = f[n + 1 + i - 1]
      BY <2>1, <2>2, SubSeqProperties
    <2>4. Tail(rest(n)) = SubSeq(f, n + 1 + 1, Len(f))
      BY <1>0, <2>1, HeadTailOfSubSeq
    <2> HIDE DEF rest
    <2>5. Len(rest(n)) >= 1 /\ rest(n)[1] = f[n + 1]
      BY <1>0, <2>1, <2>3
    <2>6. rest(n) # <<>>
      BY <2>5
    <2>7. Tail(rest(n)) = rest(n + 1)
      BY <2>1, <2>4 DEF rest
    <2> QED BY <2>5, <2>6, <2>7
  <1> HIDE DEF bytes, rest
  <1>4. PICK g : /\ g = [i \in 0 .. Len(bytes) |-> IF i = 0 THEN t ELSE TelnetEnds!Byte(g[i - 1], bytes[i])]
                 /\ TelnetEnds!Read(t, bytes) = g[Len(bytes)]
    BY <1>0, <1>1, ReadDef
  <1>5. g[0] = t /\ \A i \in 1 .. k : g[i] = TelnetEnds!Byte(g[i - 1], bytes[i])
    BY <1>0, <1>1, <1>4
  <1> DEFINE bad == {n \in 0 .. k : ~Holds(g[n], s, rest(n))}
  <1>6. bad = {}
    <2> SUFFICES ASSUME bad # {} PROVE FALSE
      OBVIOUS
    <2>0. bad \subseteq Nat
      BY <1>0
    <2>1. PICK n \in bad : \A m \in bad : n <= m
      <3> HIDE DEF bad
      <3> QED BY <2>0, LeastElement
    <2>2. n # 0
      BY <1>2, <1>5, <2>1
    <2>3. n \in 1 .. k /\ n - 1 \in 0 .. Len(f) - 1 /\ n - 1 \in 0 .. k /\ n - 1 \notin bad /\ n - 1 + 1 = n
      BY <1>0, <2>1, <2>2
    <2>4. PICK m : m = n - 1
      OBVIOUS
    <2>5. Holds(g[m], s, rest(m)) /\ rest(m) # <<>> /\ rest(m)[1] = f[n] /\ Tail(rest(m)) = rest(n)
      BY <1>3, <2>3, <2>4
    <2>6. Holds(TelnetEnds!Byte(g[m], rest(m)[1]), s, Tail(rest(m)))
      <3>1. PICK toks, cut : Midst(g[m], s, toks, cut) /\ rest(m) \in Seq(ByteNames) /\ Stream(rest(m), toks, cut)
        BY <2>5 DEF Holds
      <3> QED BY <2>5, <3>1, ByteKeeps
    <2>7. g[n] = TelnetEnds!Byte(g[m], f[n])
      BY <1>1, <1>5, <2>3, <2>4
    <2> QED BY <2>1, <2>5, <2>6, <2>7
  <1>7. Holds(g[k], s, rest(k))
    BY <1>0, <1>6
  <1> QED BY <1>1, <1>4, <1>7 DEF rest, bytes

-----------------------------------------------------------------------------
(* The actions of the client and of the user.                                *)

\* Only what is under way to the server changes, and what the server was told.
LEMMA OutChanges ==
    ASSUME NEW t, NEW s, NEW toks, NEW cut, Midst(t, s, toks, cut), NEW u \in Clients, Same(t, u), u.opt = t.opt,
           u.echoing = t.echoing, u.activated = t.activated,
           \A o \in Options : Stand(o, t.opt[o], s.peer[o], u.out, toks),
           NEW s2 \in Theres, s2.peer = s.peer, s2.wrote = s.wrote, KeysTold(u.out, s2),
           SizeTold(u.out, TelnetEnds!Is(t, "NAWS", "ACTIVE"), t.size, s2)
    PROVE  Midst(u, s2, toks, cut)
  <1>1. /\ Talk(t, s, toks) /\ (~t.activated => Passive(t.opt, s.peer)) /\ Reading(t, s, toks, cut)
        /\ toks \in Seq(Tokens) /\ Environs(t.opt, s.peer) /\ Echo(t.opt, t.echoing)
        /\ (~t.activated => Untold(t.opt, s.peer))
    BY DEF Midst, Talk, Stood
  <1>2. Stood(u, s2, toks)
    BY <1>1 DEF Stood
  <1>3. Sized(u, s2)
    BY DEF Sized, Same, TelnetEnds!Is
  <1>4. Talk(u, s2, toks)
    BY <1>1, <1>2, <1>3 DEF Talk
  <1>5. TextShown(u.text, s2, toks, cut)
    BY <1>1 DEF Reading, TextShown, Same
  <1>6. Reading(u, s2, toks, cut)
    BY <1>1, <1>5 DEF Reading, Same
  <1> QED BY <1>1, <1>4, <1>6 DEF Midst

\* What the invariant says, taken apart and put together.
LEMMA InvIs ==
    ASSUME TelnetInv
    PROVE  /\ \E toks, cut : Midst(tn, There, toks, cut) /\ Stream(fromServer, toks, cut)
           /\ fromServer \in Seq(ByteNames) /\ Len(fromServer) \in Nat
           /\ tn \in Clients /\ There \in Theres /\ tn.out \in Seq(OutMessages)
           /\ There.peer = peer /\ There.size = peerSize /\ There.heard = peerText /\ There.typed = typed
           /\ There.wrote = text
           /\ peer \in [Options -> Minds] /\ peerSize \in Nat /\ peerText \in Seq(Typed) /\ typed \in Seq(Typed)
           /\ text \in Seq(Shown) /\ acts \in Nat /\ asks \in Nat /\ asks <= MaxServer /\ Len(text) <= asks
  <1>1. PICK toks, cut : Midst(tn, There, toks, cut) /\ fromServer \in Seq(ByteNames) /\ Stream(fromServer, toks, cut)
    BY DEF TelnetInv, Holds
  <1>2. tn \in Clients /\ There \in Theres
    BY <1>1 DEF Midst, Talk, Stood
  <1>3. tn.out \in Seq(OutMessages)
    BY <1>2 DEF Clients
  <1>4. /\ There.peer = peer /\ There.size = peerSize /\ There.heard = peerText /\ There.typed = typed
        /\ There.wrote = text
    BY DEF There
  <1>5. /\ peer \in [Options -> Minds] /\ peerSize \in Nat /\ peerText \in Seq(Typed) /\ typed \in Seq(Typed)
        /\ text \in Seq(Shown)
    BY <1>2, <1>4 DEF Theres
  <1>6. Len(fromServer) \in Nat
    BY <1>1, LenProperties
  <1> QED BY <1>1, <1>2, <1>3, <1>4, <1>5, <1>6 DEF TelnetInv

LEMMA ReceiveKeeps ==
    ASSUME TelnetInv, NEW k \in Nat, TelnetEnds!Receive(k)
    PROVE  TelnetInv'
  <1>1. Holds(tn, There, fromServer) /\ k \in 0 .. Len(fromServer)
    BY InvIs DEF TelnetInv, TelnetEnds!Receive
  <1>2. Holds(TelnetEnds!Read(tn, SubSeq(fromServer, 1, k)), There, SubSeq(fromServer, k + 1, Len(fromServer)))
    BY <1>1, ReadKeeps
  <1>3. /\ tn' = TelnetEnds!Read(tn, SubSeq(fromServer, 1, k))
        /\ fromServer' = SubSeq(fromServer, k + 1, Len(fromServer))
        /\ There' = There /\ asks' = asks /\ text' = text /\ acts' = acts
    BY DEF TelnetEnds!Receive, TelnetEnds!Server, TelnetEnds!User, There
  <1>4. Holds(tn', There', fromServer')
    BY <1>2, <1>3
  <1> QED BY <1>3, <1>4 DEF TelnetInv

LEMMA UnthrottleKeeps ==
    ASSUME TelnetInv, TelnetEnds!Unthrottle
    PROVE  TelnetInv'
  <1>0. /\ There' = There /\ asks' = asks /\ text' = text /\ acts' = acts /\ fromServer' = fromServer
        /\ tn.backlog > 0
        /\ tn' = [tn EXCEPT !.backlog = @ - 1, !.frozen = tn.backlog - 1 > Backlog]
    BY DEF TelnetEnds!Unthrottle, TelnetEnds!Server, TelnetEnds!User, There
  <1>1. PICK t, s, u : t = tn /\ s = There /\ u = tn'
    OBVIOUS
  <1>2. PICK toks, cut : Midst(t, s, toks, cut) /\ fromServer \in Seq(ByteNames) /\ Stream(fromServer, toks, cut)
    BY <1>1 DEF TelnetInv, Holds
  <1>3. t \in Clients /\ u = [t EXCEPT !.backlog = @ - 1, !.frozen = t.backlog - 1 > Backlog] /\ t.backlog > 0
    BY <1>0, <1>1, InvIs
  <1>4. t.backlog \in Nat /\ t.backlog - 1 \in Nat /\ (t.backlog - 1 > Backlog) \in BOOLEAN
    BY <1>3 DEF Clients
  <1>5. /\ u \in Clients /\ u.opt = t.opt /\ u.out = t.out /\ u.echoing = t.echoing /\ u.activated = t.activated
        /\ u.size = t.size /\ u.text = t.text /\ u.state = t.state /\ u.backlog = t.backlog - 1
        /\ u.frozen = (t.backlog - 1 > Backlog)
    BY <1>3, <1>4 DEF Clients
  <1>6. Talk(t, s, toks) /\ (~t.activated => Passive(t.opt, s.peer)) /\ Reading(t, s, toks, cut)
    BY <1>2 DEF Midst
  <1>7. Talk(u, s, toks) /\ (~u.activated => Passive(u.opt, s.peer))
    BY <1>5, <1>6, Alike
  <1>8. Reading(u, s, toks, cut)
    <2>1. t.backlog <= Len(t.text) /\ Len(t.text) \in Nat
      BY <1>3, <1>6, LenProperties DEF Reading, Clients
    <2>2. u.backlog <= Len(u.text) /\ u.frozen = (u.backlog > Backlog)
      BY <1>4, <1>5, <2>1
    <2> QED BY <1>5, <1>6, <2>2 DEF Reading
  <1>9. Midst(u, s, toks, cut)
    BY <1>7, <1>8 DEF Midst
  <1>10. Holds(tn', There', fromServer')
    BY <1>0, <1>1, <1>2, <1>9 DEF Holds
  <1> QED BY <1>0, <1>10 DEF TelnetInv

LEMMA ResizeKeeps ==
    ASSUME TelnetInv, TelnetEnds!Resize
    PROVE  TelnetInv'
  <1>0. /\ There' = There /\ asks' = asks /\ text' = text /\ acts' = acts + 1 /\ fromServer' = fromServer
        /\ tn' = TelnetEnds!SendSize([tn EXCEPT !.size = acts + 1])
    BY DEF TelnetEnds!Resize, TelnetEnds!Server, There
  <1>1. PICK t, s, u, v : t = tn /\ s = There /\ u = tn' /\ v = [t EXCEPT !.size = acts + 1]
    OBVIOUS
  <1>2. PICK toks, cut : Midst(t, s, toks, cut) /\ fromServer \in Seq(ByteNames) /\ Stream(fromServer, toks, cut)
    BY <1>1 DEF TelnetInv, Holds
  <1>3. t \in Clients /\ acts \in Nat /\ acts + 1 \in Nat /\ u = TelnetEnds!SendSize(v)
    BY <1>0, <1>1, InvIs
  <1>4. /\ v \in Clients /\ v.opt = t.opt /\ v.out = t.out /\ v.echoing = t.echoing /\ v.activated = t.activated
        /\ v.text = t.text /\ v.state = t.state /\ v.backlog = t.backlog /\ v.frozen = t.frozen
    BY <1>1, <1>3 DEF Clients
  <1>5. /\ Talk(t, s, toks) /\ (~t.activated => Passive(t.opt, s.peer)) /\ Reading(t, s, toks, cut)
        /\ Stood(t, s, toks) /\ Environs(t.opt, s.peer) /\ Echo(t.opt, t.echoing) /\ Sized(t, s)
    BY <1>2 DEF Midst, Talk
  <1>6. Stood(v, s, toks)
    BY <1>4, <1>5 DEF Stood
  <1>7. PICK on, old : SizeTold(v.out, on, old, s)
    BY <1>4, <1>5 DEF Sized
  <1>8. /\ Stood(u, s, toks) /\ Sized(u, s) /\ Same(v, u) /\ u.activated = v.activated
        /\ u.echoing = v.echoing /\ u.opt = v.opt
    BY <1>3, <1>6, <1>7, SendSizeKeeps
  <1>9. Talk(u, s, toks) /\ (~u.activated => Passive(u.opt, s.peer))
    BY <1>4, <1>5, <1>8 DEF Talk
  <1>10. Reading(u, s, toks, cut)
    BY <1>4, <1>5, <1>8 DEF Reading, Same
  <1>11. Midst(u, s, toks, cut)
    BY <1>9, <1>10 DEF Midst
  <1>12. Holds(tn', There', fromServer')
    BY <1>0, <1>1, <1>2, <1>11 DEF Holds
  <1> QED BY <1>0, <1>3, <1>12 DEF TelnetInv

\* A key is sent, escaped.
LEMMA KeysGrow ==
    ASSUME NEW out \in Seq(OutMessages), NEW s \in Theres, KeysTold(out, s), NEW m \in KeyMessages, NEW s2 \in Theres,
           s2.heard = s.heard, s2.typed = Append(s.typed, KeyOf(m)), KeyOf(m) \in Typed
    PROVE  KeysTold(Append(out, m), s2)
  <1>1. PICK w \in Seq(KeyMessages) :
        /\ Only(out, KeyMessages, w)
        /\ Len(s.typed) = Len(s.heard) + Len(w)
        /\ \A i \in 1 .. Len(s.heard) : s.typed[i] = s.heard[i]
        /\ \A i \in 1 .. Len(w) : s.typed[Len(s.heard) + i] = KeyOf(w[i])
    BY DEF KeysTold
  <1>2. m \in OutMessages
    BY Kinds
  <1>3. PICK v : v = Append(w, m)
    OBVIOUS
  <1>4. Only(Append(out, m), KeyMessages, v) /\ v \in Seq(KeyMessages)
    BY <1>1, <1>2, <1>3, OnlyAppended, Appended
  <1>5. /\ Len(v) = Len(w) + 1 /\ Len(w) \in Nat /\ v[Len(w) + 1] = m
        /\ \A i \in 1 .. Len(w) : v[i] = w[i]
    BY <1>3, Appended
  <1>6. s.typed \in Seq(Typed) /\ s.heard \in Seq(Typed) /\ Len(s.heard) \in Nat
    BY LenProperties DEF Theres
  <1>7. PICK a, b, n : a = s.typed /\ b = s2.typed /\ n = Len(s.heard)
    OBVIOUS
  <1>8. /\ Len(b) = Len(a) + 1 /\ Len(a) = n + Len(w) /\ n \in Nat /\ b[Len(a) + 1] = KeyOf(m)
        /\ \A i \in 1 .. Len(a) : b[i] = a[i]
    BY <1>1, <1>6, <1>7, Appended
  <1>9. Len(b) = n + Len(v)
    BY <1>5, <1>8
  <1>10. \A i \in 1 .. n : b[i] = s.heard[i]
    BY <1>1, <1>5, <1>7, <1>8
  <1>11. \A i \in 1 .. Len(v) : b[n + i] = KeyOf(v[i])
    <2> SUFFICES ASSUME NEW i \in 1 .. Len(v) PROVE b[n + i] = KeyOf(v[i])
      OBVIOUS
    <2>1. CASE i = Len(w) + 1
      <3>1. v[i] = m /\ n + i = Len(a) + 1
        BY <1>5, <1>8, <2>1
      <3> QED BY <1>8, <3>1
    <2>2. CASE i # Len(w) + 1
      <3>1. i \in 1 .. Len(w) /\ n + i \in 1 .. Len(a)
        BY <1>5, <1>8, <2>2
      <3>2. a[n + i] = KeyOf(w[i])
        BY <1>1, <1>7, <3>1
      <3> QED BY <1>5, <1>8, <3>1, <3>2
    <2> QED BY <2>1, <2>2
  <1>12. Len(s2.heard) = n /\ \A i \in 1 .. n : s2.heard[i] = s.heard[i]
    BY <1>7
  <1>13. /\ Len(s2.typed) = Len(s2.heard) + Len(v)
         /\ \A i \in 1 .. Len(s2.heard) : s2.typed[i] = s2.heard[i]
         /\ \A i \in 1 .. Len(v) : s2.typed[Len(s2.heard) + i] = KeyOf(v[i])
    BY <1>7, <1>9, <1>10, <1>11, <1>12
  <1> QED BY <1>4, <1>13 DEF KeysTold

\* The keys the server is told next, and the size.
LEMMA KeysHeard ==
    ASSUME NEW out \in Seq(OutMessages), out # <<>>, NEW s \in Theres, KeysTold(out, s)
    PROVE  /\ Head(out) \notin KeyMessages => KeysTold(Tail(out), s)
           /\ Head(out) \in KeyMessages =>
                 \A s2 \in Theres :
                     s2.typed = s.typed /\ s2.heard = Append(s.heard, KeyOf(Head(out))) => KeysTold(Tail(out), s2)
  <1>1. PICK w \in Seq(KeyMessages) :
        /\ Only(out, KeyMessages, w)
        /\ Len(s.typed) = Len(s.heard) + Len(w)
        /\ \A i \in 1 .. Len(s.heard) : s.typed[i] = s.heard[i]
        /\ \A i \in 1 .. Len(w) : s.typed[Len(s.heard) + i] = KeyOf(w[i])
    BY DEF KeysTold
  <1>2. Head(out) \notin KeyMessages => KeysTold(Tail(out), s)
    <2>1. Head(out) \notin KeyMessages => Only(Tail(out), KeyMessages, w)
      BY <1>1, OnlyTailed
    <2> QED BY <1>1, <2>1 DEF KeysTold
  <1>3. ASSUME Head(out) \in KeyMessages, NEW s2 \in Theres, s2.typed = s.typed,
               s2.heard = Append(s.heard, KeyOf(Head(out)))
        PROVE  KeysTold(Tail(out), s2)
    <2>1. /\ w # <<>> /\ Head(w) = Head(out) /\ Tail(w) \in Seq(KeyMessages)
          /\ Only(Tail(out), KeyMessages, Tail(w))
      BY <1>1, <1>3, OnlyTailed
    <2>2. PICK v, a, b, c, key : v = Tail(w) /\ a = s.typed /\ b = s.heard /\ c = s2.heard /\ key = KeyOf(Head(out))
      OBVIOUS
    <2>3. /\ Len(v) = Len(w) - 1 /\ Len(w) \in Nat /\ Len(w) >= 1 /\ \A i \in 1 .. Len(w) - 1 : v[i] = w[i + 1]
          /\ w[1] = Head(out)
      BY <2>1, <2>2, Tailed
    <2>4. key \in Typed
      BY <2>2 DEF KeyOf, Typed
    <2>5. b \in Seq(Typed) /\ c = Append(b, key)
      BY <1>3, <2>2 DEF Theres
    <2>6. Len(c) = Len(b) + 1 /\ Len(b) \in Nat /\ c[Len(b) + 1] = key /\ \A i \in 1 .. Len(b) : c[i] = b[i]
      BY <2>4, <2>5, Appended
    <2>7. /\ Len(a) = Len(b) + Len(w) /\ \A i \in 1 .. Len(b) : a[i] = b[i]
          /\ \A i \in 1 .. Len(w) : a[Len(b) + i] = KeyOf(w[i])
      BY <1>1, <2>2
    <2>8. Len(a) = Len(c) + Len(v)
      BY <2>3, <2>6, <2>7
    <2>9. \A i \in 1 .. Len(c) : a[i] = c[i]
      <3> SUFFICES ASSUME NEW i \in 1 .. Len(c) PROVE a[i] = c[i]
        OBVIOUS
      <3>1. CASE i = Len(b) + 1
        <4>1. 1 \in 1 .. Len(w)
          BY <2>3
        <4>2. a[Len(b) + 1] = KeyOf(w[1])
          BY <2>7, <4>1
        <4> QED BY <2>2, <2>3, <2>6, <3>1, <4>2
      <3>2. CASE i # Len(b) + 1
        <4>1. i \in 1 .. Len(b)
          BY <2>6, <3>2
        <4> QED BY <2>6, <2>7, <4>1
      <3> QED BY <3>1, <3>2
    <2>10. \A i \in 1 .. Len(v) : a[Len(c) + i] = KeyOf(v[i])
      <3> SUFFICES ASSUME NEW i \in 1 .. Len(v) PROVE a[Len(c) + i] = KeyOf(v[i])
        OBVIOUS
      <3>1. i \in 1 .. Len(w) - 1 /\ i + 1 \in 1 .. Len(w) /\ Len(c) + i = Len(b) + (i + 1)
        BY <2>3, <2>6
      <3>2. a[Len(b) + (i + 1)] = KeyOf(w[i + 1])
        BY <2>7, <3>1
      <3> QED BY <2>3, <3>1, <3>2
    <2>11. /\ Len(s2.typed) = Len(s2.heard) + Len(v)
           /\ \A i \in 1 .. Len(s2.heard) : s2.typed[i] = s2.heard[i]
           /\ \A i \in 1 .. Len(v) : s2.typed[Len(s2.heard) + i] = KeyOf(v[i])
      BY <1>3, <2>2, <2>8, <2>9, <2>10
    <2>12. v \in Seq(KeyMessages) /\ Only(Tail(out), KeyMessages, v)
      BY <2>1, <2>2
    <2> QED BY <2>11, <2>12 DEF KeysTold
  <1> QED BY <1>2, <1>3

LEMMA SizeHeard ==
    ASSUME NEW out \in Seq(OutMessages), out # <<>>, NEW s, NEW on, NEW size, SizeTold(out, on, size, s), NEW s2,
           IF Head(out) \in SizeMessages THEN s2.size = Head(out)[3] ELSE s2.size = s.size
    PROVE  SizeTold(Tail(out), on, size, s2)
  <1>1. PICK w \in Seq(SizeMessages) :
        /\ Only(out, SizeMessages, w)
        /\ on => size = IF w = <<>> THEN s.size ELSE w[Len(w)][3]
    BY DEF SizeTold
  <1>2. CASE Head(out) \notin SizeMessages
    <2>1. Only(Tail(out), SizeMessages, w)
      BY <1>1, <1>2, OnlyTailed
    <2> QED BY <1>1, <1>2, <2>1 DEF SizeTold
  <1>3. CASE Head(out) \in SizeMessages
    <2>1. /\ w # <<>> /\ Head(w) = Head(out) /\ Tail(w) \in Seq(SizeMessages)
          /\ Only(Tail(out), SizeMessages, Tail(w))
      BY <1>1, <1>3, OnlyTailed
    <2>2. PICK v : v = Tail(w)
      OBVIOUS
    <2>3. /\ Len(v) = Len(w) - 1 /\ Len(w) \in Nat /\ Len(w) >= 1 /\ \A i \in 1 .. Len(w) - 1 : v[i] = w[i + 1]
          /\ w[1] = Head(out) /\ v \in Seq(SizeMessages)
      BY <2>1, <2>2, Tailed
    <2>4. on => size = w[Len(w)][3]
      BY <1>1, <2>1
    <2>5. v = <<>> => w[Len(w)][3] = s2.size
      <3>1. v = <<>> => Len(w) = 1
        BY <2>3
      <3> QED BY <1>3, <2>3, <3>1
    <2>6. v # <<>> => w[Len(w)] = v[Len(v)]
      <3>1. v # <<>> => Len(v) \in 1 .. Len(w) - 1 /\ Len(v) + 1 = Len(w)
        BY <2>3, LenProperties, EmptySeq
      <3> QED BY <2>3, <3>1
    <2> QED BY <2>1, <2>2, <2>4, <2>5, <2>6 DEF SizeTold
  <1> QED BY <1>2, <1>3

\* What the messages to the server are, and how keys are written and read.
LEMMA FourEscapes ==
    /\ <<"IAC", "IAC">> # <<"CR", "LF">> /\ <<"IAC", "IAC">> # <<"CR">> /\ <<"IAC", "IAC">> # <<"CR", "NUL">>
    /\ <<"CR", "NUL">> # <<"IAC", "IAC">> /\ <<"CR", "NUL">> # <<"CR", "LF">> /\ <<"CR", "NUL">> # <<"CR">>
    /\ <<"CR">> # <<"IAC", "IAC">> /\ <<"CR">> # <<"CR", "LF">> /\ <<"CR">> # <<"CR", "NUL">>
    /\ <<"CR", "LF">> # <<"IAC", "IAC">> /\ <<"CR", "LF">> # <<"CR", "NUL">>
    /\ <<"IAC", "NOP">> # <<"IAC", "IAC">> /\ <<"IAC", "NOP">> # <<"CR", "LF">> /\ <<"IAC", "NOP">> # <<"CR">>
    /\ <<"IAC", "NOP">> # <<"CR", "NUL">> /\ Head(<<"IAC", "NOP">>) = "IAC"
  <1>1. Len(<<"CR">>) = 1 /\ Len(<<"CR", "LF">>) = 2 /\ Len(<<"CR", "NUL">>) = 2 /\ Len(<<"IAC", "IAC">>) = 2
        /\ Len(<<"IAC", "NOP">>) = 2
    OBVIOUS
  <1>2. /\ <<"CR">> # <<"IAC", "IAC">> /\ <<"CR">> # <<"CR", "LF">> /\ <<"CR">> # <<"CR", "NUL">>
        /\ <<"CR">> # <<"IAC", "NOP">>
    BY <1>1
  <1>3. /\ <<"IAC", "IAC">> # <<"CR", "LF">> /\ <<"IAC", "IAC">> # <<"CR", "NUL">> /\ <<"CR", "NUL">> # <<"CR", "LF">>
        /\ <<"IAC", "NOP">> # <<"IAC", "IAC">> /\ <<"IAC", "NOP">> # <<"CR", "LF">>
        /\ <<"IAC", "NOP">> # <<"CR", "NUL">> /\ Head(<<"IAC", "NOP">>) = "IAC"
    OBVIOUS
  <1> QED BY <1>2, <1>3

LEMMA EscapedAndBack ==
    /\ TelnetEnds!Unescape(<<"IAC", "IAC">>) = <<"IAC">> /\ TelnetEnds!Unescape(<<"CR", "NUL">>) = <<"CR">>
    /\ TelnetEnds!Unescape(<<"CR">>) = <<"EOL">> /\ TelnetEnds!Unescape(<<"CR", "LF">>) = <<"EOL">>
    /\ TelnetEnds!Unescape(<<"IAC", "NOP">>) = <<>>
    /\ KeyOf(<<"KEYS", <<"IAC", "IAC">>>>) = "IAC" /\ KeyOf(<<"KEYS", <<"CR", "NUL">>>>) = "CR"
    /\ KeyOf(<<"KEYS", <<"CR">>>>) = "EOL" /\ KeyOf(<<"KEYS", <<"CR", "LF">>>>) = "EOL"
  <1>1. /\ TelnetEnds!Unescape(<<"IAC", "IAC">>) = <<"IAC">> /\ TelnetEnds!Unescape(<<"CR", "NUL">>) = <<"CR">>
        /\ TelnetEnds!Unescape(<<"CR">>) = <<"EOL">> /\ TelnetEnds!Unescape(<<"CR", "LF">>) = <<"EOL">>
        /\ TelnetEnds!Unescape(<<"IAC", "NOP">>) = <<>>
    <2>1. TelnetEnds!Unescape(<<"IAC", "IAC">>) = <<"IAC">>
      BY FourEscapes DEF TelnetEnds!Unescape
    <2>2. TelnetEnds!Unescape(<<"CR", "NUL">>) = <<"CR">>
      BY FourEscapes DEF TelnetEnds!Unescape
    <2>3. TelnetEnds!Unescape(<<"CR">>) = <<"EOL">>
      BY FourEscapes DEF TelnetEnds!Unescape
    <2>4. TelnetEnds!Unescape(<<"CR", "LF">>) = <<"EOL">>
      BY FourEscapes DEF TelnetEnds!Unescape
    <2>5. TelnetEnds!Unescape(<<"IAC", "NOP">>) = <<>>
      BY FourEscapes DEF TelnetEnds!Unescape
    <2> QED BY <2>1, <2>2, <2>3, <2>4, <2>5
  <1>2. \A b : <<"KEYS", b>>[2] = b
    OBVIOUS
  <1>3. KeyOf(<<"KEYS", <<"IAC", "IAC">>>>) = "IAC" /\ KeyOf(<<"KEYS", <<"CR", "NUL">>>>) = "CR"
    BY <1>2, FourEscapes DEF KeyOf
  <1>4. KeyOf(<<"KEYS", <<"CR">>>>) = "EOL" /\ KeyOf(<<"KEYS", <<"CR", "LF">>>>) = "EOL"
    BY <1>2, FourEscapes DEF KeyOf
  <1> QED BY <1>1, <1>3, <1>4

LEMMA KeyMessageIs ==
    ASSUME NEW m \in KeyMessages
    PROVE  /\ m[1] = "KEYS" /\ KeyOf(m) \in Typed /\ TelnetEnds!Unescape(m[2]) = <<KeyOf(m)>>
  <1>1. PICK b \in {<<"IAC", "IAC">>, <<"CR", "NUL">>, <<"CR">>, <<"CR", "LF">>} : m = <<"KEYS", b>>
    BY DEF KeyMessages
  <1>2. m[1] = "KEYS" /\ m[2] = b
    BY <1>1
  <1>3. KeyOf(m) \in Typed
    BY DEF KeyOf, Typed
  <1>4. TelnetEnds!Unescape(b) = <<KeyOf(<<"KEYS", b>>)>>
    BY EscapedAndBack
  <1> QED BY <1>1, <1>2, <1>3, <1>4

LEMMA KeyIsSent ==
    ASSUME NEW c \in Typed, NEW m, m = <<"KEYS", TelnetEnds!Escape(c)>>
    PROVE  m \in KeyMessages /\ KeyOf(m) = c
  <1>1. CASE c = "IAC"
    <2>1. TelnetEnds!Escape(c) = <<"IAC", "IAC">>
      BY <1>1 DEF TelnetEnds!Escape
    <2> QED BY <1>1, <2>1, EscapedAndBack DEF KeyMessages
  <1>2. CASE c = "CR"
    <2>1. TelnetEnds!Escape(c) = <<"CR", "NUL">>
      BY <1>2 DEF TelnetEnds!Escape
    <2> QED BY <1>2, <2>1, EscapedAndBack DEF KeyMessages
  <1>3. CASE c = "EOL"
    <2>1. TelnetEnds!Escape(c) \in {<<"CR">>, <<"CR", "LF">>}
      BY <1>3 DEF TelnetEnds!Escape
    <2> QED BY <1>3, <2>1, EscapedAndBack DEF KeyMessages
  <1> QED BY <1>1, <1>2, <1>3 DEF Typed

LEMMA MessageIs ==
    ASSUME NEW m \in OutMessages
    PROVE  /\ m[1] \in {"SB", "KEYS"} => \A q : m \notin Ours(q)
           /\ m[1] \notin {"SB", "KEYS"} => /\ m = <<"IAC", m[2], m[3]>>
                                            /\ m \notin KeyMessages /\ m \notin SizeMessages
           /\ m[1] = "SB" => m \notin KeyMessages
           /\ m[1] = "KEYS" => m \notin SizeMessages /\ (m \notin KeyMessages => m[2] = <<"IAC", "NOP">>)
           /\ m \in SizeMessages => m[1] = "SB" /\ m[2] = "NAWS" /\ m[3] \in Nat
           /\ m[1] = "SB" /\ m[2] = "NAWS" => m \in SizeMessages
  <1>1. CASE m \in KeyMessages
    BY <1>1, KeyMessageIs, Kinds
  <1>2. CASE m \in SizeMessages
    <2>1. PICK n \in Nat : m = <<"SB", "NAWS", n>>
      BY <1>2 DEF SizeMessages
    <2>2. m[1] = "SB" /\ m[2] = "NAWS" /\ m[3] \in Nat
      BY <2>1
    <2> QED BY <1>2, <2>1, <2>2, Kinds
  <1>3. CASE m = <<"KEYS", <<"IAC", "NOP">>>>
    <2>1. m[1] = "KEYS" /\ m[2] = <<"IAC", "NOP">>
      BY <1>3
    <2>2. m \notin KeyMessages /\ m \notin SizeMessages /\ \A q : m \notin Ours(q)
      BY <1>3, Kinds
    <2> QED BY <2>1, <2>2
  <1>4. CASE \E o \in Codes \ {"NAWS"} : m = <<"SB", o, "IS">>
    <2>1. PICK o \in Codes \ {"NAWS"} : m = <<"SB", o, "IS">>
      BY <1>4
    <2>2. m[1] = "SB" /\ m[2] # "NAWS"
      BY <2>1
    <2>3. m \notin KeyMessages /\ m \notin SizeMessages /\ \A q : m \notin Ours(q)
      BY <2>1, Kinds
    <2> QED BY <2>2, <2>3
  <1>5. CASE \E c \in Commands, k \in Codes : m = <<"IAC", c, k>>
    <2>1. PICK c \in Commands, k \in Codes : m = <<"IAC", c, k>>
      BY <1>5
    <2>2. m[1] = "IAC" /\ m[2] = c /\ m[3] = k
      BY <2>1
    <2>3. m \notin KeyMessages /\ m \notin SizeMessages
      BY <2>1, Kinds
    <2> QED BY <2>1, <2>2, <2>3
  <1> QED BY <1>1, <1>2, <1>3, <1>4, <1>5 DEF OutMessages

\* A message of the user's that is no size.
LEMMA UserSends ==
    ASSUME TelnetInv, NEW m \in OutMessages, m \notin SizeMessages, \A q : m \notin Ours(q),
           tn' = [tn EXCEPT !.out = Append(@, m)], There' \in Theres, There'.peer = There.peer,
           There'.wrote = There.wrote, There'.size = There.size, KeysTold(Append(tn.out, m), There'),
           fromServer' = fromServer, asks' = asks, text' = text, acts' = acts + 1
    PROVE  TelnetInv'
  <1>1. PICK t, s, u, s2 : t = tn /\ s = There /\ u = tn' /\ s2 = There'
    OBVIOUS
  <1>2. PICK toks, cut : Midst(t, s, toks, cut) /\ fromServer \in Seq(ByteNames) /\ Stream(fromServer, toks, cut)
    BY <1>1 DEF TelnetInv, Holds
  <1>3. /\ Talk(t, s, toks) /\ t \in Clients /\ s \in Theres /\ toks \in Seq(Tokens) /\ t.out \in Seq(OutMessages)
        /\ Sized(t, s)
    BY <1>2 DEF Midst, Talk, Stood, Clients
  <1>4. /\ u \in Clients /\ Same(t, u) /\ u.out = Append(t.out, m) /\ u.opt = t.opt
        /\ u.echoing = t.echoing /\ u.activated = t.activated
    BY <1>1, <1>3, SendIs
  <1>5. \A o \in Options : Stand(o, t.opt[o], s.peer[o], u.out, toks)
    <2> SUFFICES ASSUME NEW o \in Options PROVE Stand(o, t.opt[o], s.peer[o], u.out, toks)
      OBVIOUS
    <2>1. PICK st, has : st = t.opt[o] /\ has = s.peer[o]
      OBVIOUS
    <2>2. Stand(o, st, has, t.out, toks)
      BY <1>3, <2>1 DEF Talk, Stood
    <2>3. Stand(o, st, has, Append(t.out, m), toks)
      BY <1>3, <2>2, StandKept
    <2> QED BY <1>4, <2>1, <2>3
  <1>6. PICK on : on = TelnetEnds!Is(t, "NAWS", "ACTIVE") /\ SizeTold(t.out, on, t.size, s)
    BY <1>3 DEF Sized
  <1>7. SizeTold(Append(t.out, m), on, t.size, s)
    BY <1>3, <1>6, SizeKept, Zenon
  <1>8. SizeTold(u.out, TelnetEnds!Is(t, "NAWS", "ACTIVE"), t.size, s2)
    BY <1>1, <1>4, <1>6, <1>7 DEF SizeTold
  <1>9. s2 \in Theres /\ s2.peer = s.peer /\ s2.wrote = s.wrote /\ KeysTold(u.out, s2)
    BY <1>1, <1>4
  <1>11. Midst(u, s2, toks, cut)
    BY <1>2, <1>4, <1>5, <1>8, <1>9, OutChanges
  <1>12. Holds(tn', There', fromServer')
    BY <1>1, <1>2, <1>11 DEF Holds
  <1> QED BY <1>12 DEF TelnetInv

LEMMA KeyKeeps ==
    ASSUME TelnetInv, NEW c \in Typed, TelnetEnds!Key(c)
    PROVE  TelnetInv'
  <1>0. /\ acts' = acts + 1 /\ typed' = Append(typed, c) /\ tn' = [tn EXCEPT !.out = @ \o <<<<"KEYS", TelnetEnds!Escape(c)>>>>]
        /\ peer' = peer /\ peerSize' = peerSize /\ peerText' = peerText /\ asks' = asks /\ text' = text
        /\ fromServer' = fromServer
    BY DEF TelnetEnds!Key, TelnetEnds!Server
  <1>1. PICK m : m = <<"KEYS", TelnetEnds!Escape(c)>>
    OBVIOUS
  <1>2. m \in KeyMessages /\ KeyOf(m) = c
    BY <1>1, KeyIsSent
  <1>3. m \in OutMessages /\ m \notin SizeMessages /\ \A q : m \notin Ours(q)
    BY <1>2, Kinds
  <1>4. tn' = [tn EXCEPT !.out = Append(@, m)]
    <2>1. tn \in Clients /\ tn.out \in Seq(OutMessages)
      BY InvIs
    <2>2. tn.out \o <<m>> = Append(tn.out, m)
      BY <1>3, <2>1, AppendIsConcat
    <2>3. tn' = [tn EXCEPT !.out = @ \o <<m>>]
      BY <1>0, <1>1
    <2> QED BY <2>1, <2>2, <2>3 DEF Clients
  <1>6. /\ There \in Theres /\ There.peer = peer /\ There.size = peerSize /\ There.heard = peerText
        /\ There.typed = typed /\ There.wrote = text
        /\ peer \in [Options -> Minds] /\ peerSize \in Nat /\ peerText \in Seq(Typed) /\ typed \in Seq(Typed)
        /\ text \in Seq(Shown)
    BY InvIs
  <1>7. /\ There' \in Theres /\ There'.peer = There.peer /\ There'.wrote = There.wrote /\ There'.size = There.size
        /\ There'.heard = There.heard /\ There'.typed = Append(There.typed, c)
    <2>1. typed' \in Seq(Typed)
      BY <1>0, <1>6, AppendProperties
    <2>2. /\ There'.peer = peer' /\ There'.size = peerSize' /\ There'.heard = peerText'
          /\ There'.typed = typed' /\ There'.wrote = text'
      BY DEF There
    <2>3. There' \in Theres
      BY <1>0, <1>6, <2>1 DEF There, Theres
    <2> QED BY <1>0, <1>6, <2>2, <2>3
  <1>8. KeysTold(tn.out, There) /\ tn.out \in Seq(OutMessages)
    BY InvIs DEF Midst, Talk, Stood
  <1>9. KeysTold(Append(tn.out, m), There')
    BY <1>2, <1>6, <1>7, <1>8, KeysGrow
  <1> QED BY <1>0, <1>3, <1>4, <1>7, <1>9, UserSends

LEMMA PingKeeps ==
    ASSUME TelnetInv, TelnetEnds!Special("PING")
    PROVE  TelnetInv'
  <1>0. /\ acts' = acts + 1 /\ There' = There /\ fromServer' = fromServer /\ asks' = asks /\ text' = text
        /\ \/ tn' = tn
           \/ tn' = [tn EXCEPT !.out = Append(@, <<"KEYS", <<"IAC", "NOP">>>>)]
    BY DEF TelnetEnds!Special, TelnetEnds!Server, There
  <1>1. CASE tn' = tn
    <2>1. Holds(tn', There', fromServer')
      BY <1>0, <1>1 DEF TelnetInv
    <2>2. acts' \in Nat
      BY <1>0, InvIs
    <2> QED BY <1>0, <2>1, <2>2 DEF TelnetInv
  <1>2. CASE tn' = [tn EXCEPT !.out = Append(@, <<"KEYS", <<"IAC", "NOP">>>>)]
    <2>1. PICK m : m = <<"KEYS", <<"IAC", "NOP">>>>
      OBVIOUS
    <2>2. m \in OutMessages /\ m \notin SizeMessages /\ m \notin KeyMessages /\ \A q : m \notin Ours(q)
      BY <2>1, Kinds
    <2>3. tn' = [tn EXCEPT !.out = Append(@, m)]
      BY <1>2, <2>1
    <2>4. KeysTold(tn.out, There) /\ tn.out \in Seq(OutMessages) /\ There \in Theres
      BY InvIs DEF Midst, Talk, Stood
    <2>5. KeysTold(Append(tn.out, m), There')
      BY <1>0, <2>2, <2>4, KeysKept
    <2> QED BY <1>0, <2>2, <2>3, <2>4, <2>5, UserSends
  <1> QED BY <1>0, <1>1, <1>2

-----------------------------------------------------------------------------
(* The actions of the server.                                                *)

\* The server reads a size, an answer to a question or a key.
LEMMA ToldKeeps ==
    ASSUME TelnetInv, tn.out # <<>>, tn' = [tn EXCEPT !.out = Tail(@)], NEW m, m = Head(tn.out),
           m[1] \in {"SB", "KEYS"}, peerSize' = IF m[1] = "SB" /\ m[2] = "NAWS" THEN m[3] ELSE peerSize,
           peerText' = IF m[1] = "KEYS" THEN peerText \o TelnetEnds!Unescape(m[2]) ELSE peerText,
           peer' = peer, fromServer' = fromServer, asks' = asks, text' = text, acts' = acts, typed' = typed
    PROVE  TelnetInv'
  <1>0. /\ tn \in Clients /\ tn.out \in Seq(OutMessages) /\ There \in Theres /\ There.peer = peer
        /\ There.size = peerSize /\ There.heard = peerText /\ There.typed = typed /\ There.wrote = text
        /\ peer \in [Options -> Minds] /\ peerSize \in Nat /\ peerText \in Seq(Typed) /\ typed \in Seq(Typed)
        /\ text \in Seq(Shown)
    BY InvIs
  <1>1. m \in OutMessages /\ Tail(tn.out) \in Seq(OutMessages)
    BY <1>0, Tailed
  <1>2. /\ \A q : m \notin Ours(q)
        /\ m[1] = "SB" => m \notin KeyMessages
        /\ m[1] = "KEYS" => m \notin SizeMessages /\ (m \notin KeyMessages => m[2] = <<"IAC", "NOP">>)
        /\ m \in SizeMessages => m[1] = "SB" /\ m[2] = "NAWS" /\ m[3] \in Nat
        /\ m[1] = "SB" /\ m[2] = "NAWS" => m \in SizeMessages
    BY <1>1, MessageIs
  <1>3. peerSize' = (IF m \in SizeMessages THEN m[3] ELSE peerSize) /\ peerSize' \in Nat
    BY <1>0, <1>2
  <1>4. /\ m \in KeyMessages => peerText' = Append(peerText, KeyOf(m)) /\ KeyOf(m) \in Typed
        /\ m \notin KeyMessages => peerText' = peerText
    <2>1. CASE m \in KeyMessages
      <3>1. m[1] = "KEYS" /\ KeyOf(m) \in Typed /\ TelnetEnds!Unescape(m[2]) = <<KeyOf(m)>>
        BY <2>1, KeyMessageIs
      <3>2. peerText \o <<KeyOf(m)>> = Append(peerText, KeyOf(m))
        BY <1>0, <3>1, AppendIsConcat
      <3> QED BY <2>1, <3>1, <3>2
    <2>2. CASE m \notin KeyMessages
      <3>1. m[1] = "KEYS" => TelnetEnds!Unescape(m[2]) = <<>>
        BY <1>2, <2>2, EscapedAndBack
      <3>2. peerText \o <<>> = peerText
        BY <1>0, ConcatEmptySeq
      <3> QED BY <2>2, <3>1, <3>2
    <2> QED BY <2>1, <2>2
  <1>5. /\ There'.peer = peer' /\ There'.size = peerSize' /\ There'.heard = peerText'
        /\ There'.typed = typed' /\ There'.wrote = text'
    BY DEF There
  <1>6. There' \in Theres
    <2>1. peerText' \in Seq(Typed)
      <3>1. m \in KeyMessages => Append(peerText, KeyOf(m)) \in Seq(Typed)
        BY <1>0, <1>4, Appended
      <3> QED BY <1>0, <1>4, <3>1
    <2> QED BY <1>0, <1>3, <2>1 DEF There, Theres
  <1>7. PICK t, s, u, s2 : t = tn /\ s = There /\ u = tn' /\ s2 = There'
    OBVIOUS
  <1>8. PICK toks, cut : Midst(t, s, toks, cut) /\ fromServer \in Seq(ByteNames) /\ Stream(fromServer, toks, cut)
    BY <1>7 DEF TelnetInv, Holds
  <1>9. /\ Talk(t, s, toks) /\ t \in Clients /\ s \in Theres /\ toks \in Seq(Tokens) /\ t.out \in Seq(OutMessages)
        /\ Sized(t, s) /\ KeysTold(t.out, s) /\ t.out # <<>> /\ Head(t.out) = m
    BY <1>7, <1>8 DEF Midst, Talk, Stood, Clients
  <1>10. /\ u \in Clients /\ Same(t, u) /\ u.out = Tail(t.out) /\ u.opt = t.opt
         /\ u.echoing = t.echoing /\ u.activated = t.activated
    <2>1. u = [t EXCEPT !.out = Tail(@)] /\ Tail(t.out) \in Seq(OutMessages)
      BY <1>1, <1>7
    <2> QED BY <1>9, <2>1 DEF Clients, Same
  <1>11. \A o \in Options : Stand(o, t.opt[o], s.peer[o], u.out, toks)
    <2> SUFFICES ASSUME NEW o \in Options PROVE Stand(o, t.opt[o], s.peer[o], u.out, toks)
      OBVIOUS
    <2>1. PICK st, has : st = t.opt[o] /\ has = s.peer[o]
      OBVIOUS
    <2>2. Stand(o, st, has, t.out, toks)
      BY <1>9, <2>1 DEF Talk, Stood
    <2>3. Stand(o, st, has, Tail(t.out), toks)
      BY <1>2, <1>9, <2>2, StandKept
    <2> QED BY <1>10, <2>1, <2>3
  <1>12. KeysTold(u.out, s2)
    <2>1. CASE m \in KeyMessages
      <3>1. s2 \in Theres /\ s2.typed = s.typed /\ s2.heard = Append(s.heard, KeyOf(Head(t.out)))
        BY <1>0, <1>4, <1>5, <1>6, <1>7, <1>9, <2>1
      <3> QED BY <1>9, <1>10, <2>1, <3>1, KeysHeard
    <2>2. CASE m \notin KeyMessages
      <3>1. KeysTold(Tail(t.out), s)
        BY <1>9, <2>2, KeysHeard
      <3>2. s2.typed = s.typed /\ s2.heard = s.heard
        BY <1>0, <1>4, <1>5, <1>7, <2>2
      <3> QED BY <1>10, <3>1, <3>2 DEF KeysTold
    <2> QED BY <2>1, <2>2
  <1>13. SizeTold(u.out, TelnetEnds!Is(t, "NAWS", "ACTIVE"), t.size, s2)
    <2>1. PICK on : on = TelnetEnds!Is(t, "NAWS", "ACTIVE") /\ SizeTold(t.out, on, t.size, s)
      BY <1>9 DEF Sized
    <2>2. IF Head(t.out) \in SizeMessages THEN s2.size = Head(t.out)[3] ELSE s2.size = s.size
      BY <1>0, <1>3, <1>5, <1>7, <1>9
    <2>3. SizeTold(Tail(t.out), on, t.size, s2)
      BY <1>9, <2>1, <2>2, SizeHeard, Zenon
    <2> QED BY <1>10, <2>1, <2>3
  <1>14. s2.peer = s.peer /\ s2.wrote = s.wrote /\ s2 \in Theres
    BY <1>0, <1>5, <1>6, <1>7
  <1>15. Midst(u, s2, toks, cut)
    BY <1>8, <1>10, <1>11, <1>12, <1>13, <1>14, OutChanges
  <1>16. Holds(tn', There', fromServer')
    BY <1>7, <1>8, <1>15 DEF Holds
  <1> QED BY <1>16 DEF TelnetInv

\* A message about an option, or a question, does not change what is being read.
LEMMA ReadingGrows ==
    ASSUME NEW t, NEW s, NEW toks \in Seq(Tokens), NEW cut, Reading(t, s, toks, cut), toks = <<>> => cut = 0,
           NEW tok \in Tokens, tok \notin Texts, NEW s2, s2.wrote = s.wrote
    PROVE  Reading(t, s2, Append(toks, tok), cut) /\ Reading(t, s2, toks, cut)
  <1>1. PICK w \in Seq(Texts) :
        /\ Only(toks, Texts, w)
        /\ Skip(toks, cut) <= Len(w) /\ Len(s.wrote) + Skip(toks, cut) = Len(t.text) + Len(w)
        /\ \A i \in 1 .. Len(t.text) : s.wrote[i] = t.text[i]
        /\ \A i \in 1 .. Len(s.wrote) - Len(t.text) : s.wrote[Len(t.text) + i] = w[i + Skip(toks, cut)][1]
    BY DEF Reading, TextShown
  <1>2. PICK more : more = Append(toks, tok)
    OBVIOUS
  <1>3. toks # <<>> => more[1] = toks[1]
    <2>1. toks # <<>> => 1 \in 1 .. Len(toks)
      BY LenProperties, EmptySeq
    <2> QED BY <1>2, <2>1, Appended
  <1>4. Skip(more, cut) = Skip(toks, cut)
    BY <1>3 DEF Skip
  <1>5. Only(more, Texts, w)
    BY <1>1, <1>2, OnlyAppended
  <1>6. TextShown(t.text, s2, more, cut) /\ TextShown(t.text, s2, toks, cut)
    BY <1>1, <1>4, <1>5 DEF TextShown
  <1>7. Parsing(t.state, more, cut)
    BY <1>3 DEF Reading, Parsing
  <1> QED BY <1>2, <1>6, <1>7 DEF Reading

\* The server does not come to ask for the end of what the client has off.
Mild(st, has, has2) == has2 # "asked off" \/ has2 = has \/ st # "INACTIVE"

\* The server's mind about one option changes, with a message to it or from it.
LEMMA PeerTurns ==
    ASSUME NEW t, NEW s, NEW toks, NEW cut, Midst(t, s, toks, cut), toks = <<>> => cut = 0, NEW o \in Options,
           NEW u, u = t \/ (t.out # <<>> /\ Head(t.out) \in Ours(o) /\ u = [t EXCEPT !.out = Tail(@)]),
           NEW more, more = toks \/ (\E tok \in Its(o) : more = Append(toks, tok)),
           NEW s2 \in Theres, s2.size = s.size, s2.heard = s.heard, s2.typed = s.typed, s2.wrote = s.wrote,
           \A q \in Options : q # o => s2.peer[q] = s.peer[q],
           Stand(o, t.opt[o], s2.peer[o], u.out, more),
           Mild(t.opt[o], s.peer[o], s2.peer[o])
    PROVE  Midst(u, s2, more, cut)
  <1>0. /\ Talk(t, s, toks) /\ (~t.activated => Passive(t.opt, s.peer)) /\ Reading(t, s, toks, cut)
        /\ t \in Clients /\ s \in Theres /\ toks \in Seq(Tokens) /\ t.out \in Seq(OutMessages)
        /\ KeysTold(t.out, s) /\ Sized(t, s) /\ Environs(t.opt, s.peer) /\ Echo(t.opt, t.echoing)
        /\ (~t.activated => Untold(t.opt, s.peer))
    BY DEF Midst, Talk, Stood, Clients
  <1>1. \A m \in Ours(o) : m \notin KeyMessages /\ m \notin SizeMessages
    BY OptionSays
  <1>2. /\ u \in Clients /\ Same(t, u) /\ u.opt = t.opt /\ u.echoing = t.echoing /\ u.activated = t.activated
        /\ u.out = t.out \/ (t.out # <<>> /\ Head(t.out) \in Ours(o) /\ u.out = Tail(t.out))
    <2>1. t.out # <<>> => Tail(t.out) \in Seq(OutMessages)
      BY <1>0, Tailed
    <2> QED BY <1>0, <2>1 DEF Clients, Same
  <1>3. more \in Seq(Tokens) /\ Reading(u, s2, more, cut)
    <2>1. \A tok \in Its(o) : tok \in Tokens /\ tok \notin Texts
      BY TokenKinds DEF Tokens
    <2>2. Query \in Tokens /\ Query \notin Texts
      BY TokenKinds DEF Tokens
    <2>3. CASE more = toks
      <3>1. Reading(t, s2, toks, cut)
        BY <1>0, <2>2, ReadingGrows
      <3> QED BY <1>0, <1>2, <2>3, <3>1 DEF Reading, Same
    <2>4. ASSUME NEW tok \in Its(o), more = Append(toks, tok) PROVE more \in Seq(Tokens) /\ Reading(u, s2, more, cut)
      <3>1. tok \in Tokens /\ tok \notin Texts
        BY <2>1
      <3>2. Reading(t, s2, Append(toks, tok), cut)
        BY <1>0, <3>1, ReadingGrows
      <3>3. Append(toks, tok) \in Seq(Tokens)
        BY <1>0, <3>1, Appended
      <3> QED BY <1>2, <2>4, <3>2, <3>3 DEF Reading, Same
    <2> QED BY <2>3, <2>4
  <1>4. \A q \in Options : Stand(q, u.opt[q], s2.peer[q], u.out, more)
    <2> SUFFICES ASSUME NEW q \in Options, q # o PROVE Stand(q, u.opt[q], s2.peer[q], u.out, more)
      BY <1>2
    <2>1. PICK st, has : st = t.opt[q] /\ has = s.peer[q]
      OBVIOUS
    <2>2. Stand(q, st, has, t.out, toks)
      BY <1>0, <2>1 DEF Talk, Stood
    <2>3. (\A m \in Ours(o) : m \notin Ours(q)) /\ (\A m \in Its(o) : m \notin Its(q) /\ m \in Tokens)
      BY Apart, TelnetAssumption DEF Tokens
    <2>4. Stand(q, st, has, u.out, toks) /\ u.out \in Seq(OutMessages)
      <3>1. u.out \in Seq(OutMessages)
        BY <1>2 DEF Clients
      <3>2. t.out # <<>> /\ Head(t.out) \in Ours(o) => Stand(q, st, has, Tail(t.out), toks)
        BY <1>0, <2>2, <2>3, StandKept
      <3> QED BY <1>2, <2>2, <3>1, <3>2
    <2>5. Stand(q, st, has, u.out, more)
      <3>1. \A tok \in Its(o) : Stand(q, st, has, u.out, Append(toks, tok))
        BY <1>0, <2>3, <2>4, StandKept
      <3> QED BY <2>4, <3>1
    <2> QED BY <1>2, <2>1, <2>5
  <1>5. KeysTold(u.out, s2)
    <2>1. KeysTold(u.out, s)
      BY <1>0, <1>1, <1>2, KeysHeard
    <2> QED BY <2>1 DEF KeysTold
  <1>6. Sized(u, s2)
    <2>1. PICK on : on = TelnetEnds!Is(t, "NAWS", "ACTIVE") /\ SizeTold(t.out, on, t.size, s)
      BY <1>0 DEF Sized
    <2>2. SizeTold(t.out, on, t.size, s2)
      BY <2>1 DEF SizeTold
    <2>3. t.out # <<>> /\ Head(t.out) \in Ours(o) => SizeTold(Tail(t.out), on, t.size, s2)
      <3>1. ASSUME t.out # <<>>, Head(t.out) \in Ours(o) PROVE SizeTold(Tail(t.out), on, t.size, s2)
        <4>1. IF Head(t.out) \in SizeMessages THEN s2.size = Head(t.out)[3] ELSE s2.size = s.size
          BY <1>1, <3>1
        <4> QED BY <1>0, <2>1, <3>1, <4>1, SizeHeard, Zenon
      <3> QED BY <3>1
    <2>4. SizeTold(u.out, on, t.size, s2)
      BY <1>2, <2>2, <2>3, Zenon
    <2>5. TelnetEnds!Is(u, "NAWS", "ACTIVE") = TelnetEnds!Is(t, "NAWS", "ACTIVE") /\ u.size = t.size
      BY <1>2 DEF TelnetEnds!Is, Same
    <2> QED BY <2>1, <2>4, <2>5 DEF Sized
  <1>7. Environs(u.opt, s2.peer)
    <2>1. o # "OENV" \/ "OENV" \notin Options =>
              ("OENV" \in Options => s2.peer["OENV"] = s.peer["OENV"])
      OBVIOUS
    <2>2. o = "OENV" => s2.peer["OENV"] # "asked off" \/ s2.peer["OENV"] = s.peer["OENV"] \/ t.opt["OENV"] # "INACTIVE"
      BY DEF Mild
    <2> QED BY <1>0, <1>2, <2>1, <2>2 DEF Environs
  <1>8. ~u.activated => Passive(u.opt, s2.peer) /\ Untold(u.opt, s2.peer)
    <2>1. ASSUME ~t.activated, NEW q \in Options PROVE t.opt[q] = "INACTIVE" /\ s2.peer[q] # "asked off"
      <3>1. t.opt[q] = "INACTIVE" /\ s.peer[q] # "asked off"
        BY <1>0, <2>1 DEF Passive
      <3> QED BY <3>1 DEF Mild
    <2> QED BY <1>2, <2>1 DEF Passive, Untold
  <1>9. Stood(u, s2, more)
    BY <1>2, <1>3, <1>4, <1>5, <1>8 DEF Stood
  <1>10. Talk(u, s2, more)
    BY <1>0, <1>2, <1>6, <1>7, <1>9 DEF Talk
  <1> QED BY <1>3, <1>8, <1>10 DEF Midst

\* What the server may say when its mind about an option goes from has to has2.
Said(o, st, has, has2, out, out2) ==
    \/ /\ fromServer' = fromServer
       /\ \A toks \in Seq(Tokens) : Stand(o, st, has, out, toks) => Stand(o, st, has2, out2, toks)
    \/ \E tok \in Its(o) :
          /\ fromServer' = fromServer \o tok
          /\ \A toks \in Seq(Tokens) : Stand(o, st, has, out, toks) => Stand(o, st, has2, out2, Append(toks, tok))

LEMMA MindKeeps ==
    ASSUME TelnetInv, NEW o \in Options, peer' \in [Options -> Minds], \A q \in Options : q # o => peer'[q] = peer[q],
           tn' = tn \/ (tn.out # <<>> /\ Head(tn.out) \in Ours(o) /\ tn' = [tn EXCEPT !.out = Tail(@)]),
           Mild(tn.opt[o], peer[o], peer'[o]),
           Said(o, tn.opt[o], peer[o], peer'[o], tn.out, tn'.out),
           peerSize' = peerSize, peerText' = peerText, asks' \in Nat, asks' >= asks, asks' <= MaxServer, text' = text,
           acts' = acts, typed' = typed
    PROVE  TelnetInv'
  <1>0. /\ There \in Theres /\ There.peer = peer /\ There.size = peerSize /\ There.heard = peerText
        /\ There.typed = typed /\ There.wrote = text
        /\ peerSize \in Nat /\ peerText \in Seq(Typed) /\ typed \in Seq(Typed) /\ text \in Seq(Shown)
        /\ acts \in Nat /\ asks \in Nat /\ Len(text) <= asks
    BY InvIs
  <1>1. Len(text') <= asks'
    <2>1. Len(text) \in Nat
      BY <1>0, LenProperties
    <2> QED BY <1>0, <2>1
  <1>2. PICK toks, cut : Midst(tn, There, toks, cut) /\ fromServer \in Seq(ByteNames) /\ Stream(fromServer, toks, cut)
    BY DEF TelnetInv, Holds
  <1>3. toks \in Seq(Tokens) /\ (toks = <<>> => cut = 0)
    BY <1>2 DEF Stream
  <1>4. Stand(o, tn.opt[o], peer[o], tn.out, toks)
    BY <1>0, <1>2 DEF Midst, Talk, Stood
  <1>5. /\ There' \in Theres /\ There'.size = There.size /\ There'.heard = There.heard /\ There'.typed = There.typed
        /\ There'.wrote = There.wrote /\ There'.peer = peer'
    <2>1. /\ There'.peer = peer' /\ There'.size = peerSize' /\ There'.heard = peerText'
          /\ There'.typed = typed' /\ There'.wrote = text'
      BY DEF There
    <2>2. There' \in Theres
      BY <1>0 DEF There, Theres
    <2> QED BY <1>0, <2>1, <2>2
  <1>6. PICK more : /\ more = toks \/ \E tok \in Its(o) : more = Append(toks, tok)
                    /\ Stand(o, tn.opt[o], peer'[o], tn'.out, more)
                    /\ fromServer' \in Seq(ByteNames) /\ Stream(fromServer', more, cut)
    <2>0. PICK st, has, has2, out, out2 :
             st = tn.opt[o] /\ has = peer[o] /\ has2 = peer'[o] /\ out = tn.out /\ out2 = tn'.out
      OBVIOUS
    <2>1. Said(o, st, has, has2, out, out2) /\ Stand(o, st, has, out, toks)
      BY <1>4, <2>0
    <2>2. CASE /\ fromServer' = fromServer
               /\ \A q \in Seq(Tokens) : Stand(o, st, has, out, q) => Stand(o, st, has2, out2, q)
      <3>1. Stand(o, st, has2, out2, toks)
        BY <1>3, <2>1, <2>2
      <3> QED BY <1>2, <2>0, <2>2, <3>1
    <2>3. ASSUME NEW tok \in Its(o), fromServer' = fromServer \o tok,
                 \A q \in Seq(Tokens) : Stand(o, st, has, out, q) => Stand(o, st, has2, out2, Append(q, tok))
          PROVE  /\ Stand(o, st, has2, out2, Append(toks, tok))
                 /\ fromServer' \in Seq(ByteNames) /\ Stream(fromServer', Append(toks, tok), cut)
      <3>1. tok \in Tokens
        BY DEF Tokens
      <3>2. fromServer \o tok \in Seq(ByteNames) /\ Stream(fromServer \o tok, Append(toks, tok), cut)
        BY <1>2, <3>1, StreamGrows, TelnetAssumption
      <3> QED BY <1>3, <2>1, <2>3, <3>2
    <2> QED BY <2>0, <2>1, <2>2, <2>3 DEF Said
  <1>7. Midst(tn', There', more, cut)
    <2>1. \A q \in Options : q # o => There'.peer[q] = There.peer[q]
      BY <1>0, <1>5
    <2>2. Stand(o, tn.opt[o], There'.peer[o], tn'.out, more)
      BY <1>5, <1>6
    <2>3. Mild(tn.opt[o], There.peer[o], There'.peer[o])
      BY <1>0, <1>5
    <2>4. more = toks \/ (\E tok \in Its(o) : more = Append(toks, tok))
      BY <1>6
    <2> QED BY <1>2, <1>3, <1>5, <2>1, <2>2, <2>3, <2>4, PeerTurns
  <1>8. Holds(tn', There', fromServer')
    BY <1>6, <1>7 DEF Holds
  <1> QED BY <1>0, <1>1, <1>8 DEF TelnetInv

LEMMA ServerReceivesKeeps ==
    ASSUME TelnetInv, TelnetEnds!ServerReceives
    PROVE  TelnetInv'
  <1>0. /\ tn \in Clients /\ tn.out \in Seq(OutMessages) /\ peer \in [Options -> Minds] /\ asks \in Nat /\ asks <= MaxServer
    BY InvIs
  <1>1. PICK m : m = Head(tn.out)
    OBVIOUS
  <1>2. /\ tn.out # <<>> /\ tn' = [tn EXCEPT !.out = Tail(@)]
        /\ asks' = asks /\ text' = text /\ acts' = acts /\ typed' = typed
    BY DEF TelnetEnds!ServerReceives, TelnetEnds!User
  <1>3. m \in OutMessages
    BY <1>0, <1>1, <1>2, Tailed
  <1>4. CASE m[1] \in {"SB", "KEYS"}
    <2>1. /\ peerSize' = IF m[1] = "SB" /\ m[2] = "NAWS" THEN m[3] ELSE peerSize
          /\ peerText' = IF m[1] = "KEYS" THEN peerText \o TelnetEnds!Unescape(m[2]) ELSE peerText
          /\ peer' = peer /\ fromServer' = fromServer
      BY <1>1, <1>4 DEF TelnetEnds!ServerReceives
    <2> QED BY <1>1, <1>2, <1>4, <2>1, ToldKeeps
  <1>5. CASE m[1] \notin {"SB", "KEYS"}
    <2>1. PICK o \in Options :
            /\ TelnetEnds!Code(o) = m[3] /\ m[2] \in {TelnetEnds!Send(o), TelnetEnds!NSend(o)}
            /\ peerSize' = peerSize /\ peerText' = peerText
            /\ IF m[2] = TelnetEnds!Send(o)
                 THEN \/ /\ peer[o] = "off" /\ peer' = [peer EXCEPT ![o] = "on"]
                         /\ TelnetEnds!Say(TelnetEnds!Yes(o), o)
                      \/ peer[o] = "off" /\ peer' = peer /\ TelnetEnds!Say(TelnetEnds!No(o), o)
                      \/ /\ peer[o] # "off" /\ fromServer' = fromServer
                         /\ peer' = [peer EXCEPT ![o] = IF @ = "asked on" THEN "on" ELSE @]
                 ELSE IF peer[o] = "on"
                   THEN peer' = [peer EXCEPT ![o] = "off"] /\ TelnetEnds!Say(TelnetEnds!No(o), o)
                   ELSE peer' = [peer EXCEPT ![o] = "off"] /\ fromServer' = fromServer
      BY <1>1, <1>5 DEF TelnetEnds!ServerReceives
    <2>2. m = <<"IAC", m[2], m[3]>>
      BY <1>3, <1>5, MessageIs
    <2>3. /\ m[2] = TelnetEnds!Send(o) => m = Asks(o)
          /\ m[2] # TelnetEnds!Send(o) => m = Drops(o)
          /\ m \in Ours(o)
      BY <2>1, <2>2, OptionSays
    <2>4. /\ Agrees(o) \in Its(o) /\ Denies(o) \in Its(o) /\ Agrees(o) \in Tokens /\ Denies(o) \in Tokens
          /\ TelnetEnds!Say(TelnetEnds!Yes(o), o) => fromServer' = fromServer \o Agrees(o)
          /\ TelnetEnds!Say(TelnetEnds!No(o), o) => fromServer' = fromServer \o Denies(o)
      BY OptionSays, Sides DEF TelnetEnds!Say
    <2>5. PICK st, has, has2, u : st = tn.opt[o] /\ has = peer[o] /\ has2 = peer'[o] /\ u = tn'
      OBVIOUS
    <2>6. u = [tn EXCEPT !.out = Tail(@)] /\ u.out = Tail(tn.out) /\ tn.out # <<>> /\ Head(tn.out) = m
      BY <1>0, <1>1, <1>2, <2>5 DEF Clients
    <2>7. \/ m = Asks(o) /\ has = "off" /\ has2 = "on" /\ fromServer' = fromServer \o Agrees(o)
          \/ m = Asks(o) /\ has = "off" /\ has2 = "off" /\ fromServer' = fromServer \o Denies(o)
          \/ m = Asks(o) /\ has # "off" /\ has2 = (IF has = "asked on" THEN "on" ELSE has) /\ fromServer' = fromServer
          \/ m = Drops(o) /\ has = "on" /\ has2 = "off" /\ fromServer' = fromServer \o Denies(o)
          \/ m = Drops(o) /\ has # "on" /\ has2 = "off" /\ fromServer' = fromServer
      BY <1>0, <2>1, <2>3, <2>4, <2>5
    <2>8. peer' \in [Options -> Minds] /\ \A q \in Options : q # o => peer'[q] = peer[q]
      <3>1. "on" \in Minds /\ "off" \in Minds
        BY DEF Minds
      <3> QED BY <1>0, <2>1, <3>1
    <2>9. Mild(st, has, has2)
      BY <2>7 DEF Mild
    <2>10. Said(o, st, has, has2, tn.out, u.out)
      <3>1. PICK out : out = tn.out
        OBVIOUS
      <3>2. out \in Seq(OutMessages) /\ out # <<>> /\ Head(out) = m /\ u.out = Tail(out)
        BY <1>0, <2>6, <3>1
      <3>3. ASSUME m = Asks(o), NEW toks \in Seq(Tokens), Stand(o, st, has, out, toks)
            PROVE  /\ has = "off" => /\ Stand(o, st, "on", Tail(out), Append(toks, Agrees(o)))
                                     /\ Stand(o, st, "off", Tail(out), Append(toks, Denies(o)))
                   /\ has # "off" => Stand(o, st, IF has = "asked on" THEN "on" ELSE has, Tail(out), toks)
        BY <2>4, <3>2, <3>3, StandHeard
      <3>4. ASSUME m = Drops(o), NEW toks \in Seq(Tokens), Stand(o, st, has, out, toks)
            PROVE  /\ has = "on" => Stand(o, st, "off", Tail(out), Append(toks, Denies(o)))
                   /\ has # "on" => Stand(o, st, "off", Tail(out), toks)
        BY <2>4, <3>2, <3>4, StandDropped
      <3>5. CASE m = Asks(o) /\ has = "off" /\ has2 = "on" /\ fromServer' = fromServer \o Agrees(o)
        BY <2>4, <3>1, <3>2, <3>3, <3>5 DEF Said
      <3>6. CASE m = Asks(o) /\ has = "off" /\ has2 = "off" /\ fromServer' = fromServer \o Denies(o)
        BY <2>4, <3>1, <3>2, <3>3, <3>6 DEF Said
      <3>7. CASE m = Asks(o) /\ has # "off" /\ has2 = (IF has = "asked on" THEN "on" ELSE has) /\ fromServer' = fromServer
        BY <3>1, <3>2, <3>3, <3>7 DEF Said
      <3>8. CASE m = Drops(o) /\ has = "on" /\ has2 = "off" /\ fromServer' = fromServer \o Denies(o)
        BY <2>4, <3>1, <3>2, <3>4, <3>8 DEF Said
      <3>9. CASE m = Drops(o) /\ has # "on" /\ has2 = "off" /\ fromServer' = fromServer
        BY <3>1, <3>2, <3>4, <3>9 DEF Said
      <3> QED BY <2>7, <3>5, <3>6, <3>7, <3>8, <3>9
    <2>11. tn.out # <<>> /\ Head(tn.out) \in Ours(o) /\ u = [tn EXCEPT !.out = Tail(@)]
      BY <2>3, <2>6
    <2>12. asks' \in Nat /\ asks' >= asks /\ asks' <= MaxServer
      BY <1>0, <1>2
    <2>13. /\ Said(o, tn.opt[o], peer[o], peer'[o], tn.out, tn'.out)
           /\ Mild(tn.opt[o], peer[o], peer'[o])
      BY <2>5, <2>9, <2>10
    <2>14. tn.out # <<>> /\ Head(tn.out) \in Ours(o) /\ tn' = [tn EXCEPT !.out = Tail(@)]
      BY <2>5, <2>11
    <2> QED BY <1>2, <2>1, <2>8, <2>12, <2>13, <2>14, MindKeeps
  <1> QED BY <1>4, <1>5

LEMMA ServerAsksKeeps ==
    ASSUME TelnetInv, NEW o \in Options, TelnetEnds!ServerAsks(o)
    PROVE  TelnetInv'
  <1>0. /\ tn \in Clients /\ tn.out \in Seq(OutMessages) /\ peer \in [Options -> Minds] /\ asks \in Nat
        /\ There.peer = peer
    BY InvIs
  <1>1. /\ asks < MaxServer /\ asks' = asks + 1 /\ tn' = tn /\ peerSize' = peerSize /\ peerText' = peerText
        /\ text' = text /\ acts' = acts /\ typed' = typed
        /\ \/ peer[o] = "off" /\ peer' = [peer EXCEPT ![o] = "asked on"] /\ fromServer' = fromServer \o Agrees(o)
           \/ peer[o] = "on" /\ peer' = [peer EXCEPT ![o] = "asked off"] /\ fromServer' = fromServer \o Denies(o)
    BY OptionSays, Sides DEF TelnetEnds!ServerAsks, TelnetEnds!Say, TelnetEnds!User
  <1>2. Agrees(o) \in Its(o) /\ Denies(o) \in Its(o) /\ Agrees(o) \in Tokens /\ Denies(o) \in Tokens
    BY OptionSays
  <1>3. PICK st, has, has2, u, out : st = tn.opt[o] /\ has = peer[o] /\ has2 = peer'[o] /\ u = tn' /\ out = tn.out
    OBVIOUS
  <1>4. /\ u = tn /\ u.out = out /\ out \in Seq(OutMessages)
        /\ \/ has = "off" /\ has2 = "asked on" /\ fromServer' = fromServer \o Agrees(o)
           \/ has = "on" /\ has2 = "asked off" /\ fromServer' = fromServer \o Denies(o)
    BY <1>0, <1>1, <1>3
  <1>5. ASSUME NEW toks \in Seq(Tokens), Stand(o, st, has, out, toks)
        PROVE  /\ has = "off" => Stand(o, st, "asked on", out, Append(toks, Agrees(o)))
               /\ has = "on" => Stand(o, st, "asked off", out, Append(toks, Denies(o))) /\ st # "INACTIVE"
    BY <1>2, <1>4, <1>5, StandOpened
  <1>6. Mild(st, has, has2)
    <2>1. PICK toks \in Seq(Tokens) : Stand(o, tn.opt[o], There.peer[o], tn.out, toks)
      BY InvIs DEF Midst, Talk, Stood
    <2>2. Stand(o, st, has, out, toks)
      BY <1>0, <1>3, <2>1
    <2> QED BY <1>4, <1>5, <2>2 DEF Mild
  <1>7. Said(o, st, has, has2, tn.out, u.out)
    <2>1. CASE has = "off" /\ has2 = "asked on" /\ fromServer' = fromServer \o Agrees(o)
      BY <1>2, <1>3, <1>4, <1>5, <2>1 DEF Said
    <2>2. CASE has = "on" /\ has2 = "asked off" /\ fromServer' = fromServer \o Denies(o)
      BY <1>2, <1>3, <1>4, <1>5, <2>2 DEF Said
    <2> QED BY <1>4, <2>1, <2>2
  <1>8. peer' \in [Options -> Minds] /\ \A q \in Options : q # o => peer'[q] = peer[q]
    <2>1. "asked on" \in Minds /\ "asked off" \in Minds
      BY DEF Minds
    <2> QED BY <1>0, <1>1, <2>1
  <1>9. asks' \in Nat /\ asks' >= asks /\ asks' <= MaxServer
    <2>1. MaxServer \in Nat
      BY MCAssumption
    <2>2. asks < MaxServer /\ asks' = asks + 1 /\ asks \in Nat
      BY <1>0, <1>1
    <2> QED BY <2>1, <2>2
  <1>10. /\ Said(o, tn.opt[o], peer[o], peer'[o], tn.out, tn'.out)
         /\ Mild(tn.opt[o], peer[o], peer'[o])
    BY <1>3, <1>6, <1>7
  <1> QED BY <1>1, <1>8, <1>9, <1>10, MindKeeps

\* Text that the server writes.
LEMMA ReadingWrites ==
    ASSUME NEW t \in Clients, NEW s \in Theres, NEW toks \in Seq(Tokens), NEW cut, Reading(t, s, toks, cut),
           toks = <<>> => cut = 0, NEW tok \in Texts, NEW s2, s2.wrote = Append(s.wrote, tok[1]), tok[1] \in Shown
    PROVE  Reading(t, s2, Append(toks, tok), cut)
  <1>1. PICK w \in Seq(Texts) :
        /\ Only(toks, Texts, w)
        /\ Skip(toks, cut) <= Len(w) /\ Len(s.wrote) + Skip(toks, cut) = Len(t.text) + Len(w)
        /\ \A i \in 1 .. Len(t.text) : s.wrote[i] = t.text[i]
        /\ \A i \in 1 .. Len(s.wrote) - Len(t.text) : s.wrote[Len(t.text) + i] = w[i + Skip(toks, cut)][1]
    BY DEF Reading, TextShown
  <1>2. PICK more, v, a, b, c : more = Append(toks, tok) /\ v = Append(w, tok) /\ a = s.wrote /\ b = s2.wrote /\ c = t.text
    OBVIOUS
  <1>3. toks # <<>> => more[1] = toks[1]
    <2>1. toks # <<>> => 1 \in 1 .. Len(toks)
      BY LenProperties, EmptySeq
    <2>2. tok \in Tokens
      BY DEF Tokens
    <2> QED BY <1>2, <2>1, <2>2, Appended
  <1>4. Skip(more, cut) = Skip(toks, cut)
    BY <1>3 DEF Skip
  <1>5. Only(more, Texts, v) /\ v \in Seq(Texts)
    <2>1. tok \in Tokens
      BY DEF Tokens
    <2> QED BY <1>1, <1>2, <2>1, OnlyAppended, Appended
  <1>6. PICK sk0 : sk0 = Skip(toks, cut) /\ sk0 \in Nat
    <2>1. Skip(toks, cut) \in Nat
      BY DEF Skip
    <2> QED BY <2>1
  <1>7. /\ Len(v) = Len(w) + 1 /\ Len(w) \in Nat /\ v[Len(w) + 1] = tok /\ \A i \in 1 .. Len(w) : v[i] = w[i]
    BY <1>2, Appended
  <1>8. a \in Seq(Shown) /\ c \in Seq(Shown) /\ b = Append(a, tok[1]) /\ Len(c) \in Nat
    BY <1>2, LenProperties DEF Theres, Clients
  <1>9. Len(b) = Len(a) + 1 /\ Len(a) \in Nat /\ b[Len(a) + 1] = tok[1] /\ \A i \in 1 .. Len(a) : b[i] = a[i]
    BY <1>8, Appended
  <1>10. /\ sk0 <= Len(w) /\ Len(a) + sk0 = Len(c) + Len(w)
         /\ \A i \in 1 .. Len(c) : a[i] = c[i]
         /\ \A i \in 1 .. Len(a) - Len(c) : a[Len(c) + i] = w[i + sk0][1]
    BY <1>1, <1>2, <1>6
  <1>11. Len(c) <= Len(a)
    BY <1>6, <1>7, <1>8, <1>9, <1>10
  <1>12. sk0 <= Len(v) /\ Len(b) + sk0 = Len(c) + Len(v)
    BY <1>6, <1>7, <1>8, <1>9, <1>10
  <1>13. \A i \in 1 .. Len(c) : b[i] = c[i]
    BY <1>8, <1>9, <1>10, <1>11
  <1>14. \A i \in 1 .. Len(b) - Len(c) : b[Len(c) + i] = v[i + sk0][1]
    <2> SUFFICES ASSUME NEW i \in 1 .. Len(b) - Len(c) PROVE b[Len(c) + i] = v[i + sk0][1]
      OBVIOUS
    <2>0. PICK x, y, z, n : x = Len(a) /\ y = Len(b) /\ z = Len(c) /\ n = Len(w)
      OBVIOUS
    <2>a. /\ x \in Nat /\ y = x + 1 /\ z \in Nat /\ n \in Nat /\ sk0 \in Nat /\ sk0 <= n /\ x + sk0 = z + n
          /\ i \in 1 .. y - z /\ z <= x
      BY <1>6, <1>7, <1>8, <1>9, <1>10, <1>11, <2>0
    <2>1. CASE i = Len(b) - Len(c)
      <3>1. Len(c) + i = Len(a) + 1 /\ i + sk0 = Len(w) + 1
        <4>1. i = y - z /\ i \in Int
          <5>1. i = y - z
            BY <2>0, <2>1
          <5>2. y - z \in Int
            BY <2>a
          <5> QED BY <5>1, <5>2
        <4>2. z + i = x + 1 /\ i + sk0 = n + 1
          BY <2>a, <4>1
        <4> QED BY <2>0, <4>2
      <3> QED BY <1>7, <1>9, <3>1
    <2>2. CASE i # Len(b) - Len(c)
      <3>1. i \in 1 .. Len(a) - Len(c) /\ Len(c) + i \in 1 .. Len(a) /\ i + sk0 \in 1 .. Len(w)
        <4>1. i # y - z /\ i \in Int
          BY <2>0, <2>a, <2>2
        <4>2. i \in 1 .. x - z /\ z + i \in 1 .. x /\ i + sk0 \in 1 .. n
          BY <2>a, <4>1
        <4> QED BY <2>0, <4>2
      <3>2. a[Len(c) + i] = w[i + sk0][1]
        BY <1>10, <3>1
      <3>3. b[Len(c) + i] = a[Len(c) + i] /\ v[i + sk0] = w[i + sk0]
        BY <1>7, <1>9, <3>1
      <3> QED BY <3>2, <3>3
    <2> QED BY <2>1, <2>2
  <1>15. /\ Skip(more, cut) <= Len(v) /\ Len(s2.wrote) + Skip(more, cut) = Len(t.text) + Len(v)
         /\ \A i \in 1 .. Len(t.text) : s2.wrote[i] = t.text[i]
         /\ \A i \in 1 .. Len(s2.wrote) - Len(t.text) : s2.wrote[Len(t.text) + i] = v[i + Skip(more, cut)][1]
    BY <1>2, <1>4, <1>6, <1>12, <1>13, <1>14
  <1>16. TextShown(t.text, s2, more, cut)
    BY <1>5, <1>15 DEF TextShown
  <1>17. Parsing(t.state, more, cut)
    BY <1>3 DEF Reading, Parsing
  <1> QED BY <1>2, <1>16, <1>17 DEF Reading

\* More is under way to the client that is not about an option.
LEMMA MoreOnTheWay ==
    ASSUME TelnetInv, NEW tok \in Texts \cup {Query}, fromServer' = fromServer \o tok,
           tn' = tn, peer' = peer, peerSize' = peerSize, peerText' = peerText, acts' = acts, typed' = typed,
           asks < MaxServer, asks' = asks + 1,
           \/ tok \in Texts /\ tok[1] \in Shown /\ text' = Append(text, tok[1])
           \/ tok = Query /\ text' = text
    PROVE  TelnetInv'
  <1>0. /\ There \in Theres /\ There.peer = peer /\ There.size = peerSize /\ There.heard = peerText
        /\ There.typed = typed /\ There.wrote = text /\ peer \in [Options -> Minds]
        /\ peerSize \in Nat /\ peerText \in Seq(Typed) /\ typed \in Seq(Typed) /\ text \in Seq(Shown)
        /\ acts \in Nat /\ asks \in Nat /\ Len(text) <= asks
    BY InvIs
  <1>1. text' \in Seq(Shown) /\ Len(text') <= asks' /\ asks' \in Nat /\ asks' <= MaxServer
    <2>1. /\ Len(text) \in Nat
          /\ tok[1] \in Shown => Append(text, tok[1]) \in Seq(Shown) /\ Len(Append(text, tok[1])) = Len(text) + 1
      BY <1>0, Appended, LenProperties
    <2>2. MaxServer \in Nat
      BY MCAssumption
    <2>3. asks < MaxServer /\ asks' = asks + 1 /\ asks \in Nat
      BY <1>0
    <2>4. asks' \in Nat /\ asks' <= MaxServer
      BY <2>2, <2>3
    <2>5. Len(text) <= asks
      BY <1>0
    <2>6. CASE text' = text
      BY <1>0, <2>1, <2>3, <2>4, <2>5, <2>6
    <2>7. CASE tok[1] \in Shown /\ text' = Append(text, tok[1])
      BY <1>0, <2>1, <2>3, <2>4, <2>5, <2>7
    <2> QED BY <2>6, <2>7
  <1>2. PICK t, s, s2 : t = tn /\ s = There /\ s2 = There'
    OBVIOUS
  <1>3. /\ s2 \in Theres /\ s2.peer = s.peer /\ s2.size = s.size /\ s2.heard = s.heard /\ s2.typed = s.typed
        /\ s.wrote = text /\ s2.wrote = text'
    <2>1. /\ There'.peer = peer' /\ There'.size = peerSize' /\ There'.heard = peerText'
          /\ There'.typed = typed' /\ There'.wrote = text'
      BY DEF There
    <2>2. There' \in Theres
      BY <1>0, <1>1 DEF There, Theres
    <2> QED BY <1>0, <1>2, <2>1, <2>2
  <1>4. PICK toks, cut : Midst(t, s, toks, cut) /\ fromServer \in Seq(ByteNames) /\ Stream(fromServer, toks, cut)
    BY <1>2 DEF TelnetInv, Holds
  <1>5. PICK more : more = Append(toks, tok)
    OBVIOUS
  <1>6. /\ Talk(t, s, toks) /\ (~t.activated => Passive(t.opt, s.peer)) /\ Reading(t, s, toks, cut)
        /\ Stood(t, s, toks) /\ Environs(t.opt, s.peer) /\ Sized(t, s) /\ Echo(t.opt, t.echoing)
        /\ t \in Clients /\ s \in Theres /\ toks \in Seq(Tokens) /\ t.out \in Seq(OutMessages)
        /\ KeysTold(t.out, s) /\ (toks = <<>> => cut = 0) /\ (~t.activated => Untold(t.opt, s.peer))
    BY <1>4 DEF Midst, Talk, Stood, Stream, Clients
  <1>7. tok \in Tokens /\ (\A o : tok \notin Its(o)) /\ Query \notin Texts
    BY TokenKinds DEF Tokens
  <1>8. fromServer' \in Seq(ByteNames) /\ Stream(fromServer', more, cut)
    BY <1>4, <1>5, <1>7, StreamGrows, TelnetAssumption
  <1>9. Reading(t, s2, more, cut)
    <2>1. CASE tok \in Texts
      BY <1>3, <1>5, <1>6, <1>7, <2>1, ReadingWrites
    <2>2. CASE tok = Query
      BY <1>3, <1>5, <1>6, <1>7, <2>2, ReadingGrows
    <2> QED BY <2>1, <2>2
  <1>10. \A o \in Options : Stand(o, t.opt[o], s2.peer[o], t.out, more)
    <2> SUFFICES ASSUME NEW o \in Options PROVE Stand(o, t.opt[o], s2.peer[o], t.out, more)
      OBVIOUS
    <2>1. PICK st, has : st = t.opt[o] /\ has = s.peer[o]
      OBVIOUS
    <2>2. Stand(o, st, has, t.out, toks)
      BY <1>6, <2>1 DEF Stood
    <2>3. Stand(o, st, has, t.out, Append(toks, tok))
      BY <1>6, <1>7, <2>2, StandKept
    <2> QED BY <1>3, <1>5, <2>1, <2>3
  <1>11. KeysTold(t.out, s2)
    BY <1>3, <1>6 DEF KeysTold
  <1>12. more \in Seq(Tokens)
    BY <1>5, <1>6, <1>7, Appended
  <1>13. Stood(t, s2, more)
    BY <1>3, <1>6, <1>10, <1>11, <1>12 DEF Stood
  <1>14. Sized(t, s2)
    BY <1>3, <1>6 DEF Sized, SizeTold
  <1>15. Talk(t, s2, more) /\ (~t.activated => Passive(t.opt, s2.peer))
    BY <1>3, <1>6, <1>13, <1>14 DEF Talk
  <1>16. Midst(t, s2, more, cut)
    BY <1>9, <1>15 DEF Midst
  <1>17. Holds(tn', There', fromServer')
    BY <1>2, <1>8, <1>16 DEF Holds
  <1> QED BY <1>0, <1>1, <1>17 DEF TelnetInv

LEMMA ServerWritesKeeps ==
    ASSUME TelnetInv, TelnetEnds!ServerWrites
    PROVE  TelnetInv'
  <1>1. PICK c \in {"x", "CR", "IAC"} : text' = Append(text, c) /\ fromServer' = fromServer \o TelnetEnds!Escaped(c)
    BY DEF TelnetEnds!ServerWrites
  <1>2. PICK tok : tok = TelnetEnds!Escaped(c)
    OBVIOUS
  <1>3. tok \in Texts /\ tok[1] = c /\ c \in Shown
    BY <1>2 DEF TelnetEnds!Escaped, Texts, Shown
  <1>4. /\ tn' = tn /\ peer' = peer /\ peerSize' = peerSize /\ peerText' = peerText /\ acts' = acts /\ typed' = typed
        /\ asks < MaxServer /\ asks' = asks + 1
    BY DEF TelnetEnds!ServerWrites, TelnetEnds!User
  <1>5. tok[1] \in Shown /\ text' = Append(text, tok[1]) /\ fromServer' = fromServer \o tok
    BY <1>1, <1>2, <1>3
  <1> QED BY <1>3, <1>4, <1>5, MoreOnTheWay

LEMMA ServerQueriesKeeps ==
    ASSUME TelnetInv, TelnetEnds!ServerQueries
    PROVE  TelnetInv'
  <1>1. PICK tok : tok = Query
    OBVIOUS
  <1>2. /\ tn' = tn /\ peer' = peer /\ peerSize' = peerSize /\ peerText' = peerText /\ acts' = acts /\ typed' = typed
        /\ asks < MaxServer /\ asks' = asks + 1 /\ text' = text /\ fromServer' = fromServer \o tok
    BY <1>1 DEF TelnetEnds!ServerQueries, TelnetEnds!User, Query
  <1> QED BY <1>1, <1>2, MoreOnTheWay

\* Every step of the two ends.
LEMMA StepKeeps ==
    ASSUME TelnetInv, [TelnetEnds!Next]_telnetVars
    PROVE  TelnetInv'
  <1>1. ASSUME NEW k \in {1, Len(fromServer)}, TelnetEnds!Receive(k) PROVE TelnetInv'
    BY <1>1, InvIs, ReceiveKeeps
  <1>2. ASSUME NEW c \in {"CR", "IAC", "EOL"}, TelnetEnds!Key(c) PROVE TelnetInv'
    BY <1>2, KeyKeeps DEF Typed
  <1>3. ASSUME NEW o \in Options, TelnetEnds!ServerAsks(o) PROVE TelnetInv'
    BY <1>3, ServerAsksKeeps
  <1>4. CASE telnetVars' = telnetVars
    <2>1. /\ tn' = tn /\ fromServer' = fromServer /\ There' = There /\ asks' = asks /\ text' = text /\ acts' = acts
      BY <1>4 DEF telnetVars, There
    <2> QED BY <2>1 DEF TelnetInv
  <1> QED BY <1>1, <1>2, <1>3, <1>4, PingKeeps, UnthrottleKeeps, ResizeKeeps, ServerReceivesKeeps,
             ServerWritesKeeps, ServerQueriesKeeps DEF TelnetEnds!Next

-----------------------------------------------------------------------------
(* What the invariant says of the properties.                                *)

LEMMA ShownSoFar ==
    ASSUME NEW t, NEW s \in Theres, NEW toks, NEW cut, t.text \in Seq(Shown), TextShown(t.text, s, toks, cut)
    PROVE  /\ Len(t.text) \in Nat /\ Len(s.wrote) \in Nat /\ Len(t.text) <= Len(s.wrote)
           /\ TelnetEnds!IsPrefix(t.text, s.wrote)
           /\ toks = <<>> /\ cut = 0 => t.text = s.wrote
  <1>1. PICK shown, all : shown = t.text /\ all = s.wrote
    OBVIOUS
  <1>2. PICK w \in Seq(Texts) :
        /\ Only(toks, Texts, w)
        /\ Skip(toks, cut) <= Len(w) /\ Len(s.wrote) + Skip(toks, cut) = Len(t.text) + Len(w)
        /\ \A i \in 1 .. Len(t.text) : s.wrote[i] = t.text[i]
    BY DEF TextShown
  <1>3. shown \in Seq(Shown) /\ all \in Seq(Shown) /\ Len(shown) \in Nat /\ Len(all) \in Nat /\ Len(w) \in Nat
    BY <1>1, LenProperties DEF Theres
  <1>4. Skip(toks, cut) \in Nat
    BY DEF Skip
  <1>5. Len(shown) <= Len(all)
    BY <1>1, <1>2, <1>3, <1>4
  <1>6. TelnetEnds!IsPrefix(shown, all)
    <2> DEFINE a == SubSeq(shown, 1, Len(shown))
               b == SubSeq(all, 1, Len(shown))
    <2>1. Len(shown) = 0 => a = b
      BY SubSeqEmpty, <1>3
    <2>2. /\ a \in Seq(Shown) /\ b \in Seq(Shown) /\ Len(a) = Len(shown) /\ Len(b) = Len(shown)
          /\ \A i \in 1 .. Len(shown) : a[i] = shown[i] /\ b[i] = all[i]
      <3>1. 1 \in Nat \ {0} /\ Len(shown) \in 0 .. Len(shown) /\ Len(shown) \in 0 .. Len(all)
        BY <1>3, <1>5
      <3>2. \A i \in 1 .. Len(shown) : i \in 1 .. Len(shown) /\ i \in 1 .. Len(all)
        BY <1>3, <1>5
      <3>3. \A x \in Seq(Shown) : Len(shown) <= Len(x) =>
                /\ SubSeq(x, 1, Len(shown)) \in Seq(Shown) /\ Len(SubSeq(x, 1, Len(shown))) = Len(shown)
                /\ \A i \in 1 .. Len(shown) : SubSeq(x, 1, Len(shown))[i] = x[i]
        BY <1>3
      <3> QED BY <3>3, <1>3, <1>5
    <2> HIDE DEF a, b
    <2>3. \A i \in 1 .. Len(shown) : a[i] = b[i]
      BY <2>2, <1>1, <1>2
    <2>4. a = b
      BY <2>2, <2>3, SeqEqual
    <2> QED BY <2>4, <1>5 DEF TelnetEnds!IsPrefix, a, b
  <1>7. ASSUME toks = <<>>, cut = 0 PROVE shown = all
    <2>1. w = <<>> /\ Skip(toks, cut) = 0
      BY <1>2, <1>7, OnlyOfNothing DEF Skip
    <2>2. Len(w) = 0
      BY <2>1
    <2>3. Len(shown) = Len(all)
      BY <1>1, <1>2, <1>3, <2>1, <2>2
    <2>4. \A i \in 1 .. Len(shown) : shown[i] = all[i]
      BY <1>1, <1>2
    <2> QED BY <1>3, <2>3, <2>4, SeqEqual
  <1> QED BY <1>1, <1>3, <1>5, <1>6, <1>7

LEMMA KeysAreHeard ==
    ASSUME NEW s \in Theres, KeysTold(<<>>, s)
    PROVE  s.heard = s.typed
  <1>1. PICK heard, had : heard = s.heard /\ had = s.typed
    OBVIOUS
  <1>2. PICK w \in Seq(KeyMessages) :
        /\ Only(<<>>, KeyMessages, w)
        /\ Len(s.typed) = Len(s.heard) + Len(w)
        /\ \A i \in 1 .. Len(s.heard) : s.typed[i] = s.heard[i]
    BY DEF KeysTold
  <1>3. Len(w) = 0
    <2>1. w = <<>>
      BY <1>2, OnlyOfNothing
    <2> QED BY <2>1
  <1>4. heard \in Seq(Typed) /\ had \in Seq(Typed) /\ Len(heard) \in Nat /\ Len(had) \in Nat
    BY <1>1, LenProperties DEF Theres
  <1>5. Len(heard) = Len(had) /\ \A i \in 1 .. Len(heard) : heard[i] = had[i]
    BY <1>1, <1>2, <1>3, <1>4
  <1> QED BY <1>1, <1>4, <1>5, SeqEqual

LEMMA SizeKnown ==
    ASSUME NEW t, NEW s, Sized(t, s), t.out = <<>>
    PROVE  TelnetEnds!Is(t, "NAWS", "ACTIVE") => s.size = t.size
  <1>1. \A w \in Seq(SizeMessages) : Only(t.out, SizeMessages, w) => w = <<>>
    BY OnlyOfNothing
  <1>2. \E w \in Seq(SizeMessages) :
            /\ Only(t.out, SizeMessages, w)
            /\ TelnetEnds!Is(t, "NAWS", "ACTIVE") => t.size = IF w = <<>> THEN s.size ELSE w[Len(w)][3]
    BY DEF Sized, SizeTold
  <1> QED BY <1>1, <1>2

LEMMA InvIsSound ==
    ASSUME TelnetInv
    PROVE  TelnetSound
  <1>0. Options \subseteq TelnetEnds!OptionNames /\ MaxServer \in Nat
    BY TelnetAssumption, MCAssumption
  <1>1. PICK toks, cut : Midst(tn, There, toks, cut) /\ Stream(fromServer, toks, cut)
    BY InvIs
  <1>2. /\ fromServer \in Seq(ByteNames) /\ tn \in Clients /\ There \in Theres
        /\ There.peer = peer /\ There.size = peerSize /\ There.heard = peerText /\ There.typed = typed
        /\ There.wrote = text /\ peer \in [Options -> Minds]
        /\ asks \in Nat /\ asks <= MaxServer /\ Len(text) <= asks
    BY InvIs
  <1>3. /\ \A o \in Options : Stand(o, tn.opt[o], peer[o], tn.out, toks)
        /\ KeysTold(tn.out, There) /\ Environs(tn.opt, peer) /\ Sized(tn, There) /\ Echo(tn.opt, tn.echoing)
        /\ Reading(tn, There, toks, cut)
    BY <1>1, <1>2 DEF Midst, Talk, Stood
  <1>4. /\ tn.opt \in [Options -> OptStates] /\ tn.echoing \in BOOLEAN /\ tn.editing \in BOOLEAN
        /\ tn.activated \in BOOLEAN /\ tn.state \in ReadStates /\ tn.text \in Seq(Shown) /\ tn.backlog \in Nat
    BY <1>2 DEF Clients
  <1>5. /\ Len(tn.text) \in Nat /\ Len(text) \in Nat /\ Len(tn.text) <= Len(text) /\ TelnetEnds!IsPrefix(tn.text, text)
        /\ toks = <<>> /\ cut = 0 => tn.text = text
    BY <1>2, <1>3, <1>4, ShownSoFar DEF Reading
  <1>6. fromServer = <<>> => toks = <<>> /\ cut = 0
    BY <1>0, <1>1, <1>2, StreamShrinks DEF Stream
  <1>7. TelnetEnds!TypeOK
    <2>1. tn.backlog <= Len(tn.text) /\ tn.frozen = (tn.backlog > Backlog)
      BY <1>3 DEF Reading
    <2>2. tn.backlog \in 0 .. MaxServer
      BY <2>1, <1>0, <1>2, <1>4, <1>5
    <2> QED BY <2>1, <2>2, <1>2, <1>4, Zenon DEF TelnetEnds!TypeOK, OptStates, ReadStates, Minds
  <1>8. TelnetEnds!EndsAgree
    <2> SUFFICES ASSUME TelnetEnds!Quiet
                 PROVE  /\ \A o \in Options : (tn.opt[o] = "ACTIVE") <=> (peer[o] = "on")
                        /\ TelnetEnds!Is(tn, "NAWS", "ACTIVE") => peerSize = tn.size
      BY DEF TelnetEnds!EndsAgree
    <2>1. tn.out = <<>> /\ toks = <<>>
      BY <1>6 DEF TelnetEnds!Quiet
    <2>2. ASSUME NEW o \in Options PROVE (tn.opt[o] = "ACTIVE") <=> (peer[o] = "on")
      <3>1. Stand(o, tn.opt[o], peer[o], <<>>, <<>>)
        BY <1>3, <2>1
      <3>2. peer[o] \in Minds
        BY <1>2
      <3> QED BY <3>1, <3>2, StandAtRest
    <2>3. ASSUME TelnetEnds!Is(tn, "NAWS", "ACTIVE") PROVE peerSize = tn.size
      <3>1. PICK t, s : t = tn /\ s = There
        OBVIOUS
      <3>2. Sized(t, s) /\ t.out = <<>>
        BY <1>3, <2>1, <3>1
      <3>3. TelnetEnds!Is(t, "NAWS", "ACTIVE")
        BY <2>3, <3>1
      <3>4. TelnetEnds!Is(t, "NAWS", "ACTIVE") => s.size = t.size
        BY <3>2, SizeKnown
      <3> QED BY <3>1, <3>3, <3>4, <1>2
    <2> QED BY <2>2, <2>3
  <1>9. TelnetEnds!OneEnviron
    <2>1. {"OENV", "NENV"} \subseteq Options => (tn.opt["NENV"] = "ACTIVE" => tn.opt["OENV"] = "REALLY_INACTIVE")
      BY <1>3, Zenon DEF Environs
    <2>2. "OENV" \in Options /\ "NENV" \in Options => {"OENV", "NENV"} \subseteq Options
      OBVIOUS
    <2> QED BY <2>1, <2>2 DEF TelnetEnds!OneEnviron, TelnetEnds!Is
  <1>10. TelnetEnds!EchoedOnce
    BY <1>3 DEF Echo, TelnetEnds!EchoedOnce
  <1>11. TelnetEnds!TextIntact
    <2>1. tn.out = <<>> => peerText = typed
      BY <1>2, <1>3, KeysAreHeard
    <2>2. fromServer = <<>> => tn.text = text
      BY <1>5, <1>6
    <2> QED BY <2>1, <2>2, <1>5 DEF TelnetEnds!TextIntact
  <1> QED BY <1>7, <1>8, <1>9, <1>10, <1>11 DEF TelnetSound

-----------------------------------------------------------------------------
(* The beginning, of a client that waits and of one that asks.               *)

LEMMA OnlyNone ==
    ASSUME NEW q, NEW M, Len(q) \in Nat, \A k \in 1 .. Len(q) : q[k] \notin M
    PROVE  Only(q, M, <<>>)
  <1> DEFINE p == [i \in 1 .. 0 |-> 0]
  <1>1. p \in [1 .. Len(<<>>) -> 1 .. Len(q)] /\ Len(<<>>) = 0
    OBVIOUS
  <1> HIDE DEF p
  <1>2. \A i \in 1 .. Len(<<>>) : FALSE
    BY <1>1
  <1> QED BY <1>1, <1>2 DEF Only

LEMMA OnlyOne ==
    ASSUME NEW q, NEW M, Len(q) \in Nat, NEW k \in 1 .. Len(q), q[k] \in M,
           \A j \in 1 .. Len(q) : q[j] \in M => j = k
    PROVE  Only(q, M, <<q[k]>>)
  <1> DEFINE p == [i \in 1 .. 1 |-> k]
             w == <<q[k]>>
  <1>1. Len(w) = 1 /\ w[1] = q[k] /\ p \in [1 .. 1 -> 1 .. Len(q)] /\ p[1] = k
    OBVIOUS
  <1> HIDE DEF p, w
  <1>2. \A i \in 1 .. Len(w) : i = 1
    BY <1>1
  <1>3. Only(q, M, w)
    BY <1>1, <1>2 DEF Only
  <1> QED BY <1>3 DEF w

LEMMA FiniteOptions == IsFiniteSet(Options)
  <1>1. IsFiniteSet({"NAWS", "TSPEED", "TTYPE", "OENV", "NENV"})
    <2>1. IsFiniteSet({"NAWS"})
      BY FS_EmptySet, FS_AddElement, {} \cup {"NAWS"} = {"NAWS"}
    <2>2. IsFiniteSet({"NAWS", "TSPEED"})
      BY <2>1, FS_AddElement, {"NAWS"} \cup {"TSPEED"} = {"NAWS", "TSPEED"}
    <2>3. IsFiniteSet({"NAWS", "TSPEED", "TTYPE"})
      BY <2>2, FS_AddElement, {"NAWS", "TSPEED"} \cup {"TTYPE"} = {"NAWS", "TSPEED", "TTYPE"}
    <2>4. IsFiniteSet({"NAWS", "TSPEED", "TTYPE", "OENV"})
      BY <2>3, FS_AddElement, {"NAWS", "TSPEED", "TTYPE"} \cup {"OENV"} = {"NAWS", "TSPEED", "TTYPE", "OENV"}
    <2> QED BY <2>4, FS_AddElement,
               {"NAWS", "TSPEED", "TTYPE", "OENV"} \cup {"NENV"} = {"NAWS", "TSPEED", "TTYPE", "OENV", "NENV"}
  <1>2. ASSUME NEW S, IsFiniteSet(S)
        PROVE  IsFiniteSet(((((S \cup {"ECHO"}) \cup {"WE_SGA"}) \cup {"THEY_SGA"}) \cup {"WE_BIN"}) \cup {"THEY_BIN"})
    <2>1. IsFiniteSet(S \cup {"ECHO"})
      BY <1>2, FS_AddElement
    <2>2. IsFiniteSet((S \cup {"ECHO"}) \cup {"WE_SGA"})
      BY <2>1, FS_AddElement
    <2>3. IsFiniteSet(((S \cup {"ECHO"}) \cup {"WE_SGA"}) \cup {"THEY_SGA"})
      BY <2>2, FS_AddElement
    <2>4. IsFiniteSet((((S \cup {"ECHO"}) \cup {"WE_SGA"}) \cup {"THEY_SGA"}) \cup {"WE_BIN"})
      BY <2>3, FS_AddElement
    <2> QED BY <2>4, FS_AddElement
  <1> DEFINE All == ((((({"NAWS", "TSPEED", "TTYPE", "OENV", "NENV"}
                       \cup {"ECHO"}) \cup {"WE_SGA"}) \cup {"THEY_SGA"}) \cup {"WE_BIN"}) \cup {"THEY_BIN"})
  <1>3. IsFiniteSet(All)
    BY <1>1, <1>2
  <1>4. Options \subseteq All
    BY TelnetAssumption DEF TelnetEnds!OptionNames
  <1> HIDE DEF All
  <1> QED BY <1>3, <1>4, FS_Subset

\* The options that are asked for first are asked for once each.
LEMMA FirstAsks ==
    LET asked == {o \in Options : TelnetEnds!InitialState(o) = "REQUESTED"}
    IN  \E n \in Nat : /\ TelnetEnds!AskedFirst \in [1 .. n -> asked]
                       /\ \A o \in asked : \E i \in 1 .. n : TelnetEnds!AskedFirst[i] = o
                       /\ \A i, j \in 1 .. n : TelnetEnds!AskedFirst[i] = TelnetEnds!AskedFirst[j] => i = j
  <1> DEFINE asked == {o \in Options : TelnetEnds!InitialState(o) = "REQUESTED"}
             n == Cardinality(asked)
             Onto(q) == \A o \in asked : \E i \in DOMAIN q : q[i] = o
  <1>1. IsFiniteSet(asked)
    <2>1. asked \in SUBSET Options
      OBVIOUS
    <2> HIDE DEF asked
    <2> QED BY <2>1, FiniteOptions, FS_Subset
  <1>0. \A S : TelnetEnds!Cardinality(S) = Cardinality(S)
    BY DEF TelnetEnds!Cardinality, Cardinality
  <1>2. TelnetEnds!AskedFirst = CHOOSE q \in [1 .. n -> asked] : Onto(q)
    BY <1>0, Zenon DEF TelnetEnds!AskedFirst
  <1> HIDE DEF asked
  <1>3. n \in Nat /\ ExistsBijection(1 .. n, asked)
    BY <1>1, FS_CardinalityType
  <1>4. \E q \in [1 .. n -> asked] : Onto(q)
    <2>1. PICK q : q \in Bijection(1 .. n, asked)
      BY <1>3 DEF ExistsBijection
    <2>2. q \in [1 .. n -> asked] /\ \A o \in asked : \E i \in 1 .. n : q[i] = o
      BY <2>1 DEF Bijection, Surjection
    <2> QED BY <2>2
  <1>5. PICK q : q = TelnetEnds!AskedFirst
    OBVIOUS
  <1>6. q \in [1 .. n -> asked] /\ Onto(q)
    BY <1>2, <1>4, <1>5
  <1>7. \A i, j \in 1 .. n : q[i] = q[j] => i = j
    <2>1. q \in Surjection(1 .. n, asked)
      BY <1>6 DEF Surjection
    <2>2. IsFiniteSet(1 .. n) /\ Cardinality(1 .. n) = n
      BY <1>3, FS_Interval
    <2> HIDE DEF n
    <2>3. q \in Injection(1 .. n, asked)
      BY <2>1, <2>2, FS_SurjSameCardinalityImpliesInj DEF n
    <2> QED BY <2>3 DEF Injection, IsInjective
  <1>8. \A o \in asked : \E i \in 1 .. n : q[i] = o
    BY <1>6
  <1> HIDE DEF n
  <1> QED BY <1>3, <1>5, <1>6, <1>7, <1>8 DEF asked

LEMMA Begins ==
    ASSUME NEW t \in Clients, t.state = "TOP_LEVEL", t.text = <<>>, t.backlog = 0, t.frozen = FALSE, t.size = 0,
           NEW s \in Theres, s.size = 0, s.heard = <<>>, s.typed = <<>>, s.wrote = <<>>,
           \A k \in 1 .. Len(t.out) : t.out[k] \notin KeyMessages /\ t.out[k] \notin SizeMessages,
           \A o \in Options : Stand(o, t.opt[o], s.peer[o], t.out, <<>>),
           Environs(t.opt, s.peer), Echo(t.opt, t.echoing), ~t.activated => Passive(t.opt, s.peer)
    PROVE  Holds(t, s, <<>>)
  <1>1. Len(t.out) \in Nat /\ <<>> \in Seq(Tokens) /\ <<>> \in Seq(KeyMessages) /\ <<>> \in Seq(SizeMessages)
        /\ <<>> \in Seq(Texts) /\ <<>> \in Seq(ByteNames) /\ Len(<<>>) = 0 /\ 0 + 0 = 0 /\ 0 <= 0
    BY LenProperties DEF Clients
  <1>0. PICK none : none = <<>>
    OBVIOUS
  <1>11. Len(none) = 0 /\ (\A i \in 1 .. Len(none) : FALSE) /\ (\A i \in 1 .. Len(none) - Len(none) : FALSE)
    BY <1>0, <1>1
  <1>2. KeysTold(t.out, s)
    <2>1. Only(t.out, KeyMessages, none) /\ none \in Seq(KeyMessages)
      BY <1>0, <1>1, OnlyNone
    <2>2. s.typed = none /\ s.heard = none
      BY <1>0
    <2>3. Len(s.typed) = Len(s.heard) + Len(none)
      BY <1>11, <2>2
    <2> QED BY <1>11, <2>1, <2>2, <2>3 DEF KeysTold
  <1>3. Sized(t, s)
    <2>1. Only(t.out, SizeMessages, <<>>)
      BY <1>1, OnlyNone
    <2> QED BY <1>1, <2>1 DEF Sized, SizeTold
  <1>4. ~t.activated => Untold(t.opt, s.peer)
    BY DEF Passive, Untold
  <1>5. Talk(t, s, <<>>)
    BY <1>1, <1>2, <1>3, <1>4 DEF Talk, Stood
  <1>6. Parsing(t.state, <<>>, 0)
    BY DEF Parsing
  <1>7. TextShown(t.text, s, <<>>, 0)
    <2>1. Only(<<>>, Texts, none) /\ Skip(<<>>, 0) = 0 /\ none \in Seq(Texts)
      BY <1>0, <1>1, OnlyOfNothing DEF Skip
    <2>2. t.text = none /\ s.wrote = none
      BY <1>0
    <2>3. 0 <= Len(none) /\ Len(s.wrote) + 0 = Len(t.text) + Len(none)
      BY <1>11, <2>2
    <2> QED BY <1>11, <2>1, <2>2, <2>3 DEF TextShown
  <1>8. Backlog \in Nat
    BY MCAssumption
  <1>9. Reading(t, s, <<>>, 0)
    <2>0. (0 > Backlog) = FALSE
      BY <1>8
    <2>1. t.backlog <= Len(t.text)
      BY <1>0, <1>11
    <2>2. t.frozen = (t.backlog > Backlog)
      BY <2>0, Zenon
    <2> QED BY <1>6, <1>7, <2>1, <2>2 DEF Reading
  <1>10. Midst(t, s, <<>>, 0)
    BY <1>5, <1>9 DEF Midst
  <1> QED BY <1>1, <1>10, StreamEmpty DEF Holds

LEMMA AllInactive ==
    ASSUME NEW o, NEW out, Len(out) \in Nat, \A k \in 1 .. Len(out) : out[k] \notin Ours(o)
    PROVE  Stand(o, "INACTIVE", "off", out, <<>>)
  <1>1. Only(out, Ours(o), <<>>) /\ Only(<<>>, Its(o), <<>>)
    BY OnlyNone, OnlyOfNothing
  <1>2. <<"INACTIVE", "off", <<>>, <<>>>> \in Stands(o)
    BY DEF Stands
  <1>3. <<>> \in Seq(Ours(o)) /\ <<>> \in Seq(Its(o))
    OBVIOUS
  <1> QED BY <1>1, <1>2, <1>3 DEF Stand

LEMMA FirstAsked ==
    ASSUME NEW o, NEW out, Len(out) \in Nat, NEW k \in 1 .. Len(out), out[k] = Asks(o),
           \A j \in 1 .. Len(out) : out[j] \in Ours(o) => j = k
    PROVE  Stand(o, "REQUESTED", "off", out, <<>>)
  <1>1. Asks(o) \in Ours(o)
    BY SaysOfTwo
  <1>2. Only(out, Ours(o), <<Asks(o)>>) /\ Only(<<>>, Its(o), <<>>)
    BY <1>1, OnlyOne, OnlyOfNothing
  <1>3. <<"REQUESTED", "off", <<Asks(o)>>, <<>>>> \in Stands(o)
    BY DEF Stands
  <1>4. <<Asks(o)>> \in Seq(Ours(o)) /\ <<>> \in Seq(Its(o))
    BY <1>1
  <1> QED BY <1>2, <1>3, <1>4 DEF Stand

LEMMA InitHolds ==
    ASSUME TelnetEnds!Init
    PROVE  TelnetInv
  <1> DEFINE first == [i \in DOMAIN TelnetEnds!AskedFirst |->
                         <<"IAC", TelnetEnds!Send(TelnetEnds!AskedFirst[i]), TelnetEnds!Code(TelnetEnds!AskedFirst[i])>>]
  <1>1. /\ peer = [o \in Options |-> "off"] /\ fromServer = <<>> /\ peerSize = 0
        /\ peerText = <<>> /\ asks = 0 /\ text = <<>> /\ acts = 0 /\ typed = <<>>
        /\ \/ tn = TelnetEnds!New
           \/ tn = [TelnetEnds!New EXCEPT !.opt = [o \in Options |-> TelnetEnds!InitialState(o)],
                                          !.activated = TRUE, !.out = first]
    BY Zenon DEF TelnetEnds!Init
  <1> HIDE DEF first
  <1>2. PICK s : s = There
    OBVIOUS
  <1>3. /\ s \in Theres /\ s.size = 0 /\ s.heard = <<>> /\ s.typed = <<>> /\ s.wrote = <<>>
        /\ \A o \in Options : s.peer[o] = "off"
    <2>1. /\ s.peer = peer /\ s.size = 0 /\ s.heard = <<>> /\ s.typed = <<>> /\ s.wrote = <<>>
          /\ s = [peer |-> peer, size |-> peerSize, heard |-> peerText, typed |-> typed, wrote |-> text]
      BY <1>1, <1>2 DEF There
    <2>2. peer \in [Options -> Minds]
      BY <1>1, Zenon DEF Minds
    <2>3. s \in Theres
      BY <1>1, <2>1, <2>2 DEF Theres
    <2> QED BY <1>1, <2>1, <2>3
  <1>4. /\ "" \in ByteNames /\ "INACTIVE" \in OptStates /\ "REQUESTED" \in OptStates /\ "TOP_LEVEL" \in ReadStates
        /\ <<>> \in Seq(ByteNames) /\ <<>> \in Seq(OutMessages) /\ <<>> \in Seq(Shown)
    BY DEF ByteNames, OptStates, ReadStates
  <1>5. CASE tn = TelnetEnds!New
    <2>1. PICK t : t = tn
      OBVIOUS
    <2>2. t = TelnetEnds!New
      BY <1>5, <2>1
    <2>3. /\ t \in Clients /\ t.state = "TOP_LEVEL" /\ t.text = <<>> /\ t.backlog = 0 /\ t.frozen = FALSE
          /\ t.size = 0 /\ t.out = <<>> /\ t.echoing = TRUE /\ \A o \in Options : t.opt[o] = "INACTIVE"
      BY <2>2, <1>4 DEF TelnetEnds!New, Clients
    <2>4. Len(t.out) \in Nat /\ \A k \in 1 .. Len(t.out) : FALSE
      BY <2>3
    <2>5. \A o \in Options : Stand(o, t.opt[o], s.peer[o], t.out, <<>>)
      BY <1>3, <2>3, <2>4, AllInactive
    <2>6. Environs(t.opt, s.peer)
      BY <1>3, <2>3 DEF Environs
    <2>7. Echo(t.opt, t.echoing)
      BY <2>3 DEF Echo
    <2>8. Passive(t.opt, s.peer)
      BY <1>3, <2>3 DEF Passive
    <2>9. Holds(t, s, <<>>)
      BY <1>3, <2>3, <2>4, <2>5, <2>6, <2>7, <2>8, Begins
    <2> QED BY <1>1, <1>2, <2>1, <2>9, MCAssumption DEF TelnetInv
  <1>6. CASE tn = [TelnetEnds!New EXCEPT !.opt = [o \in Options |-> TelnetEnds!InitialState(o)],
                                         !.activated = TRUE, !.out = first]
    <2>1. PICK t : t = tn
      OBVIOUS
    <2>2. PICK q : q = TelnetEnds!AskedFirst
      OBVIOUS
    <2>3. PICK n \in Nat :
          /\ q \in [1 .. n -> {o \in Options : TelnetEnds!InitialState(o) = "REQUESTED"}]
          /\ \A o \in Options : TelnetEnds!InitialState(o) = "REQUESTED" => \E i \in 1 .. n : q[i] = o
          /\ \A i, j \in 1 .. n : q[i] = q[j] => i = j
      BY <2>2, FirstAsks
    <2>4. first = [i \in 1 .. n |-> Asks(q[i])]
      <3>1. first = [i \in 1 .. n |-> <<"IAC", TelnetEnds!Send(q[i]), TelnetEnds!Code(q[i])>>]
        BY <2>2, <2>3 DEF first
      <3>2. \A i \in 1 .. n : <<"IAC", TelnetEnds!Send(q[i]), TelnetEnds!Code(q[i])>> = Asks(q[i])
        BY DEF Asks, Message
      <3> QED BY <3>1, <3>2, Zenon
    <2>5. \A i \in 1 .. n : q[i] \in Options /\ TelnetEnds!InitialState(q[i]) = "REQUESTED"
      BY <2>3
    <2>6. \A i \in 1 .. n : /\ Asks(q[i]) \in OutMessages /\ Asks(q[i]) \in Ours(q[i])
                            /\ Asks(q[i]) \notin KeyMessages /\ Asks(q[i]) \notin SizeMessages
      BY <2>5, OptionSays
    <2>7. first \in Seq(OutMessages) /\ Len(first) = n /\ \A i \in 1 .. n : first[i] = Asks(q[i])
      <3>1. first \in [1 .. n -> OutMessages]
        BY <2>4, <2>6
      <3>2. first \in Seq(OutMessages)
        BY <3>1, SeqDef
      <3> QED BY <3>1, <3>2, <2>4, LenProperties
    <2>8. \A o \in Options : TelnetEnds!InitialState(o) \in {"INACTIVE", "REQUESTED"}
      BY DEF TelnetEnds!InitialState
    <2>9. /\ t \in Clients /\ t.state = "TOP_LEVEL" /\ t.text = <<>> /\ t.backlog = 0 /\ t.frozen = FALSE
          /\ t.size = 0 /\ t.out = first /\ t.echoing = TRUE /\ t.activated = TRUE
          /\ \A o \in Options : t.opt[o] = TelnetEnds!InitialState(o)
      <3>1. [o \in Options |-> TelnetEnds!InitialState(o)] \in [Options -> OptStates]
        BY <2>8, <1>4
      <3> QED BY <1>6, <2>1, <2>7, <3>1, <1>4 DEF TelnetEnds!New, Clients
    <2>10. ASSUME NEW o \in Options PROVE Stand(o, t.opt[o], s.peer[o], t.out, <<>>)
      <3>1. \A i \in 1 .. n : first[i] \in Ours(o) => q[i] = o
        <4>1. \A i \in 1 .. n : q[i] # o => Asks(q[i]) \notin Ours(o)
          BY <2>5, <2>6, Apart, TelnetAssumption
        <4> QED BY <4>1, <2>7
      <3>2. CASE TelnetEnds!InitialState(o) = "REQUESTED"
        <4>1. PICK k \in 1 .. n : q[k] = o
          BY <3>2, <2>3
        <4>2. \A j \in 1 .. n : first[j] \in Ours(o) => j = k
          BY <3>1, <4>1, <2>3
        <4>3. first[k] = Asks(o)
          BY <2>7, <4>1
        <4>4. Stand(o, "REQUESTED", "off", first, <<>>)
          BY <2>7, <4>2, <4>3, FirstAsked
        <4> QED BY <3>2, <4>4, <1>3, <2>9
      <3>3. CASE TelnetEnds!InitialState(o) = "INACTIVE"
        <4>1. \A k \in 1 .. n : first[k] \notin Ours(o)
          BY <3>1, <3>3, <2>5
        <4>2. Stand(o, "INACTIVE", "off", first, <<>>)
          BY <2>7, <4>1, AllInactive
        <4> QED BY <3>3, <4>2, <1>3, <2>9
      <3> QED BY <3>2, <3>3, <2>8
    <2>11. Environs(t.opt, s.peer)
      BY <1>3, <2>9 DEF Environs, TelnetEnds!InitialState
    <2>12. Echo(t.opt, t.echoing)
      BY <2>9 DEF Echo, TelnetEnds!InitialState
    <2>13. Holds(t, s, <<>>)
      BY <1>3, <2>6, <2>7, <2>9, <2>10, <2>11, <2>12, Begins
    <2> QED BY <1>1, <1>2, <2>1, <2>13, MCAssumption DEF TelnetInv
  <1> QED BY <1>1, <1>5, <1>6

\* The two ends of a Telnet connection agree on the options and on the size of the window when
\* nothing is under way, whoever asked and however the requests crossed; one kind of ENVIRON is
\* on; we echo what the server does not; and the text is intact both ways, however it is cut up
\* (proc_rec_opt, do_telnet_read, telnet_size and telnet_send of telnet.c).
THEOREM TelnetIsSound == MCSpec => []TelnetSound
  <1>1. MCInit => TelnetInv
    BY InitHolds DEF MCInit
  <1>2. TelnetInv /\ [MCNext]_allVars => TelnetInv'
    <2>1. [MCNext]_allVars => [TelnetEnds!Next]_telnetVars
      BY DEF MCNext, allVars
    <2> QED BY <2>1, StepKeeps
  <1>3. TelnetInv => TelnetSound
    BY InvIsSound
  <1> QED BY <1>1, <1>2, <1>3, PTL DEF MCSpec
=============================================================================
