------------------------- MODULE Ssh2ChannelsProofs -------------------------
(***************************************************************************)
(* The life of a channel, proved for every number of connections and every *)
(* length of the queues: no message of either side ever reaches a channel  *)
(* it was not meant for, although numbers are used again; and an open      *)
(* local socket is that of a channel.                                      *)
(***************************************************************************)
EXTENDS Ssh2Channels, TLAPS, WellFoundedInduction, FiniteSetTheorems

Num == Id \cup {HalfOpen}
Kinds == {"open", "confirm", "failure", "data", "eof", "close", "answer", "resize", "request", "reply"}
Message == [kind : Kinds, id : Num, from : Num, of : Chan]
ServerChannel ==
    [st : {"none", "wanted", "asked", "open", "gone"}, sid : Id, peer : Num,
     sentClose : BOOLEAN, gotClose : BOOLEAN]

\* Types, of what TypeOK leaves open too.
Typed == TypeOK /\ c2s \in Seq(Message) /\ s2c \in Seq(Message) /\ srv \in [Chan -> ServerChannel]

\* Our channels: distinct numbers, and a socket that is open belongs to one and has not been closed.
OursOK(c) ==
    /\ type[c] = "none" => c \notin channels /\ closes[c] = 0
    /\ c \in channels => (type[c] = "dormant" <=> remoteid[c] = HalfOpen)
    /\ closes[c] = 1 => ~s[c]
    /\ plug[c] = "open" => c \in channels /\ s[c]
Ours ==
    /\ \A c, d \in channels : localid[c] = localid[d] => c = d
    /\ \A c \in Chan : OursOK(c)
    /\ type[Main] = "main" /\ (Main \in channels => closes[Main] = 0)
    /\ state = "setup" => Main \in channels /\ awaited # 0

\* A confirmation of c is among the first n messages to the server.
Confirming(c, n) == \E j \in 1 .. n : c2s[j].kind = "confirm" /\ c2s[j].of = c

\* The channels of the server, and what they have to do with ours.
TheirsOK(c) ==
    /\ srv[c].st \in {"none", "wanted", "asked"} => ~srv[c].sentClose /\ ~srv[c].gotClose
    /\ srv[c].st = "wanted" => c \in channels /\ srv[c].peer = localid[c] /\ remoteid[c] = HalfOpen
    /\ (srv[c].st = "open" /\ ~srv[c].sentClose) => c \in channels /\ srv[c].peer = localid[c]
    /\ (c \in channels /\ remoteid[c] = HalfOpen) => ~srv[c].gotClose
    /\ (c \in channels /\ remoteid[c] # HalfOpen /\ closes[c] = 0) =>
          /\ srv[c].sid = remoteid[c] /\ ~srv[c].gotClose
          /\ srv[c].st = "open" \/ (srv[c].st = "asked" /\ Confirming(c, Len(c2s)))
Numbers(c) == srv[c].st \in {"asked", "open"}
Theirs ==
    /\ \A c, d \in Chan : (Numbers(c) /\ Numbers(d) /\ srv[c].sid = srv[d].sid) => c = d
    /\ \A c \in Chan : TheirsOK(c)

\* What is on its way to the server.
Addressed == {"data", "close", "request"}
ToServerOK(m, i) ==
    LET c == m.of
    IN  /\ m.kind = "open" => /\ c \in channels /\ m.from = localid[c] /\ remoteid[c] = HalfOpen
                              /\ srv[c].st = "none"
        /\ m.kind = "confirm" => /\ c \in channels /\ m.from = localid[c]
                                 /\ srv[c].st = "asked" /\ m.id = srv[c].sid
        /\ m.kind = "failure" => type[c] = "none" /\ srv[c].st = "asked" /\ m.id = srv[c].sid
        /\ m.kind \in Addressed =>
              /\ m.id = srv[c].sid /\ ~srv[c].gotClose
              /\ srv[c].st = "open" \/ (srv[c].st = "asked" /\ Confirming(c, i - 1))
        /\ m.kind = "close" => closes[c] = 1 /\ (c \in channels => remoteid[c] # HalfOpen)
\* What may be behind m about the same channel.
ToServerNext(m, n) ==
    /\ m.kind = "close" => n.kind \notin Addressed
    /\ m.kind \in {"open", "confirm", "failure"} => n.kind # m.kind
ToServer ==
    /\ \A i \in 1 .. Len(c2s) : ToServerOK(c2s[i], i)
    /\ \A i, j \in 1 .. Len(c2s) : (i < j /\ c2s[i].of = c2s[j].of) => ToServerNext(c2s[i], c2s[j])

\* An answer to a CHANNEL_OPEN of the server is on its way.
Answered(c) == \E i \in 1 .. Len(c2s) : c2s[i].of = c /\ c2s[i].kind \in {"confirm", "failure"}

\* What is on its way from the server.
FromServerOK(m) ==
    LET c == m.of
    IN  /\ m.kind \in Numbered => c \in channels /\ m.id = localid[c] /\ srv[c].st \in {"open", "gone"}
        /\ m.kind = "confirm" => m.from = srv[c].sid /\ srv[c].st = "open" /\ remoteid[c] = HalfOpen
        /\ m.kind = "failure" => srv[c].st = "gone"
        /\ m.kind = "close" => srv[c].sentClose
        /\ m.kind = "open" =>
              /\ type[c] = "none" /\ srv[c].st = "asked" /\ m.from = srv[c].sid
              /\ ~Answered(c)
FromServerNext(m, n) ==
    /\ (m.kind \in Numbered /\ n.kind \in Numbered) =>
          m.kind \notin {"close", "failure"} /\ n.kind # "confirm"
    /\ m.kind = "open" => n.kind # "open"
FromServer ==
    /\ \A i \in 1 .. Len(s2c) : FromServerOK(s2c[i])
    /\ \A i, j \in 1 .. Len(s2c) : (i < j /\ s2c[i].of = s2c[j].of) => FromServerNext(s2c[i], s2c[j])

Good == Ours /\ Theirs /\ ToServer /\ FromServer
IInv == Typed /\ (Live => Good)

-----------------------------------------------------------------------------
(* Numbers and queues *)

\* A set of natural numbers has a least element.
LEMMA LeastElement ==
    ASSUME NEW T, T \subseteq Nat, T # {}
    PROVE  \E x \in T : \A y \in T : x <= y
  <1>1. PICK x \in T : \A y \in T : ~(<<y, x>> \in OpToRel(<, Nat))
    BY NatLessThanWellFounded, WFMin, Zenon
  <1>2. \A y \in T : ~(y < x)
    BY <1>1 DEF OpToRel
  <1> QED BY <1>2

\* There is always a number left for one connection more.
LEMMA LowestFree ==
    ASSUME NEW used, NEW c \in Chan, NEW f \in [Chan -> Id],
           \A i \in used : \E d \in Chan \ {c} : i = f[d]
    PROVE  Lowest(used) \in Id /\ Lowest(used) \notin used
  <1> DEFINE others == Chan \ {c}
             free == Id \ used
             g == [i \in Id |-> CHOOSE d \in others : i = f[d]]
  <1>1. IsFiniteSet(Chan) /\ Cardinality(Chan) = Cardinality(Conn) + 1
    BY ConstAssumption, FS_AddElement DEF Chan
  <1>2. IsFiniteSet(others) /\ Cardinality(others) = Cardinality(Conn) /\ Cardinality(Conn) \in Nat
    BY <1>1, FS_RemoveElement, FS_CardinalityType, ConstAssumption
  <1>3. IsFiniteSet(Id) /\ Cardinality(Id) = Cardinality(Conn) + 1
    BY <1>2, FS_Interval DEF Id
  <1>4. free # {}
    <2> SUFFICES ASSUME \A i \in Id : i \in used PROVE FALSE
      OBVIOUS
    <2>1. \A i \in Id : g[i] \in others /\ i = f[g[i]]
      OBVIOUS
    <2>2. g \in [Id -> others]
      BY <2>1
    <2> HIDE DEF g, others
    <2>3. Cardinality(others) < Cardinality(Id)
      BY <1>2, <1>3
    <2>4. PICK x \in Id, y \in Id : x # y /\ g[x] = g[y]
      <3>1. \E x, y \in Id : x # y /\ g[x] = g[y]
        BY <2>2, <2>3, <1>2, <1>3, FS_PigeonHole
      <3> QED BY <3>1
    <2> QED BY <2>1, <2>4
  <1>5. PICK x \in free : \A y \in free : x <= y
    <2>1. free \subseteq Nat
      BY <1>2 DEF Id
    <2> QED BY <2>1, <1>4, LeastElement
  <1>6. x \in Id /\ x \notin used /\ \A j \in Id : j < x => j \in used
    BY <1>5, <1>2 DEF Id
  <1> HIDE DEF others, free, g
  <1> DEFINE P(i) == i \notin used /\ \A j \in Id : j < i => j \in used
  <1>7. Lowest(used) = CHOOSE i \in Id : P(i)
    BY DEF Lowest
  <1>8. \E i \in Id : P(i)
    BY <1>6
  <1>9. Lowest(used) \in Id /\ P(Lowest(used))
    <2> HIDE DEF P
    <2> QED BY <1>7, <1>8, Zenon
  <1> QED BY <1>9

\* What is in a queue when a message has been appended.
LEMMA Appended ==
    ASSUME NEW q \in Seq(Message), NEW m \in Message
    PROVE  /\ Append(q, m) \in Seq(Message) /\ Len(q) \in Nat
           /\ Len(Append(q, m)) = Len(q) + 1 /\ Append(q, m)[Len(q) + 1] = m
           /\ \A i \in 1 .. Len(q) : Append(q, m)[i] = q[i]
  OBVIOUS

\* What is left of a queue when its head is taken.
LEMMA Shortened ==
    ASSUME NEW q \in Seq(Message), q # <<>>
    PROVE  /\ Tail(q) \in Seq(Message) /\ Len(q) \in Nat \ {0} /\ Len(Tail(q)) = Len(q) - 1
           /\ Head(q) = q[1] /\ Head(q) \in Message
           /\ \A i \in 1 .. Len(q) - 1 : Tail(q)[i] = q[i + 1]
  OBVIOUS

\* A new channel gets a number that none of ours has.
LEMMA NewIdFree ==
    ASSUME Typed, NEW c \in Chan, c \notin channels
    PROVE  NewId \in Id /\ \A d \in channels : localid[d] # NewId
  <1> DEFINE used == {localid[d] : d \in channels}
  <1>1. \A i \in used : \E d \in Chan \ {c} : i = localid[d]
    BY DEF Typed, TypeOK
  <1>2. localid \in [Chan -> Id]
    BY DEF Typed, TypeOK
  <1> HIDE DEF used
  <1>3. Lowest(used) \in Id /\ Lowest(used) \notin used
    BY <1>1, <1>2, LowestFree
  <1> QED BY <1>3 DEF NewId, used

\* The server too numbers a channel with what no other channel of its has.
LEMMA SidFree ==
    ASSUME Typed, NEW c \in Chan, ~Numbers(c)
    PROVE  Lowest(Taken) \in Id /\ \A d \in Chan : Numbers(d) => srv[d].sid # Lowest(Taken)
  <1> DEFINE sid == [d \in Chan |-> srv[d].sid]
  <1>1. \A i \in Taken : \E d \in Chan \ {c} : i = sid[d]
    BY DEF Typed, Taken, Numbers
  <1>2. sid \in [Chan -> Id]
    BY DEF Typed, ServerChannel
  <1> HIDE DEF sid
  <1>3. Lowest(Taken) \in Id /\ Lowest(Taken) \notin Taken
    BY <1>1, <1>2, LowestFree
  <1> QED BY <1>3 DEF Taken, Numbers

-----------------------------------------------------------------------------
(* Types *)

\* The connection starts with values of the right types.
LEMMA InitTyped == Init => Typed
  <1> SUFFICES ASSUME Init PROVE Typed
    OBVIOUS
  <1> USE ConstAssumption DEF Init, Typed, TypeOK, Chan, Id, HalfOpen
  <1>1. 0 \in Id
    BY FS_CardinalityType
  <1>2. To("request", 0, Main) \in Message
    BY <1>1 DEF To, Msg, Message, Kinds, Num
  <1>3. TypeOK
    <2>1. awaited \in 0 .. SetupRequests /\ state \in {"setup", "session"}
      OBVIOUS
    <2>2. /\ localid \in [Chan -> Id] /\ remoteid \in [Chan -> Id \cup {HalfOpen}]
          /\ closes \in [Chan -> {0, 1}] /\ channels \subseteq Chan
      BY <1>1
    <2> QED BY <2>1, <2>2
  <1>4. c2s \in Seq(Message) /\ s2c \in Seq(Message)
    BY <1>2
  <1>5. srv \in [Chan -> ServerChannel]
    BY <1>1 DEF ServerChannel, Num
  <1> QED BY <1>3, <1>4, <1>5

\* ssh_do_close keeps the types.
LEMMA CloseTyped ==
    ASSUME Typed, NEW passes, DoClose(passes)
    PROVE  Typed'
  BY DEF DoClose, Typed, TypeOK, Survivors, server

\* So does reading through a dangling pointer, which only marks the state.
LEMMA CrashTyped == ASSUME Typed, Crash PROVE Typed'
  BY DEF Crash, Typed, TypeOK, local, server

\* What is sent is a message, to either end.
LEMMA Sendable ==
    ASSUME NEW kind \in Kinds, NEW id \in Num, NEW from \in Num, NEW c \in Chan
    PROVE  Msg(kind, id, from, c) \in Message /\ To(kind, id, c) \in Message
  BY DEF To, Msg, Message, Num

\* What sshfwd_close changes stays of its type.
LEMMA FwdCloseTyped ==
    ASSUME Typed, NEW c \in Chan, FwdClose(c)
    PROVE  /\ channels' = channels /\ closes' \in [Chan -> {0, 1}] /\ s' \in [Chan -> BOOLEAN]
           /\ c2s' \in Seq(Message)
  <1>1. To("close", remoteid[c], c) \in Message
    BY Sendable DEF Typed, TypeOK, Kinds, Num
  <1>2. CASE state = "session" /\ closes[c] = 0
    <2>1. /\ channels' = channels /\ closes' = [closes EXCEPT ![c] = 1] /\ s' = [s EXCEPT ![c] = FALSE]
          /\ c2s' = Append(c2s, To("close", remoteid[c], c)) \/ c2s' = c2s
      BY <1>2 DEF FwdClose, Send
    <2>2. c2s' \in Seq(Message)
      BY <2>1, <1>1, Appended DEF Typed
    <2> QED BY <2>1, <2>2 DEF Typed, TypeOK
  <1>3. CASE ~(state = "session" /\ closes[c] = 0)
    BY <1>3 DEF FwdClose, Typed, TypeOK
  <1> QED BY <1>2, <1>3

\* What is left of a queue.
LEMMA RestTyped ==
    ASSUME Typed, s2c # <<>>
    PROVE  Tail(s2c) \in Seq(Message) /\ Head(s2c) \in Message /\ Head(s2c).id \in Num
           /\ Head(s2c).from \in Num /\ Head(s2c).of \in Chan
  BY Shortened DEF Typed, Message

\* The handlers of packets keep the types, where messages find their owners.
LEMMA RecvTyped ==
    ASSUME Typed, Live => Ours /\ FromServer, ClientRecv
    PROVE  Typed'
  <1>1. s2c # <<>> /\ Live
    BY DEF ClientRecv, RecvReply, RecvData, RecvEof, RecvClose, RecvConfirm, RecvFailure, RecvOpen,
           Receive, Live
  <1>2. /\ Tail(s2c) \in Seq(Message) /\ Head(s2c) \in Message /\ Head(s2c).id \in Num
        /\ Head(s2c).from \in Num /\ Head(s2c).of \in Chan
    BY <1>1, RestTyped
  <1>3. \A kind \in Kinds, id \in Num, from \in Num, c \in Chan :
            /\ Append(c2s, To(kind, id, c)) \in Seq(Message)
            /\ Append(c2s, Msg(kind, id, from, c)) \in Seq(Message)
    BY Sendable, Appended DEF Typed
  <1>4. \A id : Found(id) \subseteq Chan
    BY DEF Found, Typed, TypeOK
  <1>5. \A c \in Chan : remoteid[c] \in Num
    BY DEF Typed, TypeOK, Num
  <1>6. CASE RecvReply
    <2>1. CASE Head(s2c).kind = "reply"
      <3>1. To("request", remoteid[Main], Main) \in Message
        BY Sendable, <1>5 DEF Kinds, Chan
      <3>2. awaited # 0
        BY <1>1, <1>6 DEF RecvReply, Ours
      <3>3. /\ awaited' = awaited - 1 /\ state' \in {"setup", "session"} /\ s2c' = Tail(s2c)
            /\ c2s' = c2s \/ c2s' = Append(c2s, To("request", remoteid[Main], Main))
            /\ UNCHANGED <<channels, local, server>>
        BY <1>6, <2>1 DEF RecvReply, Send
      <3>4. c2s' \in Seq(Message)
        BY <3>1, <3>3, Appended DEF Typed
      <3>5. awaited' \in 0 .. SetupRequests
        BY <3>2, <3>3, ConstAssumption DEF Typed, TypeOK
      <3> QED BY <3>3, <3>4, <3>5, <1>2 DEF Typed, TypeOK, local, server
    <2>2. CASE Bombout
      BY <2>2, CloseTyped DEF Bombout
    <2> QED BY <1>6, <2>1, <2>2 DEF RecvReply
  <1>7. CASE RecvData
    <2>1. query' \in [Chan -> BOOLEAN] /\ s2c' = Tail(s2c)
      BY <1>7 DEF RecvData, Receive, Typed, TypeOK
    <2> QED BY <1>7, <2>1, <1>2 DEF RecvData, Typed, TypeOK, server
  <1>8. CASE RecvEof
    <2>1. s2c' = Tail(s2c) /\ UNCHANGED <<state, awaited, localid, remoteid, type, query, server>>
      BY <1>8 DEF RecvEof, Receive
    <2>2. CASE UNCHANGED <<channels, plug, c2s, closes, s>>
      BY <2>1, <2>2, <1>2 DEF Typed, TypeOK, server
    <2>3. ASSUME NEW c \in Found(Head(s2c).id), FwdClose(c),
                 plug' = [plug EXCEPT ![c] = IF s[c] THEN "closed" ELSE @]
          PROVE  Typed'
      <3>1. c \in Chan
        BY <1>4
      <3>2. plug' \in [Chan -> {"none", "open", "closed"}]
        BY <2>3, <3>1 DEF Typed, TypeOK
      <3> QED BY <2>1, <2>3, <3>1, <3>2, <1>2, FwdCloseTyped DEF Typed, TypeOK, server
    <2> QED BY <1>8, <2>2, <2>3 DEF RecvEof
  <1>9. CASE RecvClose
    <2>1. CASE Bombout
      BY <2>1, CloseTyped DEF Bombout
    <2>2. CASE DoClose(1)
      BY <2>2, CloseTyped
    <2>3. CASE ~Bombout /\ ~DoClose(1)
      <3>1. PICK c \in Found(Head(s2c).id) :
                /\ channels' = channels \ {c}
                /\ c2s' = Append(c2s, To("close", remoteid[c], c)) \/ c2s' = c2s
                /\ closes' = [closes EXCEPT ![c] = 1]
                /\ plug' = [plug EXCEPT ![c] = IF s[c] THEN "closed" ELSE @]
                /\ s' = [s EXCEPT ![c] = FALSE]
                /\ s2c' = Tail(s2c)
                /\ UNCHANGED <<state, awaited, localid, remoteid, type, query, server>>
        BY <1>9, <2>3 DEF RecvClose, Send
      <3>2. c \in Chan
        BY <1>4
      <3>3. c2s' \in Seq(Message)
        BY <3>1, <3>2, <1>3, <1>5 DEF Typed, Kinds
      <3>4. plug' \in [Chan -> {"none", "open", "closed"}]
        BY <3>1, <3>2 DEF Typed, TypeOK
      <3> QED BY <3>1, <3>2, <3>3, <3>4, <1>2 DEF Typed, TypeOK, server
    <2> QED BY <2>1, <2>2, <2>3
  <1>10. CASE RecvConfirm
    <2>1. CASE Crash
      BY <2>1, CrashTyped
    <2>2. CASE ~Crash
      <3>1. PICK c \in Found(Head(s2c).id) :
                /\ remoteid' = [remoteid EXCEPT ![c] = Head(s2c).from]
                /\ type' = [type EXCEPT ![c] = "sock"]
                /\ \/ c2s' = c2s
                   \/ \E kind \in {"data", "close"} : c2s' = Append(c2s, To(kind, Head(s2c).from, c))
                /\ s2c' = Tail(s2c)
                /\ UNCHANGED <<state, awaited, channels, localid, closes, s, plug, query, server>>
        BY <1>10, <2>2 DEF RecvConfirm, Receive, Send
      <3>2. c \in Chan
        BY <1>4
      <3>3. c2s' \in Seq(Message)
        BY <3>1, <3>2, <1>3, <1>2 DEF Typed, Kinds
      <3>4. remoteid' \in [Chan -> Id \cup {HalfOpen}]
        BY <3>1, <3>2, <1>2 DEF Typed, TypeOK, Num
      <3> QED BY <3>1, <3>2, <3>3, <3>4, <1>2 DEF Typed, TypeOK, server
    <2> QED BY <2>1, <2>2
  <1>11. CASE RecvFailure
    <2>1. CASE Crash
      BY <2>1, CrashTyped
    <2>2. CASE ~Crash
      <3>1. PICK c \in Found(Head(s2c).id) :
                /\ channels' = channels \ {c}
                /\ plug' = [plug EXCEPT ![c] = IF s[c] THEN "closed" ELSE @]
                /\ s2c' = Tail(s2c)
                /\ UNCHANGED <<state, awaited, localid, remoteid, type, closes, s, query, c2s, server>>
        BY <1>11, <2>2 DEF RecvFailure, Receive
      <3>2. c \in Chan
        BY <1>4
      <3>3. plug' \in [Chan -> {"none", "open", "closed"}]
        BY <3>1, <3>2 DEF Typed, TypeOK
      <3> QED BY <3>1, <3>2, <3>3, <1>2 DEF Typed, TypeOK, server
    <2> QED BY <2>1, <2>2
  <1>12. CASE RecvOpen
    <2> DEFINE c == Head(s2c).of
    <2>1. c \in Chan /\ s2c' = Tail(s2c) /\ UNCHANGED <<state, awaited, server>>
      BY <1>2, <1>12 DEF RecvOpen, Receive
    <2>2. CASE Send(To("failure", Head(s2c).from, c)) /\ UNCHANGED <<channels, local>>
      <3>1. c2s' \in Seq(Message)
        BY <2>1, <2>2, <1>2, <1>3 DEF Send, Kinds
      <3> QED BY <2>1, <2>2, <3>1, <1>2 DEF Typed, TypeOK, local, server
    <2>3. ASSUME NEW kind \in {"sock", "agent"},
                 /\ channels' = channels \cup {c}
                 /\ localid' = [localid EXCEPT ![c] = NewId]
                 /\ remoteid' = [remoteid EXCEPT ![c] = Head(s2c).from]
                 /\ type' = [type EXCEPT ![c] = kind]
                 /\ s' = [s EXCEPT ![c] = (kind = "sock")]
                 /\ plug' = [plug EXCEPT ![c] = IF kind = "sock" THEN "open" ELSE @]
                 /\ Send(Msg("confirm", Head(s2c).from, NewId, c))
                 /\ UNCHANGED <<closes, query>>
          PROVE  Typed'
      <3>1. c \notin channels
        <4>1. Head(s2c).kind = "open" /\ Head(s2c) = s2c[1] /\ 1 \in 1 .. Len(s2c)
          BY <1>1, <1>12, Shortened DEF RecvOpen, Receive, Typed
        <4>2. FromServerOK(Head(s2c))
          BY <4>1, <1>1 DEF FromServer
        <4> QED BY <4>1, <4>2, <2>1, <1>1 DEF FromServerOK, Ours, OursOK
      <3>2. NewId \in Id
        BY <2>1, <3>1, NewIdFree
      <3>3. c2s' \in Seq(Message)
        BY <2>1, <2>3, <3>2, <1>2, <1>3 DEF Send, Kinds, Num
      <3>4. localid' \in [Chan -> Id] /\ remoteid' \in [Chan -> Id \cup {HalfOpen}]
        BY <2>1, <2>3, <3>2, <1>2 DEF Typed, TypeOK, Num
      <3>5. /\ type' \in [Chan -> {"none", "main", "dormant", "sock", "agent"}]
            /\ s' \in [Chan -> BOOLEAN] /\ plug' \in [Chan -> {"none", "open", "closed"}]
            /\ channels' \subseteq Chan
        BY <2>1, <2>3 DEF Typed, TypeOK
      <3> QED BY <2>1, <2>3, <3>3, <3>4, <3>5, <1>2 DEF Typed, TypeOK, server
    <2> QED BY <1>12, <2>2, <2>3 DEF RecvOpen
  <1> QED BY <1>6, <1>7, <1>8, <1>9, <1>10, <1>11, <1>12 DEF ClientRecv

\* The server keeps the types of its table.
LEMMA SrvRecvTyped ==
    ASSUME Typed, SrvRecv
    PROVE  Typed'
  <1>1. c2s # <<>> /\ c2s' = Tail(c2s) /\ UNCHANGED <<client, s2c>>
    BY DEF SrvRecv
  <1>2. Tail(c2s) \in Seq(Message) /\ Head(c2s) \in Message
    BY <1>1, Shortened DEF Typed
  <1>3. Head(c2s).from \in Num /\ Head(c2s).of \in Chan
    BY <1>2 DEF Message
  <1>4. srv' \in [Chan -> ServerChannel] /\ srvOwes' \in BOOLEAN
    <2> DEFINE m == Head(c2s)
    <2> HIDE DEF m
    <2>0. m.from \in Num /\ m.of \in Chan
      BY <1>3 DEF m
    <2>1. srvOwes' \in BOOLEAN
      BY DEF SrvRecv, Typed, TypeOK, server
    <2>2. CASE srv' = [srv EXCEPT ![m.of].st = "wanted", ![m.of].peer = m.from]
      BY <2>0, <2>1, <2>2 DEF Typed, ServerChannel
    <2>3. CASE srv' = [c \in Chan |-> IF c \in SrvChannel(m.id)
                                        THEN [srv[c] EXCEPT !.st = "open", !.peer = m.from] ELSE srv[c]]
      BY <2>0, <2>1, <2>3 DEF Typed, ServerChannel
    <2>4. CASE srv' = [c \in Chan |-> IF c \in SrvChannel(m.id) THEN [srv[c] EXCEPT !.st = "gone"] ELSE srv[c]]
      BY <2>0, <2>1, <2>4 DEF Typed, ServerChannel
    <2>5. CASE srv' = [c \in Chan |->
                           IF c \in SrvChannel(m.id)
                             THEN [srv[c] EXCEPT !.gotClose = TRUE,
                                                 !.st = IF srv[c].sentClose THEN "gone" ELSE @]
                             ELSE srv[c]]
      BY <2>0, <2>1, <2>5 DEF Typed, ServerChannel
    <2>6. CASE UNCHANGED srv
      BY <2>1, <2>6 DEF Typed
    <2> QED BY <2>2, <2>3, <2>4, <2>5, <2>6 DEF SrvRecv, server, m
  <1> QED BY <1>1, <1>2, <1>4 DEF Typed, TypeOK, client, local

\* Every step keeps the types.
LEMMA NextTyped ==
    ASSUME IInv, Next
    PROVE  Typed'
  <1> USE DEF IInv, Good
  <1>1. CASE SshClosing
    BY <1>1, CloseTyped DEF SshClosing
  <1>2. CASE MainInput
    <2>1. To("data", remoteid[Main], Main) \in Message
      BY Sendable DEF Typed, TypeOK, Kinds, Num, Chan
    <2> QED BY <1>2, <2>1, Appended DEF MainInput, Send, Typed, TypeOK, client, local, server
  <1>3. CASE Resize
    <2>1. To("resize", remoteid[Main], Main) \in Message
      BY Sendable DEF Typed, TypeOK, Kinds, Num, Chan
    <2> QED BY <1>3, <2>1, Appended DEF Resize, Send, Typed, TypeOK, client, local, server
  <1>4. ASSUME NEW c \in Conn, Accept(c) PROVE Typed'
    <2>1. CASE state = "closed" /\ Crash
      BY <2>1, CrashTyped
    <2>2. CASE Live /\ ~Crash
      <3>1. c \in Chan /\ c \notin channels
        BY <1>4, <2>2 DEF Accept, Ours, OursOK, Chan
      <3>2. NewId \in Id
        BY <3>1, NewIdFree
      <3>3. Msg("open", HalfOpen, NewId, c) \in Message
        BY <3>1, <3>2, Sendable DEF Kinds, Num
      <3>4. c2s' \in Seq(Message)
        BY <1>4, <2>2, <3>3, Appended DEF Accept, Send, Typed, Live
      <3>5. TypeOK'
        <4>1. /\ channels' = channels \cup {c} /\ localid' = [localid EXCEPT ![c] = NewId]
              /\ remoteid' = [remoteid EXCEPT ![c] = HalfOpen] /\ type' = [type EXCEPT ![c] = "dormant"]
              /\ s' = [s EXCEPT ![c] = TRUE] /\ plug' = [plug EXCEPT ![c] = "open"]
              /\ UNCHANGED <<state, awaited, closes, query, srvOwes>>
          BY <1>4, <2>2 DEF Accept, Live, server
        <4>2. localid' \in [Chan -> Id] /\ remoteid' \in [Chan -> Id \cup {HalfOpen}]
          BY <4>1, <3>2 DEF Typed, TypeOK
        <4> QED BY <4>1, <4>2, <3>1 DEF Typed, TypeOK
      <3> QED BY <1>4, <2>2, <3>4, <3>5 DEF Accept, Typed, Live, server
    <2> QED BY <1>4, <2>1, <2>2, CrashTyped DEF Accept, Live
  <1>5. ASSUME NEW c \in Conn, LocalClosing(c) PROVE Typed'
    <2>1. c \in Chan
      BY DEF Chan
    <2>2. CASE Crash
      BY <2>2, CrashTyped
    <2> QED BY <1>5, <2>1, <2>2, FwdCloseTyped DEF LocalClosing, Typed, TypeOK, server
  <1>6. ASSUME NEW c \in Conn, LocalData(c) PROVE Typed'
    <2>1. To("data", remoteid[c], c) \in Message
      BY Sendable DEF Typed, TypeOK, Kinds, Num, Chan
    <2> QED BY <1>6, <2>1, Appended DEF LocalData, Send, Typed, TypeOK, client, local, server
  <1>7. ASSUME NEW c \in Conn, AgentReply(c) PROVE Typed'
    <2>1. To("answer", remoteid[c], c) \in Message
      BY Sendable DEF Typed, TypeOK, Kinds, Num, Chan
    <2>2. CASE Crash
      BY <2>2, CrashTyped
    <2>3. CASE ~Crash
      <3>1. /\ query' = [query EXCEPT ![c] = FALSE]
            /\ c2s' = Append(c2s, To("answer", remoteid[c], c)) \/ c2s' = c2s
            /\ UNCHANGED <<state, awaited, channels, localid, remoteid, type, closes, s, plug, s2c, server>>
        BY <1>7, <2>3 DEF AgentReply, Send
      <3>2. c2s' \in Seq(Message)
        BY <3>1, <2>1, Appended DEF Typed
      <3> QED BY <3>1, <3>2 DEF Typed, TypeOK, server
    <2> QED BY <2>2, <2>3
  <1>8. CASE ClientRecv
    BY <1>8, RecvTyped
  <1>9. CASE Live /\ SrvRecv
    BY <1>9, SrvRecvTyped
  <1>10. CASE SrvReply
    <2>1. To("reply", 0, Main) \in Message
      BY ConstAssumption, FS_CardinalityType, Sendable DEF Kinds, Num, Id, Chan
    <2> QED BY <1>10, <2>1, Appended DEF SrvReply, Tell, Typed, TypeOK, client, local
  <1>11. ASSUME Live, NEW c \in Chan, SrvConfirm(c) PROVE Typed'
    <2>1. Lowest(Taken) \in Id
      BY <1>11, SidFree DEF SrvConfirm, Numbers
    <2>2. Msg("confirm", srv[c].peer, Lowest(Taken), c) \in Message
      BY <2>1, Sendable DEF Typed, ServerChannel, Kinds, Num
    <2>3. srv' \in [Chan -> ServerChannel]
      BY <1>11, <2>1 DEF SrvConfirm, Typed, ServerChannel
    <2> QED BY <1>11, <2>2, <2>3, Appended DEF SrvConfirm, Tell, Typed, TypeOK, client, local
  <1>12. ASSUME NEW c \in Chan, SrvRefuse(c) PROVE Typed'
    <2>1. To("failure", srv[c].peer, c) \in Message
      BY Sendable DEF Typed, ServerChannel, Kinds
    <2>2. srv' \in [Chan -> ServerChannel]
      BY <1>12 DEF SrvRefuse, Typed, ServerChannel
    <2> QED BY <1>12, <2>1, <2>2, Appended DEF SrvRefuse, Tell, Typed, TypeOK, client, local
  <1>13. ASSUME NEW c \in Conn, SrvOpen(c) PROVE Typed'
    <2>1. Lowest(Taken) \in Id /\ c \in Chan
      BY <1>13, SidFree DEF SrvOpen, Numbers, Chan
    <2>2. Msg("open", HalfOpen, Lowest(Taken), c) \in Message
      BY <2>1, Sendable DEF Kinds, Num
    <2>3. srv' \in [Chan -> ServerChannel]
      BY <1>13, <2>1 DEF SrvOpen, Typed, ServerChannel
    <2> QED BY <1>13, <2>2, <2>3, Appended DEF SrvOpen, Tell, Typed, TypeOK, client, local
  <1>14. ASSUME NEW c \in Chan, SrvSend(c) PROVE Typed'
    <2>1. \A kind \in {"data", "eof"} : To(kind, srv[c].peer, c) \in Message
      BY Sendable DEF Typed, ServerChannel, Kinds
    <2> QED BY <1>14, <2>1, Appended DEF SrvSend, Tell, Typed, TypeOK, client, local, server
  <1>15. ASSUME NEW c \in Chan, SrvClose(c) PROVE Typed'
    <2>1. To("close", srv[c].peer, c) \in Message
      BY Sendable DEF Typed, ServerChannel, Kinds
    <2>2. srv' \in [Chan -> ServerChannel]
      BY <1>15 DEF SrvClose, Typed, ServerChannel
    <2> QED BY <1>15, <2>1, <2>2, Appended DEF SrvClose, Tell, Typed, TypeOK, client, local
  <1> QED BY <1>1, <1>2, <1>3, <1>4, <1>5, <1>6, <1>7, <1>8, <1>9, <1>10, <1>11, <1>12, <1>13,
             <1>14, <1>15 DEF Next
-----------------------------------------------------------------------------
(* Steps that are about one channel *)

\* Nothing about c changes but what is on its way.
Same(c) ==
    /\ c \in channels' <=> c \in channels
    /\ localid'[c] = localid[c] /\ remoteid'[c] = remoteid[c] /\ type'[c] = type[c]
    /\ closes'[c] = closes[c] /\ s'[c] = s[c] /\ plug'[c] = plug[c] /\ srv'[c] = srv[c]
OnlyAbout(c) == \A d \in Chan \ {c} : Same(d)

\* What there is besides the channels one by one.
Whole ==
    /\ type[Main] = "main" /\ (Main \in channels => closes[Main] = 0)
    /\ state = "setup" => Main \in channels /\ awaited # 0

\* A step about c keeps what holds of the other channels of ours.
LEMMA OursStep ==
    ASSUME Typed, Typed', Ours, NEW c \in Chan, OnlyAbout(c), OursOK(c)', Whole',
           c \in channels' => \A d \in channels \ {c} : localid'[c] # localid[d]
    PROVE  Ours'
  <1>1. \A d \in Chan : OursOK(d)'
    BY DEF Ours, OursOK, OnlyAbout, Same
  <1>2. ASSUME NEW d \in channels', NEW e \in channels', localid'[d] = localid'[e]
        PROVE  d = e
    <2>1. d \in Chan /\ e \in Chan
      BY DEF Typed, TypeOK
    <2>2. CASE d # c /\ e # c
      BY <1>2, <2>1, <2>2 DEF OnlyAbout, Same, Ours
    <2>3. CASE d = c \/ e = c
      BY <1>2, <2>1, <2>3 DEF OnlyAbout, Same
    <2> QED BY <2>2, <2>3
  <1> QED BY <1>1, <1>2 DEF Ours, Whole

\* The same for the channels of the server.
LEMMA TheirsStep ==
    ASSUME Typed, Typed', Theirs, NEW c \in Chan, OnlyAbout(c), TheirsOK(c)',
           \A d \in Chan \ {c} : Confirming(d, Len(c2s)) => Confirming(d, Len(c2s))',
           Numbers(c)' => \A d \in Chan \ {c} : Numbers(d) => srv'[c].sid # srv[d].sid
    PROVE  Theirs'
  <1>1. ASSUME NEW d \in Chan PROVE TheirsOK(d)'
    <2>1. CASE d = c
      BY <2>1
    <2>2. CASE d # c
      <3>1. Same(d) /\ TheirsOK(d) /\ (Confirming(d, Len(c2s)) => Confirming(d, Len(c2s))')
        BY <2>2 DEF OnlyAbout, Theirs
      <3> QED BY <3>1 DEF Same, TheirsOK
    <2> QED BY <2>1, <2>2
  <1>2. ASSUME NEW d \in Chan, NEW e \in Chan, Numbers(d)', Numbers(e)', srv'[d].sid = srv'[e].sid
        PROVE  d = e
    <2>1. CASE d # c /\ e # c
      BY <1>2, <2>1 DEF OnlyAbout, Same, Theirs, Numbers
    <2>2. CASE d = c \/ e = c
      BY <1>2, <2>2 DEF OnlyAbout, Same, Numbers
    <2> QED BY <2>1, <2>2
  <1> QED BY <1>1, <1>2 DEF Theirs

\* What has been sent about another channel stays in order.
LEMMA ToServerFrame ==
    ASSUME NEW m, NEW i, Same(m.of), Confirming(m.of, i - 1) => Confirming(m.of, i - 1)', ToServerOK(m, i)
    PROVE  ToServerOK(m, i)'
  BY DEF Same, ToServerOK

\* The same for what the server has sent.
LEMMA FromServerFrame ==
    ASSUME NEW m, Same(m.of), Answered(m.of)' => Answered(m.of), FromServerOK(m)
    PROVE  FromServerOK(m)'
  BY DEF Same, FromServerOK

\* What is in a queue is a message about a channel.
LEMMA InQueue ==
    ASSUME NEW q \in Seq(Message), NEW i \in 1 .. Len(q)
    PROVE  q[i] \in Message /\ q[i].of \in Chan
  <1>1. q[i] \in Message
    OBVIOUS
  <1> QED BY <1>1 DEF Message

\* The client sends m.
LEMMA Sent ==
    ASSUME Typed, NEW m \in Message, c2s' = Append(c2s, m)
    PROVE  /\ Len(c2s) \in Nat /\ Len(c2s') = Len(c2s) + 1 /\ c2s'[Len(c2s) + 1] = m
           /\ \A i \in 1 .. Len(c2s) : c2s'[i] = c2s[i]
           /\ \A c, n : n \in 0 .. Len(c2s) => (Confirming(c, n)' <=> Confirming(c, n))
           /\ \A c : Confirming(c, Len(c2s)) => Confirming(c, Len(c2s))'
           /\ m.kind = "confirm" => Confirming(m.of, Len(c2s))'
           /\ \A c : Answered(c)' => Answered(c) \/ (c = m.of /\ m.kind \in {"confirm", "failure"})
  <1>1. /\ Len(c2s) \in Nat /\ Len(c2s') = Len(c2s) + 1 /\ c2s'[Len(c2s) + 1] = m
        /\ \A i \in 1 .. Len(c2s) : c2s'[i] = c2s[i]
    BY Appended DEF Typed
  <1>2. ASSUME NEW c, NEW n \in 0 .. Len(c2s)
        PROVE  Confirming(c, n)' <=> Confirming(c, n)
    BY <1>1 DEF Confirming
  <1>3. ASSUME NEW c, Confirming(c, Len(c2s)) PROVE Confirming(c, Len(c2s))'
    BY <1>1, <1>3 DEF Confirming
  <1>4. ASSUME m.kind = "confirm" PROVE Confirming(m.of, Len(c2s))'
    BY <1>1, <1>4 DEF Confirming
  <1>5. ASSUME NEW c, Answered(c)' PROVE Answered(c) \/ (c = m.of /\ m.kind \in {"confirm", "failure"})
    BY <1>1, <1>5 DEF Answered
  <1> QED BY <1>1, <1>2, <1>3, <1>4, <1>5

\* Nothing is sent: what is on its way to the server has to stay true for c alone.
LEMMA ToServerSame ==
    ASSUME Typed, ToServer, NEW c \in Chan, OnlyAbout(c), c2s' = c2s,
           \A i \in 1 .. Len(c2s), m \in Message : (m = c2s[i] /\ m.of = c) => ToServerOK(m, i)'
    PROVE  ToServer'
  <1>1. ASSUME NEW i \in 1 .. Len(c2s') PROVE ToServerOK(c2s[i], i)'
    <2> DEFINE m == c2s[i]
    <2>1. m \in Message /\ m.of \in Chan /\ ToServerOK(m, i)
      BY InQueue DEF Typed, ToServer
    <2>2. ToServerOK(c2s[i], i)'
      <3>1. PICK n \in Message : n = m
        BY <2>1
      <3>2. ToServerOK(n, i)'
        <4>1. CASE n.of = c
          BY <4>1, <3>1
        <4>2. CASE n.of # c
          <5>1. Same(n.of) /\ (Confirming(n.of, i - 1) => Confirming(n.of, i - 1)')
            BY <4>2, <3>1, <2>1 DEF OnlyAbout, Confirming
          <5> QED BY <5>1, <3>1, <2>1, ToServerFrame
        <4> QED BY <4>1, <4>2
      <3> QED BY <3>1, <3>2
    <2> QED BY <2>2
  <1>2. \A i, j \in 1 .. Len(c2s') :
            (i < j /\ c2s'[i].of = c2s'[j].of) => ToServerNext(c2s'[i], c2s'[j])
    BY DEF ToServer
  <1> QED BY <1>1, <1>2 DEF ToServer, ToServerNext

\* A message m about c is sent: besides, m has to be true and may follow what was sent about c.
LEMMA ToServerSent ==
    ASSUME Typed, ToServer, NEW c \in Chan, OnlyAbout(c), NEW m \in Message, m.of = c,
           c2s' = Append(c2s, m), ToServerOK(m, Len(c2s))',
           \A i \in 1 .. Len(c2s), n \in Message : (n = c2s[i] /\ n.of = c) => ToServerOK(n, i)',
           \A i \in 1 .. Len(c2s) : c2s[i].of = c => ToServerNext(c2s[i], m)
    PROVE  ToServer'
  <1>1. /\ Len(c2s) \in Nat /\ Len(c2s') = Len(c2s) + 1 /\ c2s'[Len(c2s) + 1] = m
        /\ \A i \in 1 .. Len(c2s) : c2s'[i] = c2s[i]
        /\ \A d, n : n \in 0 .. Len(c2s) => (Confirming(d, n)' <=> Confirming(d, n))
    BY Sent
  <1>2. ASSUME NEW i \in 1 .. Len(c2s') PROVE ToServerOK(c2s[i], i)'
    <2>1. CASE i = Len(c2s) + 1
      <3>1. PICK k : k = Len(c2s')
        OBVIOUS
      <3>2. ToServerOK(m, k)'
        BY <3>1
      <3> QED BY <1>1, <2>1, <3>1, <3>2
    <2>2. CASE i \in 1 .. Len(c2s)
      <3>1. PICK n \in Message : n = c2s[i] /\ n.of \in Chan /\ ToServerOK(n, i)
        BY <2>2, InQueue DEF Typed, ToServer
      <3>2. ToServerOK(n, i)'
        <4>1. CASE n.of = c
          BY <4>1, <3>1, <2>2
        <4>2. CASE n.of # c
          <5>1. Same(n.of) /\ (Confirming(n.of, i - 1) => Confirming(n.of, i - 1)')
            BY <4>2, <3>1, <1>1, <2>2 DEF OnlyAbout
          <5> QED BY <5>1, <3>1, ToServerFrame
        <4> QED BY <4>1, <4>2
      <3> QED BY <3>1, <3>2, <1>1, <2>2
    <2> QED BY <1>1, <2>1, <2>2
  <1>3. ASSUME NEW i \in 1 .. Len(c2s'), NEW j \in 1 .. Len(c2s'), i < j, c2s'[i].of = c2s'[j].of
        PROVE  ToServerNext(c2s'[i], c2s'[j])
    <2>1. CASE j = Len(c2s) + 1
      BY <1>1, <1>3, <2>1
    <2>2. CASE j # Len(c2s) + 1
      BY <1>1, <1>3, <2>2 DEF ToServer
    <2> QED BY <2>1, <2>2
  <1> QED BY <1>2, <1>3 DEF ToServer, ToServerNext

\* What the server has sent about another channel stays true.
LEMMA FromServerOther ==
    ASSUME Typed, FromServer, NEW c \in Chan, OnlyAbout(c),
           \A d \in Chan \ {c} : Answered(d)' => Answered(d),
           NEW i \in 1 .. Len(s2c), NEW m \in Message, m = s2c[i], m.of # c
    PROVE  FromServerOK(m)'
  <1>1. m.of \in Chan /\ FromServerOK(m)
    BY InQueue DEF Typed, FromServer
  <1>2. Same(m.of) /\ (Answered(m.of)' => Answered(m.of))
    BY <1>1 DEF OnlyAbout
  <1> QED BY <1>1, <1>2, FromServerFrame

\* The server sends nothing, and nothing it sent is handled.
LEMMA FromServerSame ==
    ASSUME Typed, FromServer, NEW c \in Chan, OnlyAbout(c), s2c' = s2c,
           \A d \in Chan \ {c} : Answered(d)' => Answered(d),
           \A i \in 1 .. Len(s2c), m \in Message : (m = s2c[i] /\ m.of = c) => FromServerOK(m)'
    PROVE  FromServer'
  <1>1. ASSUME NEW i \in 1 .. Len(s2c') PROVE FromServerOK(s2c[i])'
    <2>1. PICK m \in Message : m = s2c[i]
      BY InQueue DEF Typed
    <2>2. FromServerOK(m)'
      BY <2>1, FromServerOther
    <2> QED BY <2>1, <2>2
  <1>2. \A i, j \in 1 .. Len(s2c') :
            (i < j /\ s2c'[i].of = s2c'[j].of) => FromServerNext(s2c'[i], s2c'[j])
    BY DEF FromServer
  <1> QED BY <1>1, <1>2 DEF FromServer, FromServerNext

\* The client takes the oldest message.
LEMMA FromServerRest ==
    ASSUME Typed, FromServer, NEW c \in Chan, OnlyAbout(c), s2c # <<>>, s2c' = Tail(s2c),
           \A d \in Chan \ {c} : Answered(d)' => Answered(d),
           \A i \in 2 .. Len(s2c), m \in Message : (m = s2c[i] /\ m.of = c) => FromServerOK(m)'
    PROVE  FromServer'
  <1>1. /\ Len(s2c) \in Nat /\ Len(s2c') = Len(s2c) - 1
        /\ \A i \in 1 .. Len(s2c) - 1 : s2c'[i] = s2c[i + 1]
    BY Shortened DEF Typed
  <1>2. ASSUME NEW i \in 1 .. Len(s2c') PROVE FromServerOK(s2c[i])'
    <2>1. i + 1 \in 1 .. Len(s2c) /\ i + 1 \in 2 .. Len(s2c) /\ s2c'[i] = s2c[i + 1]
      BY <1>1
    <2>2. PICK m \in Message : m = s2c[i + 1]
      BY <2>1, InQueue DEF Typed
    <2>3. FromServerOK(m)'
      BY <2>1, <2>2, FromServerOther
    <2> QED BY <2>1, <2>2, <2>3
  <1>3. \A i, j \in 1 .. Len(s2c') :
            (i < j /\ s2c'[i].of = s2c'[j].of) => FromServerNext(s2c'[i], s2c'[j])
    BY <1>1 DEF FromServer
  <1> QED BY <1>2, <1>3 DEF FromServer, FromServerNext

\* The server sends m, which is about c.
LEMMA FromServerTold ==
    ASSUME Typed, FromServer, NEW c \in Chan, OnlyAbout(c), NEW m \in Message, m.of = c,
           s2c' = Append(s2c, m), FromServerOK(m)',
           \A d \in Chan \ {c} : Answered(d)' => Answered(d),
           \A i \in 1 .. Len(s2c), n \in Message : (n = s2c[i] /\ n.of = c) => FromServerOK(n)',
           \A i \in 1 .. Len(s2c) : s2c[i].of = c => FromServerNext(s2c[i], m)
    PROVE  FromServer'
  <1>1. /\ Len(s2c) \in Nat /\ Len(s2c') = Len(s2c) + 1 /\ s2c'[Len(s2c) + 1] = m
        /\ \A i \in 1 .. Len(s2c) : s2c'[i] = s2c[i]
    BY Appended DEF Typed
  <1>2. ASSUME NEW i \in 1 .. Len(s2c') PROVE FromServerOK(s2c[i])'
    <2>1. CASE i = Len(s2c) + 1
      BY <1>1, <2>1
    <2>2. CASE i \in 1 .. Len(s2c)
      <3>1. PICK n \in Message : n = s2c[i]
        BY <2>2, InQueue DEF Typed
      <3>2. FromServerOK(n)'
        BY <2>2, <3>1, FromServerOther
      <3> QED BY <3>1, <3>2, <1>1, <2>2
    <2> QED BY <1>1, <2>1, <2>2
  <1>3. ASSUME NEW i \in 1 .. Len(s2c'), NEW j \in 1 .. Len(s2c'), i < j, s2c'[i].of = s2c'[j].of
        PROVE  FromServerNext(s2c'[i], s2c'[j])
    <2>1. CASE j = Len(s2c) + 1
      BY <1>1, <1>3, <2>1
    <2>2. CASE j # Len(s2c) + 1
      BY <1>1, <1>3, <2>2 DEF FromServer
    <2> QED BY <2>1, <2>2
  <1> QED BY <1>2, <1>3 DEF FromServer, FromServerNext

\* The server receives the oldest message.
LEMMA Received ==
    ASSUME Typed, c2s # <<>>, c2s' = Tail(c2s)
    PROVE  /\ Len(c2s) \in Nat \ {0} /\ Len(c2s') = Len(c2s) - 1
           /\ Head(c2s) = c2s[1] /\ Head(c2s) \in Message /\ Head(c2s).of \in Chan
           /\ \A i \in 1 .. Len(c2s) - 1 : c2s'[i] = c2s[i + 1]
           /\ \A d, n : (n \in 1 .. Len(c2s) /\ Confirming(d, n)
                           /\ ~(d = Head(c2s).of /\ Head(c2s).kind = "confirm")) => Confirming(d, n - 1)'
           /\ \A d : Answered(d)' => Answered(d)
  <1>1. /\ Len(c2s) \in Nat \ {0} /\ Len(c2s') = Len(c2s) - 1
        /\ Head(c2s) = c2s[1] /\ Head(c2s) \in Message /\ Head(c2s).of \in Chan
        /\ \A i \in 1 .. Len(c2s) - 1 : c2s'[i] = c2s[i + 1]
    <2>1. Head(c2s) \in Message
      BY Shortened DEF Typed
    <2> QED BY <2>1, Shortened DEF Typed, Message
  <1>2. ASSUME NEW d, NEW n \in 1 .. Len(c2s), Confirming(d, n),
               ~(d = Head(c2s).of /\ Head(c2s).kind = "confirm")
        PROVE  Confirming(d, n - 1)'
    <2>1. PICK j \in 1 .. n : c2s[j].kind = "confirm" /\ c2s[j].of = d
      BY <1>2 DEF Confirming
    <2>2. j # 1
      BY <1>1, <1>2, <2>1
    <2>3. j - 1 \in 1 .. n - 1 /\ c2s'[j - 1] = c2s[j]
      BY <1>1, <2>2
    <2> QED BY <2>1, <2>3 DEF Confirming
  <1>3. ASSUME NEW d, Answered(d)' PROVE Answered(d)
    <2>1. PICK i \in 1 .. Len(c2s') : c2s'[i].of = d /\ c2s'[i].kind \in {"confirm", "failure"}
      BY <1>3 DEF Answered
    <2>2. i + 1 \in 1 .. Len(c2s) /\ c2s[i + 1] = c2s'[i]
      BY <1>1
    <2> QED BY <2>1, <2>2 DEF Answered
  <1> QED BY <1>1, <1>2, <1>3

\* The oldest message to the server is about the only channel the step is about.
LEMMA ToServerRest ==
    ASSUME Typed, ToServer, c2s # <<>>, c2s' = Tail(c2s), OnlyAbout(Head(c2s).of),
           \A i \in 2 .. Len(c2s), n \in Message :
               (n = c2s[i] /\ n.of = Head(c2s).of) => ToServerOK(n, i - 1)'
    PROVE  ToServer'
  <1>1. /\ Len(c2s) \in Nat \ {0} /\ Len(c2s') = Len(c2s) - 1 /\ Head(c2s).of \in Chan
        /\ \A i \in 1 .. Len(c2s) - 1 : c2s'[i] = c2s[i + 1]
        /\ \A d, n : (n \in 1 .. Len(c2s) /\ Confirming(d, n) /\ d # Head(c2s).of) => Confirming(d, n - 1)'
    BY Received
  <1>2. ASSUME NEW i \in 1 .. Len(c2s') PROVE ToServerOK(c2s[i], i)'
    <2>1. i + 1 \in 1 .. Len(c2s) /\ i + 1 \in 2 .. Len(c2s) /\ c2s'[i] = c2s[i + 1]
      BY <1>1
    <2>2. PICK n \in Message : n = c2s[i + 1] /\ n.of \in Chan /\ ToServerOK(n, i + 1)
      BY <2>1, InQueue DEF Typed, ToServer
    <2>3. ToServerOK(n, i)'
      <3>1. CASE n.of = Head(c2s).of
        <4>1. PICK k \in 2 .. Len(c2s) : k = i + 1 /\ k - 1 = i
          BY <2>1
        <4>2. ToServerOK(n, k - 1)'
          BY <4>1, <2>2, <3>1
        <4> QED BY <4>1, <4>2
      <3>2. CASE n.of # Head(c2s).of
        <4>1. Same(n.of)
          BY <2>2, <3>2 DEF OnlyAbout
        <4>2. Confirming(n.of, i) => Confirming(n.of, i - 1)'
          BY <1>1, <3>2
        <4> QED BY <4>1, <4>2, <2>2 DEF Same, ToServerOK
      <3> QED BY <3>1, <3>2
    <2> QED BY <2>1, <2>2, <2>3
  <1>3. \A i, j \in 1 .. Len(c2s') :
            (i < j /\ c2s'[i].of = c2s'[j].of) => ToServerNext(c2s'[i], c2s'[j])
    BY <1>1 DEF ToServer
  <1> QED BY <1>2, <1>3 DEF ToServer, ToServerNext

-----------------------------------------------------------------------------
(* The steps of the client *)

\* The oldest message from the server finds the channel it is about.
LEMMA HeadOwner ==
    ASSUME Typed, Ours, FromServer, s2c # <<>>
    PROVE  /\ Head(s2c) = s2c[1] /\ Head(s2c) \in Message /\ Head(s2c).of \in Chan
           /\ Head(s2c).id \in Num /\ Head(s2c).from \in Num
           /\ FromServerOK(Head(s2c))
           /\ Head(s2c).kind \in Numbered => Found(Head(s2c).id) = {Head(s2c).of}
           /\ \A i \in 2 .. Len(s2c) : s2c[i].of = Head(s2c).of => FromServerNext(Head(s2c), s2c[i])
  <1>1. Head(s2c) = s2c[1] /\ Len(s2c) \in Nat \ {0}
    BY Shortened DEF Typed
  <1>2. Head(s2c) \in Message /\ Head(s2c).of \in Chan /\ Head(s2c).id \in Num /\ Head(s2c).from \in Num
    BY RestTyped
  <1>3. FromServerOK(Head(s2c))
    BY <1>1 DEF FromServer
  <1>4. \A i \in 2 .. Len(s2c) : s2c[i].of = Head(s2c).of => FromServerNext(Head(s2c), s2c[i])
    BY <1>1 DEF FromServer
  <1>5. ASSUME Head(s2c).kind \in Numbered PROVE Found(Head(s2c).id) = {Head(s2c).of}
    BY <1>3, <1>5 DEF FromServerOK, Found, Ours
  <1> QED BY <1>1, <1>2, <1>3, <1>4, <1>5

\* sshfwd_close sends CHANNEL_CLOSE at most once, to the right channel.
LEMMA FwdCloseStep ==
    ASSUME Typed, Typed', Good, Live, NEW c \in channels, c # Main, FwdClose(c), plug'[c] # "open",
           \A d \in Chan \ {c} : plug'[d] = plug[d],
           UNCHANGED <<state, awaited, localid, remoteid, type, server>>
    PROVE  /\ OnlyAbout(c) /\ Ours' /\ Theirs' /\ ToServer'
           /\ \A d : Answered(d)' => Answered(d)
           /\ \A m \in Message : (m.of = c /\ FromServerOK(m)) => FromServerOK(m)'
  <1> USE DEF Good
  <1>1. c \in Chan
    BY DEF Typed, TypeOK
  <1>2. /\ channels' = channels /\ localid' = localid /\ remoteid' = remoteid /\ type' = type /\ srv' = srv
        /\ closes' = closes \/ closes' = [closes EXCEPT ![c] = 1]
        /\ s' = s \/ s' = [s EXCEPT ![c] = FALSE]
    BY DEF FwdClose, server
  <1>3. OnlyAbout(c)
    BY <1>1, <1>2 DEF OnlyAbout, Same, Typed, TypeOK
  <1>4. closes[c] \in {0, 1} /\ closes'[c] \in {0, 1} /\ s[c] \in BOOLEAN
    BY <1>1 DEF Typed, TypeOK
  <1>5. (closes'[c] = 1 => ~s'[c]) /\ (closes[c] = 1 => closes'[c] = 1)
    <2>1. CASE state = "session" /\ closes[c] = 0
      BY <2>1, <1>1 DEF FwdClose, Typed, TypeOK
    <2>2. CASE ~(state = "session" /\ closes[c] = 0)
      BY <2>2, <1>1 DEF FwdClose, Ours, OursOK
    <2> QED BY <2>1, <2>2
  <1>6. OursOK(c) /\ Whole /\ \A d \in channels \ {c} : localid[c] # localid[d]
    BY <1>1 DEF Ours, Whole
  <1>7. OursOK(c)'
    BY <1>2, <1>5, <1>6 DEF OursOK
  <1>8. Whole'
    BY <1>2, <1>3, <1>6, ConstAssumption DEF Whole, OnlyAbout, Same, Chan
  <1>9. Ours'
    BY <1>1, <1>2, <1>3, <1>6, <1>7, <1>8, OursStep
  <1>10. \A d, e \in Chan : (Numbers(d) /\ Numbers(e) /\ srv[d].sid = srv[e].sid) => d = e
    BY DEF Theirs
  <1>11. TheirsOK(c)
    BY <1>1 DEF Theirs
  <1>12. CASE c2s' = c2s
    <2>1. \A d, n : Confirming(d, n)' <=> Confirming(d, n)
      BY <1>12 DEF Confirming
    <2>2. \A d \in Chan : Confirming(d, Len(c2s)) => Confirming(d, Len(c2s))'
      BY <1>12 DEF Confirming
    <2>3. TheirsOK(c)'
      BY <1>2, <1>4, <1>5, <1>11, <2>2, <1>1 DEF TheirsOK
    <2>4. Theirs'
      BY <1>1, <1>2, <1>3, <1>10, <2>2, <2>3, TheirsStep DEF Numbers
    <2>5. ASSUME NEW i \in 1 .. Len(c2s), NEW m \in Message, m = c2s[i], m.of = c
          PROVE  ToServerOK(m, i)'
      <3>1. ToServerOK(m, i)
        BY <2>5 DEF ToServer
      <3> QED BY <1>2, <1>4, <1>5, <2>1, <2>5, <3>1 DEF ToServerOK
    <2>6. ToServer'
      BY <1>1, <1>3, <1>12, <2>5, ToServerSame
    <2>7. \A d : Answered(d)' => Answered(d)
      BY <1>12 DEF Answered
    <2>8. \A m \in Message : (m.of = c /\ FromServerOK(m)) => FromServerOK(m)'
      BY <1>2, <2>7 DEF FromServerOK
    <2> QED BY <1>3, <1>9, <2>4, <2>6, <2>7, <2>8
  <1>13. CASE c2s' # c2s
    <2>0. PICK m \in Message : m = To("close", remoteid[c], c)
      BY <1>1, Sendable DEF Typed, TypeOK, Kinds, Num
    <2>1. /\ state = "session" /\ closes[c] = 0 /\ remoteid[c] # HalfOpen /\ c2s' = Append(c2s, m)
          /\ closes' = [closes EXCEPT ![c] = 1]
      BY <1>13, <2>0 DEF FwdClose, Send
    <2>2. m.of = c /\ m.kind = "close" /\ m.id = remoteid[c]
      BY <2>0 DEF To, Msg
    <2>3. closes'[c] = 1
      BY <1>1, <2>1 DEF Typed, TypeOK
    <2>4. /\ srv[c].sid = remoteid[c] /\ ~srv[c].gotClose
          /\ srv[c].st = "open" \/ (srv[c].st = "asked" /\ Confirming(c, Len(c2s)))
      BY <1>11, <2>1 DEF TheirsOK
    <2>5. /\ Len(c2s) \in Nat /\ Len(c2s') = Len(c2s) + 1
          /\ \A d, n : n \in 0 .. Len(c2s) => (Confirming(d, n)' <=> Confirming(d, n))
          /\ \A d : Confirming(d, Len(c2s)) => Confirming(d, Len(c2s))'
          /\ \A d : Answered(d)' => Answered(d)
      BY <2>1, <2>2, Sent
    <2>6. TheirsOK(c)'
      BY <1>2, <1>11, <2>3 DEF TheirsOK
    <2>7. Theirs'
      BY <1>1, <1>2, <1>3, <1>10, <2>5, <2>6, TheirsStep DEF Numbers
    <2>8. ASSUME NEW i \in 1 .. Len(c2s), NEW n \in Message, n = c2s[i], n.of = c
          PROVE  ToServerOK(n, i)' /\ n.kind # "close"
      <3>1. ToServerOK(n, i)
        BY <2>8 DEF ToServer
      <3>2. Confirming(c, i - 1)' <=> Confirming(c, i - 1)
        BY <2>5, <2>8
      <3> QED BY <1>2, <2>1, <2>3, <3>2, <2>8, <3>1 DEF ToServerOK
    <2>9. ToServerOK(m, Len(c2s))'
      <3>1. PICK k : k = Len(c2s') /\ k - 1 = Len(c2s)
        BY <2>5
      <3>2. Confirming(c, Len(c2s)) => Confirming(c, k - 1)'
        BY <2>5, <3>1
      <3>3. ToServerOK(m, k)'
        BY <1>2, <2>1, <2>2, <2>3, <2>4, <3>2 DEF ToServerOK, Addressed
      <3> QED BY <3>1, <3>3
    <2>10. ASSUME NEW i \in 1 .. Len(c2s), c2s[i].of = c PROVE ToServerNext(c2s[i], m)
      <3>1. c2s[i] \in Message
        BY InQueue DEF Typed
      <3>2. c2s[i].kind # "close"
        BY <2>8, <2>10, <3>1
      <3> QED BY <2>2, <3>2 DEF ToServerNext
    <2>11. ToServer'
      <3>1. \A i \in 1 .. Len(c2s), n \in Message : (n = c2s[i] /\ n.of = c) => ToServerOK(n, i)'
        BY <2>8
      <3> QED BY <1>1, <1>3, <2>1, <2>2, <2>9, <2>10, <3>1, ToServerSent
    <2>12. \A n \in Message : (n.of = c /\ FromServerOK(n)) => FromServerOK(n)'
      BY <1>2, <2>5 DEF FromServerOK
    <2> QED BY <1>3, <1>9, <2>5, <2>7, <2>11, <2>12
  <1> QED BY <1>12, <1>13

\* The local socket closes first (pfd_closing, x11_closing).
LEMMA LocalClosingStep ==
    ASSUME Typed, Typed', Good, Live, NEW c \in Conn, LocalClosing(c), ~Crash
    PROVE  Good'
  <1> USE DEF Good
  <1>1. /\ plug' = [plug EXCEPT ![c] = "closed"] /\ FwdClose(c) /\ plug[c] = "open"
        /\ UNCHANGED <<state, awaited, localid, remoteid, type, query, s2c, server>>
    BY DEF LocalClosing
  <1>2. c \in Chan /\ c \in channels /\ c # Main
    BY <1>1, ConstAssumption DEF Ours, OursOK, Chan
  <1>3. plug'[c] # "open" /\ \A d \in Chan \ {c} : plug'[d] = plug[d]
    BY <1>1, <1>2 DEF Typed, TypeOK
  <1>4. /\ OnlyAbout(c) /\ Ours' /\ Theirs' /\ ToServer'
        /\ \A d : Answered(d)' => Answered(d)
        /\ \A m \in Message : (m.of = c /\ FromServerOK(m)) => FromServerOK(m)'
    BY <1>1, <1>2, <1>3, FwdCloseStep
  <1>5. \A i \in 1 .. Len(s2c), m \in Message : (m = s2c[i] /\ m.of = c) => FromServerOK(m)'
    BY <1>4 DEF FromServer
  <1>6. FromServer'
    BY <1>1, <1>2, <1>4, <1>5, FromServerSame
  <1> QED BY <1>4, <1>6

Fields == <<channels, localid, remoteid, type, closes, s, plug, srv>>

\* Nothing but the queues changes.
LEMMA QuietStep ==
    ASSUME Typed, Typed', Good, UNCHANGED Fields, UNCHANGED c2s, Whole',
           s2c' = s2c \/ (s2c # <<>> /\ s2c' = Tail(s2c))
    PROVE  Good'
  <1> USE DEF Good, Fields
  <1>1. Main \in Chan /\ \A c \in Chan : Same(c)
    BY DEF Same, Chan
  <1>2. OnlyAbout(Main)
    BY <1>1 DEF OnlyAbout
  <1>3. \A c, n : Confirming(c, n)' <=> Confirming(c, n)
    BY DEF Confirming
  <1>4. \A c : Confirming(c, Len(c2s)) => Confirming(c, Len(c2s))'
    BY DEF Confirming
  <1>5. \A c : Answered(c)' <=> Answered(c)
    BY DEF Answered
  <1>6. Ours'
    BY DEF Ours, OursOK, Whole
  <1>7. TheirsOK(Main)'
    BY <1>1, <1>4 DEF Theirs, TheirsOK
  <1>8. Theirs'
    BY <1>1, <1>2, <1>4, <1>7, TheirsStep DEF Theirs, Numbers
  <1>9. \A m, i : ToServerOK(m, i) => ToServerOK(m, i)'
    BY <1>3 DEF ToServerOK
  <1>10. ToServer'
    BY <1>1, <1>2, <1>9, ToServerSame DEF ToServer
  <1>11. \A m : FromServerOK(m) => FromServerOK(m)'
    BY <1>5 DEF FromServerOK
  <1>12. CASE s2c' = s2c
    <2>1. FromServer'
      BY <1>1, <1>2, <1>5, <1>11, <1>12, FromServerSame DEF FromServer
    <2> QED BY <1>6, <1>8, <1>10, <2>1
  <1>13. CASE s2c # <<>> /\ s2c' = Tail(s2c)
    <2>1. Len(s2c) \in Nat
      BY DEF Typed
    <2>2. \A i \in 2 .. Len(s2c), m \in Message : (m = s2c[i] /\ m.of = Main) => FromServerOK(m)'
      BY <1>11, <2>1 DEF FromServer
    <2>3. FromServer'
      BY <1>1, <1>2, <1>5, <1>13, <2>2, FromServerRest
    <2> QED BY <1>6, <1>8, <1>10, <2>3
  <1> QED BY <1>12, <1>13

\* A message about c is sent, and nothing else changes: data or a request on a channel that is
\* not closed, or the answer of an agent or a resize, which nobody looks after.
LEMMA SendStep ==
    ASSUME Typed, Typed', Good, NEW c \in Chan, NEW m \in Message, m.of = c, c2s' = Append(c2s, m),
           UNCHANGED Fields, Whole',
           \/ /\ m.kind \in {"data", "request"} /\ m.id = remoteid[c]
              /\ c \in channels /\ closes[c] = 0 /\ remoteid[c] # HalfOpen
           \/ m.kind \in {"answer", "resize"},
           s2c' = s2c \/ (s2c # <<>> /\ s2c' = Tail(s2c))
    PROVE  Good'
  <1> USE DEF Good, Fields
  <1>1. OnlyAbout(c)
    BY DEF Same, OnlyAbout
  <1>2. /\ Len(c2s) \in Nat /\ Len(c2s') = Len(c2s) + 1 /\ c2s'[Len(c2s) + 1] = m
        /\ \A d, n : n \in 0 .. Len(c2s) => (Confirming(d, n)' <=> Confirming(d, n))
        /\ \A d : Confirming(d, Len(c2s)) => Confirming(d, Len(c2s))'
        /\ \A d : Answered(d)' => Answered(d)
    BY Sent
  <1>3. Ours'
    BY DEF Ours, OursOK, Whole
  <1>4. TheirsOK(c)
    BY DEF Theirs
  <1>5. TheirsOK(c)'
    BY <1>2, <1>4 DEF TheirsOK
  <1>6. Theirs'
    BY <1>1, <1>2, <1>5, TheirsStep DEF Theirs, Numbers
  <1>7. ASSUME NEW i \in 1 .. Len(c2s), NEW n \in Message, n = c2s[i], n.of = c
        PROVE  ToServerOK(n, i)' /\ (m.kind \in {"data", "request"} => n.kind # "close")
    <2>1. ToServerOK(n, i)
      BY <1>7 DEF ToServer
    <2>2. Confirming(c, i - 1)' <=> Confirming(c, i - 1)
      BY <1>2, <1>7
    <2> QED BY <2>1, <2>2, <1>7 DEF ToServerOK
  <1>8. ToServerOK(m, Len(c2s))'
    <2>1. PICK k : k = Len(c2s') /\ k - 1 = Len(c2s)
      BY <1>2
    <2>2. Confirming(c, Len(c2s)) => Confirming(c, k - 1)'
      BY <1>2, <2>1
    <2>3. ToServerOK(m, k)'
      BY <1>4, <2>2 DEF ToServerOK, TheirsOK, Addressed
    <2> QED BY <2>1, <2>3
  <1>9. ASSUME NEW i \in 1 .. Len(c2s), c2s[i].of = c PROVE ToServerNext(c2s[i], m)
    <2>1. c2s[i] \in Message
      BY InQueue DEF Typed
    <2>2. m.kind \in {"data", "request"} => c2s[i].kind # "close"
      BY <1>7, <1>9, <2>1
    <2> QED BY <2>2 DEF ToServerNext, Addressed
  <1>10. ToServer'
    <2>1. \A i \in 1 .. Len(c2s), n \in Message : (n = c2s[i] /\ n.of = c) => ToServerOK(n, i)'
      BY <1>7
    <2> QED BY <1>1, <1>8, <1>9, <2>1, ToServerSent
  <1>11. \A n : FromServerOK(n) => FromServerOK(n)'
    BY <1>2 DEF FromServerOK
  <1>12. CASE s2c' = s2c
    <2>1. FromServer'
      BY <1>1, <1>2, <1>11, <1>12, FromServerSame DEF FromServer
    <2> QED BY <1>3, <1>6, <1>10, <2>1
  <1>13. CASE s2c # <<>> /\ s2c' = Tail(s2c)
    <2>1. Len(s2c) \in Nat
      BY DEF Typed
    <2>2. \A i \in 2 .. Len(s2c), n \in Message : (n = s2c[i] /\ n.of = c) => FromServerOK(n)'
      BY <1>11, <2>1 DEF FromServer
    <2>3. FromServer'
      BY <1>1, <1>2, <1>13, <2>2, FromServerRest
    <2> QED BY <1>3, <1>6, <1>10, <2>3
  <1> QED BY <1>12, <1>13

\* The steps that only send data, requests or answers.
LEMMA SendingSteps ==
    ASSUME Typed, Typed', Good, Live,
           \/ MainInput \/ Resize
           \/ \E c \in Conn : LocalData(c) \/ (AgentReply(c) /\ ~Crash)
           \/ (RecvReply /\ Live') \/ RecvData
    PROVE  Good'
  <1> USE DEF Good
  <1>1. Main \in Chan /\ \A c \in Conn : c \in Chan
    BY DEF Chan
  <1>2. Whole
    BY DEF Ours, Whole
  <1>3. \A c \in Chan, kind \in Kinds : \E m \in Message :
            m = To(kind, remoteid[c], c) /\ m.kind = kind /\ m.of = c /\ m.id = remoteid[c]
    BY Sendable DEF Typed, TypeOK, Num, To, Msg
  <1>4. CASE MainInput
    <2>1. PICK m \in Message : /\ m = To("data", remoteid[Main], Main)
                               /\ m.kind = "data" /\ m.of = Main /\ m.id = remoteid[Main]
      BY <1>1, <1>3 DEF Kinds
    <2>2. /\ c2s' = Append(c2s, m) /\ UNCHANGED Fields /\ s2c' = s2c /\ Main \in channels
          /\ UNCHANGED <<state, awaited>>
      BY <1>4, <2>1 DEF MainInput, Send, Fields, client, local, server
    <2>3. closes[Main] = 0 /\ remoteid[Main] # HalfOpen
      BY <1>1, <2>2 DEF Ours, OursOK
    <2>4. Whole'
      BY <1>2, <2>2 DEF Whole, Fields
    <2> QED BY <1>1, <2>1, <2>2, <2>3, <2>4, SendStep
  <1>5. CASE Resize
    <2>1. PICK m \in Message : m = To("resize", remoteid[Main], Main) /\ m.kind = "resize" /\ m.of = Main
      BY <1>1, <1>3 DEF Kinds
    <2>2. /\ c2s' = Append(c2s, m) /\ UNCHANGED Fields /\ s2c' = s2c /\ UNCHANGED <<state, awaited>>
      BY <1>5, <2>1 DEF Resize, Send, Fields, client, local, server
    <2>3. Whole'
      BY <1>2, <2>2 DEF Whole, Fields
    <2> QED BY <1>1, <2>1, <2>2, <2>3, SendStep
  <1>6. ASSUME NEW c \in Conn, LocalData(c) PROVE Good'
    <2>1. PICK m \in Message : /\ m = To("data", remoteid[c], c)
                               /\ m.kind = "data" /\ m.of = c /\ m.id = remoteid[c]
      BY <1>1, <1>3 DEF Kinds
    <2>2. /\ c2s' = Append(c2s, m) /\ UNCHANGED Fields /\ s2c' = s2c /\ UNCHANGED <<state, awaited>>
          /\ plug[c] = "open" /\ type[c] = "sock"
      BY <1>6, <2>1 DEF LocalData, Send, Fields, client, local, server
    <2>3. c \in channels /\ closes[c] = 0 /\ remoteid[c] # HalfOpen
      <3>1. OursOK(c) /\ closes[c] \in {0, 1}
        BY <1>1 DEF Ours, Typed, TypeOK
      <3> QED BY <3>1, <2>2 DEF OursOK
    <2>4. Whole'
      BY <1>2, <2>2 DEF Whole, Fields
    <2> QED BY <1>1, <2>1, <2>2, <2>3, <2>4, SendStep
  <1>7. ASSUME NEW c \in Conn, AgentReply(c), ~Crash PROVE Good'
    <2>1. PICK m \in Message : m = To("answer", remoteid[c], c) /\ m.kind = "answer" /\ m.of = c
      BY <1>1, <1>3 DEF Kinds
    <2>2. /\ c2s' = Append(c2s, m) \/ c2s' = c2s
          /\ UNCHANGED Fields /\ s2c' = s2c /\ UNCHANGED <<state, awaited>>
      BY <1>7, <2>1 DEF AgentReply, Send, Fields, server
    <2>3. Whole'
      BY <1>2, <2>2 DEF Whole, Fields
    <2> QED BY <1>1, <2>1, <2>2, <2>3, SendStep, QuietStep
  <1>8. ASSUME RecvReply, Live' PROVE Good'
    <2>0. Head(s2c).kind = "reply"
      BY <1>8 DEF RecvReply, Bombout, DoClose, Live
    <2>1. PICK m \in Message : /\ m = To("request", remoteid[Main], Main)
                               /\ m.kind = "request" /\ m.of = Main /\ m.id = remoteid[Main]
      BY <1>1, <1>3 DEF Kinds
    <2>2. /\ UNCHANGED Fields /\ s2c # <<>> /\ s2c' = Tail(s2c) /\ state = "setup" /\ awaited' = awaited - 1
          /\ \/ awaited = 1 /\ state' = "session" /\ c2s' = c2s
             \/ awaited # 1 /\ state' = state /\ c2s' = Append(c2s, m)
      BY <1>8, <2>0, <2>1 DEF RecvReply, Send, Fields, local, server
    <2>3. Main \in channels /\ closes[Main] = 0 /\ remoteid[Main] # HalfOpen /\ awaited # 0
      BY <1>1, <2>2 DEF Ours, OursOK
    <2>4. Whole'
      <3>1. awaited \in Nat
        BY ConstAssumption DEF Typed, TypeOK
      <3> QED BY <1>2, <2>2, <2>3, <3>1 DEF Whole, Fields
    <2> QED BY <1>1, <2>1, <2>2, <2>3, <2>4, SendStep, QuietStep
  <1>9. CASE RecvData
    <2>1. /\ UNCHANGED Fields /\ s2c # <<>> /\ s2c' = Tail(s2c) /\ c2s' = c2s
          /\ UNCHANGED <<state, awaited>>
      BY <1>9 DEF RecvData, Receive, Fields, server
    <2>2. Whole'
      BY <1>2, <2>1 DEF Whole, Fields
    <2> QED BY <2>1, <2>2, QuietStep
  <1> QED BY <1>4, <1>5, <1>6, <1>7, <1>8, <1>9


\* A local connection gets a channel whose number is free, and nothing is on its way that could
\* be taken for a message about it.
LEMMA AcceptStep ==
    ASSUME Typed, Typed', Good, Live, NEW c \in Conn, Accept(c)
    PROVE  Good'
  <1> USE DEF Good
  <1>1. c \in Chan /\ c # Main
    BY ConstAssumption DEF Chan
  <1>2. OursOK(c) /\ TheirsOK(c) /\ Whole /\ type[c] = "none" /\ srv[c].st = "none"
    BY <1>1 DEF Ours, Theirs, Whole, Accept
  <1>3. c \notin channels /\ closes[c] = 0
    BY <1>2 DEF OursOK
  <1>4. NewId \in Id /\ \A d \in channels : localid[d] # NewId
    BY <1>1, <1>3, NewIdFree
  <1>5. PICK m \in Message : m = Msg("open", HalfOpen, NewId, c)
    BY <1>1, <1>4, Sendable DEF Kinds, Num
  <1>6. m.of = c /\ m.kind = "open" /\ m.from = NewId
    BY <1>5 DEF Msg
  <1>7. /\ channels' = channels \cup {c} /\ localid' = [localid EXCEPT ![c] = NewId]
        /\ remoteid' = [remoteid EXCEPT ![c] = HalfOpen] /\ type' = [type EXCEPT ![c] = "dormant"]
        /\ s' = [s EXCEPT ![c] = TRUE] /\ plug' = [plug EXCEPT ![c] = "open"]
        /\ c2s' = Append(c2s, m)
        /\ state' = state /\ awaited' = awaited /\ closes' = closes /\ s2c' = s2c /\ srv' = srv
    BY <1>5 DEF Accept, Live, Send, server
  <1>8. /\ c \in channels' /\ localid'[c] = NewId /\ remoteid'[c] = HalfOpen /\ type'[c] = "dormant"
        /\ s'[c] /\ closes'[c] = 0 /\ srv'[c] = srv[c]
    BY <1>1, <1>3, <1>7 DEF Typed, TypeOK
  <1>9. OnlyAbout(c)
    BY <1>1, <1>7 DEF OnlyAbout, Same, Typed, TypeOK
  <1>10. Ours'
    <2>1. OursOK(c)'
      BY <1>8 DEF OursOK
    <2>2. Whole'
      BY <1>1, <1>2, <1>7, <1>9 DEF Whole, OnlyAbout, Same, Chan
    <2>3. \A d \in channels \ {c} : localid'[c] # localid[d]
      BY <1>4, <1>8
    <2> QED BY <1>1, <1>9, <2>1, <2>2, <2>3, OursStep
  <1>11. /\ Len(c2s) \in Nat /\ Len(c2s') = Len(c2s) + 1
         /\ \A d : Confirming(d, Len(c2s)) => Confirming(d, Len(c2s))'
         /\ \A d : Answered(d)' => Answered(d)
    BY <1>6, <1>7, Sent
  <1>12. Theirs'
    <2>1. TheirsOK(c)'
      BY <1>2, <1>8 DEF TheirsOK
    <2>2. ~Numbers(c)'
      BY <1>2, <1>8 DEF Numbers
    <2> QED BY <1>1, <1>9, <1>11, <2>1, <2>2, TheirsStep
  <1>13. ASSUME NEW i \in 1 .. Len(c2s), NEW n \in Message, n = c2s[i], n.of = c
         PROVE  ToServerOK(n, i)' /\ n.kind \notin {"open", "confirm", "failure", "close"}
    <2>1. ToServerOK(n, i)
      BY <1>13 DEF ToServer
    <2> QED BY <1>2, <1>3, <1>13, <2>1 DEF ToServerOK
  <1>14. ToServer'
    <2>1. \A i \in 1 .. Len(c2s), n \in Message : (n = c2s[i] /\ n.of = c) => ToServerOK(n, i)'
      BY <1>13
    <2>2. \A i \in 1 .. Len(c2s) : c2s[i].of = c => ToServerNext(c2s[i], m)
      BY <1>13, InQueue DEF ToServerNext, Typed
    <2>3. ToServerOK(m, Len(c2s))'
      <3>1. PICK k : k = Len(c2s')
        OBVIOUS
      <3>2. ToServerOK(m, k)'
        BY <1>2, <1>6, <1>8 DEF ToServerOK, Addressed
      <3> QED BY <3>1, <3>2
    <2> QED BY <1>1, <1>6, <1>7, <1>9, <2>1, <2>2, <2>3, ToServerSent
  <1>15. FromServer'
    <2>1. \A i \in 1 .. Len(s2c), n \in Message : (n = s2c[i] /\ n.of = c) => FromServerOK(n)'
      <3>1. SUFFICES ASSUME NEW i \in 1 .. Len(s2c), NEW n \in Message, n = s2c[i], n.of = c
                     PROVE  FromServerOK(n)'
        OBVIOUS
      <3>2. FromServerOK(n)
        BY <3>1 DEF FromServer
      <3>3. n.kind \notin Numbered /\ n.kind # "open"
        BY <1>2, <1>3, <3>1, <3>2 DEF FromServerOK
      <3> QED BY <3>3 DEF FromServerOK, Numbered
    <2> QED BY <1>1, <1>7, <1>9, <1>11, <2>1, FromServerSame
  <1> QED BY <1>10, <1>12, <1>14, <1>15

\* CHANNEL_EOF closes the local socket and, unless that was done before, the channel.
LEMMA EofStep ==
    ASSUME Typed, Typed', Good, Live, RecvEof
    PROVE  Good'
  <1> USE DEF Good
  <1>1. s2c # <<>> /\ s2c' = Tail(s2c) /\ Head(s2c).kind = "eof"
        /\ UNCHANGED <<state, awaited, localid, remoteid, type, query, server>>
    BY DEF RecvEof, Receive
  <1>2. Head(s2c).of \in Chan /\ Found(Head(s2c).id) = {Head(s2c).of}
    BY <1>1, HeadOwner DEF Numbered
  <1>3. CASE \A c \in Found(Head(s2c).id) : type[c] \notin {"sock", "agent"}
    <2>1. UNCHANGED <<channels, plug, c2s, closes, s>>
      BY <1>3 DEF RecvEof
    <2>2. UNCHANGED Fields
      BY <1>1, <2>1 DEF Fields, server
    <2>3. Whole'
      BY <1>1, <2>1 DEF Ours, Whole
    <2> QED BY <1>1, <2>1, <2>2, <2>3, QuietStep
  <1>4. CASE \E c \in Found(Head(s2c).id) : type[c] \in {"sock", "agent"}
    <2>1. PICK c \in Found(Head(s2c).id) :
              /\ type[c] \in {"sock", "agent"}
              /\ plug' = [plug EXCEPT ![c] = IF s[c] THEN "closed" ELSE @]
              /\ FwdClose(c)
      BY <1>4 DEF RecvEof
    <2>2. c \in channels /\ c \in Chan /\ c # Main
      BY <2>1 DEF Found, Ours, Typed, TypeOK
    <2>3. plug'[c] # "open" /\ \A d \in Chan \ {c} : plug'[d] = plug[d]
      <3>1. OursOK(c)
        BY <2>2 DEF Ours
      <3> QED BY <2>1, <2>2, <3>1 DEF Typed, TypeOK, OursOK
    <2>4. /\ OnlyAbout(c) /\ Ours' /\ Theirs' /\ ToServer'
          /\ \A d : Answered(d)' => Answered(d)
          /\ \A m \in Message : (m.of = c /\ FromServerOK(m)) => FromServerOK(m)'
      BY <1>1, <2>1, <2>2, <2>3, FwdCloseStep
    <2>5. \A i \in 2 .. Len(s2c), m \in Message : (m = s2c[i] /\ m.of = c) => FromServerOK(m)'
      <3>1. Len(s2c) \in Nat
        BY DEF Typed
      <3> QED BY <2>4, <3>1 DEF FromServer
    <2>6. FromServer'
      BY <1>1, <2>2, <2>4, <2>5, FromServerRest
    <2> QED BY <2>4, <2>6
  <1> QED BY <1>3, <1>4

\* The client handles the oldest message, which is about c, and sends at most one, m, about c too.
LEMMA ReceiveStep ==
    ASSUME Typed, Typed', Good, NEW c \in Chan, OnlyAbout(c), srv' = srv,
           s2c # <<>>, s2c' = Tail(s2c), Head(s2c).of = c, TheirsOK(c)',
           NEW m \in Message, m.of = c,
           c2s' = c2s \/ (c2s' = Append(c2s, m) /\ ToServerOK(m, Len(c2s))'),
           \A i \in 1 .. Len(c2s), n \in Message :
               (n = c2s[i] /\ n.of = c /\ ToServerOK(n, i) /\ (Confirming(c, i - 1) => Confirming(c, i - 1)'))
                   => ToServerOK(n, i)' /\ (c2s' = c2s \/ ToServerNext(n, m)),
           \A n \in Message :
               (n.of = c /\ FromServerOK(n) /\ FromServerNext(Head(s2c), n) /\ (Answered(c)' => Answered(c) \/ c2s' # c2s))
                   => FromServerOK(n)'
    PROVE  Theirs' /\ ToServer' /\ FromServer'
  <1> USE DEF Good
  <1>1. /\ Len(c2s) \in Nat
        /\ \A d, n : n \in 0 .. Len(c2s) => (Confirming(d, n) => Confirming(d, n)')
        /\ \A d : Confirming(d, Len(c2s)) => Confirming(d, Len(c2s))'
        /\ \A d \in Chan \ {c} : Answered(d)' => Answered(d)
        /\ Answered(c)' => Answered(c) \/ c2s' # c2s
    <2>1. CASE c2s' = c2s
      BY <2>1 DEF Confirming, Answered, Typed
    <2>2. CASE c2s' = Append(c2s, m)
      <3>1. c2s' # c2s
        BY <2>2, Appended DEF Typed
      <3> QED BY <2>2, <3>1, Sent
    <2> QED BY <2>1, <2>2
  <1>2. Theirs'
    BY <1>1, TheirsStep DEF Theirs, Numbers
  <1>3. ASSUME NEW i \in 1 .. Len(c2s), NEW n \in Message, n = c2s[i], n.of = c
        PROVE  ToServerOK(n, i)' /\ (c2s' = c2s \/ ToServerNext(n, m))
    <2>1. ToServerOK(n, i)
      BY <1>3 DEF ToServer
    <2>2. i - 1 \in 0 .. Len(c2s)
      BY <1>1
    <2>3. Confirming(c, i - 1) => Confirming(c, i - 1)'
      BY <1>1, <2>2
    <2> QED BY <1>3, <2>1, <2>3
  <1>4. \A i \in 1 .. Len(c2s), n \in Message : (n = c2s[i] /\ n.of = c) => ToServerOK(n, i)'
    BY <1>3
  <1>5. ToServer'
    <2>1. CASE c2s' = c2s
      BY <1>4, <2>1, ToServerSame
    <2>2. CASE c2s' # c2s
      <3>1. c2s' = Append(c2s, m) /\ ToServerOK(m, Len(c2s))'
        BY <2>2
      <3>2. \A i \in 1 .. Len(c2s) : c2s[i].of = c => ToServerNext(c2s[i], m)
        BY <1>3, <2>2, InQueue DEF Typed
      <3> QED BY <1>4, <3>1, <3>2, ToServerSent
    <2> QED BY <2>1, <2>2
  <1>6. ASSUME NEW i \in 2 .. Len(s2c), NEW n \in Message, n = s2c[i], n.of = c
        PROVE  FromServerOK(n)'
    <2>1. FromServerOK(n) /\ FromServerNext(Head(s2c), n)
      <3>1. i \in 1 .. Len(s2c) /\ FromServerNext(Head(s2c), s2c[i])
        BY <1>6, HeadOwner DEF Typed
      <3> QED BY <1>6, <3>1 DEF FromServer
    <2> QED BY <1>1, <1>6, <2>1
  <1>7. FromServer'
    BY <1>1, <1>6, FromServerRest
  <1> QED BY <1>2, <1>5, <1>7

\* CHANNEL_CLOSE frees the channel; what may still come from the server is not about it.
LEMMA CloseStep ==
    ASSUME Typed, Typed', Good, RecvClose, Live'
    PROVE  Good'
  <1> USE DEF Good
  <1>1. s2c # <<>> /\ Head(s2c).kind = "close" /\ state = "session"
    BY DEF RecvClose
  <1>2. /\ Head(s2c).of \in Chan /\ Found(Head(s2c).id) = {Head(s2c).of} /\ FromServerOK(Head(s2c))
    BY <1>1, HeadOwner DEF Numbered
  <1>3. PICK c \in Chan :
          /\ c = Head(s2c).of /\ remoteid[c] # HalfOpen
          /\ channels' = channels \ {c}
          /\ c2s' = IF closes[c] = 0 THEN Append(c2s, To("close", remoteid[c], c)) ELSE c2s
          /\ closes' = [closes EXCEPT ![c] = 1]
          /\ plug' = [plug EXCEPT ![c] = IF s[c] THEN "closed" ELSE @]
          /\ s' = [s EXCEPT ![c] = FALSE]
          /\ s2c' = Tail(s2c)
          /\ UNCHANGED <<state, awaited, localid, remoteid, type, query, server>>
    <2>1. ~ \E passes : DoClose(passes)
      BY DEF DoClose, Live
    <2>2. PICK c \in {d \in Found(Head(s2c).id) : remoteid[d] # HalfOpen} :
            /\ channels' = channels \ {c}
            /\ IF closes[c] = 0 THEN Send(To("close", remoteid[c], c)) ELSE UNCHANGED c2s
            /\ closes' = [closes EXCEPT ![c] = 1]
            /\ plug' = [plug EXCEPT ![c] = IF s[c] THEN "closed" ELSE @]
            /\ s' = [s EXCEPT ![c] = FALSE]
            /\ s2c' = Tail(s2c)
            /\ UNCHANGED <<state, awaited, localid, remoteid, type, query, server>>
      BY <2>1 DEF RecvClose, Bombout
    <2>3. c = Head(s2c).of /\ c \in Chan
      BY <1>2, <2>2
    <2> QED BY <2>2, <2>3 DEF Send
  <1>4. PICK m \in Message : m = To("close", remoteid[c], c)
    BY <1>3, Sendable DEF Typed, TypeOK, Kinds, Num
  <1>5. m.of = c /\ m.kind = "close" /\ m.id = remoteid[c]
    BY <1>4 DEF To, Msg
  <1>6. /\ c \in channels /\ srv[c].sentClose /\ srv[c].st \in {"open", "gone"}
    BY <1>1, <1>2, <1>3 DEF FromServerOK, Numbered
  <1>7. OursOK(c) /\ TheirsOK(c) /\ Whole /\ closes[c] \in {0, 1}
    BY DEF Ours, Theirs, Whole, Typed, TypeOK
  <1>8. c \notin channels' /\ closes'[c] = 1 /\ ~s'[c] /\ plug'[c] # "open" /\ type'[c] # "none" /\ srv' = srv
    BY <1>3, <1>6, <1>7 DEF Typed, TypeOK, OursOK, server
  <1>9. OnlyAbout(c)
    BY <1>3 DEF OnlyAbout, Same, Typed, TypeOK, server
  <1>10. Ours'
    <2>1. OursOK(c)'
      BY <1>8 DEF OursOK
    <2>2. Whole'
      <3>1. Main # c => (Main \in channels' => closes'[Main] = 0)
        BY <1>7, <1>9 DEF Whole, OnlyAbout, Same, Chan
      <3> QED BY <1>1, <1>3, <1>7, <1>8, <3>1 DEF Whole
    <2> QED BY <1>8, <1>9, <2>1, <2>2, OursStep
  <1>11. TheirsOK(c)'
    BY <1>6, <1>7, <1>8 DEF TheirsOK
  <1>12. c2s' = c2s \/ (c2s' = Append(c2s, m) /\ closes[c] = 0 /\ ToServerOK(m, Len(c2s))')
    <2>1. CASE closes[c] = 0
      <3>1. srv[c].sid = remoteid[c] /\ ~srv[c].gotClose /\ srv[c].st = "open"
        BY <1>3, <1>6, <1>7, <2>1 DEF TheirsOK
      <3>2. PICK k : k = Len(c2s')
        OBVIOUS
      <3>3. ToServerOK(m, k)'
        BY <1>5, <1>8, <3>1 DEF ToServerOK, Addressed
      <3>4. ToServerOK(m, Len(c2s))'
        BY <3>2, <3>3
      <3> QED BY <1>3, <1>4, <2>1, <3>4
    <2>2. CASE closes[c] # 0
      BY <1>3, <2>2
    <2> QED BY <2>1, <2>2
  <1>13. \A i \in 1 .. Len(c2s), n \in Message :
             (n = c2s[i] /\ n.of = c /\ ToServerOK(n, i)) => ToServerOK(n, i)' /\ (c2s' = c2s \/ ToServerNext(n, m))
    <2>1. SUFFICES ASSUME NEW i \in 1 .. Len(c2s), NEW n \in Message, n.of = c, ToServerOK(n, i)
                   PROVE  ToServerOK(n, i)' /\ (closes[c] = 0 => ToServerNext(n, m))
      BY <1>12
    <2>2. n.kind \notin {"open", "confirm", "failure"} /\ (n.kind = "close" => closes[c] = 1)
      BY <1>3, <1>6, <2>1 DEF ToServerOK
    <2>3. ToServerOK(n, i)'
      BY <1>6, <1>8, <2>1, <2>2 DEF ToServerOK
    <2>4. closes[c] = 0 => ToServerNext(n, m)
      BY <2>2 DEF ToServerNext
    <2> QED BY <2>3, <2>4
  <1>14. \A n \in Message : (n.of = c /\ FromServerOK(n) /\ FromServerNext(Head(s2c), n)) => FromServerOK(n)'
    <2>1. SUFFICES ASSUME NEW n \in Message, n.of = c, FromServerOK(n), FromServerNext(Head(s2c), n)
                   PROVE  FromServerOK(n)'
      OBVIOUS
    <2>2. n.kind \notin Numbered /\ n.kind # "open"
      BY <1>1, <1>6, <2>1 DEF FromServerOK, FromServerNext, Numbered
    <2> QED BY <2>2 DEF FromServerOK, Numbered
  <1>15. Theirs' /\ ToServer' /\ FromServer'
    BY <1>1, <1>3, <1>5, <1>8, <1>9, <1>11, <1>12, <1>13, <1>14, ReceiveStep
  <1> QED BY <1>10, <1>15

\* CHANNEL_OPEN_CONFIRMATION: nothing is on its way to the server that names the channel, and no
\* second answer from it.
LEMMA ConfirmStep ==
    ASSUME Typed, Typed', Good, RecvConfirm, Live'
    PROVE  Good'
  <1> USE DEF Good
  <1>1. s2c # <<>> /\ s2c' = Tail(s2c) /\ Head(s2c).kind = "confirm" /\ state = "session"
    BY DEF RecvConfirm, Receive, Crash, Live
  <1>2. /\ Head(s2c).of \in Chan /\ Found(Head(s2c).id) = {Head(s2c).of} /\ FromServerOK(Head(s2c))
        /\ Head(s2c).from \in Num
    BY <1>1, HeadOwner DEF Numbered
  <1>3. PICK c \in Chan :
          /\ c = Head(s2c).of /\ type[c] = "dormant"
          /\ remoteid' = [remoteid EXCEPT ![c] = Head(s2c).from]
          /\ type' = [type EXCEPT ![c] = "sock"]
          /\ \/ closes[c] = 0 /\ c2s' = Append(c2s, To("data", Head(s2c).from, c))
             \/ closes[c] = 0 /\ c2s' = c2s
             \/ closes[c] = 1 /\ c2s' = Append(c2s, To("close", Head(s2c).from, c))
          /\ UNCHANGED <<state, awaited, channels, localid, closes, s, plug, query, server>>
    <2>1. ~Crash
      BY DEF Crash, Live
    <2>2. PICK c \in Found(Head(s2c).id) :
            /\ type[c] = "dormant"
            /\ remoteid' = [remoteid EXCEPT ![c] = Head(s2c).from]
            /\ type' = [type EXCEPT ![c] = "sock"]
            /\ \/ s[c] /\ closes[c] = 0 /\ Send(To("data", Head(s2c).from, c))
               \/ closes[c] = 0 /\ UNCHANGED c2s
               \/ closes[c] = 1 /\ Send(To("close", Head(s2c).from, c))
            /\ UNCHANGED <<state, awaited, channels, localid, closes, s, plug, query, server>>
      BY <2>1 DEF RecvConfirm
    <2>3. c = Head(s2c).of /\ c \in Chan
      BY <1>2, <2>2
    <2> QED BY <2>2, <2>3 DEF Send
  <1>4. PICK m \in Message : m = To(IF closes[c] = 1 THEN "close" ELSE "data", Head(s2c).from, c)
    BY <1>2, Sendable DEF Kinds
  <1>5. m.of = c /\ m.id = Head(s2c).from /\ m.kind = IF closes[c] = 1 THEN "close" ELSE "data"
    BY <1>4 DEF To, Msg
  <1>6. /\ c \in channels /\ Head(s2c).from = srv[c].sid /\ srv[c].st = "open" /\ remoteid[c] = HalfOpen
        /\ srv[c].sid # HalfOpen
    <2>1. srv[c].sid # HalfOpen
      <3>1. srv[c].sid \in Id
        BY DEF Typed, ServerChannel
      <3>2. Cardinality(Conn) \in Nat
        BY ConstAssumption, FS_CardinalityType
      <3> QED BY <3>1, <3>2 DEF Id, HalfOpen
    <2> QED BY <1>1, <1>2, <1>3, <2>1 DEF FromServerOK, Numbered
  <1>7. OursOK(c) /\ TheirsOK(c) /\ Whole /\ closes[c] \in {0, 1} /\ c # Main
    BY <1>3 DEF Ours, Theirs, Whole, Typed, TypeOK
  <1>8. /\ c \in channels' /\ remoteid'[c] = srv[c].sid /\ type'[c] = "sock" /\ srv' = srv
        /\ localid'[c] = localid[c] /\ closes'[c] = closes[c] /\ s'[c] = s[c] /\ plug'[c] = plug[c]
    BY <1>3, <1>6 DEF Typed, TypeOK, server
  <1>9. OnlyAbout(c)
    BY <1>3 DEF OnlyAbout, Same, Typed, TypeOK, server
  <1>10. Ours'
    <2>1. OursOK(c)'
      BY <1>6, <1>7, <1>8 DEF OursOK
    <2>2. Whole'
      BY <1>3, <1>7, <1>9 DEF Whole, OnlyAbout, Same, Chan
    <2>3. \A d \in channels \ {c} : localid'[c] # localid[d]
      BY <1>6, <1>8 DEF Ours
    <2> QED BY <1>9, <2>1, <2>2, <2>3, OursStep
  <1>11. TheirsOK(c)'
    BY <1>6, <1>7, <1>8 DEF TheirsOK
  <1>12. c2s' = c2s \/ (c2s' = Append(c2s, m) /\ ToServerOK(m, Len(c2s))')
    <2>1. PICK k : k = Len(c2s')
      OBVIOUS
    <2>2. ToServerOK(m, k)'
      BY <1>5, <1>6, <1>7, <1>8 DEF ToServerOK, Addressed, TheirsOK
    <2>3. ToServerOK(m, Len(c2s))'
      BY <2>1, <2>2
    <2> QED BY <1>3, <1>4, <2>3
  <1>13. ASSUME NEW i \in 1 .. Len(c2s), NEW n \in Message, n.of = c, ToServerOK(n, i)
         PROVE  ToServerOK(n, i)' /\ ToServerNext(n, m)
    <2>1. n.kind \notin {"open", "confirm", "failure", "close"}
      BY <1>6, <1>13 DEF ToServerOK
    <2>2. ToServerOK(n, i)'
      BY <1>6, <1>8, <1>13, <2>1 DEF ToServerOK
    <2>3. ToServerNext(n, m)
      BY <2>1 DEF ToServerNext
    <2> QED BY <2>2, <2>3
  <1>14. ASSUME NEW n \in Message, n.of = c, FromServerOK(n), FromServerNext(Head(s2c), n)
         PROVE  FromServerOK(n)'
    <2>1. n.kind \notin {"open", "confirm", "failure"}
      BY <1>1, <1>6, <1>14 DEF FromServerOK, FromServerNext, Numbered
    <2> QED BY <1>8, <1>14, <2>1 DEF FromServerOK
  <1>15. Theirs' /\ ToServer' /\ FromServer'
    BY <1>1, <1>3, <1>5, <1>8, <1>9, <1>11, <1>12, <1>13, <1>14, ReceiveStep
  <1> QED BY <1>10, <1>15

\* CHANNEL_OPEN_FAILURE frees the channel of a connection.
LEMMA FailureStep ==
    ASSUME Typed, Typed', Good, RecvFailure, Live'
    PROVE  Good'
  <1> USE DEF Good
  <1>1. s2c # <<>> /\ s2c' = Tail(s2c) /\ Head(s2c).kind = "failure" /\ state = "session"
    BY DEF RecvFailure, Receive, Crash, Live
  <1>2. Head(s2c).of \in Chan /\ Found(Head(s2c).id) = {Head(s2c).of} /\ FromServerOK(Head(s2c))
    BY <1>1, HeadOwner DEF Numbered
  <1>3. PICK c \in Chan :
          /\ c = Head(s2c).of /\ type[c] = "dormant"
          /\ plug' = [plug EXCEPT ![c] = IF s[c] THEN "closed" ELSE @]
          /\ channels' = channels \ {c}
          /\ UNCHANGED <<state, awaited, localid, remoteid, type, closes, s, query, c2s, server>>
    <2>1. ~Crash
      BY DEF Crash, Live
    <2>2. PICK c \in Found(Head(s2c).id) :
            /\ type[c] = "dormant"
            /\ plug' = [plug EXCEPT ![c] = IF s[c] THEN "closed" ELSE @]
            /\ channels' = channels \ {c}
            /\ UNCHANGED <<state, awaited, localid, remoteid, type, closes, s, query, c2s, server>>
      BY <2>1 DEF RecvFailure
    <2>3. c = Head(s2c).of /\ c \in Chan
      BY <1>2, <2>2
    <2> QED BY <2>2, <2>3
  <1>4. PICK m \in Message : m.of = c
    <2>1. To("data", HalfOpen, c) \in Message
      BY Sendable DEF Kinds, Num
    <2>2. To("data", HalfOpen, c).of = c
      BY DEF To, Msg
    <2> QED BY <2>1, <2>2
  <1>5. srv[c].st = "gone" /\ c \in channels
    BY <1>1, <1>2, <1>3 DEF FromServerOK, Numbered
  <1>6. OursOK(c) /\ TheirsOK(c) /\ Whole /\ c # Main
    BY <1>3 DEF Ours, Theirs, Whole
  <1>7. /\ c \notin channels' /\ plug'[c] # "open" /\ srv' = srv
        /\ type'[c] = "dormant" /\ closes'[c] = closes[c] /\ s'[c] = s[c]
    BY <1>3, <1>5, <1>6 DEF Typed, TypeOK, OursOK, server
  <1>8. OnlyAbout(c)
    BY <1>3 DEF OnlyAbout, Same, Typed, TypeOK, server
  <1>9. Ours'
    <2>1. OursOK(c)'
      BY <1>6, <1>7 DEF OursOK
    <2>2. Whole'
      BY <1>3, <1>6, <1>8 DEF Whole, OnlyAbout, Same, Chan
    <2> QED BY <1>7, <1>8, <2>1, <2>2, OursStep
  <1>10. TheirsOK(c)'
    BY <1>5, <1>6, <1>7 DEF TheirsOK
  <1>11. ASSUME NEW i \in 1 .. Len(c2s), NEW n \in Message, n.of = c, ToServerOK(n, i)
         PROVE  ToServerOK(n, i)'
    <2>1. n.kind \notin {"open", "confirm", "failure"} \cup Addressed
      BY <1>5, <1>11 DEF ToServerOK
    <2> QED BY <2>1 DEF ToServerOK, Addressed
  <1>12. ASSUME NEW n \in Message, n.of = c, FromServerOK(n), FromServerNext(Head(s2c), n)
         PROVE  FromServerOK(n)'
    <2>1. n.kind \notin Numbered /\ n.kind # "open"
      BY <1>1, <1>5, <1>12 DEF FromServerOK, FromServerNext, Numbered
    <2> QED BY <2>1 DEF FromServerOK, Numbered
  <1>13. Theirs' /\ ToServer' /\ FromServer'
    BY <1>1, <1>3, <1>4, <1>7, <1>8, <1>10, <1>11, <1>12, ReceiveStep
  <1> QED BY <1>9, <1>13

\* CHANNEL_OPEN is answered once; a channel made for it gets a number none of ours has.
LEMMA OpenStep ==
    ASSUME Typed, Typed', Good, RecvOpen
    PROVE  Good'
  <1> USE DEF Good
  <1>1. s2c # <<>> /\ s2c' = Tail(s2c) /\ Head(s2c).kind = "open" /\ state = "session"
        /\ UNCHANGED <<state, awaited, server>>
    BY DEF RecvOpen, Receive
  <1>2. Head(s2c).of \in Chan /\ Head(s2c).from \in Num /\ FromServerOK(Head(s2c))
    BY <1>1, HeadOwner
  <1>3. PICK c \in Chan : c = Head(s2c).of
    BY <1>2
  <1>4. /\ type[c] = "none" /\ srv[c].st = "asked" /\ Head(s2c).from = srv[c].sid /\ ~Answered(c)
        /\ srv' = srv
    BY <1>1, <1>2, <1>3 DEF FromServerOK, server
  <1>5. /\ OursOK(c) /\ TheirsOK(c) /\ Whole /\ c # Main /\ c \notin channels /\ closes[c] = 0
        /\ srv[c].sid # HalfOpen
    <2>1. srv[c].sid # HalfOpen
      <3>1. srv[c].sid \in Id
        BY DEF Typed, ServerChannel
      <3>2. Cardinality(Conn) \in Nat
        BY ConstAssumption, FS_CardinalityType
      <3> QED BY <3>1, <3>2 DEF Id, HalfOpen
    <2> QED BY <1>4, <2>1 DEF Ours, OursOK, Theirs, Whole
  <1>6. ASSUME NEW i \in 1 .. Len(c2s), NEW n \in Message, n = c2s[i], n.of = c, ToServerOK(n, i)
        PROVE  n.kind \notin {"open", "confirm", "failure", "close"} \cup Addressed
    <2>1. n.kind \notin {"confirm", "failure"} /\ ~Confirming(c, i - 1)
      BY <1>4, <1>6 DEF Answered, Confirming, Typed
    <2> QED BY <1>4, <1>5, <1>6, <2>1 DEF ToServerOK, Addressed
  <1>7. ASSUME NEW n \in Message, n.of = c, FromServerOK(n), FromServerNext(Head(s2c), n)
        PROVE  FromServerOK(n)'
    <2>1. n.kind \notin Numbered /\ n.kind # "open"
      BY <1>1, <1>4, <1>7 DEF FromServerOK, FromServerNext, Numbered
    <2> QED BY <2>1 DEF FromServerOK, Numbered
  <1>8. ASSUME NEW i \in 1 .. Len(c2s), NEW n \in Message, NEW m \in Message,
               n = c2s[i], n.of = c, ToServerOK(n, i)
        PROVE  ToServerOK(n, i)' /\ ToServerNext(n, m)
    <2>1. n.kind \notin {"open", "confirm", "failure", "close"} \cup Addressed
      BY <1>6, <1>8
    <2> QED BY <2>1 DEF ToServerOK, ToServerNext, Addressed
  <1>9. CASE UNCHANGED <<channels, local>> /\ Send(To("failure", srv[c].sid, c))
    <2>1. PICK m \in Message : m = To("failure", srv[c].sid, c)
      BY <1>2, <1>3, <1>4, Sendable DEF Kinds
    <2>2. m.of = c /\ m.kind = "failure" /\ m.id = srv[c].sid /\ c2s' = Append(c2s, m)
      BY <1>9, <2>1 DEF To, Msg, Send
    <2>3. Same(c) /\ OnlyAbout(c)
      BY <1>4, <1>9 DEF OnlyAbout, Same, local
    <2>4. Ours'
      <3>1. OursOK(c)' /\ Whole'
        BY <1>1, <1>5, <1>9 DEF OursOK, Whole, local
      <3> QED BY <1>5, <1>9, <2>3, <3>1, OursStep DEF local
    <2>5. TheirsOK(c)'
      BY <1>4, <1>5, <2>3 DEF TheirsOK, Same
    <2>6. ToServerOK(m, Len(c2s))'
      <3>1. PICK k : k = Len(c2s')
        OBVIOUS
      <3>2. ToServerOK(m, k)'
        BY <1>4, <2>2, <2>3 DEF ToServerOK, Addressed, Same
      <3> QED BY <3>1, <3>2
    <2>7. Theirs' /\ ToServer' /\ FromServer'
      BY <1>1, <1>3, <1>4, <1>7, <1>8, <2>2, <2>3, <2>5, <2>6, ReceiveStep
    <2> QED BY <2>4, <2>7
  <1>10. ASSUME NEW kind \in {"sock", "agent"},
                channels' = channels \cup {c},
                localid' = [localid EXCEPT ![c] = NewId],
                remoteid' = [remoteid EXCEPT ![c] = srv[c].sid],
                type' = [type EXCEPT ![c] = kind],
                s' = [s EXCEPT ![c] = (kind = "sock")],
                plug' = [plug EXCEPT ![c] = IF kind = "sock" THEN "open" ELSE @],
                Send(Msg("confirm", srv[c].sid, NewId, c)),
                UNCHANGED <<closes, query>>
         PROVE  Good'
    <2>1. NewId \in Id /\ \A d \in channels : localid[d] # NewId
      BY <1>5, NewIdFree
    <2>2. PICK m \in Message : m = Msg("confirm", srv[c].sid, NewId, c)
      BY <1>2, <1>3, <1>4, <2>1, Sendable DEF Kinds, Num
    <2>3. m.of = c /\ m.kind = "confirm" /\ m.id = srv[c].sid /\ m.from = NewId /\ c2s' = Append(c2s, m)
      BY <1>10, <2>2 DEF Msg, Send
    <2>4. /\ c \in channels' /\ localid'[c] = NewId /\ remoteid'[c] = srv[c].sid /\ type'[c] = kind
          /\ closes'[c] = 0 /\ (s'[c] <=> kind = "sock") /\ (plug'[c] = "open" => kind = "sock")
      BY <1>5, <1>10 DEF Typed, TypeOK, OursOK
    <2>5. OnlyAbout(c)
      BY <1>4, <1>10 DEF OnlyAbout, Same, Typed, TypeOK
    <2>6. Ours'
      <3>1. OursOK(c)'
        BY <1>5, <2>4 DEF OursOK
      <3>2. Whole'
        BY <1>1, <1>5, <2>5 DEF Whole, OnlyAbout, Same, Chan
      <3>3. \A d \in channels \ {c} : localid'[c] # localid[d]
        BY <2>1, <2>4
      <3> QED BY <2>5, <3>1, <3>2, <3>3, OursStep
    <2>7. Confirming(c, Len(c2s))'
      BY <2>3, Sent
    <2>8. TheirsOK(c)'
      BY <1>4, <1>5, <2>4, <2>7 DEF TheirsOK
    <2>9. ToServerOK(m, Len(c2s))'
      <3>1. PICK k : k = Len(c2s')
        OBVIOUS
      <3>2. ToServerOK(m, k)'
        BY <1>4, <2>3, <2>4 DEF ToServerOK, Addressed
      <3> QED BY <3>1, <3>2
    <2>10. Theirs' /\ ToServer' /\ FromServer'
      BY <1>1, <1>3, <1>4, <1>7, <1>8, <2>3, <2>5, <2>8, <2>9, ReceiveStep
    <2> QED BY <2>6, <2>10
  <1> QED
    <2>1. CASE Send(To("failure", Head(s2c).from, Head(s2c).of)) /\ UNCHANGED <<channels, local>>
      BY <1>3, <1>4, <1>9, <2>1
    <2>2. CASE \E kind \in {"sock"} \cup (IF AgentFwd THEN {"agent"} ELSE {}) :
                /\ channels' = channels \cup {c}
                /\ localid' = [localid EXCEPT ![c] = NewId]
                /\ remoteid' = [remoteid EXCEPT ![c] = srv[c].sid]
                /\ type' = [type EXCEPT ![c] = kind]
                /\ s' = [s EXCEPT ![c] = (kind = "sock")]
                /\ plug' = [plug EXCEPT ![c] = IF kind = "sock" THEN "open" ELSE @]
                /\ Send(Msg("confirm", srv[c].sid, NewId, c))
                /\ UNCHANGED <<closes, query>>
      BY <1>10, <2>2
    <2> QED BY <1>3, <1>4, <2>1, <2>2 DEF RecvOpen

-----------------------------------------------------------------------------
(* The steps of the server *)

\* A confirmation on its way is of a channel we have.
LEMMA ConfirmedOurs ==
    ASSUME Typed, ToServer, NEW c, NEW n \in 0 .. Len(c2s), Confirming(c, n)
    PROVE  c \in channels /\ srv[c].st = "asked"
  <1>1. PICK j \in 1 .. n : c2s[j].kind = "confirm" /\ c2s[j].of = c
    BY DEF Confirming
  <1>2. j \in 1 .. Len(c2s)
    BY DEF Typed
  <1>3. ToServerOK(c2s[j], j)
    BY <1>2 DEF ToServer
  <1> QED BY <1>1, <1>3 DEF ToServerOK

\* The server handles the oldest message, which is about c.
LEMMA SrvStep ==
    ASSUME Typed, Typed', Good, c2s # <<>>, c2s' = Tail(c2s), UNCHANGED <<client, s2c>>,
           NEW c \in Chan, c = Head(c2s).of, \A d \in Chan \ {c} : srv'[d] = srv[d], TheirsOK(c)',
           srv'[c].sid = srv[c].sid, Numbers(c)' => Numbers(c),
           \A i \in 2 .. Len(c2s), n \in Message :
               (/\ n.of = c /\ ToServerOK(n, i) /\ ToServerNext(Head(c2s), n)
                /\ Confirming(c, i - 1) => \/ Confirming(c, i - 2)' \/ Head(c2s).kind = "confirm"
                /\ Confirming(c, i - 1) => c \in channels)
               => ToServerOK(n, i - 1)',
           \A n \in Message : (n.of = c /\ FromServerOK(n) /\ (Answered(c)' => Answered(c))) => FromServerOK(n)'
    PROVE  Good'
  <1> USE DEF Good
  <1>1. /\ channels' = channels /\ localid' = localid /\ remoteid' = remoteid /\ type' = type
        /\ closes' = closes /\ s' = s /\ plug' = plug /\ state' = state /\ awaited' = awaited /\ s2c' = s2c
    BY DEF client, local
  <1>2. OnlyAbout(c)
    BY <1>1 DEF OnlyAbout, Same
  <1>3. Ours'
    BY <1>1 DEF Ours, OursOK
  <1>4. /\ Len(c2s) \in Nat \ {0} /\ Len(c2s') = Len(c2s) - 1 /\ Head(c2s) = c2s[1]
        /\ \A d, n : (n \in 1 .. Len(c2s) /\ Confirming(d, n) /\ ~(d = c /\ Head(c2s).kind = "confirm"))
                         => Confirming(d, n - 1)'
        /\ \A d : Answered(d)' => Answered(d)
    BY Received
  <1>5. Theirs'
    <2>1. ASSUME NEW d \in Chan \ {c}, Confirming(d, Len(c2s)) PROVE Confirming(d, Len(c2s))'
      <3>0. Len(c2s) \in Nat \ {0} /\ Len(c2s) \in 1 .. Len(c2s)
        BY <1>4
      <3>1. PICK n \in 1 .. Len(c2s) : n = Len(c2s)
        BY <3>0, Zenon
      <3>2. Confirming(d, n - 1)'
        BY <1>4, <2>1, <3>1
      <3>3. PICK k : k = n - 1
        OBVIOUS
      <3>4. Confirming(d, k)'
        BY <3>2, <3>3
      <3>5. k = Len(c2s')
        BY <1>4, <3>1, <3>3
      <3> QED BY <3>4, <3>5
    <2>2. Numbers(c)' => \A d \in Chan \ {c} : Numbers(d) => srv'[c].sid # srv[d].sid
      BY DEF Theirs
    <2> QED BY <1>2, <2>1, <2>2, TheirsStep
  <1>6. ASSUME NEW i \in 2 .. Len(c2s), NEW n \in Message, n = c2s[i], n.of = c
        PROVE  ToServerOK(n, i - 1)'
    <2>1. i \in 1 .. Len(c2s) /\ 1 \in 1 .. Len(c2s) /\ 1 < i /\ i - 1 \in 0 .. Len(c2s)
          /\ i - 1 \in 1 .. Len(c2s) /\ (i - 1) - 1 = i - 2
      BY <1>4
    <2>2. ToServerOK(n, i) /\ ToServerNext(Head(c2s), n)
      BY <1>4, <1>6, <2>1 DEF ToServer
    <2>3. PICK k : k = i - 1 /\ k \in 1 .. Len(c2s) /\ k - 1 = i - 2
      BY <2>1
    <2>4. Confirming(c, k) => Confirming(c, k - 1)' \/ Head(c2s).kind = "confirm"
      BY <1>4, <2>3
    <2>5. Confirming(c, i - 1) => Confirming(c, i - 2)' \/ Head(c2s).kind = "confirm"
      BY <2>3, <2>4
    <2>6. Confirming(c, i - 1) => c \in channels
      BY <2>1, ConfirmedOurs
    <2> QED BY <1>6, <2>2, <2>5, <2>6
  <1>7. ToServer'
    BY <1>2, <1>6, ToServerRest
  <1>8. FromServer'
    <2>1. \A i \in 1 .. Len(s2c), n \in Message : (n = s2c[i] /\ n.of = c) => FromServerOK(n)'
      BY <1>4 DEF FromServer
    <2> QED BY <1>1, <1>2, <1>4, <2>1, FromServerSame
  <1> QED BY <1>3, <1>5, <1>7, <1>8

\* The server handles a message of any kind; its number is that of the channel it is about.
LEMMA SrvRecvStep ==
    ASSUME Typed, Typed', Good, SrvRecv
    PROVE  Good'
  <1> USE DEF Good
  <1>1. c2s # <<>> /\ c2s' = Tail(c2s) /\ UNCHANGED <<client, s2c>>
    BY DEF SrvRecv
  <1>2. /\ channels' = channels /\ localid' = localid /\ remoteid' = remoteid /\ type' = type /\ closes' = closes
    BY <1>1 DEF client, local
  <1>3. PICK m \in Message : m = Head(c2s)
    BY <1>1, Received
  <1>4. PICK c \in Chan : c = m.of
    BY <1>3 DEF Message
  <1>5. ToServerOK(m, 1) /\ ~Confirming(c, 0) /\ Len(c2s) \in Nat \ {0}
    <2>1. Head(c2s) = c2s[1] /\ Len(c2s) \in Nat \ {0}
      BY <1>1, Received
    <2>2. ~Confirming(c, 0)
      BY DEF Confirming
    <2> QED BY <1>3, <2>1, <2>2 DEF ToServer
  <1>6. /\ TheirsOK(c) /\ OursOK(c) /\ srv \in [Chan -> ServerChannel]
        /\ \A d \in Chan : (Numbers(c) /\ Numbers(d) /\ srv[d].sid = srv[c].sid) => d = c
    BY DEF Theirs, Ours, Typed
  <1>7. m.kind \in Addressed => m.id = srv[c].sid /\ ~srv[c].gotClose /\ srv[c].st = "open"
    BY <1>4, <1>5 DEF ToServerOK
  <1>8. m.kind \in {"confirm", "failure", "close"} => SrvChannel(m.id) = {c} /\ m.id = srv[c].sid
    <2>1. m.kind \in {"confirm", "failure", "close"} => Numbers(c) /\ m.id = srv[c].sid
      BY <1>4, <1>5, <1>7 DEF ToServerOK, Numbers, Addressed
    <2> QED BY <1>6, <2>1 DEF SrvChannel, Numbers
  <1>9. CASE m.kind = "open"
    <2>1. srv' = [srv EXCEPT ![c].st = "wanted", ![c].peer = m.from]
      BY <1>3, <1>4, <1>9 DEF SrvRecv
    <2>2. /\ srv'[c].st = "wanted" /\ srv'[c].peer = m.from /\ srv'[c].sid = srv[c].sid
          /\ srv'[c].sentClose = srv[c].sentClose /\ srv'[c].gotClose = srv[c].gotClose
          /\ \A d \in Chan \ {c} : srv'[d] = srv[d]
      BY <1>6, <2>1 DEF ServerChannel
    <2>3. c \in channels /\ m.from = localid[c] /\ remoteid[c] = HalfOpen /\ srv[c].st = "none"
      BY <1>4, <1>5, <1>9 DEF ToServerOK
    <2>4. TheirsOK(c)'
      BY <1>2, <1>6, <2>2, <2>3 DEF TheirsOK
    <2>5. ASSUME NEW i \in 2 .. Len(c2s), NEW n \in Message, n.of = c, ToServerOK(n, i), ToServerNext(m, n)
          PROVE  ToServerOK(n, i - 1)'
      <3>1. n.kind \notin {"open", "confirm", "failure"} \cup Addressed
        BY <1>9, <2>3, <2>5 DEF ToServerOK, ToServerNext
      <3> QED BY <3>1 DEF ToServerOK, Addressed
    <2>6. ASSUME NEW n \in Message, n.of = c, FromServerOK(n) PROVE FromServerOK(n)'
      <3>1. n.kind \notin Numbered /\ n.kind # "open"
        BY <2>3, <2>6 DEF FromServerOK
      <3> QED BY <3>1 DEF FromServerOK, Numbered
    <2> QED BY <1>1, <1>3, <1>4, <2>2, <2>4, <2>5, <2>6, SrvStep DEF Numbers
  <1>10. CASE m.kind = "confirm"
    <2>1. srv' = [d \in Chan |-> IF d \in SrvChannel(m.id)
                                   THEN [srv[d] EXCEPT !.st = "open", !.peer = m.from] ELSE srv[d]]
      BY <1>3, <1>10 DEF SrvRecv
    <2>2. /\ srv'[c].st = "open" /\ srv'[c].peer = m.from /\ srv'[c].sid = srv[c].sid
          /\ srv'[c].sentClose = srv[c].sentClose /\ srv'[c].gotClose = srv[c].gotClose
          /\ \A d \in Chan \ {c} : srv'[d] = srv[d]
      BY <1>6, <1>8, <1>10, <2>1 DEF ServerChannel
    <2>3. c \in channels /\ m.from = localid[c] /\ srv[c].st = "asked"
      BY <1>4, <1>5, <1>10 DEF ToServerOK
    <2>4. TheirsOK(c)'
      BY <1>2, <1>6, <2>2, <2>3 DEF TheirsOK
    <2>5. ASSUME NEW i \in 2 .. Len(c2s), NEW n \in Message, n.of = c, ToServerOK(n, i), ToServerNext(m, n)
          PROVE  ToServerOK(n, i - 1)'
      <3>1. n.kind \notin {"open", "confirm", "failure"}
        BY <1>6, <1>10, <2>3, <2>5 DEF ToServerOK, ToServerNext, OursOK
      <3> QED BY <1>2, <2>2, <2>5, <3>1 DEF ToServerOK, Addressed
    <2>6. ASSUME NEW n \in Message, n.of = c, FromServerOK(n) PROVE FromServerOK(n)'
      <3>1. Answered(c)
        BY <1>1, <1>3, <1>4, <1>5, <1>10, Received DEF Answered
      <3>2. n.kind \notin Numbered /\ n.kind # "open"
        BY <2>3, <2>6, <3>1 DEF FromServerOK
      <3> QED BY <3>2 DEF FromServerOK, Numbered
    <2> QED BY <1>1, <1>3, <1>4, <2>2, <2>3, <2>4, <2>5, <2>6, SrvStep DEF Numbers
  <1>11. CASE m.kind = "failure"
    <2>1. srv' = [d \in Chan |-> IF d \in SrvChannel(m.id) THEN [srv[d] EXCEPT !.st = "gone"] ELSE srv[d]]
      BY <1>3, <1>11 DEF SrvRecv
    <2>2. /\ srv'[c].st = "gone" /\ srv'[c].sid = srv[c].sid
          /\ srv'[c].sentClose = srv[c].sentClose /\ srv'[c].gotClose = srv[c].gotClose
          /\ \A d \in Chan \ {c} : srv'[d] = srv[d]
      BY <1>6, <1>8, <1>11, <2>1 DEF ServerChannel
    <2>3. c \notin channels /\ type[c] = "none" /\ srv[c].st = "asked"
      BY <1>4, <1>5, <1>6, <1>11 DEF ToServerOK, OursOK
    <2>4. TheirsOK(c)'
      BY <1>2, <2>2, <2>3 DEF TheirsOK
    <2>5. ASSUME NEW i \in 2 .. Len(c2s), NEW n \in Message, n.of = c, ToServerOK(n, i), ToServerNext(m, n),
                 Confirming(c, i - 1) => c \in channels
          PROVE  ToServerOK(n, i - 1)'
      <3>1. n.kind \notin {"open", "confirm", "failure"} \cup Addressed
        BY <1>11, <2>3, <2>5 DEF ToServerOK, ToServerNext
      <3> QED BY <3>1 DEF ToServerOK, Addressed
    <2>6. ASSUME NEW n \in Message, n.of = c, FromServerOK(n) PROVE FromServerOK(n)'
      <3>1. Answered(c)
        BY <1>1, <1>3, <1>4, <1>5, <1>11, Received DEF Answered
      <3>2. n.kind \notin Numbered /\ n.kind # "open"
        BY <2>3, <2>6, <3>1 DEF FromServerOK
      <3> QED BY <3>2 DEF FromServerOK, Numbered
    <2> QED BY <1>1, <1>3, <1>4, <2>2, <2>4, <2>5, <2>6, SrvStep DEF Numbers
  <1>12. CASE m.kind = "close"
    <2>1. srv' = [d \in Chan |-> IF d \in SrvChannel(m.id)
                                   THEN [srv[d] EXCEPT !.gotClose = TRUE,
                                                       !.st = IF srv[d].sentClose THEN "gone" ELSE @]
                                   ELSE srv[d]]
      BY <1>3, <1>12 DEF SrvRecv
    <2>2. srv[c].st = "open" /\ closes[c] = 1 /\ (c \in channels => remoteid[c] # HalfOpen)
      BY <1>4, <1>5, <1>7, <1>12 DEF ToServerOK, Addressed
    <2>3. /\ srv'[c].st \in {"open", "gone"} /\ srv'[c].sid = srv[c].sid /\ srv'[c].peer = srv[c].peer
          /\ (srv'[c].sentClose <=> srv[c].sentClose)
          /\ \A d \in Chan \ {c} : srv'[d] = srv[d]
      BY <1>6, <1>8, <1>12, <2>1, <2>2 DEF ServerChannel
    <2>4. TheirsOK(c)'
      BY <1>2, <1>6, <2>2, <2>3 DEF TheirsOK
    <2>5. ASSUME NEW i \in 2 .. Len(c2s), NEW n \in Message, n.of = c, ToServerOK(n, i), ToServerNext(m, n)
          PROVE  ToServerOK(n, i - 1)'
      <3>1. n.kind \notin {"open", "confirm", "failure"} \cup Addressed
        BY <1>12, <2>2, <2>5 DEF ToServerOK, ToServerNext
      <3> QED BY <3>1 DEF ToServerOK, Addressed
    <2>6. ASSUME NEW n \in Message, n.of = c, FromServerOK(n) PROVE FromServerOK(n)'
      <3>1. n.kind \notin {"open", "confirm", "failure"}
        BY <2>2, <2>6 DEF FromServerOK, Numbered
      <3> QED BY <1>2, <2>3, <2>6, <3>1 DEF FromServerOK
    <2> QED BY <1>1, <1>3, <1>4, <2>2, <2>3, <2>4, <2>5, <2>6, SrvStep DEF Numbers
  <1>13. CASE m.kind \notin {"open", "confirm", "failure", "close"}
    <2>1. srv' = srv
      BY <1>3, <1>13 DEF SrvRecv, server
    <2>2. TheirsOK(c)'
      <3>1. Confirming(c, Len(c2s)) => Confirming(c, Len(c2s))'
        <4>1. PICK n \in 1 .. Len(c2s) : n = Len(c2s)
          BY <1>5
        <4>2. Confirming(c, n) => Confirming(c, n - 1)'
          BY <1>1, <1>3, <1>13, Received
        <4>3. PICK k : k = n - 1
          OBVIOUS
        <4>4. Len(c2s') = k
          BY <1>1, <4>1, <4>3, Received
        <4> QED BY <4>1, <4>2, <4>3, <4>4
      <3> QED BY <1>2, <1>6, <2>1, <3>1 DEF TheirsOK
    <2>3. ASSUME NEW i \in 2 .. Len(c2s), NEW n \in Message, n.of = c, ToServerOK(n, i),
                 Confirming(c, i - 1) => Confirming(c, i - 2)' \/ Head(c2s).kind = "confirm"
          PROVE  ToServerOK(n, i - 1)'
      <3>1. PICK k : k = i - 1 /\ k - 1 = i - 2
        OBVIOUS
      <3>2. Confirming(c, i - 1) => Confirming(c, k - 1)'
        BY <1>3, <1>13, <2>3, <3>1
      <3>3. ToServerOK(n, k)'
        BY <1>2, <2>1, <2>3, <3>2 DEF ToServerOK
      <3> QED BY <3>1, <3>3
    <2>4. ASSUME NEW n \in Message, n.of = c, FromServerOK(n), Answered(c)' => Answered(c) PROVE FromServerOK(n)'
      BY <1>2, <2>1, <2>4 DEF FromServerOK
    <2> QED BY <1>1, <1>3, <1>4, <2>1, <2>2, <2>3, <2>4, SrvStep DEF Numbers
  <1> QED BY <1>9, <1>10, <1>11, <1>12, <1>13

\* The server sends m, which is about c.
LEMMA TellStep ==
    ASSUME Typed, Typed', Good, UNCHANGED <<client, c2s>>, NEW c \in Chan, NEW m \in Message, m.of = c,
           s2c' = Append(s2c, m), \A d \in Chan \ {c} : srv'[d] = srv[d],
           FromServerOK(m)', TheirsOK(c)',
           Numbers(c)' => \A d \in Chan \ {c} : Numbers(d) => srv'[c].sid # srv[d].sid,
           \A i \in 1 .. Len(c2s), n \in Message : (n.of = c /\ ToServerOK(n, i)) => ToServerOK(n, i)',
           \A n \in Message : (n.of = c /\ FromServerOK(n)) => FromServerOK(n)' /\ FromServerNext(n, m)
    PROVE  Good'
  <1> USE DEF Good
  <1>1. /\ channels' = channels /\ localid' = localid /\ remoteid' = remoteid /\ type' = type
        /\ closes' = closes /\ s' = s /\ plug' = plug /\ state' = state /\ awaited' = awaited /\ c2s' = c2s
    BY DEF client, local
  <1>2. OnlyAbout(c)
    BY <1>1 DEF OnlyAbout, Same
  <1>3. Ours'
    BY <1>1 DEF Ours, OursOK
  <1>4. \A d \in Chan : Confirming(d, Len(c2s)) => Confirming(d, Len(c2s))'
    BY <1>1 DEF Confirming
  <1>5. \A d \in Chan \ {c} : Answered(d)' => Answered(d)
    BY <1>1 DEF Answered
  <1>6. Theirs'
    BY <1>2, <1>4, TheirsStep
  <1>7. ToServer'
    <2>1. \A i \in 1 .. Len(c2s), n \in Message : (n = c2s[i] /\ n.of = c) => ToServerOK(n, i)'
      BY DEF ToServer
    <2> QED BY <1>1, <1>2, <2>1, ToServerSame
  <1>8. FromServer'
    <2>1. \A i \in 1 .. Len(s2c), n \in Message : (n = s2c[i] /\ n.of = c) => FromServerOK(n)'
      BY DEF FromServer
    <2>2. \A i \in 1 .. Len(s2c) : s2c[i].of = c => FromServerNext(s2c[i], m)
      BY InQueue DEF FromServer, Typed
    <2> QED BY <1>2, <1>5, <2>1, <2>2, FromServerTold
  <1> QED BY <1>3, <1>6, <1>7, <1>8

\* The server's channel that is not confirmed yet, and what is said of the others.
LEMMA ServerFacts ==
    ASSUME Typed, Good, UNCHANGED <<client, c2s>>, NEW c \in Chan
    PROVE  /\ channels' = channels /\ localid' = localid /\ remoteid' = remoteid
           /\ type' = type /\ closes' = closes /\ c2s' = c2s
           /\ srv[c].peer \in Num /\ srv \in [Chan -> ServerChannel]
           /\ TheirsOK(c) /\ OursOK(c)
           /\ \A n, i : Confirming(c, i)' <=> Confirming(c, i)
           /\ Answered(c)' <=> Answered(c)
           /\ Numbers(c) => \A d \in Chan \ {c} : Numbers(d) => srv[c].sid # srv[d].sid
           /\ Lowest(Taken) \in Num \/ Numbers(c)
           /\ Numbers(c) \/ \A d \in Chan \ {c} : Numbers(d) => srv[d].sid # Lowest(Taken)
  <1>1. /\ channels' = channels /\ localid' = localid /\ remoteid' = remoteid
        /\ type' = type /\ closes' = closes /\ c2s' = c2s
    BY DEF client, local
  <1>2. srv \in [Chan -> ServerChannel] /\ srv[c].peer \in Num /\ TheirsOK(c) /\ OursOK(c)
    BY DEF Good, Theirs, Ours, Typed, ServerChannel
  <1>3. \A i : Confirming(c, i)' <=> Confirming(c, i)
    BY <1>1 DEF Confirming
  <1>4. Answered(c)' <=> Answered(c)
    BY <1>1 DEF Answered
  <1>5. Numbers(c) => \A d \in Chan \ {c} : Numbers(d) => srv[c].sid # srv[d].sid
    BY DEF Good, Theirs
  <1>6. Numbers(c) \/ (/\ Lowest(Taken) \in Num
                       /\ \A d \in Chan \ {c} : Numbers(d) => srv[d].sid # Lowest(Taken))
    BY SidFree DEF Num
  <1> QED BY <1>1, <1>2, <1>3, <1>4, <1>5, <1>6

\* The server answers a set-up request.
LEMMA SrvReplyStep ==
    ASSUME Typed, Typed', Good, SrvReply
    PROVE  Good'
  <1>1. Main \in Chan /\ 0 \in Num
    BY ConstAssumption, FS_CardinalityType DEF Chan, Num, Id
  <1>2. PICK m \in Message : m = To("reply", 0, Main)
    BY <1>1, Sendable DEF Kinds
  <1>3. m.of = Main /\ m.kind = "reply" /\ s2c' = Append(s2c, m) /\ srv' = srv /\ UNCHANGED <<client, c2s>>
    BY <1>2 DEF SrvReply, Tell, To, Msg
  <1>4. /\ channels' = channels /\ localid' = localid /\ remoteid' = remoteid
        /\ type' = type /\ closes' = closes /\ c2s' = c2s
        /\ TheirsOK(Main)
        /\ \A i : Confirming(Main, i)' <=> Confirming(Main, i)
        /\ Answered(Main)' <=> Answered(Main)
        /\ Numbers(Main) => \A d \in Chan \ {Main} : Numbers(d) => srv[Main].sid # srv[d].sid
    BY <1>1, <1>3, ServerFacts
  <1>5. FromServerOK(m)'
    BY <1>3 DEF FromServerOK, Numbered
  <1>6. TheirsOK(Main)'
    <2>1. Confirming(Main, Len(c2s)) => Confirming(Main, Len(c2s))'
      BY <1>4 DEF Confirming
    <2> QED BY <1>3, <1>4, <2>1 DEF TheirsOK
  <1>7. \A n, i : ToServerOK(n, i) /\ n.of = Main => ToServerOK(n, i)'
    BY <1>3, <1>4 DEF ToServerOK
  <1>8. \A n : FromServerOK(n) /\ n.of = Main => FromServerOK(n)'
    BY <1>3, <1>4 DEF FromServerOK
  <1>9. \A n : FromServerNext(n, m)
    BY <1>3 DEF FromServerNext, Numbered
  <1> QED BY <1>1, <1>3, <1>4, <1>5, <1>6, <1>7, <1>8, <1>9, TellStep DEF Numbers

\* The server confirms a channel or refuses it: nothing else about it is on its way.
LEMMA SrvAnswerStep ==
    ASSUME Typed, Typed', Good, NEW c \in Chan, SrvConfirm(c) \/ SrvRefuse(c)
    PROVE  Good'
  <1>1. srv[c].st = "wanted" /\ UNCHANGED <<client, c2s>>
    BY DEF SrvConfirm, SrvRefuse
  <1>2. /\ channels' = channels /\ localid' = localid /\ remoteid' = remoteid
        /\ type' = type /\ closes' = closes /\ c2s' = c2s
        /\ srv[c].peer \in Num /\ srv \in [Chan -> ServerChannel] /\ TheirsOK(c)
    BY <1>1, ServerFacts
  <1>3. /\ c \in channels /\ srv[c].peer = localid[c] /\ remoteid[c] = HalfOpen
        /\ ~srv[c].sentClose /\ ~srv[c].gotClose
    BY <1>1, <1>2 DEF TheirsOK
  <1>4. ~Numbers(c)
    BY <1>1 DEF Numbers
  <1>5. Lowest(Taken) \in Num /\ \A d \in Chan \ {c} : Numbers(d) => srv[d].sid # Lowest(Taken)
    BY <1>1, <1>4, ServerFacts
  <1>6. ASSUME NEW n \in Message, NEW i, n.of = c, ToServerOK(n, i) PROVE ToServerOK(n, i)'
    <2>1. n.kind \notin {"open", "confirm", "failure"} \cup Addressed
      BY <1>1, <1>6 DEF ToServerOK
    <2> QED BY <1>2, <1>6, <2>1 DEF ToServerOK, Addressed
  <1>7. ASSUME NEW n \in Message, n.of = c, FromServerOK(n)
        PROVE  FromServerOK(n)' /\ \A m : FromServerNext(n, m)
    <2>1. n.kind \notin Numbered /\ n.kind # "open"
      BY <1>1, <1>7 DEF FromServerOK
    <2> QED BY <2>1 DEF FromServerOK, FromServerNext, Numbered
  <1>8. CASE SrvConfirm(c)
    <2>1. PICK m \in Message : m = Msg("confirm", srv[c].peer, Lowest(Taken), c)
      BY <1>2, <1>5, Sendable DEF Kinds
    <2>2. /\ m.of = c /\ m.kind = "confirm" /\ m.id = srv[c].peer /\ m.from = Lowest(Taken)
          /\ s2c' = Append(s2c, m)
          /\ srv' = [srv EXCEPT ![c].st = "open", ![c].sid = Lowest(Taken)]
      BY <1>8, <2>1 DEF SrvConfirm, Tell, Msg
    <2>3. /\ srv'[c].st = "open" /\ srv'[c].sid = Lowest(Taken) /\ srv'[c].peer = srv[c].peer
          /\ ~srv'[c].sentClose /\ ~srv'[c].gotClose
          /\ \A d \in Chan \ {c} : srv'[d] = srv[d]
      BY <1>2, <1>3, <2>2 DEF ServerChannel
    <2>4. FromServerOK(m)'
      BY <1>2, <1>3, <2>2, <2>3 DEF FromServerOK
    <2>5. TheirsOK(c)'
      BY <1>2, <1>3, <2>3 DEF TheirsOK
    <2>6. Numbers(c)' => \A d \in Chan \ {c} : Numbers(d) => srv'[c].sid # srv[d].sid
      BY <1>5, <2>3
    <2> QED BY <1>1, <1>6, <1>7, <2>2, <2>3, <2>4, <2>5, <2>6, TellStep
  <1>9. CASE SrvRefuse(c)
    <2>1. PICK m \in Message : m = To("failure", srv[c].peer, c)
      BY <1>2, Sendable DEF Kinds
    <2>2. /\ m.of = c /\ m.kind = "failure" /\ m.id = srv[c].peer
          /\ s2c' = Append(s2c, m) /\ srv' = [srv EXCEPT ![c].st = "gone"]
      BY <1>9, <2>1 DEF SrvRefuse, Tell, To, Msg
    <2>3. /\ srv'[c].st = "gone" /\ ~srv'[c].sentClose /\ ~srv'[c].gotClose
          /\ \A d \in Chan \ {c} : srv'[d] = srv[d]
      BY <1>2, <1>3, <2>2 DEF ServerChannel
    <2>4. FromServerOK(m)'
      BY <1>2, <1>3, <2>2, <2>3 DEF FromServerOK
    <2>5. TheirsOK(c)'
      BY <1>2, <1>3, <2>3 DEF TheirsOK
    <2>6. ~Numbers(c)'
      BY <2>3 DEF Numbers
    <2> QED BY <1>1, <1>6, <1>7, <2>2, <2>3, <2>4, <2>5, <2>6, TellStep
  <1> QED BY <1>8, <1>9

\* The server opens a channel: it is numbered with what no other channel of its has.
LEMMA SrvOpenStep ==
    ASSUME Typed, Typed', Good, NEW c \in Conn, SrvOpen(c)
    PROVE  Good'
  <1>1. c \in Chan /\ srv[c].st = "none" /\ type[c] = "none" /\ UNCHANGED <<client, c2s>>
    BY DEF SrvOpen, Chan
  <1>2. /\ channels' = channels /\ localid' = localid /\ remoteid' = remoteid
        /\ type' = type /\ closes' = closes /\ c2s' = c2s
        /\ srv \in [Chan -> ServerChannel] /\ TheirsOK(c) /\ OursOK(c)
        /\ Answered(c)' <=> Answered(c)
    BY <1>1, ServerFacts
  <1>3. c \notin channels /\ closes[c] = 0 /\ ~srv[c].sentClose /\ ~srv[c].gotClose /\ ~Numbers(c)
    BY <1>1, <1>2 DEF TheirsOK, OursOK, Numbers
  <1>4. Lowest(Taken) \in Num /\ \A d \in Chan \ {c} : Numbers(d) => srv[d].sid # Lowest(Taken)
    BY <1>1, <1>3, ServerFacts
  <1>5. ASSUME NEW n, NEW i, n.of = c, ToServerOK(n, i)
        PROVE  n.kind \notin {"open", "confirm", "failure"} \cup Addressed
    BY <1>1, <1>3, <1>5 DEF ToServerOK
  <1>6. ~Answered(c)
    <2> SUFFICES ASSUME Answered(c) PROVE FALSE
      OBVIOUS
    <2>1. PICK i \in 1 .. Len(c2s) : c2s[i].of = c /\ c2s[i].kind \in {"confirm", "failure"}
      BY DEF Answered
    <2>2. ToServerOK(c2s[i], i)
      BY DEF Good, ToServer
    <2> QED BY <1>5, <2>1, <2>2
  <1>7. ASSUME NEW n \in Message, n.of = c, FromServerOK(n)
        PROVE  FromServerOK(n)' /\ \A m : FromServerNext(n, m)
    <2>1. n.kind \notin Numbered /\ n.kind # "open"
      BY <1>1, <1>7 DEF FromServerOK
    <2> QED BY <2>1 DEF FromServerOK, FromServerNext, Numbered
  <1>8. PICK m \in Message : m = Msg("open", HalfOpen, Lowest(Taken), c)
    BY <1>1, <1>4, Sendable DEF Kinds, Num
  <1>9. /\ m.of = c /\ m.kind = "open" /\ m.from = Lowest(Taken) /\ s2c' = Append(s2c, m)
        /\ srv' = [srv EXCEPT ![c].st = "asked", ![c].sid = Lowest(Taken)]
    BY <1>8 DEF SrvOpen, Tell, Msg
  <1>10. /\ srv'[c].st = "asked" /\ srv'[c].sid = Lowest(Taken) /\ ~srv'[c].sentClose /\ ~srv'[c].gotClose
         /\ \A d \in Chan \ {c} : srv'[d] = srv[d]
    BY <1>1, <1>2, <1>3, <1>9 DEF ServerChannel
  <1>11. FromServerOK(m)'
    BY <1>1, <1>2, <1>6, <1>9, <1>10 DEF FromServerOK, Numbered
  <1>12. TheirsOK(c)'
    BY <1>2, <1>3, <1>10 DEF TheirsOK
  <1>13. \A i \in 1 .. Len(c2s), n \in Message : (n.of = c /\ ToServerOK(n, i)) => ToServerOK(n, i)'
    BY <1>2, <1>5 DEF ToServerOK, Addressed
  <1>14. Numbers(c)' => \A d \in Chan \ {c} : Numbers(d) => srv'[c].sid # srv[d].sid
    BY <1>4, <1>10
  <1> QED BY <1>1, <1>7, <1>9, <1>10, <1>11, <1>12, <1>13, <1>14, TellStep

\* The server sends data or EOF on a channel it has not closed, or closes it.
LEMMA SrvSendStep ==
    ASSUME Typed, Typed', Good, NEW c \in Chan, SrvSend(c) \/ SrvClose(c)
    PROVE  Good'
  <1>1. srv[c].st = "open" /\ ~srv[c].sentClose /\ UNCHANGED <<client, c2s>>
    BY DEF SrvSend, SrvClose
  <1>2. /\ channels' = channels /\ localid' = localid /\ remoteid' = remoteid
        /\ type' = type /\ closes' = closes /\ c2s' = c2s
        /\ srv[c].peer \in Num /\ srv \in [Chan -> ServerChannel] /\ TheirsOK(c)
        /\ Answered(c)' <=> Answered(c)
    BY <1>1, ServerFacts
  <1>3. \A i : Confirming(c, i)' <=> Confirming(c, i)
    BY <1>1, ServerFacts
  <1>4. \A d \in Chan \ {c} : Numbers(d) => srv[c].sid # srv[d].sid
    BY <1>1, ServerFacts DEF Numbers
  <1>5. c \in channels /\ srv[c].peer = localid[c]
    BY <1>1, <1>2 DEF TheirsOK
  <1>6. PICK m \in Message : /\ m.of = c /\ m.id = srv[c].peer /\ s2c' = Append(s2c, m)
                             /\ m.kind = "close" \/ (m.kind \in {"data", "eof"} /\ srv' = srv)
                             /\ m.kind = "close" => SrvClose(c)
    <2>1. CASE SrvSend(c)
      <3>1. PICK kind \in {"data", "eof"} : s2c' = Append(s2c, To(kind, srv[c].peer, c)) /\ srv' = srv
        BY <2>1 DEF SrvSend, Tell, server
      <3>2. PICK m \in Message : m = To(kind, srv[c].peer, c)
        BY <1>2, Sendable DEF Kinds
      <3> QED BY <3>1, <3>2 DEF To, Msg
    <2>2. CASE SrvClose(c)
      <3>1. PICK m \in Message : m = To("close", srv[c].peer, c)
        BY <1>2, Sendable DEF Kinds
      <3> QED BY <2>2, <3>1 DEF SrvClose, Tell, To, Msg
    <2> QED BY <2>1, <2>2
  <1>7. /\ srv'[c].sid = srv[c].sid /\ srv'[c].peer = srv[c].peer /\ (srv'[c].gotClose <=> srv[c].gotClose)
        /\ srv'[c].st = "open" \/ (srv'[c].st = "gone" /\ srv[c].gotClose)
        /\ m.kind = "close" => srv'[c].sentClose
        /\ \A d \in Chan \ {c} : srv'[d] = srv[d]
    <2>1. CASE m.kind = "close"
      <3>1. srv' = [srv EXCEPT ![c].sentClose = TRUE, ![c].st = IF srv[c].gotClose THEN "gone" ELSE @]
        BY <1>6, <2>1 DEF SrvClose
      <3> QED BY <1>1, <1>2, <3>1 DEF ServerChannel
    <2>2. CASE m.kind # "close"
      BY <1>1, <1>6, <2>2
    <2> QED BY <2>1, <2>2
  <1>8. FromServerOK(m)'
    BY <1>2, <1>5, <1>6, <1>7 DEF FromServerOK, Numbered
  <1>9. TheirsOK(c)'
    BY <1>1, <1>2, <1>5, <1>7 DEF TheirsOK
  <1>10. Numbers(c)' => \A d \in Chan \ {c} : Numbers(d) => srv'[c].sid # srv[d].sid
    BY <1>4, <1>7
  <1>11. ASSUME NEW n \in Message, NEW i, n.of = c, ToServerOK(n, i) PROVE ToServerOK(n, i)'
    <2>1. n.kind \notin {"open", "confirm", "failure"}
      BY <1>1, <1>11 DEF ToServerOK
    <2> QED BY <1>2, <1>1, <1>3, <1>7, <1>11, <2>1 DEF ToServerOK
  <1>12. ASSUME NEW n \in Message, n.of = c, FromServerOK(n)
         PROVE  FromServerOK(n)' /\ FromServerNext(n, m)
    <2>1. n.kind \notin {"open", "failure", "close"}
      BY <1>1, <1>12 DEF FromServerOK, Numbered
    <2>2. n.kind = "confirm" => ~srv[c].gotClose
      BY <1>2, <1>12, <1>5 DEF FromServerOK, TheirsOK
    <2>3. FromServerOK(n)'
      BY <1>1, <1>2, <1>7, <1>12, <2>1, <2>2 DEF FromServerOK
    <2>4. FromServerNext(n, m)
      BY <1>6, <2>1 DEF FromServerNext
    <2> QED BY <2>3, <2>4
  <1> QED BY <1>1, <1>6, <1>7, <1>8, <1>9, <1>10, <1>11, <1>12, TellStep

-----------------------------------------------------------------------------
(* The theorems *)

\* The connection starts with the main channel alone.
LEMMA InitGood == Init => IInv
  <1> SUFFICES ASSUME Init PROVE IInv
    OBVIOUS
  <1>1. Typed
    BY InitTyped
  <1>2. /\ channels = {Main} /\ Main \in Chan /\ awaited = SetupRequests /\ s2c = <<>>
        /\ state = IF SetupRequests = 0 THEN "session" ELSE "setup"
        /\ c2s = IF SetupRequests = 0 THEN <<>> ELSE <<To("request", 0, Main)>>
    BY DEF Init, Chan
  <1>3. \A c \in Chan : /\ localid[c] = 0 /\ remoteid[c] = (IF c = Main THEN 0 ELSE HalfOpen)
                        /\ type[c] = (IF c = Main THEN "main" ELSE "none")
                        /\ closes[c] = 0 /\ ~s[c] /\ plug[c] = "none"
                        /\ srv[c].st = (IF c = Main THEN "open" ELSE "none") /\ srv[c].sid = 0
                        /\ srv[c].peer = 0 /\ ~srv[c].sentClose /\ ~srv[c].gotClose
    BY DEF Init
  <1>4. Ours
    BY <1>2, <1>3, ConstAssumption DEF Ours, OursOK, HalfOpen
  <1>5. Theirs
    BY <1>2, <1>3 DEF Theirs, TheirsOK, Numbers, HalfOpen
  <1>6. ToServer
    <2>1. CASE SetupRequests = 0
      BY <1>2, <2>1 DEF ToServer
    <2>2. CASE SetupRequests # 0
      <3>1. Len(c2s) = 1 /\ c2s[1] = To("request", 0, Main)
        BY <1>2, <2>2
      <3>2. ToServerOK(To("request", 0, Main), 1)
        BY <1>2, <1>3 DEF ToServerOK, To, Msg, Addressed
      <3> QED BY <3>1, <3>2 DEF ToServer
    <2> QED BY <2>1, <2>2
  <1>7. FromServer
    BY <1>2 DEF FromServer
  <1> QED BY <1>1, <1>4, <1>5, <1>6, <1>7 DEF IInv, Good

\* A connection that has ended stays so: only a local connection may still be accepted, or closed,
\* through a pointer to nothing.
LEMMA EndedStays == ASSUME ~Live, Next PROVE ~Live'
  BY DEF Live, Next, SshClosing, MainInput, Resize, ClientRecv, RecvReply, RecvData, RecvEof, RecvClose,
         RecvConfirm, RecvFailure, RecvOpen, Receive, Accept, LocalClosing, LocalData, AgentReply, Crash

\* Every step that leaves the connection alive keeps the two ends in agreement.
LEMMA NextGood ==
    ASSUME IInv, Next
    PROVE  IInv'
  <1>1. Typed /\ Typed'
    BY NextTyped DEF IInv
  <1> SUFFICES ASSUME Live' PROVE Good'
    BY <1>1 DEF IInv
  <1>2. Live /\ Good
    BY EndedStays DEF IInv
  <1>3. ~Crash /\ \A passes : ~DoClose(passes)
    BY DEF Crash, DoClose, Live
  <1>4. CASE MainInput \/ Resize
    BY <1>1, <1>2, <1>4, SendingSteps
  <1>5. CASE ClientRecv
    BY <1>1, <1>2, <1>5, SendingSteps, EofStep, CloseStep, ConfirmStep, FailureStep, OpenStep DEF ClientRecv
  <1>6. ASSUME NEW c \in Conn, Accept(c) \/ LocalClosing(c) \/ LocalData(c) \/ AgentReply(c)
        PROVE  Good'
    BY <1>1, <1>2, <1>3, <1>6, AcceptStep, LocalClosingStep, SendingSteps
  <1>7. CASE SrvRecv \/ SrvReply
    BY <1>1, <1>2, <1>7, SrvRecvStep, SrvReplyStep
  <1>8. ASSUME NEW c \in Chan, SrvConfirm(c) \/ SrvRefuse(c) \/ SrvSend(c) \/ SrvClose(c)
        PROVE  Good'
    BY <1>1, <1>2, <1>8, SrvAnswerStep, SrvSendStep
  <1>9. ASSUME NEW c \in Conn, SrvOpen(c) PROVE Good'
    BY <1>1, <1>2, <1>9, SrvOpenStep
  <1> QED BY <1>3, <1>4, <1>5, <1>6, <1>7, <1>8, <1>9 DEF Next, SshClosing

\* A step that changes nothing keeps the invariant.
LEMMA StutterGood == ASSUME IInv, UNCHANGED vars PROVE IInv'
  <1>1. /\ state' = state /\ awaited' = awaited /\ channels' = channels /\ localid' = localid
        /\ remoteid' = remoteid /\ type' = type /\ closes' = closes /\ s' = s /\ plug' = plug
        /\ query' = query /\ c2s' = c2s /\ s2c' = s2c /\ srv' = srv /\ srvOwes' = srvOwes
    BY DEF vars, client, local, server
  <1>2. Typed'
    BY <1>1 DEF IInv, Typed, TypeOK
  <1>3. ASSUME Live' PROVE Good'
    <2>1. Live /\ Good /\ Typed
      BY <1>1, <1>3 DEF IInv, Live
    <2>2. Whole'
      BY <1>1, <2>1 DEF Good, Ours, Whole
    <2> QED BY <1>1, <1>2, <2>1, <2>2, QuietStep DEF Fields
  <1> QED BY <1>2, <1>3 DEF IInv

\* The inductive invariant: as long as the connection lives, what each end thinks of a channel and
\* what is on its way in both directions fit together.
THEOREM EndsFit == Spec => []IInv
  <1>1. IInv /\ [Next]_vars => IInv'
    BY NextGood, StutterGood
  <1> QED BY InitGood, <1>1, PTL DEF Spec

\* Every variable keeps its type.
THEOREM TypeCorrect == Spec => []TypeOK
  <1>1. IInv => TypeOK
    BY DEF IInv, Typed
  <1> QED BY EndsFit, <1>1, PTL

\* No message ever reaches a channel it was not meant for, in either direction, although both ends
\* use the numbers of channels again (ssh_channelfind, alloc_channel_id).
THEOREM MessagesSound == Spec => []MessagesFindOwner
  <1>1. ASSUME IInv PROVE DeliveredToOwner
    BY <1>1, HeadOwner DEF DeliveredToOwner, IInv, Good, Live
  <1>2. ASSUME IInv PROVE ServerKnowsChannel
    <2> SUFFICES ASSUME Live, c2s # <<>>, Head(c2s).kind \in Addressed
                 PROVE  /\ SrvChannel(Head(c2s).id) = {Head(c2s).of}
                        /\ srv[Head(c2s).of].st = "open" /\ ~srv[Head(c2s).of].gotClose
      BY DEF ServerKnowsChannel, Addressed
    <2>1. Good /\ Typed
      BY <1>2 DEF IInv
    <2>2. Head(c2s) \in Message /\ Head(c2s) = c2s[1] /\ Len(c2s) \in Nat \ {0}
      BY <2>1, Shortened DEF Typed
    <2>3. ToServerOK(Head(c2s), 1) /\ Head(c2s).of \in Chan
      BY <2>1, <2>2 DEF Good, ToServer, Message
    <2>4. ~Confirming(Head(c2s).of, 0)
      BY DEF Confirming
    <2>5. /\ Head(c2s).id = srv[Head(c2s).of].sid
          /\ srv[Head(c2s).of].st = "open" /\ ~srv[Head(c2s).of].gotClose
      BY <2>3, <2>4 DEF ToServerOK
    <2> QED BY <2>1, <2>3, <2>5 DEF Good, Theirs, Numbers, SrvChannel
  <1>3. IInv => MessagesFindOwner
    BY <1>1, <1>2 DEF MessagesFindOwner
  <1> QED BY EndsFit, <1>3, PTL

\* What SocketsMatchChannels needs besides: a channel with a socket has an open one.  A connection whose set-up is still
\* being answered is left out: sshfwd_close ignores a close then (ssh.c:4035).
Backed == state # "setup" /\ (state = "session" => \A c \in Conn : (c \in channels /\ s[c]) => plug[c] = "open")

\* Every step of a session keeps the sockets of the channels open.
LEMMA BackedStep ==
    ASSUME IInv, Backed, Next
    PROVE  Backed'
  <1>1. Typed /\ Typed'
    BY NextTyped DEF IInv
  <1>2. state' # "setup"
    BY DEF Backed, Next, SshClosing, MainInput, Resize, ClientRecv, RecvReply, RecvData, RecvEof, RecvClose,
           RecvConfirm, RecvFailure, RecvOpen, Receive, Accept, LocalClosing, LocalData, AgentReply, Crash,
           Bombout, DoClose, SrvRecv, SrvReply, SrvConfirm, SrvRefuse, SrvOpen, SrvSend, SrvClose, client
  <1> SUFFICES ASSUME state' = "session", NEW c \in Conn, c \in channels', s'[c]
               PROVE  plug'[c] = "open"
    BY <1>2 DEF Backed
  <1>3. /\ state = "session" /\ Live /\ Good /\ c \in Chan /\ OursOK(c)
        /\ (c \in channels /\ s[c]) => plug[c] = "open"
    BY EndedStays DEF Backed, Live, IInv, Good, Ours, Chan
  <1>4. ~Crash /\ \A passes : ~DoClose(passes)
    BY DEF Crash, DoClose
  <1>5. CASE UNCHANGED <<channels, s, plug>>
    BY <1>3, <1>5
  <1>6. CASE MainInput \/ Resize \/ RecvReply \/ RecvData \/ SrvRecv \/ SrvReply
             \/ (\E d \in Chan : SrvConfirm(d) \/ SrvRefuse(d) \/ SrvSend(d) \/ SrvClose(d))
             \/ (\E d \in Conn : SrvOpen(d) \/ LocalData(d) \/ AgentReply(d))
    <2>1. UNCHANGED <<channels, s, plug>>
      BY <1>3, <1>4, <1>6 DEF MainInput, Resize, RecvReply, RecvData, LocalData, AgentReply, SrvRecv, SrvReply,
         SrvConfirm, SrvRefuse, SrvSend, SrvClose, SrvOpen, client, local
    <2> QED BY <1>5, <2>1
  <1>7. ASSUME NEW d \in Conn, Accept(d) PROVE plug'[c] = "open"
    BY <1>1, <1>3, <1>4, <1>7 DEF Accept, Typed, TypeOK
  <1>8. ASSUME NEW d \in Conn, LocalClosing(d) PROVE plug'[c] = "open"
    <2>1. plug' = [plug EXCEPT ![d] = "closed"] /\ FwdClose(d) /\ plug[d] = "open"
      BY <1>4, <1>8 DEF LocalClosing
    <2>2. channels' = channels /\ (s' = s \/ s' = [s EXCEPT ![d] = FALSE]) /\ ~s'[d]
      <3>1. OursOK(d) /\ closes[d] \in {0, 1} /\ d \in Chan
        BY <1>1, <1>3 DEF Good, Ours, Chan, Typed, TypeOK
      <3> QED BY <1>1, <1>3, <2>1, <3>1 DEF FwdClose, OursOK, Typed, TypeOK
    <2> QED BY <1>1, <1>3, <2>1, <2>2 DEF Typed, TypeOK
  <1>9. CASE RecvEof
    <2>1. CASE UNCHANGED <<channels, plug, c2s, closes, s>>
      BY <1>5, <2>1
    <2>2. ASSUME NEW d \in Found(Head(s2c).id), plug' = [plug EXCEPT ![d] = IF s[d] THEN "closed" ELSE @], FwdClose(d)
          PROVE  plug'[c] = "open"
      <3>1. d \in Chan /\ OursOK(d) /\ closes[d] \in {0, 1}
        BY <1>1, <1>3 DEF Found, Good, Ours, Typed, TypeOK
      <3>2. channels' = channels /\ (s' = s \/ s' = [s EXCEPT ![d] = FALSE]) /\ ~s'[d]
        BY <1>1, <1>3, <2>2, <3>1 DEF FwdClose, OursOK, Typed, TypeOK
      <3> QED BY <1>1, <1>3, <2>2, <3>1, <3>2 DEF Typed, TypeOK
    <2> QED BY <1>9, <2>1, <2>2 DEF RecvEof
  <1>10. CASE RecvClose
    <2>1. PICK d \in Found(Head(s2c).id) :
            /\ channels' = channels \ {d}
            /\ plug' = [plug EXCEPT ![d] = IF s[d] THEN "closed" ELSE @]
            /\ s' = [s EXCEPT ![d] = FALSE]
      BY <1>4, <1>10 DEF RecvClose, Bombout
    <2> QED BY <1>1, <1>3, <2>1 DEF Typed, TypeOK
  <1>11. CASE RecvConfirm
    <2>1. UNCHANGED <<channels, s, plug>>
      BY <1>4, <1>11 DEF RecvConfirm
    <2> QED BY <1>5, <2>1
  <1>12. CASE RecvFailure
    <2>1. PICK d \in Found(Head(s2c).id) :
            /\ channels' = channels \ {d}
            /\ plug' = [plug EXCEPT ![d] = IF s[d] THEN "closed" ELSE @]
            /\ s' = s
      BY <1>4, <1>12 DEF RecvFailure
    <2> QED BY <1>1, <1>3, <2>1 DEF Typed, TypeOK
  <1>13. CASE RecvOpen
    <2>1. CASE UNCHANGED <<channels, local>>
      BY <1>5, <2>1 DEF local
    <2>2. ASSUME NEW d \in {Head(s2c).of}, NEW kind \in {"sock", "agent"},
                 channels' = channels \cup {d},
                 s' = [s EXCEPT ![d] = (kind = "sock")],
                 plug' = [plug EXCEPT ![d] = IF kind = "sock" THEN "open" ELSE @]
          PROVE  plug'[c] = "open"
      <3>1. CASE c = d
        <4>1. kind = "sock"
          BY <1>1, <1>3, <2>2, <3>1 DEF Typed, TypeOK
        <4> QED BY <1>1, <1>3, <2>2, <3>1, <4>1 DEF Typed, TypeOK
      <3>2. CASE c # d
        BY <1>1, <1>3, <2>2, <3>2 DEF Typed, TypeOK
      <3> QED BY <3>1, <3>2
    <2> QED BY <1>13, <2>1, <2>2 DEF RecvOpen
  <1> QED BY <1>4, <1>6, <1>7, <1>8, <1>9, <1>10, <1>11, <1>12, <1>13 DEF Next, ClientRecv, SshClosing

\* Without a set-up phase, the invariant and Backed hold at the beginning ...
LEMMA MatchInit == SetupRequests = 0 /\ Init => IInv /\ Backed
  <1> SUFFICES ASSUME SetupRequests = 0, Init PROVE Backed
    BY InitGood
  <1>1. state # "setup" /\ \A c \in Chan : ~s[c]
    BY DEF Init
  <1> QED BY <1>1 DEF Backed, Chan

\* ... every step keeps them ...
LEMMA MatchStep == IInv /\ Backed /\ [Next]_vars => IInv' /\ Backed'
  <1>1. IInv /\ [Next]_vars => IInv'
    BY NextGood, StutterGood
  <1>2. IInv /\ Backed /\ Next => Backed'
    BY BackedStep
  <1>3. Backed /\ UNCHANGED vars => Backed'
    BY DEF Backed, vars, client, local
  <1> QED BY <1>1, <1>2, <1>3

\* ... and they say that sockets and channels match.
LEMMA MatchHolds == IInv /\ Backed => SocketsMatchChannels
  BY DEF IInv, Good, Ours, OursOK, Backed, SocketsMatchChannels, Live, Chan

\* When no set-up request is outstanding from the start, an open local socket and its channel point at
\* each other in every state of the session.
THEOREM SocketsMatch == SetupRequests = 0 /\ Spec => []SocketsMatchChannels
  BY MatchInit, MatchStep, MatchHolds, PTL DEF Spec
=============================================================================
