----------------------------- MODULE Ssh1Proofs -----------------------------
(***************************************************************************)
(* An SSH-1 connection, proved for every number of channels, length of the *)
(* queues and set of options: after the login the two ends of a channel    *)
(* stay in agreement however their closes cross, the size of the terminal  *)
(* is not lost and the channels that throttle are counted; and the login   *)
(* claims no success that was not granted, save the stale challenge.       *)
(***************************************************************************)
EXTENDS Ssh1MC, TLAPS, FiniteSetTheorems

-----------------------------------------------------------------------------
(* The invariant of the session *)

NoChan == Session!NoChan
Close == Session!Close
SrvType == [st : {"none", "opening", "open"}, sent : SUBSET Close, got : SUBSET Close]
NoSrv == [st |-> "none", sent |-> {}, got |-> {}]
Opens == {"agent_open", "x11_open", "port_open"}
ChanKinds == Opens \cup {"open_confirmation", "open_failure", "data", "close", "confirmation"}
Requests == {"agent", "x11", "listen", "remote", "pty", "compress"}
ToClientPkt == [t : {"success", "failure", "exit_status"}, c : {None}] \cup [t : ChanKinds, c : Conn]
ToServerPkt == [t : Requests \cup {"exec", "exit_confirmation"}, c : {None}] \cup [t : ChanKinds, c : Conn]
Running == state \in {"setup", "session"}

\* Types, of what Session!TypeOK leaves open too.
SessionTyped ==
    /\ Session!TypeOK
    /\ toClient \in Seq(ToClientPkt) /\ toServer \in Seq(ToServerPkt)
    /\ state = "setup" => phase \in 0 .. 6

\* A resize between the pty request and the session is remembered.
SizeKept ==
    /\ Session!SizeKnown
    /\ (state = "setup" /\ phase >= 5 /\ "pty" \in Options) => (ptySize = termSize \/ sizeNeeded)

\* The kinds of packets about c in a queue, and what kind may be behind another: anything but data
\* comes once, the confirmation of an open before data, and nothing of either after a close.
Kinds(q, c) == {q[i].t : i \in {j \in 1 .. Len(q) : q[j].c = c}}
MayFollow(k, l) ==
    /\ k # "data" => l # k
    /\ k \in {"close", "confirmation"} => l \notin {"open_confirmation", "data"}
    /\ k = "data" => l # "open_confirmation"
Orderly(q) ==
    \A i, j \in 1 .. Len(q) : (i < j /\ q[i].c \in Conn /\ q[i].c = q[j].c) => MayFollow(q[i].t, q[j].t)

\* Where the two ends of a connection may stand, with what is said to the client and told the
\* server about it: one of these.
Up(ch) == ch.type \notin {"none", "dormant"}
Idle(ch, sv, said, told) == ch = NoChan /\ sv = NoSrv /\ said = {} /\ told = {}
AskedByUs(ch, sv, said, told) ==
    /\ ch.type = "dormant" /\ ch.got = {} /\ ch.sent \subseteq {"close"}
    /\ \/ sv = NoSrv /\ said = {} /\ told = {"port_open"}
       \/ sv = NoSrv /\ said = {"open_failure"} /\ told = {}
       \/ /\ sv.st = "open" /\ sv.got = {} /\ sv.sent \subseteq {"close"}
          /\ said \ {"data"} = {"open_confirmation"} \cup sv.sent /\ told = {}
AskedByServer(ch, sv, said, told) ==
    /\ sv.st = "opening" /\ sv.sent = {} /\ sv.got = {}
    /\ \/ ch = NoChan /\ (\E t \in Opens : said = {t}) /\ told = {}
       \/ ch = NoChan /\ said = {} /\ told = {"open_failure"}
       \/ /\ Up(ch) /\ ch.got = {} /\ ch.sent \subseteq {"close"} /\ said = {}
          /\ told \ {"data"} = {"open_confirmation"} \cup ch.sent
BothUp(ch, sv, said, told) ==
    /\ Up(ch) /\ sv.st = "open"
    /\ ch.got \subseteq ch.sent /\ sv.got \subseteq sv.sent
    /\ ch.got \subseteq sv.sent /\ sv.got \subseteq ch.sent
    /\ ch.got # Close /\ sv.got # Close
    /\ said \ {"data"} = sv.sent \ ch.got /\ ("data" \in said => ch.got = {})
    /\ told \ {"data"} = ch.sent \ sv.got /\ ("data" \in told => sv.got = {})
FreedFirst(ch, sv, said, told) ==
    /\ ch = NoChan /\ sv.st = "open" /\ sv.sent = Close /\ sv.got # Close
    /\ said = {} /\ told \ {"data"} = Close \ sv.got /\ ("data" \in told => sv.got = {})
ForgottenFirst(ch, sv, said, told) ==
    /\ Up(ch) /\ sv = NoSrv /\ ch.sent = Close /\ ch.got # Close
    /\ told = {} /\ said \ {"data"} = Close \ ch.got /\ ("data" \in said => ch.got = {})
Fits(ch, sv, said, told) ==
    /\ ch.s => ch.sent = {} /\ ch.got = {}
    /\ \/ Idle(ch, sv, said, told) \/ AskedByUs(ch, sv, said, told) \/ AskedByServer(ch, sv, said, told)
       \/ BothUp(ch, sv, said, told) \/ FreedFirst(ch, sv, said, told) \/ ForgottenFirst(ch, sv, said, told)
Agree(c) == Fits(chan[c], srv[c], Kinds(toClient, c), Kinds(toServer, c))

\* Only a channel that is up throttles.
Throttled == Session!ThrottleCounted /\ \A c \in Conn : chan[c].throttling => Up(chan[c])

Ends == why = "none" /\ Orderly(toClient) /\ Orderly(toServer) /\ \A c \in Conn : Agree(c)
SessionInv ==
    /\ SessionTyped /\ SizeKept /\ Throttled /\ Session!NoBadClose /\ Session!ServerKnown
    /\ Running => Ends

-----------------------------------------------------------------------------
(* Queues *)

\* A packet is put into a queue behind what it may follow.
LEMMA Put ==
    ASSUME NEW P, NEW q \in Seq(P), NEW m \in P
    PROVE  /\ q \o <<m>> \in Seq(P) /\ q \o <<m>> = Append(q, m) /\ Len(q \o <<m>>) = Len(q) + 1 /\ Len(q) \in Nat
           /\ Kinds(q \o <<m>>, m.c) = Kinds(q, m.c) \cup {m.t}
           /\ \A c : c # m.c => Kinds(q \o <<m>>, c) = Kinds(q, c)
           /\ (Orderly(q) /\ (m.c \in Conn => \A k \in Kinds(q, m.c) : MayFollow(k, m.t))) => Orderly(q \o <<m>>)
  <1>0. q \o <<m>> = Append(q, m) /\ Append(q, m) \in Seq(P)
    OBVIOUS
  <1>1. PICK r \in Seq(P) : r = q \o <<m>> /\ r = Append(q, m)
    <2>1. \E r \in Seq(P) : r = Append(q, m)
      BY <1>0
    <2> QED BY <1>0, <2>1
  <1>2. /\ Len(q) \in Nat /\ Len(r) = Len(q) + 1 /\ r[Len(q) + 1] = m
        /\ \A i \in 1 .. Len(q) : r[i] = q[i]
    BY <1>1
  <1>3. ASSUME NEW c PROVE Kinds(r, c) = IF c = m.c THEN Kinds(q, c) \cup {m.t} ELSE Kinds(q, c)
    <2>1. ASSUME NEW k \in Kinds(r, c) PROVE k \in Kinds(q, c) \/ (c = m.c /\ k = m.t)
      <3>1. PICK i \in 1 .. Len(r) : r[i].c = c /\ k = r[i].t
        BY <2>1 DEF Kinds
      <3>2. CASE i = Len(q) + 1
        BY <1>2, <3>1, <3>2
      <3>3. CASE i # Len(q) + 1
        <4>1. i \in 1 .. Len(q) /\ r[i] = q[i]
          BY <1>2, <3>3
        <4> QED BY <3>1, <4>1 DEF Kinds
      <3> QED BY <3>2, <3>3
    <2>2. ASSUME NEW k \in Kinds(q, c) PROVE k \in Kinds(r, c)
      <3>1. PICK i \in 1 .. Len(q) : q[i].c = c /\ k = q[i].t
        BY <2>2 DEF Kinds
      <3>2. i \in 1 .. Len(r) /\ r[i] = q[i]
        BY <1>2
      <3> QED BY <3>1, <3>2 DEF Kinds
    <2>3. c = m.c => m.t \in Kinds(r, c)
      <3>1. Len(q) + 1 \in 1 .. Len(r)
        BY <1>2
      <3> QED BY <1>2, <3>1 DEF Kinds
    <2> QED BY <2>1, <2>2, <2>3
  <1>4. ASSUME Orderly(q), m.c \in Conn => \A k \in Kinds(q, m.c) : MayFollow(k, m.t)
        PROVE  Orderly(r)
    <2>1. ASSUME NEW i \in 1 .. Len(r), NEW j \in 1 .. Len(r), i < j, r[i].c \in Conn, r[i].c = r[j].c
          PROVE  MayFollow(r[i].t, r[j].t)
      <3>1. i \in 1 .. Len(q) /\ r[i] = q[i]
        BY <1>2, <2>1
      <3>2. CASE j = Len(q) + 1
        <4>1. q[i].t \in Kinds(q, m.c)
          BY <1>2, <2>1, <3>1, <3>2 DEF Kinds
        <4> QED BY <1>2, <1>4, <2>1, <3>1, <3>2, <4>1
      <3>3. CASE j # Len(q) + 1
        <4>1. j \in 1 .. Len(q) /\ r[j] = q[j]
          BY <1>2, <3>3
        <4> QED BY <1>4, <2>1, <3>1, <4>1 DEF Orderly
      <3> QED BY <3>2, <3>3
    <2> QED BY <2>1 DEF Orderly
  <1> QED BY <1>1, <1>2, <1>3, <1>4

\* The head of a queue is taken.
LEMMA Taken ==
    ASSUME NEW P, NEW q \in Seq(P), q # <<>>
    PROVE  /\ Tail(q) \in Seq(P) /\ Head(q) \in P /\ Len(Tail(q)) = Len(q) - 1 /\ Len(q) \in Nat \ {0}
           /\ Head(q).t \in Kinds(q, Head(q).c)
           /\ \A c : /\ Kinds(Tail(q), c) \subseteq Kinds(q, c)
                     /\ Kinds(q, c) \subseteq Kinds(Tail(q), c) \cup (IF c = Head(q).c THEN {Head(q).t} ELSE {})
           /\ Orderly(q) => /\ Orderly(Tail(q))
                            /\ Head(q).c \in Conn => \A k \in Kinds(Tail(q), Head(q).c) : MayFollow(Head(q).t, k)
  <1>1. PICK r \in Seq(P) : r = Tail(q)
    <2>1. Tail(q) \in Seq(P)
      OBVIOUS
    <2>2. \E r \in Seq(P) : r = Tail(q)
      BY <2>1
    <2> QED BY <2>2
  <1>2. PICK h \in P : h = Head(q) /\ h = q[1]
    <2>1. Len(q) \in Nat /\ Len(q) # 0
      <3>1. Len(q) \in Nat /\ (Len(q) = 0 => q = <<>>)
        OBVIOUS
      <3> QED BY <3>1
    <2>2. q[1] \in P
      BY <2>1
    <2>3. Head(q) = q[1]
      OBVIOUS
    <2>4. \E h \in P : h = q[1]
      BY <2>2
    <2> QED BY <2>3, <2>4
  <1>3. /\ Len(q) \in Nat \ {0} /\ Len(r) = Len(q) - 1 /\ \A i \in 1 .. Len(r) : r[i] = q[i + 1]
    BY <1>1
  <1>4. ASSUME NEW c PROVE Kinds(r, c) \subseteq Kinds(q, c)
    <2>1. ASSUME NEW k \in Kinds(r, c) PROVE k \in Kinds(q, c)
      <3>1. PICK i \in 1 .. Len(r) : r[i].c = c /\ k = r[i].t
        BY <2>1 DEF Kinds
      <3>2. i + 1 \in 1 .. Len(q) /\ r[i] = q[i + 1]
        BY <1>3
      <3> QED BY <3>1, <3>2 DEF Kinds
    <2> QED BY <2>1
  <1>5. ASSUME NEW c, NEW k \in Kinds(q, c) PROVE k \in Kinds(r, c) \/ (c = h.c /\ k = h.t)
    <2>1. PICK i \in 1 .. Len(q) : q[i].c = c /\ k = q[i].t
      BY <1>5 DEF Kinds
    <2>2. CASE i = 1
      BY <1>2, <2>1, <2>2
    <2>3. CASE i # 1
      <3>1. i - 1 \in 1 .. Len(r) /\ r[i - 1] = q[i]
        BY <1>3, <2>3
      <3> QED BY <2>1, <3>1 DEF Kinds
    <2> QED BY <2>2, <2>3
  <1>6. h.t \in Kinds(q, h.c)
    <2>1. 1 \in 1 .. Len(q)
      BY <1>3
    <2> QED BY <1>2, <2>1 DEF Kinds
  <1>7. ASSUME Orderly(q) PROVE Orderly(r)
    <2>1. ASSUME NEW i \in 1 .. Len(r), NEW j \in 1 .. Len(r), i < j, r[i].c \in Conn, r[i].c = r[j].c
          PROVE  MayFollow(r[i].t, r[j].t)
      <3>1. i + 1 \in 1 .. Len(q) /\ j + 1 \in 1 .. Len(q) /\ i + 1 < j + 1 /\ r[i] = q[i + 1] /\ r[j] = q[j + 1]
        BY <1>3, <2>1
      <3> QED BY <1>7, <2>1, <3>1 DEF Orderly
    <2> QED BY <2>1 DEF Orderly
  <1>8. ASSUME Orderly(q), h.c \in Conn, NEW k \in Kinds(r, h.c) PROVE MayFollow(h.t, k)
    <2>1. PICK i \in 1 .. Len(r) : r[i].c = h.c /\ k = r[i].t
      BY <1>8 DEF Kinds
    <2>2. 1 \in 1 .. Len(q) /\ i + 1 \in 1 .. Len(q) /\ 1 < i + 1 /\ r[i] = q[i + 1]
      BY <1>3
    <2> QED BY <1>2, <1>8, <2>1, <2>2 DEF Orderly
  <1> QED BY <1>1, <1>2, <1>3, <1>4, <1>5, <1>6, <1>7, <1>8

-----------------------------------------------------------------------------
(* What one end does with a channel keeps the two in agreement: one lemma for each kind of step.  ch, sv, said and told *)
(* are the channel of the client, that of the server, and the kinds of packets about it in the two queues.              *)

ChanType == Session!ChanType
\* Of the packets q, the first is of kind h and r are those behind it.
Takes(h, q, r) == h \in q /\ r \subseteq q /\ q \subseteq r \cup {h} /\ \A k \in r : MayFollow(h, k)
\* Two channels that do not differ in what is agreed on.
Alike(ch, new) == new.type = ch.type /\ new.s = ch.s /\ new.sent = ch.sent /\ new.got = ch.got

\* The client never meets data of a channel that is not up, and agrees with the server after taking it.
LEMMA DataTaken ==
    ASSUME NEW ch \in ChanType, NEW new \in ChanType, NEW sv \in SrvType, NEW said, NEW rest, NEW told,
           Fits(ch, sv, said, told), Takes("data", said, rest), Alike(ch, new)
    PROVE  Up(ch) /\ Fits(new, sv, rest, told)
  <1> USE DEF Takes, MayFollow, Alike, Up
  <1>1. ~Idle(ch, sv, said, told) /\ ~AskedByUs(ch, sv, said, told) /\ ~AskedByServer(ch, sv, said, told)
        /\ ~FreedFirst(ch, sv, said, told)
    BY DEF Idle, AskedByUs, AskedByServer, FreedFirst, Opens
  <1>2. CASE BothUp(ch, sv, said, told)
    BY <1>2 DEF Fits, BothUp
  <1>3. CASE ForgottenFirst(ch, sv, said, told)
    BY <1>3 DEF Fits, ForgottenFirst
  <1> QED BY <1>1, <1>2, <1>3 DEF Fits

\* An open comes when neither end has anything of the channel; the client may accept or refuse it.
LEMMA OpenTaken ==
    ASSUME NEW ch \in ChanType, NEW new \in ChanType, NEW sv \in SrvType, NEW said, NEW rest, NEW told, NEW h \in Opens,
           Fits(ch, sv, said, told), Takes(h, said, rest)
    PROVE  /\ ch = NoChan /\ told = {}
           /\ (Up(new) /\ new.sent = {} /\ new.got = {}) => Fits(new, sv, rest, {"open_confirmation"})
           /\ Fits(ch, sv, rest, {"open_failure"})
  <1> USE DEF Takes, MayFollow, Opens
  <1>1. /\ ~Idle(ch, sv, said, told) /\ ~AskedByUs(ch, sv, said, told) /\ ~BothUp(ch, sv, said, told)
        /\ ~FreedFirst(ch, sv, said, told) /\ ~ForgottenFirst(ch, sv, said, told)
    BY DEF Idle, AskedByUs, BothUp, FreedFirst, ForgottenFirst, Close, Session!Close, ChanType, Session!ChanType, SrvType
  <1>2. AskedByServer(ch, sv, said, told)
    BY <1>1 DEF Fits
  <1>3. ch = NoChan /\ told = {} /\ said = {h}
    BY <1>2 DEF AskedByServer
  <1>4. rest = {}
    BY <1>3
  <1> QED BY <1>2, <1>3, <1>4 DEF Fits, AskedByServer, NoChan, Session!NoChan

\* A confirmation comes for a channel that is half open: a close that was asked for is sent now.
LEMMA ConfirmationTaken ==
    ASSUME NEW ch \in ChanType, NEW new \in ChanType, NEW sv \in SrvType, NEW said, NEW rest, NEW told,
           Fits(ch, sv, said, told), Takes("open_confirmation", said, rest)
    PROVE  /\ ch.type = "dormant" /\ told = {}
           /\ (new.type = "sock" /\ new.s = ch.s /\ new.sent = ch.sent /\ new.got = ch.got)
                 => Fits(new, sv, rest, IF ch.sent # {} THEN {"close"} ELSE {})
  <1> USE DEF Takes, MayFollow
  <1>1. /\ ~Idle(ch, sv, said, told) /\ ~AskedByServer(ch, sv, said, told) /\ ~BothUp(ch, sv, said, told)
        /\ ~FreedFirst(ch, sv, said, told) /\ ~ForgottenFirst(ch, sv, said, told)
    BY DEF Idle, AskedByServer, BothUp, FreedFirst, ForgottenFirst, Close, Session!Close, ChanType, Session!ChanType, SrvType,
           Opens
  <1>2. AskedByUs(ch, sv, said, told)
    BY <1>1 DEF Fits
  <1>3. /\ ch.type = "dormant" /\ ch.got = {} /\ ch.sent \subseteq {"close"} /\ told = {}
        /\ sv.st = "open" /\ sv.got = {} /\ sv.sent \subseteq {"close"}
        /\ said \ {"data"} = {"open_confirmation"} \cup sv.sent
    BY <1>2 DEF AskedByUs
  <1>4. rest \ {"data"} = sv.sent
    BY <1>3
  <1>5. ASSUME new.type = "sock" /\ new.s = ch.s /\ new.sent = ch.sent /\ new.got = ch.got
        PROVE  BothUp(new, sv, rest, IF ch.sent # {} THEN {"close"} ELSE {})
    BY <1>3, <1>4, <1>5 DEF BothUp, Up, Close, Session!Close
  <1> QED BY <1>3, <1>5 DEF Fits

\* A refusal comes for a channel that is half open, and nothing is left of it.
LEMMA FailureTaken ==
    ASSUME NEW ch \in ChanType, NEW sv \in SrvType, NEW said, NEW rest, NEW told,
           Fits(ch, sv, said, told), Takes("open_failure", said, rest)
    PROVE  ch.type = "dormant" /\ Fits(NoChan, sv, rest, told)
  <1> USE DEF Takes, MayFollow
  <1>1. /\ ~Idle(ch, sv, said, told) /\ ~AskedByServer(ch, sv, said, told) /\ ~BothUp(ch, sv, said, told)
        /\ ~FreedFirst(ch, sv, said, told) /\ ~ForgottenFirst(ch, sv, said, told)
    BY DEF Idle, AskedByServer, BothUp, FreedFirst, ForgottenFirst, Close, Session!Close, ChanType, Session!ChanType, SrvType,
           Opens
  <1>2. AskedByUs(ch, sv, said, told)
    BY <1>1 DEF Fits
  <1>3. ch.type = "dormant" /\ told = {} /\ sv = NoSrv /\ said = {"open_failure"}
    BY <1>2 DEF AskedByUs
  <1> QED BY <1>3 DEF Fits, Idle, NoChan, Session!NoChan

\* A close or its confirmation comes only while the channel is up, and goes back unless it went before; when both have come
\* the channel is freed.
LEMMA CloseTaken ==
    ASSUME NEW ch \in ChanType, NEW new \in ChanType, NEW sv \in SrvType, NEW said, NEW rest, NEW told, NEW t \in Close,
           Fits(ch, sv, said, told), Takes(t, said, rest),
           new.type = ch.type, new.s = FALSE, new.got = ch.got \cup {t}, new.sent = ch.sent \cup {t}
    PROVE  /\ Up(ch) /\ (t \notin ch.sent => t \notin told)
           /\ new.got = Close => new.sent = Close
           /\ (new.got = Close /\ t \in ch.sent) => Fits(NoChan, sv, rest, told)
           /\ (new.got = Close /\ t \notin ch.sent) => Fits(NoChan, sv, rest, told \cup {t})
           /\ (new.got # Close /\ t \in ch.sent) => Fits(new, sv, rest, told)
           /\ (new.got # Close /\ t \notin ch.sent) => Fits(new, sv, rest, told \cup {t})
  <1> USE DEF Takes, MayFollow, Up, Close, Session!Close
  <1> DEFINE told2 == IF t \in ch.sent THEN told ELSE told \cup {t}
  <1>1. ~Idle(ch, sv, said, told) /\ ~AskedByUs(ch, sv, said, told) /\ ~AskedByServer(ch, sv, said, told)
        /\ ~FreedFirst(ch, sv, said, told)
    BY DEF Idle, AskedByUs, AskedByServer, FreedFirst, Opens
  <1>2. ch.got \subseteq Close /\ ch.sent \subseteq Close /\ sv.got \subseteq Close /\ sv.sent \subseteq Close
    BY DEF ChanType, Session!ChanType, SrvType
  <1>3. CASE BothUp(ch, sv, said, told)
    <2>0. /\ ch.got \subseteq ch.sent /\ ch.got \subseteq sv.sent /\ sv.got \subseteq ch.sent
          /\ said \ {"data"} = sv.sent \ ch.got
      BY <1>3 DEF BothUp
    <2>01. t \in sv.sent \ ch.got /\ "data" \notin rest
      BY <2>0
    <2>02. rest = sv.sent \ new.got
      BY <2>0, <2>01
    <2>1. /\ t \in sv.sent \ ch.got /\ new.got \subseteq sv.sent /\ new.got \subseteq new.sent /\ sv.got \subseteq new.sent
          /\ "data" \notin rest /\ rest = sv.sent \ new.got
      BY <2>0, <2>01, <2>02
    <2>2. /\ (t \notin ch.sent => t \notin told) /\ told2 \ {"data"} = new.sent \ sv.got
          /\ ("data" \in told2 => sv.got = {})
      BY <1>2, <1>3 DEF BothUp
    <2>3. new.got = Close => new.sent = Close /\ sv.sent = Close
      BY <1>2, <2>1
    <2>4. new.got # Close => BothUp(new, sv, rest, told2)
      BY <1>3, <2>1, <2>2 DEF BothUp
    <2>5. new.got = Close => FreedFirst(NoChan, sv, rest, told2)
      BY <1>3, <2>1, <2>2, <2>3 DEF BothUp, FreedFirst
    <2> QED BY <1>3, <2>2, <2>3, <2>4, <2>5 DEF Fits, NoChan, Session!NoChan, BothUp
  <1>4. CASE ForgottenFirst(ch, sv, said, told)
    <2>1. /\ Up(ch) /\ sv = NoSrv /\ ch.sent = Close /\ told = {} /\ t \notin ch.got /\ rest = Close \ new.got /\ told2 = {}
          /\ new.sent = Close
      BY <1>2, <1>4 DEF ForgottenFirst
    <2>2. new.got # Close => ForgottenFirst(new, sv, rest, told2)
      BY <2>1 DEF ForgottenFirst
    <2>3. new.got = Close => Idle(NoChan, sv, rest, told2)
      BY <2>1 DEF Idle
    <2> QED BY <2>1, <2>2, <2>3 DEF Fits, NoChan, Session!NoChan
  <1> QED BY <1>1, <1>3, <1>4 DEF Fits

\* A local connection is accepted when neither end has anything of the channel.
LEMMA Accepted ==
    ASSUME NEW new \in ChanType, NEW sv \in SrvType, NEW said, NEW told,
           Fits(NoChan, sv, said, told), sv.st = "none",
           new.type = "dormant", new.sent = {}, new.got = {}
    PROVE  told = {} /\ Fits(new, sv, said, {"port_open"})
  <1>1. Idle(NoChan, sv, said, told)
    BY DEF Fits, AskedByUs, AskedByServer, BothUp, FreedFirst, ForgottenFirst, Up, NoChan, Session!NoChan
  <1> QED BY <1>1 DEF Idle, Fits, AskedByUs

\* The client changes what is not agreed on.
LEMMA Backlogged ==
    ASSUME NEW ch \in ChanType, NEW new \in ChanType, NEW sv, NEW said, NEW told,
           Fits(ch, sv, said, told), ch # NoChan, Alike(ch, new)
    PROVE  Fits(new, sv, said, told)
  BY DEF Fits, Idle, AskedByUs, AskedByServer, BothUp, FreedFirst, ForgottenFirst, Up, Alike

\* The local socket of an open channel ends: a close is sent unless the channel is half open.
LEMMA LocallyClosed ==
    ASSUME NEW ch \in ChanType, NEW new \in ChanType, NEW sv \in SrvType, NEW said, NEW told,
           Fits(ch, sv, said, told), ch.s, new.type = ch.type, new.s = FALSE, new.sent = {"close"}, new.got = ch.got
    PROVE  /\ \A k \in told : MayFollow(k, "close") \/ ch.type = "dormant"
           /\ Fits(new, sv, said, IF ch.type # "dormant" THEN told \cup {"close"} ELSE told)
  <1> USE DEF MayFollow, Up
  <1>1. ch.sent = {} /\ ch.got = {} /\ ch # NoChan
    BY DEF Fits, NoChan, Session!NoChan
  <1>2. CASE AskedByUs(ch, sv, said, told)
    BY <1>1, <1>2 DEF Fits, AskedByUs
  <1>3. CASE AskedByServer(ch, sv, said, told)
    BY <1>1, <1>3 DEF Fits, AskedByServer
  <1>4. CASE BothUp(ch, sv, said, told)
    <2>1. sv.got = {} /\ told \ {"data"} = {}
      BY <1>1, <1>4 DEF BothUp
    <2> QED BY <1>1, <1>4, <2>1 DEF Fits, BothUp, Close, Session!Close
  <1>5. ~Idle(ch, sv, said, told) /\ ~FreedFirst(ch, sv, said, told) /\ ~ForgottenFirst(ch, sv, said, told)
    BY <1>1 DEF Idle, FreedFirst, ForgottenFirst, Close, Session!Close
  <1> QED BY <1>2, <1>3, <1>4, <1>5 DEF Fits

\* Data of an open local socket go out on a channel that is up.
LEMMA LocallySent ==
    ASSUME NEW ch \in ChanType, NEW sv \in SrvType, NEW said, NEW told,
           Fits(ch, sv, said, told), ch.s, Up(ch)
    PROVE  (\A k \in told : MayFollow(k, "data")) /\ Fits(ch, sv, said, told \cup {"data"})
  <1> USE DEF MayFollow, Up
  <1>1. ch.sent = {} /\ ch.got = {} /\ ch # NoChan
    BY DEF Fits, NoChan, Session!NoChan
  <1>2. ~AskedByUs(ch, sv, said, told) /\ ~Idle(ch, sv, said, told) /\ ~FreedFirst(ch, sv, said, told)
        /\ ~ForgottenFirst(ch, sv, said, told)
    BY <1>1 DEF AskedByUs, Idle, FreedFirst, ForgottenFirst, Close, Session!Close
  <1>3. CASE AskedByServer(ch, sv, said, told)
    BY <1>1, <1>3 DEF Fits, AskedByServer
  <1>4. CASE BothUp(ch, sv, said, told)
    <2>1. sv.got = {} /\ told \ {"data"} = {}
      BY <1>1, <1>4 DEF BothUp
    <2> QED BY <1>1, <1>4, <2>1 DEF Fits, BothUp, Close, Session!Close
  <1> QED BY <1>2, <1>3, <1>4 DEF Fits

\* The server knows of a channel only what the client still keeps.
LEMMA Known ==
    ASSUME NEW ch, NEW sv \in SrvType, NEW said, NEW told, Fits(ch, sv, said, told), sv.st = "open", sv.sent # Close
    PROVE  ch.type # "none"
  BY DEF Fits, Idle, AskedByUs, AskedByServer, BothUp, FreedFirst, ForgottenFirst, Up, NoSrv

\* The server takes the request for a channel of the client: it grants or refuses it.
LEMMA SrvAsked ==
    ASSUME NEW ch \in ChanType, NEW new \in SrvType, NEW sv \in SrvType, NEW said, NEW rest, NEW told, NEW h \in Opens,
           Fits(ch, sv, said, told), Takes(h, told, rest)
    PROVE  /\ sv = NoSrv /\ said = {}
           /\ (new.st = "open" /\ new.sent = {} /\ new.got = {}) => Fits(ch, new, {"open_confirmation"}, rest)
           /\ Fits(ch, sv, {"open_failure"}, rest)
  <1> USE DEF Takes, MayFollow, Opens
  <1>1. /\ ~Idle(ch, sv, said, told) /\ ~AskedByServer(ch, sv, said, told) /\ ~BothUp(ch, sv, said, told)
        /\ ~FreedFirst(ch, sv, said, told) /\ ~ForgottenFirst(ch, sv, said, told)
    BY DEF Idle, AskedByServer, BothUp, FreedFirst, ForgottenFirst, Close, Session!Close, ChanType, Session!ChanType, SrvType
  <1>2. AskedByUs(ch, sv, said, told)
    BY <1>1 DEF Fits
  <1>3. sv = NoSrv /\ said = {} /\ told = {h}
    BY <1>2 DEF AskedByUs
  <1>4. rest = {}
    BY <1>3
  <1> QED BY <1>2, <1>3, <1>4 DEF Fits, AskedByUs

\* The server takes the confirmation of a channel that it asked for.
LEMMA SrvConfirmed ==
    ASSUME NEW ch \in ChanType, NEW new \in SrvType, NEW sv \in SrvType, NEW said, NEW rest, NEW told,
           Fits(ch, sv, said, told), Takes("open_confirmation", told, rest),
           new.st = "open", new.sent = sv.sent, new.got = sv.got
    PROVE  Fits(ch, new, said, rest)
  <1> USE DEF Takes, MayFollow
  <1>1. /\ ~Idle(ch, sv, said, told) /\ ~AskedByUs(ch, sv, said, told) /\ ~BothUp(ch, sv, said, told)
        /\ ~FreedFirst(ch, sv, said, told) /\ ~ForgottenFirst(ch, sv, said, told)
    BY DEF Idle, AskedByUs, BothUp, FreedFirst, ForgottenFirst, Close, Session!Close, ChanType, Session!ChanType, SrvType
  <1>2. AskedByServer(ch, sv, said, told)
    BY <1>1 DEF Fits
  <1>3. /\ Up(ch) /\ ch.got = {} /\ ch.sent \subseteq {"close"} /\ said = {} /\ sv.sent = {} /\ sv.got = {}
        /\ told \ {"data"} = {"open_confirmation"} \cup ch.sent
    BY <1>2 DEF AskedByServer
  <1>4. rest \ {"data"} = ch.sent
    BY <1>3
  <1>5. BothUp(ch, new, said, rest)
    BY <1>3, <1>4 DEF BothUp, Close, Session!Close
  <1> QED BY <1>5 DEF Fits

\* The server takes the refusal of a channel that it asked for, and forgets it.
LEMMA SrvRefused ==
    ASSUME NEW ch \in ChanType, NEW new \in SrvType, NEW sv \in SrvType, NEW said, NEW rest, NEW told,
           Fits(ch, sv, said, told), Takes("open_failure", told, rest),
           new = [sv EXCEPT !.st = "none"]
    PROVE  Fits(ch, new, said, rest)
  <1> USE DEF Takes, MayFollow
  <1>1. /\ ~Idle(ch, sv, said, told) /\ ~AskedByUs(ch, sv, said, told) /\ ~BothUp(ch, sv, said, told)
        /\ ~FreedFirst(ch, sv, said, told) /\ ~ForgottenFirst(ch, sv, said, told)
    BY DEF Idle, AskedByUs, BothUp, FreedFirst, ForgottenFirst, Close, Session!Close, ChanType, Session!ChanType, SrvType
  <1>2. AskedByServer(ch, sv, said, told)
    BY <1>1 DEF Fits
  <1>3. ch = NoChan /\ said = {} /\ told = {"open_failure"} /\ sv.sent = {} /\ sv.got = {}
    BY <1>2 DEF AskedByServer
  <1>4. new = NoSrv /\ rest = {}
    BY <1>3 DEF NoSrv, SrvType
  <1> QED BY <1>3, <1>4 DEF Fits, Idle, NoChan, Session!NoChan

\* The server takes data.
LEMMA SrvDataTaken ==
    ASSUME NEW ch \in ChanType, NEW sv \in SrvType, NEW said, NEW rest, NEW told,
           Fits(ch, sv, said, told), Takes("data", told, rest)
    PROVE  Fits(ch, sv, said, rest)
  <1> USE DEF Takes, MayFollow
  <1>1. ~Idle(ch, sv, said, told) /\ ~AskedByUs(ch, sv, said, told) /\ ~AskedByServer(ch, sv, said, told)
        /\ ~ForgottenFirst(ch, sv, said, told)
    BY DEF Idle, AskedByUs, AskedByServer, ForgottenFirst
  <1>2. CASE BothUp(ch, sv, said, told)
    BY <1>2 DEF Fits, BothUp
  <1>3. CASE FreedFirst(ch, sv, said, told)
    BY <1>3 DEF Fits, FreedFirst
  <1> QED BY <1>1, <1>2, <1>3 DEF Fits

\* The server takes a close or its confirmation by the same rules as the client.
LEMMA SrvCloseTaken ==
    ASSUME NEW ch \in ChanType, NEW new \in SrvType, NEW sv \in SrvType, NEW said, NEW rest, NEW told, NEW t \in Close,
           Fits(ch, sv, said, told), Takes(t, told, rest),
           new.st = sv.st, new.got = sv.got \cup {t}, new.sent = sv.sent \cup {t}
    PROVE  /\ t \notin sv.sent => t \notin said
           /\ new.got = Close => new.sent = Close
           /\ (new.got = Close /\ t \in sv.sent) => Fits(ch, NoSrv, said, rest)
           /\ (new.got = Close /\ t \notin sv.sent) => Fits(ch, NoSrv, said \cup {t}, rest)
           /\ (new.got # Close /\ t \in sv.sent) => Fits(ch, new, said, rest)
           /\ (new.got # Close /\ t \notin sv.sent) => Fits(ch, new, said \cup {t}, rest)
  <1> USE DEF Takes, MayFollow, Close, Session!Close
  <1> DEFINE said2 == IF t \in sv.sent THEN said ELSE said \cup {t}
  <1>1. ~Idle(ch, sv, said, told) /\ ~AskedByUs(ch, sv, said, told) /\ ~AskedByServer(ch, sv, said, told)
        /\ ~ForgottenFirst(ch, sv, said, told)
    BY DEF Idle, AskedByUs, AskedByServer, ForgottenFirst, Opens
  <1>2. ch.got \subseteq Close /\ ch.sent \subseteq Close /\ sv.got \subseteq Close /\ sv.sent \subseteq Close
    BY DEF ChanType, Session!ChanType, SrvType
  <1>3. CASE BothUp(ch, sv, said, told)
    <2>0. /\ sv.got \subseteq sv.sent /\ sv.got \subseteq ch.sent /\ ch.got \subseteq sv.sent /\ ch.got # Close
          /\ told \ {"data"} = ch.sent \ sv.got /\ said \ {"data"} = sv.sent \ ch.got
      BY <1>3 DEF BothUp
    <2>1. t \in ch.sent \ sv.got /\ "data" \notin rest
      BY <2>0
    <2>2. rest = ch.sent \ new.got
      BY <2>0, <2>1
    <2>3. /\ new.got \subseteq ch.sent /\ new.got \subseteq new.sent /\ ch.got \subseteq new.sent
          /\ (t \notin sv.sent => t \notin said) /\ said2 \ {"data"} = new.sent \ ch.got
          /\ ("data" \in said2 => ch.got = {})
      BY <1>2, <1>3, <2>0, <2>1 DEF BothUp
    <2>4. new.got = Close => new.sent = Close /\ ch.sent = Close
      BY <1>2, <2>1, <2>3
    <2>5. new.got # Close => BothUp(ch, new, said2, rest)
      BY <1>3, <2>0, <2>1, <2>2, <2>3 DEF BothUp
    <2>6. new.got = Close => ForgottenFirst(ch, NoSrv, said2, rest)
      BY <1>3, <2>0, <2>2, <2>3, <2>4 DEF BothUp, ForgottenFirst
    <2> QED BY <1>3, <2>3, <2>4, <2>5, <2>6 DEF Fits
  <1>4. CASE FreedFirst(ch, sv, said, told)
    <2>1. /\ ch = NoChan /\ sv.st = "open" /\ sv.sent = Close /\ said = {} /\ t \notin sv.got /\ rest = Close \ new.got
          /\ said2 = {} /\ new.sent = Close
      BY <1>2, <1>4 DEF FreedFirst
    <2>2. new.got # Close => FreedFirst(ch, new, said2, rest)
      BY <2>1 DEF FreedFirst
    <2>3. new.got = Close => Idle(ch, NoSrv, said2, rest)
      BY <2>1 DEF Idle
    <2> QED BY <2>1, <2>2, <2>3 DEF Fits, NoChan, Session!NoChan
  <1> QED BY <1>1, <1>3, <1>4 DEF Fits

\* The server opens a channel that neither end knows.
LEMMA SrvOpened ==
    ASSUME NEW sv \in SrvType, NEW new \in SrvType, NEW said, NEW told, NEW t \in Opens,
           Fits(NoChan, sv, said, told), sv.st = "none", new = [sv EXCEPT !.st = "opening"]
    PROVE  said = {} /\ Fits(NoChan, new, {t}, told)
  <1>1. Idle(NoChan, sv, said, told)
    BY DEF Fits, AskedByUs, AskedByServer, BothUp, FreedFirst, ForgottenFirst, Up, NoChan, Session!NoChan
  <1>2. new.st = "opening" /\ new.sent = {} /\ new.got = {}
    BY <1>1 DEF Idle, NoSrv, SrvType
  <1> QED BY <1>1, <1>2 DEF Idle, Fits, AskedByServer

\* The server sends data before it closes.
LEMMA SrvSent ==
    ASSUME NEW ch \in ChanType, NEW sv \in SrvType, NEW said, NEW told,
           Fits(ch, sv, said, told), sv.st = "open", sv.sent = {}
    PROVE  (\A k \in said : MayFollow(k, "data")) /\ Fits(ch, sv, said \cup {"data"}, told)
  <1> USE DEF MayFollow, Close, Session!Close
  <1>1. ~Idle(ch, sv, said, told) /\ ~AskedByServer(ch, sv, said, told) /\ ~FreedFirst(ch, sv, said, told)
        /\ ~ForgottenFirst(ch, sv, said, told)
    BY DEF Idle, AskedByServer, FreedFirst, ForgottenFirst, NoSrv
  <1>2. CASE AskedByUs(ch, sv, said, told)
    BY <1>2 DEF Fits, AskedByUs, NoSrv
  <1>3. CASE BothUp(ch, sv, said, told)
    <2>1. ch.got = {} /\ said \ {"data"} = {}
      BY <1>3 DEF BothUp
    <2> QED BY <1>3, <2>1 DEF Fits, BothUp
  <1> QED BY <1>1, <1>2, <1>3 DEF Fits

\* The server closes, or confirms a close.
LEMMA SrvClosed ==
    ASSUME NEW ch \in ChanType, NEW sv \in SrvType, NEW new \in SrvType, NEW said, NEW told, NEW t \in Close,
           Fits(ch, sv, said, told), sv.st = "open", t \notin sv.sent, t = "close" \/ "close" \in sv.got,
           new.st = sv.st, new.got = sv.got, new.sent = sv.sent \cup {t}
    PROVE  t \notin said /\ Fits(ch, new, said \cup {t}, told)
  <1> USE DEF Close, Session!Close
  <1>1. ~Idle(ch, sv, said, told) /\ ~AskedByServer(ch, sv, said, told) /\ ~FreedFirst(ch, sv, said, told)
        /\ ~ForgottenFirst(ch, sv, said, told)
    BY DEF Idle, AskedByServer, FreedFirst, ForgottenFirst, NoSrv
  <1>2. CASE AskedByUs(ch, sv, said, told)
    <2>1. /\ sv.got = {} /\ t = "close" /\ sv.sent = {} /\ told = {}
          /\ ch.type = "dormant" /\ ch.got = {} /\ ch.sent \subseteq {"close"}
          /\ said \ {"data"} = {"open_confirmation"}
      BY <1>2 DEF AskedByUs, NoSrv
    <2> QED BY <1>2, <2>1 DEF Fits, AskedByUs
  <1>3. CASE BothUp(ch, sv, said, told)
    <2>1. t \notin ch.got /\ t \notin said
      BY <1>3 DEF BothUp
    <2>2. (said \cup {t}) \ {"data"} = new.sent \ ch.got
      BY <1>3, <2>1 DEF BothUp
    <2>3. BothUp(ch, new, said \cup {t}, told)
      BY <1>3, <2>2 DEF BothUp
    <2> QED BY <2>1, <2>3 DEF Fits
  <1> QED BY <1>1, <1>2, <1>3 DEF Fits

-----------------------------------------------------------------------------
(* Steps about one channel *)

\* r says of c what q says and t, and of the other channels what q says.
Adds(q, r, c, t) == Kinds(r, c) = Kinds(q, c) \cup {t} /\ \A d \in Conn : d # c => Kinds(r, d) = Kinds(q, d)
SaysTheSame(q, r) == \A d \in Conn : Kinds(r, d) = Kinds(q, d)

\* A packet about a channel is one that either queue may hold.
LEMMA ChanPkt ==
    ASSUME NEW t \in ChanKinds, NEW c \in Conn
    PROVE  /\ Session!Pkt(t, c) \in ToClientPkt /\ Session!Pkt(t, c) \in ToServerPkt
           /\ Session!Pkt(t, c).t = t /\ Session!Pkt(t, c).c = c
  BY DEF Session!Pkt, ToClientPkt, ToServerPkt

\* What a packet about c changes in the queue of the client.
LEMMA Says ==
    ASSUME NEW q \in Seq(ToClientPkt), NEW c \in Conn, NEW t \in ChanKinds,
           Orderly(q), \A k \in Kinds(q, c) : MayFollow(k, t)
    PROVE  \E r \in Seq(ToClientPkt) :
             /\ r = q \o <<Session!Pkt(t, c)>> /\ Orderly(r) /\ Len(r) = Len(q) + 1 /\ Len(q) \in Nat
             /\ Adds(q, r, c, t)
  <1>1. PICK m \in ToClientPkt : m = Session!Pkt(t, c) /\ m.t = t /\ m.c = c
    <2>1. Session!Pkt(t, c) \in ToClientPkt /\ Session!Pkt(t, c).t = t /\ Session!Pkt(t, c).c = c
      BY ChanPkt
    <2> QED BY <2>1
  <1>3. q \o <<m>> \in Seq(ToClientPkt) /\ Len(q \o <<m>>) = Len(q) + 1 /\ Len(q) \in Nat
    BY Put
  <1>4. Kinds(q \o <<m>>, m.c) = Kinds(q, m.c) \cup {m.t}
    BY Put
  <1>6. ASSUME NEW d, d # m.c PROVE Kinds(q \o <<m>>, d) = Kinds(q, d)
    BY <1>6, Put
  <1>5. (m.c \in Conn => \A k \in Kinds(q, m.c) : MayFollow(k, m.t)) => Orderly(q \o <<m>>)
    BY Put
  <1>7. PICK r \in Seq(ToClientPkt) : r = q \o <<m>>
    BY <1>3
  <1>8. Orderly(r) /\ Len(r) = Len(q) + 1
    BY <1>1, <1>3, <1>5, <1>7
  <1>9. Adds(q, r, c, t)
    BY <1>1, <1>4, <1>6, <1>7 DEF Adds
  <1> QED BY <1>1, <1>3, <1>7, <1>8, <1>9

\* What a packet about c changes in the queue of the server.
LEMMA Tells ==
    ASSUME NEW q \in Seq(ToServerPkt), NEW c \in Conn, NEW t \in ChanKinds,
           Orderly(q), \A k \in Kinds(q, c) : MayFollow(k, t)
    PROVE  \E r \in Seq(ToServerPkt) :
             /\ r = q \o <<Session!Pkt(t, c)>> /\ Orderly(r) /\ Len(r) = Len(q) + 1 /\ Len(q) \in Nat
             /\ Adds(q, r, c, t)
  <1>1. PICK m \in ToServerPkt : m = Session!Pkt(t, c) /\ m.t = t /\ m.c = c
    <2>1. Session!Pkt(t, c) \in ToServerPkt /\ Session!Pkt(t, c).t = t /\ Session!Pkt(t, c).c = c
      BY ChanPkt
    <2> QED BY <2>1
  <1>3. q \o <<m>> \in Seq(ToServerPkt) /\ Len(q \o <<m>>) = Len(q) + 1 /\ Len(q) \in Nat
    BY Put
  <1>4. Kinds(q \o <<m>>, m.c) = Kinds(q, m.c) \cup {m.t}
    BY Put
  <1>6. ASSUME NEW d, d # m.c PROVE Kinds(q \o <<m>>, d) = Kinds(q, d)
    BY <1>6, Put
  <1>5. (m.c \in Conn => \A k \in Kinds(q, m.c) : MayFollow(k, m.t)) => Orderly(q \o <<m>>)
    BY Put
  <1>7. PICK r \in Seq(ToServerPkt) : r = q \o <<m>>
    BY <1>3
  <1>8. Orderly(r) /\ Len(r) = Len(q) + 1
    BY <1>1, <1>3, <1>5, <1>7
  <1>9. Adds(q, r, c, t)
    BY <1>1, <1>4, <1>6, <1>7 DEF Adds
  <1> QED BY <1>1, <1>3, <1>7, <1>8, <1>9

\* A packet about no channel changes nothing of what is said about channels.
LEMMA SaysAside ==
    ASSUME NEW q \in Seq(ToClientPkt), NEW m \in ToClientPkt, m.c = None, Orderly(q)
    PROVE  \E r \in Seq(ToClientPkt) :
             /\ r = q \o <<m>> /\ Orderly(r) /\ Len(r) = Len(q) + 1 /\ Len(q) \in Nat
             /\ SaysTheSame(q, r)
  <1>1. q \o <<m>> \in Seq(ToClientPkt) /\ Len(q \o <<m>>) = Len(q) + 1 /\ Len(q) \in Nat
    BY Put
  <1>2. /\ Kinds(q \o <<m>>, m.c) = Kinds(q, m.c) \cup {m.t}
        /\ \A d : d # m.c => Kinds(q \o <<m>>, d) = Kinds(q, d)
    BY Put
  <1>3. (m.c \in Conn => \A k \in Kinds(q, m.c) : MayFollow(k, m.t)) => Orderly(q \o <<m>>)
    BY Put
  <1>4. None \notin Conn
    BY ConstAssumption
  <1>5. PICK r \in Seq(ToClientPkt) : r = q \o <<m>>
    BY <1>1
  <1>6. Orderly(r) /\ Len(r) = Len(q) + 1 /\ SaysTheSame(q, r)
    BY <1>1, <1>2, <1>3, <1>4, <1>5 DEF SaysTheSame
  <1> QED BY <1>1, <1>5, <1>6

\* The same in the queue of the server.
LEMMA TellsAside ==
    ASSUME NEW q \in Seq(ToServerPkt), NEW m \in ToServerPkt, m.c = None, Orderly(q)
    PROVE  \E r \in Seq(ToServerPkt) :
             /\ r = q \o <<m>> /\ Orderly(r) /\ Len(r) = Len(q) + 1 /\ Len(q) \in Nat
             /\ SaysTheSame(q, r)
  <1>1. q \o <<m>> \in Seq(ToServerPkt) /\ Len(q \o <<m>>) = Len(q) + 1 /\ Len(q) \in Nat
    BY Put
  <1>2. /\ Kinds(q \o <<m>>, m.c) = Kinds(q, m.c) \cup {m.t}
        /\ \A d : d # m.c => Kinds(q \o <<m>>, d) = Kinds(q, d)
    BY Put
  <1>3. (m.c \in Conn => \A k \in Kinds(q, m.c) : MayFollow(k, m.t)) => Orderly(q \o <<m>>)
    BY Put
  <1>4. None \notin Conn
    BY ConstAssumption
  <1>5. PICK r \in Seq(ToServerPkt) : r = q \o <<m>>
    BY <1>1
  <1>6. Orderly(r) /\ Len(r) = Len(q) + 1 /\ SaysTheSame(q, r)
    BY <1>1, <1>2, <1>3, <1>4, <1>5 DEF SaysTheSame
  <1> QED BY <1>1, <1>5, <1>6

\* The client takes a packet.
LEMMA ClientTakes ==
    ASSUME SessionInv, Session!Take
    PROVE  /\ Running /\ Ends /\ srv' = srv
           /\ \E h \in ToClientPkt, r \in Seq(ToClientPkt) :
                /\ h = Session!P /\ toClient' = r /\ Orderly(r) /\ inHand' \in 0 .. Len(r)
                /\ \A d \in Conn : d # h.c => Kinds(r, d) = Kinds(toClient, d)
                /\ h.c \in Conn => Takes(h.t, Kinds(toClient, h.c), Kinds(r, h.c))
  <1>1. /\ Running /\ Ends /\ srv' = srv /\ Orderly(toClient) /\ toClient \in Seq(ToClientPkt)
        /\ inHand \in 0 .. Len(toClient) /\ inHand > 0 /\ toClient' = Tail(toClient) /\ inHand' = inHand - 1
    BY DEF SessionInv, SessionTyped, Session!TypeOK, Session!Take, Running, Ends
  <1>2. toClient # <<>>
    BY <1>1
  <1>3. PICK h \in ToClientPkt : h = Head(toClient)
    <2>1. Head(toClient) \in ToClientPkt
      BY <1>1, <1>2, Taken
    <2> QED BY <2>1
  <1>4. PICK r \in Seq(ToClientPkt) : r = Tail(toClient)
    <2>1. Tail(toClient) \in Seq(ToClientPkt)
      BY <1>1, <1>2, Taken
    <2> QED BY <2>1
  <1>5. Len(r) = Len(toClient) - 1 /\ Len(toClient) \in Nat \ {0} /\ Orderly(r)
    BY <1>1, <1>2, <1>4, Taken
  <1>6. ASSUME NEW d \in Conn
        PROVE  Kinds(r, d) \subseteq Kinds(toClient, d)
               /\ Kinds(toClient, d) \subseteq Kinds(r, d) \cup (IF d = h.c THEN {h.t} ELSE {})
    BY <1>1, <1>2, <1>3, <1>4, Taken
  <1>7. h.c \in Conn => h.t \in Kinds(toClient, h.c) /\ \A k \in Kinds(r, h.c) : MayFollow(h.t, k)
    BY <1>1, <1>2, <1>3, <1>4, Taken
  <1>8. h.c \in Conn => Takes(h.t, Kinds(toClient, h.c), Kinds(r, h.c))
    BY <1>6, <1>7 DEF Takes
  <1>9. inHand' \in 0 .. Len(r)
    BY <1>1, <1>5
  <1>10. \A d \in Conn : d # h.c => Kinds(r, d) = Kinds(toClient, d)
    BY <1>6
  <1> QED BY <1>1, <1>3, <1>4, <1>5, <1>8, <1>9, <1>10 DEF Session!P

\* The server takes a packet.
LEMMA ServerTakes ==
    ASSUME SessionInv, Running, toServer # <<>>, toServer' = Tail(toServer)
    PROVE  \E h \in ToServerPkt, r \in Seq(ToServerPkt) :
                /\ h = Head(toServer) /\ toServer' = r /\ Orderly(r)
                /\ \A d \in Conn : d # h.c => Kinds(r, d) = Kinds(toServer, d)
                /\ h.c \in Conn => Takes(h.t, Kinds(toServer, h.c), Kinds(r, h.c))
  <1>1. Orderly(toServer) /\ toServer \in Seq(ToServerPkt)
    BY DEF SessionInv, SessionTyped, Running, Ends
  <1>3. PICK h \in ToServerPkt : h = Head(toServer)
    <2>1. Head(toServer) \in ToServerPkt
      BY <1>1, Taken
    <2> QED BY <2>1
  <1>4. PICK r \in Seq(ToServerPkt) : r = Tail(toServer)
    <2>1. Tail(toServer) \in Seq(ToServerPkt)
      BY <1>1, Taken
    <2> QED BY <2>1
  <1>5. Orderly(r)
    BY <1>1, <1>4, Taken
  <1>6. ASSUME NEW d \in Conn
        PROVE  Kinds(r, d) \subseteq Kinds(toServer, d)
               /\ Kinds(toServer, d) \subseteq Kinds(r, d) \cup (IF d = h.c THEN {h.t} ELSE {})
    BY <1>1, <1>3, <1>4, Taken
  <1>7. h.c \in Conn => h.t \in Kinds(toServer, h.c) /\ \A k \in Kinds(r, h.c) : MayFollow(h.t, k)
    BY <1>1, <1>3, <1>4, Taken
  <1>8. h.c \in Conn => Takes(h.t, Kinds(toServer, h.c), Kinds(r, h.c))
    BY <1>6, <1>7 DEF Takes
  <1>10. \A d \in Conn : d # h.c => Kinds(r, d) = Kinds(toServer, d)
    BY <1>6
  <1> QED BY <1>3, <1>4, <1>5, <1>8, <1>10

Quiet == UNCHANGED <<phase, state, why, enabled, termSize, ptySize, sizeNeeded>>
\* Nothing changes but for c.
Elsewhere(c) ==
    \A d \in Conn \ {c} :
        /\ chan'[d] = chan[d] /\ srv'[d] = srv[d]
        /\ Kinds(toClient', d) = Kinds(toClient, d) /\ Kinds(toServer', d) = Kinds(toServer, d)
WellTyped ==
    /\ chan \in [Conn -> ChanType] /\ srv \in [Conn -> SrvType]
    /\ toClient \in Seq(ToClientPkt) /\ toServer \in Seq(ToServerPkt)
    /\ inHand \in 0 .. Len(toClient) /\ count \in Nat /\ leaked \in Nat

\* A step about c keeps the invariant when it keeps the two ends of c in agreement, the queues in order and the count right.
LEMMA ChannelStep ==
    ASSUME SessionInv, Running, Quiet, NEW c \in Conn, Elsewhere(c), WellTyped',
           Orderly(toClient'), Orderly(toServer'), Throttled',
           Fits(chan'[c], srv'[c], Kinds(toClient', c), Kinds(toServer', c))
    PROVE  SessionInv'
  <1>1. SessionTyped'
    BY DEF SessionInv, SessionTyped, Session!TypeOK, WellTyped, Quiet, ChanType, SrvType, Close
  <1>2. SizeKept' /\ Session!NoBadClose' /\ why' = "none"
    BY DEF SessionInv, SizeKept, Session!SizeKnown, Session!NoBadClose, Quiet, Ends
  <1>3. \A d \in Conn : Fits(chan'[d], srv'[d], Kinds(toClient', d), Kinds(toServer', d))
    <2>1. ASSUME NEW d \in Conn \ {c} PROVE Fits(chan'[d], srv'[d], Kinds(toClient', d), Kinds(toServer', d))
      <3>1. Fits(chan[d], srv[d], Kinds(toClient, d), Kinds(toServer, d))
        BY DEF SessionInv, Ends, Agree
      <3> QED BY <2>1, <3>1 DEF Elsewhere
    <2> QED BY <2>1
  <1>4. Session!ServerKnown'
    <2>1. ASSUME NEW d \in Conn, srv'[d].st = "open", srv'[d].sent # Close PROVE chan'[d].type # "none"
      <3>1. Fits(chan'[d], srv'[d], Kinds(toClient', d), Kinds(toServer', d)) /\ srv'[d] \in SrvType
        BY <1>3 DEF WellTyped
      <3> QED BY <2>1, <3>1, Known
    <2> QED BY <2>1 DEF Session!ServerKnown, Close
  <1>5. Ends'
    BY <1>2, <1>3 DEF Ends, Agree
  <1> QED BY <1>1, <1>2, <1>4, <1>5 DEF SessionInv

\* The two instances of FiniteSets count alike.
LEMMA SameCardinality == \A S : Session!Cardinality(S) = Cardinality(S)
  BY DEF Session!Cardinality, Cardinality

\* The count follows the channels that throttle.
LEMMA Counted ==
    ASSUME SessionInv, NEW c \in Conn, chan' \in [Conn -> ChanType], \A d \in Conn \ {c} : chan'[d] = chan[d],
           chan'[c].throttling => Up(chan'[c]),
           \/ chan'[c].throttling = chan[c].throttling /\ count' = count /\ leaked' = leaked
           \/ chan'[c].throttling /\ ~chan[c].throttling /\ count' = count + 1 /\ leaked' = leaked
           \/ ~chan'[c].throttling /\ chan[c].throttling /\ count' = count - 1 /\ leaked' = leaked
           \/ ~chan'[c].throttling /\ chan[c].throttling /\ count' = count /\ leaked' = leaked + 1
    PROVE  Throttled' /\ count' \in Nat /\ leaked' \in Nat
  <1> DEFINE Those(f) == {d \in Conn : f[d].throttling}
  <1>1. /\ count = Cardinality(Those(chan)) + leaked /\ count \in Nat /\ leaked \in Nat /\ chan \in [Conn -> ChanType]
        /\ \A d \in Conn : chan[d].throttling => Up(chan[d])
    <2>1. count \in Nat /\ leaked \in Nat /\ chan \in [Conn -> ChanType]
      BY DEF SessionInv, SessionTyped, Session!TypeOK, ChanType
    <2>2. count = Cardinality(Those(chan)) + leaked
      BY SameCardinality DEF SessionInv, Throttled, Session!ThrottleCounted
    <2> QED BY <2>1, <2>2 DEF SessionInv, Throttled
  <1>2. IsFiniteSet(Those(chan)) /\ Cardinality(Those(chan)) \in Nat
    BY ConstAssumption, FS_Subset, FS_CardinalityType
  <1>3. \A d \in Conn : chan'[d].throttling => Up(chan'[d])
    BY <1>1
  <1>4. \A d \in Conn : chan[d].throttling \in BOOLEAN /\ chan'[d].throttling \in BOOLEAN
    BY <1>1 DEF ChanType, Session!ChanType
  <1>5. CASE chan'[c].throttling = chan[c].throttling
    <2>1. Those(chan') = Those(chan)
      BY <1>5
    <2>2. count' = count /\ leaked' = leaked
      BY <1>4, <1>5
    <2>3. count' = Cardinality(Those(chan')) + leaked'
      BY <1>1, <2>1, <2>2
    <2>4. Session!ThrottleCounted'
      BY <2>3, SameCardinality DEF Session!ThrottleCounted
    <2> QED BY <1>1, <1>3, <2>2, <2>4 DEF Throttled
  <1>6. CASE chan'[c].throttling /\ ~chan[c].throttling
    <2>1. Those(chan') = Those(chan) \cup {c} /\ c \notin Those(chan)
      BY <1>6
    <2>2. Cardinality(Those(chan) \cup {c}) = Cardinality(Those(chan)) + 1
      BY <1>2, <2>1, FS_AddElement
    <2>3. count' = count + 1 /\ leaked' = leaked
      BY <1>4, <1>6
    <2>4. count' = Cardinality(Those(chan')) + leaked'
      <3>1. PICK n \in Nat : n = Cardinality(Those(chan))
        BY <1>2
      <3>2. count = n + leaked /\ Cardinality(Those(chan')) = n + 1
        BY <1>1, <2>1, <2>2, <3>1
      <3> QED BY <1>1, <2>3, <3>2
    <2>5. Session!ThrottleCounted'
      BY <2>4, SameCardinality DEF Session!ThrottleCounted
    <2> QED BY <1>1, <1>3, <2>3, <2>5 DEF Throttled
  <1>7. CASE ~chan'[c].throttling /\ chan[c].throttling
    <2>1. Those(chan') = Those(chan) \ {c} /\ c \in Those(chan)
      BY <1>7
    <2>2. Cardinality(Those(chan) \ {c}) = Cardinality(Those(chan)) - 1 /\ Cardinality(Those(chan) \ {c}) \in Nat
      BY <1>2, <2>1, FS_RemoveElement, FS_Subset, FS_CardinalityType
    <2>3. (count' = count - 1 /\ leaked' = leaked) \/ (count' = count /\ leaked' = leaked + 1)
      BY <1>4, <1>7
    <2>4. count' = Cardinality(Those(chan')) + leaked' /\ count' \in Nat /\ leaked' \in Nat
      <3>1. PICK n \in Nat : n = Cardinality(Those(chan))
        BY <1>2
      <3>2. count = n + leaked /\ Cardinality(Those(chan')) = n - 1 /\ n - 1 \in Nat
        BY <1>1, <2>1, <2>2, <3>1
      <3> QED BY <1>1, <2>3, <3>2
    <2>5. Session!ThrottleCounted'
      BY <2>4, SameCardinality DEF Session!ThrottleCounted
    <2> QED BY <1>3, <2>4, <2>5 DEF Throttled
  <1> QED BY <1>4, <1>5, <1>6, <1>7

\* What the invariant says of a session that runs.
LEMMA Parts ==
    ASSUME SessionInv, Running
    PROVE  /\ WellTyped /\ Orderly(toClient) /\ Orderly(toServer)
           /\ \A c \in Conn : Fits(chan[c], srv[c], Kinds(toClient, c), Kinds(toServer, c))
           /\ \A c \in Conn : chan[c].throttling => Up(chan[c])
  BY DEF SessionInv, SessionTyped, Session!TypeOK, WellTyped, Ends, Agree, Throttled, ChanType, SrvType, Close

\* A local connection is accepted.
LEMMA AcceptStep == ASSUME SessionInv, NEW c \in Conn, Session!Accept(c) PROVE SessionInv'
  <1>1. CASE state # "session"
    <2>1. /\ state' = "crashed" /\ why' = "accept" /\ inHand' = inHand /\ toClient' = toClient /\ srv' = srv
          /\ chan' = chan /\ toServer' = toServer /\ phase' = phase /\ enabled' = enabled /\ count' = count
          /\ leaked' = leaked /\ termSize' = termSize /\ ptySize' = ptySize /\ sizeNeeded' = sizeNeeded
      BY <1>1 DEF Session!Accept, Session!End, Session!sizes
    <2>2. SessionTyped'
      BY <2>1 DEF SessionInv, SessionTyped, Session!TypeOK
    <2>3. SizeKept' /\ Throttled' /\ Session!NoBadClose' /\ Session!ServerKnown' /\ ~Running'
      BY <2>1 DEF SessionInv, SizeKept, Session!SizeKnown, Throttled, Session!ThrottleCounted, Session!NoBadClose,
                  Session!ServerKnown, Running
    <2> QED BY <2>2, <2>3 DEF SessionInv
  <1>2. CASE state = "session"
    <2>1. /\ Running /\ Quiet /\ inHand' = inHand /\ toClient' = toClient /\ srv' = srv /\ count' = count /\ leaked' = leaked
          /\ chan' = [chan EXCEPT ![c] = [Session!NoChan EXCEPT !.type = "dormant", !.s = TRUE]]
          /\ toServer' = toServer \o <<Session!Pkt("port_open", c)>> /\ chan[c] = NoChan /\ srv[c].st = "none"
      BY <1>2 DEF Session!Accept, Session!Send, Session!sizes, Quiet, Running, NoChan
    <2>2. WellTyped /\ Orderly(toClient) /\ Orderly(toServer)
          /\ Fits(chan[c], srv[c], Kinds(toClient, c), Kinds(toServer, c))
      BY <2>1, Parts
    <2>3. PICK new \in ChanType : /\ new = [Session!NoChan EXCEPT !.type = "dormant", !.s = TRUE]
                                  /\ new.type = "dormant" /\ new.sent = {} /\ new.got = {} /\ new.throttling = FALSE
      <3>1. [Session!NoChan EXCEPT !.type = "dormant", !.s = TRUE] \in ChanType
        <4>1. 0 \in 0 .. MaxUnits
          BY ConstAssumption
        <4> QED BY <4>1 DEF ChanType, Session!ChanType, Session!NoChan
      <3> QED BY <3>1 DEF Session!NoChan
    <2>4. chan' \in [Conn -> ChanType] /\ chan'[c] = new /\ \A d \in Conn \ {c} : chan'[d] = chan[d]
      BY <2>1, <2>2, <2>3 DEF WellTyped
    <2>5. Kinds(toServer, c) = {} /\ Fits(new, srv[c], Kinds(toClient, c), {"port_open"})
      BY <2>1, <2>2, <2>3, Accepted DEF WellTyped
    <2>6. /\ toServer' \in Seq(ToServerPkt) /\ Orderly(toServer') /\ Kinds(toServer', c) = {"port_open"}
          /\ \A d \in Conn : d # c => Kinds(toServer', d) = Kinds(toServer, d)
      <3>1. "port_open" \in ChanKinds /\ \A k \in Kinds(toServer, c) : MayFollow(k, "port_open")
        BY <2>5 DEF ChanKinds, Opens
      <3>2. toServer \in Seq(ToServerPkt) /\ Orderly(toServer) /\ toServer' = toServer \o <<Session!Pkt("port_open", c)>>
        BY <2>1, <2>2 DEF WellTyped
      <3>3. PICK r \in Seq(ToServerPkt) :
              r = toServer \o <<Session!Pkt("port_open", c)>> /\ Orderly(r) /\ Adds(toServer, r, c, "port_open")
        BY <3>1, <3>2, Tells
      <3>4. toServer' = r
        BY <3>1, <3>2, <3>3
      <3> QED BY <2>5, <3>3, <3>4 DEF Adds
    <2>7. Throttled' /\ count' \in Nat /\ leaked' \in Nat
      <3>1. chan[c].throttling = FALSE
        BY <2>1 DEF NoChan, Session!NoChan
      <3> QED BY <2>1, <2>3, <2>4, <3>1, Counted
    <2>8. WellTyped' /\ Elsewhere(c)
      BY <2>1, <2>2, <2>4, <2>6, <2>7 DEF WellTyped, Elsewhere
    <2>9. Orderly(toClient') /\ Fits(chan'[c], srv'[c], Kinds(toClient', c), Kinds(toServer', c))
      BY <2>1, <2>2, <2>4, <2>5, <2>6
    <2> QED BY <2>1, <2>6, <2>7, <2>8, <2>9, ChannelStep
  <1> QED BY <1>1, <1>2

\* A local socket ends.
LEMMA LocalCloseStep == ASSUME SessionInv, NEW c \in Conn, Session!LocalClose(c) PROVE SessionInv'
  <1>1. /\ Running /\ Quiet /\ inHand' = inHand /\ toClient' = toClient /\ srv' = srv /\ count' = count /\ leaked' = leaked
        /\ chan' = [chan EXCEPT ![c].s = FALSE, ![c].sent = {"close"}, ![c].buffered = 0] /\ chan[c].s
        /\ toServer' = toServer \o IF chan[c].type # "dormant" THEN <<Session!Pkt("close", c)>> ELSE <<>>
    BY DEF Session!LocalClose, Session!Send, Session!sizes, Quiet, Running
  <1>2. WellTyped /\ Orderly(toClient) /\ Orderly(toServer)
        /\ Fits(chan[c], srv[c], Kinds(toClient, c), Kinds(toServer, c))
        /\ (chan[c].throttling => Up(chan[c]))
    BY <1>1, Parts
  <1>3. PICK new \in ChanType : /\ new = [chan[c] EXCEPT !.s = FALSE, !.sent = {"close"}, !.buffered = 0]
                                /\ new.type = chan[c].type /\ new.s = FALSE /\ new.sent = {"close"} /\ new.got = chan[c].got
                                /\ new.throttling = chan[c].throttling
    <2>1. chan[c] \in ChanType
      BY <1>2 DEF WellTyped
    <2>2. [chan[c] EXCEPT !.s = FALSE, !.sent = {"close"}, !.buffered = 0] \in ChanType
      <3>1. 0 \in 0 .. MaxUnits /\ {"close"} \subseteq Session!Close
        BY ConstAssumption DEF Session!Close
      <3> QED BY <2>1, <3>1 DEF ChanType, Session!ChanType
    <2> QED BY <2>1, <2>2 DEF ChanType, Session!ChanType
  <1>4. chan' \in [Conn -> ChanType] /\ chan'[c] = new /\ \A d \in Conn \ {c} : chan'[d] = chan[d]
    BY <1>1, <1>2, <1>3 DEF WellTyped
  <1>5. /\ chan[c].type # "dormant" => \A k \in Kinds(toServer, c) : MayFollow(k, "close")
        /\ Fits(new, srv[c], Kinds(toClient, c),
                IF chan[c].type # "dormant" THEN Kinds(toServer, c) \cup {"close"} ELSE Kinds(toServer, c))
    BY <1>1, <1>2, <1>3, LocallyClosed DEF WellTyped
  <1>6. /\ toServer' \in Seq(ToServerPkt) /\ Orderly(toServer')
        /\ Kinds(toServer', c) = IF chan[c].type # "dormant" THEN Kinds(toServer, c) \cup {"close"} ELSE Kinds(toServer, c)
        /\ \A d \in Conn : d # c => Kinds(toServer', d) = Kinds(toServer, d)
    <2>1. CASE chan[c].type # "dormant"
      <3>1. "close" \in ChanKinds /\ toServer' = toServer \o <<Session!Pkt("close", c)>>
        BY <1>1, <2>1 DEF ChanKinds
      <3>2. toServer \in Seq(ToServerPkt) /\ Orderly(toServer) /\ \A k \in Kinds(toServer, c) : MayFollow(k, "close")
        BY <1>2, <1>5, <2>1 DEF WellTyped
      <3>3. PICK r \in Seq(ToServerPkt) :
              r = toServer \o <<Session!Pkt("close", c)>> /\ Orderly(r) /\ Adds(toServer, r, c, "close")
        BY <3>1, <3>2, Tells
      <3>4. toServer' = r
        BY <3>1, <3>2, <3>3
      <3> QED BY <2>1, <3>3, <3>4 DEF Adds
    <2>2. CASE chan[c].type = "dormant"
      <3>1. toServer' = toServer
        BY <1>1, <1>2, <2>2 DEF WellTyped
      <3> QED BY <1>2, <2>2, <3>1 DEF WellTyped
    <2> QED BY <2>1, <2>2
  <1>7. Throttled' /\ count' \in Nat /\ leaked' \in Nat
    <2>1. chan'[c].throttling = chan[c].throttling /\ (chan'[c].throttling => Up(chan'[c]))
      BY <1>2, <1>3, <1>4 DEF Up
    <2> QED BY <1>1, <1>4, <2>1, Counted
  <1>8. WellTyped' /\ Elsewhere(c)
    BY <1>1, <1>2, <1>4, <1>6, <1>7 DEF WellTyped, Elsewhere
  <1>9. Orderly(toClient') /\ Fits(chan'[c], srv'[c], Kinds(toClient', c), Kinds(toServer', c))
    BY <1>1, <1>2, <1>4, <1>5, <1>6
  <1> QED BY <1>1, <1>6, <1>7, <1>8, <1>9, ChannelStep

\* A local socket has data.
LEMMA LocalDataStep == ASSUME SessionInv, NEW c \in Conn, Session!LocalData(c) PROVE SessionInv'
  <1>1. /\ Running /\ Quiet /\ inHand' = inHand /\ toClient' = toClient /\ srv' = srv /\ count' = count /\ leaked' = leaked
        /\ chan' = chan /\ chan[c].s /\ chan[c].type \in {"sock", "x11"}
        /\ toServer' = toServer \o <<Session!Pkt("data", c)>>
    BY DEF Session!LocalData, Session!Send, Session!sizes, Session!client, Quiet, Running
  <1>2. WellTyped /\ Orderly(toClient) /\ Orderly(toServer)
        /\ Fits(chan[c], srv[c], Kinds(toClient, c), Kinds(toServer, c))
    BY <1>1, Parts
  <1>3. /\ \A k \in Kinds(toServer, c) : MayFollow(k, "data")
        /\ Fits(chan[c], srv[c], Kinds(toClient, c), Kinds(toServer, c) \cup {"data"})
    <2>1. Up(chan[c]) /\ chan[c] \in ChanType /\ srv[c] \in SrvType
      BY <1>1, <1>2 DEF Up, WellTyped
    <2> QED BY <1>1, <1>2, <2>1, LocallySent
  <1>4. /\ toServer' \in Seq(ToServerPkt) /\ Orderly(toServer') /\ Kinds(toServer', c) = Kinds(toServer, c) \cup {"data"}
        /\ \A d \in Conn : d # c => Kinds(toServer', d) = Kinds(toServer, d)
    <2>1. "data" \in ChanKinds
      BY DEF ChanKinds
    <2>2. /\ toServer \in Seq(ToServerPkt) /\ Orderly(toServer) /\ \A k \in Kinds(toServer, c) : MayFollow(k, "data")
          /\ toServer' = toServer \o <<Session!Pkt("data", c)>>
      BY <1>1, <1>2, <1>3 DEF WellTyped
    <2>3. PICK r \in Seq(ToServerPkt) :
            r = toServer \o <<Session!Pkt("data", c)>> /\ Orderly(r) /\ Adds(toServer, r, c, "data")
      BY <2>1, <2>2, Tells
    <2>4. toServer' = r
      BY <2>2, <2>3
    <2> QED BY <2>3, <2>4 DEF Adds
  <1>5. Throttled'
    BY <1>1 DEF SessionInv, Throttled, Session!ThrottleCounted
  <1>6. WellTyped' /\ Elsewhere(c)
    BY <1>1, <1>2, <1>4 DEF WellTyped, Elsewhere
  <1>7. Orderly(toClient') /\ Fits(chan'[c], srv'[c], Kinds(toClient', c), Kinds(toServer', c))
    BY <1>1, <1>2, <1>3, <1>4
  <1> QED BY <1>1, <1>4, <1>5, <1>6, <1>7, ChannelStep

\* A local socket takes some of its backlog.
LEMMA LocalSentStep == ASSUME SessionInv, NEW c \in Conn, Session!LocalSent(c) PROVE SessionInv'
  <1>1. /\ Running /\ Quiet /\ inHand' = inHand /\ toClient' = toClient /\ srv' = srv /\ leaked' = leaked
        /\ toServer' = toServer /\ chan[c].buffered > 0
    BY DEF Session!LocalSent, Session!sizes, Quiet, Running
  <1>2. WellTyped /\ Orderly(toClient) /\ Orderly(toServer)
        /\ Fits(chan[c], srv[c], Kinds(toClient, c), Kinds(toServer, c))
        /\ (chan[c].throttling => Up(chan[c]))
    BY <1>1, Parts
  <1>3. PICK size \in 0 .. chan[c].buffered - 1 :
          /\ chan' = [chan EXCEPT ![c].buffered = size, ![c].throttling = @ /\ ~Session!Releases(c, size)]
          /\ count' = IF Session!Releases(c, size) THEN count - 1 ELSE count
    BY DEF Session!LocalSent
  <1>4. chan[c] \in ChanType /\ chan[c] # NoChan
    BY <1>1, <1>2 DEF WellTyped, NoChan, Session!NoChan
  <1>5. chan[c].throttling \in BOOLEAN /\ (Session!Releases(c, size) => chan[c].throttling)
        /\ Session!Releases(c, size) \in BOOLEAN
    BY <1>4 DEF Session!Releases, ChanType, Session!ChanType
  <1>6. PICK kept \in BOOLEAN : kept <=> (chan[c].throttling /\ ~Session!Releases(c, size))
    OBVIOUS
  <1>7. chan' = [chan EXCEPT ![c] = [chan[c] EXCEPT !.buffered = size, !.throttling = kept]]
    BY <1>2, <1>3, <1>5, <1>6 DEF WellTyped
  <1>8. PICK new \in ChanType : /\ new = [chan[c] EXCEPT !.buffered = size, !.throttling = kept]
                                /\ Alike(chan[c], new) /\ new.throttling = kept
    <2>1. [chan[c] EXCEPT !.buffered = size, !.throttling = kept] \in ChanType
      <3>1. chan[c].buffered \in 0 .. MaxUnits /\ size \in 0 .. MaxUnits
        BY <1>4, ConstAssumption DEF ChanType, Session!ChanType
      <3> QED BY <1>4, <3>1 DEF ChanType, Session!ChanType
    <2> QED BY <1>4, <2>1 DEF ChanType, Session!ChanType, Alike
  <1>9. chan' \in [Conn -> ChanType] /\ chan'[c] = new /\ \A d \in Conn \ {c} : chan'[d] = chan[d]
    BY <1>2, <1>7, <1>8 DEF WellTyped
  <1>10. Throttled' /\ count' \in Nat /\ leaked' \in Nat
    <2>1. chan'[c].throttling => Up(chan'[c])
      BY <1>2, <1>6, <1>8, <1>9 DEF Alike, Up
    <2>2. CASE Session!Releases(c, size)
      <3>1. ~chan'[c].throttling /\ chan[c].throttling /\ count' = count - 1
        BY <1>3, <1>5, <1>6, <1>8, <1>9, <2>2
      <3> QED BY <1>1, <1>9, <2>1, <3>1, Counted
    <2>3. CASE ~Session!Releases(c, size)
      <3>1. chan'[c].throttling = chan[c].throttling /\ count' = count
        BY <1>3, <1>5, <1>6, <1>8, <1>9, <2>3
      <3> QED BY <1>1, <1>9, <2>1, <3>1, Counted
    <2> QED BY <2>2, <2>3
  <1>11. WellTyped' /\ Elsewhere(c)
    BY <1>1, <1>2, <1>9, <1>10 DEF WellTyped, Elsewhere
  <1>12. Orderly(toClient') /\ Orderly(toServer') /\ Fits(chan'[c], srv'[c], Kinds(toClient', c), Kinds(toServer', c))
    <2>1. Fits(new, srv[c], Kinds(toClient, c), Kinds(toServer, c))
      BY <1>2, <1>4, <1>8, Backlogged
    <2> QED BY <1>1, <1>2, <1>9, <2>1
  <1> QED BY <1>1, <1>10, <1>11, <1>12, ChannelStep

\* The server opens a channel.
LEMMA SrvOpenStep == ASSUME SessionInv, NEW c \in Conn, Session!SrvOpen(c) PROVE SessionInv'
  <1>1. /\ Running /\ Quiet /\ inHand' = inHand /\ toServer' = toServer /\ chan' = chan /\ count' = count /\ leaked' = leaked
        /\ srv' = [srv EXCEPT ![c].st = "opening"] /\ chan[c] = NoChan /\ srv[c].st = "none"
    BY DEF Session!SrvOpen, Session!client, Session!sizes, Quiet, Running, Session!Running, NoChan
  <1>2. PICK t \in Opens : toClient' = toClient \o <<Session!Pkt(t, c)>>
    BY DEF Session!SrvOpen, Session!ToClient, Opens
  <1>3. WellTyped /\ Orderly(toClient) /\ Orderly(toServer)
        /\ Fits(chan[c], srv[c], Kinds(toClient, c), Kinds(toServer, c))
    BY <1>1, Parts
  <1>4. PICK new \in SrvType : new = [srv[c] EXCEPT !.st = "opening"]
    <2>1. srv[c] \in SrvType
      BY <1>3 DEF WellTyped
    <2>2. [srv[c] EXCEPT !.st = "opening"] \in SrvType
      BY <2>1 DEF SrvType
    <2> QED BY <2>2
  <1>5. srv' \in [Conn -> SrvType] /\ srv'[c] = new /\ \A d \in Conn \ {c} : srv'[d] = srv[d]
    BY <1>1, <1>3, <1>4 DEF WellTyped
  <1>6. Kinds(toClient, c) = {} /\ Fits(NoChan, new, {t}, Kinds(toServer, c))
    BY <1>1, <1>3, <1>4, SrvOpened DEF WellTyped
  <1>7. PICK r \in Seq(ToClientPkt) :
          /\ r = toClient \o <<Session!Pkt(t, c)>> /\ Orderly(r) /\ Len(r) = Len(toClient) + 1 /\ Len(toClient) \in Nat
          /\ Adds(toClient, r, c, t)
    <2>1. toClient \in Seq(ToClientPkt) /\ t \in ChanKinds /\ Orderly(toClient) /\ \A k \in Kinds(toClient, c) : MayFollow(k, t)
      BY <1>3, <1>6 DEF WellTyped, ChanKinds
    <2> QED BY <2>1, Says
  <1>8. toClient' = r /\ Kinds(r, c) = {t}
    BY <1>2, <1>6, <1>7 DEF Adds
  <1>9. Throttled'
    BY <1>1 DEF SessionInv, Throttled, Session!ThrottleCounted
  <1>10. WellTyped' /\ Elsewhere(c)
    <2>1. inHand' \in 0 .. Len(r)
      <3>1. PICK n \in Nat : n = Len(toClient) /\ Len(r) = n + 1
        BY <1>7
      <3>2. inHand \in 0 .. n /\ inHand' = inHand
        BY <1>1, <1>3, <3>1 DEF WellTyped
      <3> QED BY <3>1, <3>2
    <2>2. WellTyped'
      BY <1>1, <1>3, <1>5, <1>7, <1>8, <2>1 DEF WellTyped
    <2>3. Elsewhere(c)
      BY <1>1, <1>5, <1>7, <1>8 DEF Elsewhere, Adds
    <2> QED BY <2>2, <2>3
  <1> QED BY <1>1, <1>3, <1>5, <1>6, <1>7, <1>8, <1>9, <1>10, ChannelStep

\* The server sends one packet or two of data.
LEMMA SrvDataStep == ASSUME SessionInv, NEW c \in Conn, Session!SrvData(c) PROVE SessionInv'
  <1>1. /\ Running /\ Quiet /\ inHand' = inHand /\ toServer' = toServer /\ chan' = chan /\ count' = count /\ leaked' = leaked
        /\ srv' = srv /\ srv[c].st = "open" /\ srv[c].sent = {}
    BY DEF Session!SrvData, Session!client, Session!sizes, Quiet, Running, Session!Running
  <1>2. PICK n \in 1 .. 2 : toClient' = toClient \o [i \in 1 .. n |-> Session!Pkt("data", c)]
    BY DEF Session!SrvData, Session!ToClient
  <1>3. WellTyped /\ Orderly(toClient) /\ Orderly(toServer)
        /\ Fits(chan[c], srv[c], Kinds(toClient, c), Kinds(toServer, c))
        /\ chan[c] \in ChanType /\ srv[c] \in SrvType /\ toClient \in Seq(ToClientPkt)
    BY <1>1, Parts DEF WellTyped
  <1>4. /\ \A k \in Kinds(toClient, c) \cup {"data"} : MayFollow(k, "data")
        /\ Fits(chan[c], srv[c], Kinds(toClient, c) \cup {"data"}, Kinds(toServer, c))
    <2>1. MayFollow("data", "data")
      BY DEF MayFollow
    <2> QED BY <1>1, <1>3, <2>1, SrvSent
  <1>5. PICK r \in Seq(ToClientPkt) :
          /\ r = toClient \o <<Session!Pkt("data", c)>> /\ Orderly(r) /\ Len(r) = Len(toClient) + 1 /\ Len(toClient) \in Nat
          /\ Adds(toClient, r, c, "data")
    <2>1. "data" \in ChanKinds /\ \A k \in Kinds(toClient, c) : MayFollow(k, "data")
      BY <1>4 DEF ChanKinds
    <2> QED BY <1>3, <2>1, Says
  <1>6. PICK u \in Seq(ToClientPkt) :
          /\ u = r \o <<Session!Pkt("data", c)>> /\ Orderly(u) /\ Len(u) = Len(r) + 1 /\ Len(r) \in Nat
          /\ Adds(r, u, c, "data")
    <2>1. "data" \in ChanKinds /\ \A k \in Kinds(r, c) : MayFollow(k, "data")
      BY <1>4, <1>5 DEF ChanKinds, Adds
    <2> QED BY <1>5, <2>1, Says
  <1>7. PICK p \in ToClientPkt : p = Session!Pkt("data", c)
    <2>1. "data" \in ChanKinds
      BY DEF ChanKinds
    <2> QED BY <2>1, ChanPkt
  <1>8. toClient' = r \/ toClient' = u
    <2>1. CASE n = 1
      <3>1. [i \in 1 .. 1 |-> p] = <<p>>
        OBVIOUS
      <3> QED BY <1>2, <1>5, <1>7, <2>1, <3>1
    <2>2. CASE n = 2
      <3>1. toClient' = toClient \o <<p, p>>
        <4>1. [i \in 1 .. 2 |-> p] = <<p, p>>
          OBVIOUS
        <4> QED BY <1>2, <1>7, <2>2, <4>1
      <3>2. toClient \o <<p, p>> = (toClient \o <<p>>) \o <<p>>
        BY <1>3
      <3> QED BY <1>5, <1>6, <1>7, <3>1, <3>2
    <2> QED BY <2>1, <2>2
  <1>9. /\ Kinds(toClient', c) = Kinds(toClient, c) \cup {"data"} /\ Orderly(toClient') /\ toClient' \in Seq(ToClientPkt)
        /\ \A d \in Conn \ {c} : Kinds(toClient', d) = Kinds(toClient, d)
    BY <1>5, <1>6, <1>8 DEF Adds
  <1>10. inHand \in 0 .. Len(toClient')
    BY <1>3, <1>5, <1>6, <1>8 DEF WellTyped
  <1>11. Throttled'
    BY <1>1 DEF SessionInv, Throttled, Session!ThrottleCounted
  <1>12. WellTyped' /\ Elsewhere(c)
    BY <1>1, <1>3, <1>9, <1>10 DEF WellTyped, Elsewhere
  <1> QED BY <1>1, <1>3, <1>4, <1>9, <1>11, <1>12, ChannelStep

\* The server closes a channel, or confirms a close.
LEMMA SrvCloseStep == ASSUME SessionInv, NEW c \in Conn, NEW t \in Close, Session!SrvClose(c, t) PROVE SessionInv'
  <1>1. /\ Running /\ Quiet /\ inHand' = inHand /\ toServer' = toServer /\ chan' = chan /\ count' = count /\ leaked' = leaked
        /\ srv' = [srv EXCEPT ![c].sent = @ \cup {t}] /\ srv[c].st = "open" /\ t \notin srv[c].sent
        /\ (t = "close" \/ "close" \in srv[c].got) /\ toClient' = toClient \o <<Session!Pkt(t, c)>>
    BY DEF Session!SrvClose, Session!ToClient, Session!client, Session!sizes, Quiet, Running, Session!Running
  <1>2. WellTyped /\ Orderly(toClient) /\ Orderly(toServer)
        /\ Fits(chan[c], srv[c], Kinds(toClient, c), Kinds(toServer, c))
        /\ chan[c] \in ChanType /\ srv[c] \in SrvType /\ toClient \in Seq(ToClientPkt)
    BY <1>1, Parts DEF WellTyped
  <1>3. PICK new \in SrvType : /\ new = [srv[c] EXCEPT !.sent = @ \cup {t}]
                               /\ new.st = srv[c].st /\ new.got = srv[c].got /\ new.sent = srv[c].sent \cup {t}
    <2>1. [srv[c] EXCEPT !.sent = @ \cup {t}] \in SrvType
      BY <1>2 DEF SrvType
    <2> QED BY <1>2, <2>1 DEF SrvType
  <1>4. srv' \in [Conn -> SrvType] /\ srv'[c] = new /\ \A d \in Conn \ {c} : srv'[d] = srv[d]
    BY <1>1, <1>2, <1>3 DEF WellTyped
  <1>5. t \notin Kinds(toClient, c) /\ Fits(chan[c], new, Kinds(toClient, c) \cup {t}, Kinds(toServer, c))
    <2>1. /\ Fits(chan[c], srv[c], Kinds(toClient, c), Kinds(toServer, c)) /\ srv[c].st = "open" /\ t \notin srv[c].sent
          /\ (t = "close" \/ "close" \in srv[c].got)
          /\ new.st = srv[c].st /\ new.got = srv[c].got /\ new.sent = srv[c].sent \cup {t}
          /\ chan[c] \in ChanType /\ srv[c] \in SrvType
      BY <1>1, <1>2, <1>3
    <2> QED BY <2>1, SrvClosed
  <1>6. PICK r \in Seq(ToClientPkt) :
          /\ r = toClient \o <<Session!Pkt(t, c)>> /\ Orderly(r) /\ Len(r) = Len(toClient) + 1 /\ Len(toClient) \in Nat
          /\ Adds(toClient, r, c, t)
    <2>1. t \in ChanKinds /\ \A k \in Kinds(toClient, c) : MayFollow(k, t)
      BY <1>5 DEF ChanKinds, MayFollow, Close, Session!Close
    <2> QED BY <1>2, <2>1, Says
  <1>7. toClient' = r /\ Kinds(r, c) = Kinds(toClient, c) \cup {t}
    BY <1>1, <1>6 DEF Adds
  <1>8. Throttled'
    BY <1>1 DEF SessionInv, Throttled, Session!ThrottleCounted
  <1>9. WellTyped' /\ Elsewhere(c)
    BY <1>1, <1>2, <1>4, <1>6, <1>7 DEF WellTyped, Elsewhere, Adds
  <1> QED BY <1>1, <1>2, <1>4, <1>5, <1>6, <1>7, <1>8, <1>9, ChannelStep

\* The server takes a packet about a channel.
LEMMA SrvRecvStep == ASSUME SessionInv, Session!SrvRecv, Head(toServer).c \in Conn PROVE SessionInv'
  <1>1. /\ Running /\ Quiet /\ inHand' = inHand /\ chan' = chan /\ count' = count /\ leaked' = leaked
        /\ toServer # <<>> /\ toServer' = Tail(toServer)
    BY DEF Session!SrvRecv, Session!client, Session!sizes, Quiet, Running, Session!Running
  <1>2. PICK h \in ToServerPkt, r \in Seq(ToServerPkt) :
          /\ h = Head(toServer) /\ toServer' = r /\ Orderly(r)
          /\ \A d \in Conn : d # h.c => Kinds(r, d) = Kinds(toServer, d)
          /\ h.c \in Conn => Takes(h.t, Kinds(toServer, h.c), Kinds(r, h.c))
    BY <1>1, ServerTakes
  <1>3. PICK c \in Conn, t \in ChanKinds : h.c = c /\ h.t = t
    <2>1. h.c \in Conn /\ h.t \in ChanKinds
      BY <1>2, ConstAssumption DEF ToServerPkt
    <2> QED BY <2>1
  <1>4. Takes(t, Kinds(toServer, c), Kinds(r, c)) /\ \A d \in Conn : d # c => Kinds(r, d) = Kinds(toServer, d)
    BY <1>2, <1>3
  <1>5. WellTyped /\ Orderly(toClient)
        /\ Fits(chan[c], srv[c], Kinds(toClient, c), Kinds(toServer, c))
        /\ chan[c] \in ChanType /\ srv[c] \in SrvType /\ toClient \in Seq(ToClientPkt)
    BY <1>1, Parts DEF WellTyped
  <1>6. Throttled'
    BY <1>1 DEF SessionInv, Throttled, Session!ThrottleCounted
  \* What is left: the server's channel, and what it answers.
  <1>7. ASSUME NEW new \in SrvType, srv' = [srv EXCEPT ![c] = new],
               toClient' \in Seq(ToClientPkt), Orderly(toClient'), inHand \in 0 .. Len(toClient'),
               \A d \in Conn : d # c => Kinds(toClient', d) = Kinds(toClient, d),
               Fits(chan[c], new, Kinds(toClient', c), Kinds(r, c))
        PROVE  SessionInv'
    <2>1. srv' \in [Conn -> SrvType] /\ srv'[c] = new /\ \A d \in Conn \ {c} : srv'[d] = srv[d]
      BY <1>5, <1>7 DEF WellTyped
    <2>2. WellTyped' /\ Elsewhere(c)
      BY <1>1, <1>2, <1>4, <1>5, <1>7, <2>1 DEF WellTyped, Elsewhere
    <2> QED BY <1>1, <1>2, <1>6, <1>7, <2>1, <2>2, ChannelStep
  <1>8. ASSUME NEW new \in SrvType, srv' = [srv EXCEPT ![c] = new], toClient' = toClient,
               Fits(chan[c], new, Kinds(toClient, c), Kinds(r, c))
        PROVE  SessionInv'
    BY <1>5, <1>7, <1>8 DEF WellTyped
  <1>9. ASSUME NEW new \in SrvType, srv' = [srv EXCEPT ![c] = new],
               NEW k \in ChanKinds, toClient' = toClient \o <<Session!Pkt(k, c)>>,
               \A l \in Kinds(toClient, c) : MayFollow(l, k),
               Fits(chan[c], new, Kinds(toClient, c) \cup {k}, Kinds(r, c))
        PROVE  SessionInv'
    <2>1. PICK u \in Seq(ToClientPkt) :
            /\ u = toClient \o <<Session!Pkt(k, c)>> /\ Orderly(u) /\ Len(u) = Len(toClient) + 1 /\ Len(toClient) \in Nat
            /\ Adds(toClient, u, c, k)
      BY <1>5, <1>9, Says
    <2>2. toClient' = u /\ inHand \in 0 .. Len(u)
      BY <1>5, <1>9, <2>1 DEF WellTyped
    <2>3. /\ Kinds(toClient', c) = Kinds(toClient, c) \cup {k}
          /\ \A d \in Conn : d # c => Kinds(toClient', d) = Kinds(toClient, d)
      BY <2>1, <2>2 DEF Adds
    <2> QED BY <1>7, <1>9, <2>1, <2>2, <2>3
  <1>10. h.t \notin Requests \cup {"exec", "exit_confirmation"}
    BY <1>3 DEF ChanKinds, Opens, Requests
  <1>11. h.t \notin {Session!Order[i] : i \in DOMAIN Session!Order}
    BY <1>10 DEF Session!Order, Requests
  <1>12. CASE t \in Opens
    <2>1. /\ srv[c] = NoSrv /\ Kinds(toClient, c) = {}
          /\ \A new \in SrvType : (new.st = "open" /\ new.sent = {} /\ new.got = {})
                                     => Fits(chan[c], new, {"open_confirmation"}, Kinds(r, c))
          /\ Fits(chan[c], srv[c], {"open_failure"}, Kinds(r, c))
      BY <1>4, <1>5, <1>12, SrvAsked
    <2>2. t = "port_open"
      BY <1>2, <1>4, <1>5, <1>12, <2>1 DEF Takes, Opens, Fits, Idle, AskedByUs, AskedByServer, BothUp, FreedFirst,
            ForgottenFirst, NoSrv, Close, Session!Close
    <2>3. \/ srv' = [srv EXCEPT ![c].st = "open"] /\ toClient' = toClient \o <<Session!Pkt("open_confirmation", c)>>
          \/ srv' = srv /\ toClient' = toClient \o <<Session!Pkt("open_failure", c)>>
      <3>1. Head(toServer).t = "port_open" /\ Head(toServer).t \notin {Session!Order[i] : i \in DOMAIN Session!Order}
        BY <1>2, <1>3, <1>11, <2>2
      <3>2. \/ /\ srv' = [srv EXCEPT ![Head(toServer).c].st = "open"]
               /\ toClient' = toClient \o <<Session!Pkt("open_confirmation", Head(toServer).c)>>
            \/ srv' = srv /\ toClient' = toClient \o <<Session!Pkt("open_failure", Head(toServer).c)>>
        BY <3>1 DEF Session!SrvRecv, Session!ToClient, Session!Close
      <3>3. Head(toServer).c = c
        BY <1>2, <1>3
      <3> QED BY <3>2, <3>3
    <2>4. CASE srv' = [srv EXCEPT ![c].st = "open"] /\ toClient' = toClient \o <<Session!Pkt("open_confirmation", c)>>
      <3>1. PICK new \in SrvType : new = [srv[c] EXCEPT !.st = "open"] /\ new.st = "open" /\ new.sent = {} /\ new.got = {}
        <4>1. [srv[c] EXCEPT !.st = "open"] \in SrvType
          BY <1>5 DEF SrvType
        <4> QED BY <2>1, <4>1 DEF NoSrv
      <3>2. srv' = [srv EXCEPT ![c] = new]
        BY <2>4, <3>1
      <3>3. "open_confirmation" \in ChanKinds /\ Fits(chan[c], new, Kinds(toClient, c) \cup {"open_confirmation"}, Kinds(r, c))
        BY <2>1, <3>1 DEF ChanKinds
      <3> QED BY <1>9, <2>1, <2>4, <3>2, <3>3
    <2>5. CASE srv' = srv /\ toClient' = toClient \o <<Session!Pkt("open_failure", c)>>
      <3>1. srv' = [srv EXCEPT ![c] = srv[c]]
        BY <1>5, <2>5 DEF WellTyped
      <3>2. "open_failure" \in ChanKinds /\ Fits(chan[c], srv[c], Kinds(toClient, c) \cup {"open_failure"}, Kinds(r, c))
        BY <2>1 DEF ChanKinds
      <3> QED BY <1>5, <1>9, <2>1, <2>5, <3>1, <3>2
    <2> QED BY <2>3, <2>4, <2>5
  <1>13. CASE t = "open_confirmation"
    <2>1. srv' = [srv EXCEPT ![c].st = "open"] /\ toClient' = toClient
      <3>1. Head(toServer).t = "open_confirmation" /\ Head(toServer).t \notin {Session!Order[i] : i \in DOMAIN Session!Order}
        BY <1>2, <1>3, <1>11, <1>13
      <3>2. srv' = [srv EXCEPT ![Head(toServer).c].st = "open"] /\ toClient' = toClient
        BY <3>1 DEF Session!SrvRecv, Session!Close
      <3>3. Head(toServer).c = c
        BY <1>2, <1>3
      <3> QED BY <3>2, <3>3
    <2>2. PICK new \in SrvType : /\ new = [srv[c] EXCEPT !.st = "open"]
                                 /\ new.st = "open" /\ new.sent = srv[c].sent /\ new.got = srv[c].got
      <3>1. [srv[c] EXCEPT !.st = "open"] \in SrvType
        BY <1>5 DEF SrvType
      <3> QED BY <1>5, <3>1 DEF SrvType
    <2>3. srv' = [srv EXCEPT ![c] = new]
      BY <2>1, <2>2
    <2>4. Fits(chan[c], new, Kinds(toClient, c), Kinds(r, c))
      BY <1>4, <1>5, <1>13, <2>2, SrvConfirmed
    <2> QED BY <1>8, <2>1, <2>3, <2>4
  <1>14. CASE t = "open_failure"
    <2>1. srv' = [srv EXCEPT ![c].st = "none"] /\ toClient' = toClient
      <3>1. Head(toServer).t = "open_failure" /\ Head(toServer).t \notin {Session!Order[i] : i \in DOMAIN Session!Order}
        BY <1>2, <1>3, <1>11, <1>14
      <3>2. srv' = [srv EXCEPT ![Head(toServer).c].st = "none"] /\ toClient' = toClient
        BY <3>1 DEF Session!SrvRecv, Session!Close
      <3>3. Head(toServer).c = c
        BY <1>2, <1>3
      <3> QED BY <3>2, <3>3
    <2>2. PICK new \in SrvType : new = [srv[c] EXCEPT !.st = "none"]
      <3>1. [srv[c] EXCEPT !.st = "none"] \in SrvType
        BY <1>5 DEF SrvType
      <3> QED BY <3>1
    <2>3. srv' = [srv EXCEPT ![c] = new]
      BY <2>1, <2>2
    <2>4. Fits(chan[c], new, Kinds(toClient, c), Kinds(r, c))
      BY <1>4, <1>5, <1>14, <2>2, SrvRefused
    <2> QED BY <1>8, <2>1, <2>3, <2>4
  <1>15. CASE t = "data"
    <2>1. srv' = srv /\ toClient' = toClient
      BY <1>2, <1>3, <1>11, <1>15 DEF Session!SrvRecv, Session!Close
    <2>2. srv' = [srv EXCEPT ![c] = srv[c]]
      BY <1>5, <2>1 DEF WellTyped
    <2>3. Fits(chan[c], srv[c], Kinds(toClient, c), Kinds(r, c))
      BY <1>4, <1>5, <1>15, SrvDataTaken
    <2> QED BY <1>5, <1>8, <2>1, <2>2, <2>3
  <1>16. CASE t \in Close
    <2>1. PICK new \in SrvType : /\ new = [srv[c] EXCEPT !.got = @ \cup {t}, !.sent = @ \cup {t}]
                                 /\ new.st = srv[c].st /\ new.got = srv[c].got \cup {t} /\ new.sent = srv[c].sent \cup {t}
      <3>1. [srv[c] EXCEPT !.got = @ \cup {t}, !.sent = @ \cup {t}] \in SrvType
        BY <1>5, <1>16 DEF SrvType
      <3> QED BY <1>5, <3>1 DEF SrvType
    <2>2. /\ srv' = [srv EXCEPT ![c] = IF new.got = Close /\ new.sent = Close
                                         THEN [st |-> "none", sent |-> {}, got |-> {}] ELSE new]
          /\ toClient' = toClient \o IF t \in srv[c].sent THEN <<>> ELSE <<Session!Pkt(t, c)>>
      BY <1>2, <1>3, <1>11, <1>16, <2>1 DEF Session!SrvRecv, Session!ToClient, Close, Session!Close
    <2>3. /\ t \notin srv[c].sent => t \notin Kinds(toClient, c)
          /\ new.got = Close => new.sent = Close
          /\ (new.got = Close /\ t \in srv[c].sent) => Fits(chan[c], NoSrv, Kinds(toClient, c), Kinds(r, c))
          /\ (new.got = Close /\ t \notin srv[c].sent) => Fits(chan[c], NoSrv, Kinds(toClient, c) \cup {t}, Kinds(r, c))
          /\ (new.got # Close /\ t \in srv[c].sent) => Fits(chan[c], new, Kinds(toClient, c), Kinds(r, c))
          /\ (new.got # Close /\ t \notin srv[c].sent) => Fits(chan[c], new, Kinds(toClient, c) \cup {t}, Kinds(r, c))
      <3>1. PICK ch \in ChanType, sv \in SrvType : ch = chan[c] /\ sv = srv[c]
        BY <1>5
      <3>2. PICK said, told, rest : said = Kinds(toClient, c) /\ told = Kinds(toServer, c) /\ rest = Kinds(r, c)
        OBVIOUS
      <3>3. /\ Fits(ch, sv, said, told) /\ Takes(t, told, rest) /\ t \in Close /\ new \in SrvType
            /\ new.st = sv.st /\ new.got = sv.got \cup {t} /\ new.sent = sv.sent \cup {t}
        BY <1>4, <1>5, <1>16, <2>1, <3>1, <3>2
      <3>4. /\ t \notin sv.sent => t \notin said
            /\ new.got = Close => new.sent = Close
            /\ (new.got = Close /\ t \in sv.sent) => Fits(ch, NoSrv, said, rest)
            /\ (new.got = Close /\ t \notin sv.sent) => Fits(ch, NoSrv, said \cup {t}, rest)
            /\ (new.got # Close /\ t \in sv.sent) => Fits(ch, new, said, rest)
            /\ (new.got # Close /\ t \notin sv.sent) => Fits(ch, new, said \cup {t}, rest)
        BY <3>3, SrvCloseTaken
      <3> QED BY <3>1, <3>2, <3>4
    <2>4. PICK to \in SrvType : to = IF new.got = Close THEN NoSrv ELSE new
      <3>1. NoSrv \in SrvType
        BY DEF NoSrv, SrvType
      <3> QED BY <3>1
    <2>5. srv' = [srv EXCEPT ![c] = to]
      BY <2>2, <2>3, <2>4 DEF NoSrv
    <2>6. CASE t \in srv[c].sent
      <3>1. toClient' = toClient
        BY <1>5, <2>2, <2>6
      <3>2. Fits(chan[c], to, Kinds(toClient, c), Kinds(r, c))
        BY <2>3, <2>4, <2>6
      <3> QED BY <1>8, <2>5, <3>1, <3>2
    <2>7. CASE t \notin srv[c].sent
      <3>1. toClient' = toClient \o <<Session!Pkt(t, c)>>
        BY <2>2, <2>7
      <3>2. Fits(chan[c], to, Kinds(toClient, c) \cup {t}, Kinds(r, c))
        BY <2>3, <2>4, <2>7
      <3>3. \A l \in Kinds(toClient, c) : MayFollow(l, t)
        BY <1>16, <2>3, <2>7 DEF MayFollow, Close, Session!Close
      <3> QED BY <1>9, <2>5, <3>1, <3>2, <3>3
    <2> QED BY <2>6, <2>7
  <1> QED BY <1>12, <1>13, <1>14, <1>15, <1>16 DEF ChanKinds, Close, Session!Close

\* The client takes a packet about a channel: what each handler has to show.
LEMMA ClientRecvStep ==
    ASSUME SessionInv, Session!Take, Quiet, NEW h \in ToClientPkt, NEW r \in Seq(ToClientPkt), NEW c \in Conn,
           toClient' = r, Orderly(r), inHand' \in 0 .. Len(r),
           \A d \in Conn : d # c => Kinds(r, d) = Kinds(toClient, d),
           chan' \in [Conn -> ChanType], \A d \in Conn \ {c} : chan'[d] = chan[d],
           chan'[c].throttling => Up(chan'[c]),
           \/ chan'[c].throttling = chan[c].throttling /\ count' = count /\ leaked' = leaked
           \/ chan'[c].throttling /\ ~chan[c].throttling /\ count' = count + 1 /\ leaked' = leaked
           \/ ~chan'[c].throttling /\ chan[c].throttling /\ count' = count - 1 /\ leaked' = leaked
           \/ ~chan'[c].throttling /\ chan[c].throttling /\ count' = count /\ leaked' = leaked + 1,
           toServer' \in Seq(ToServerPkt), Orderly(toServer'),
           \A d \in Conn : d # c => Kinds(toServer', d) = Kinds(toServer, d),
           Fits(chan'[c], srv[c], Kinds(r, c), Kinds(toServer', c))
    PROVE  SessionInv'
  <1>1. Running /\ srv' = srv
    BY DEF Session!Take, Running
  <1>2. WellTyped
    BY <1>1, Parts
  <1>3. Throttled' /\ count' \in Nat /\ leaked' \in Nat
    BY Counted
  <1>4. WellTyped' /\ Elsewhere(c)
    BY <1>1, <1>2, <1>3 DEF WellTyped, Elsewhere
  <1>5. Orderly(toClient') /\ Fits(chan'[c], srv'[c], Kinds(toClient', c), Kinds(toServer', c))
    BY <1>1
  <1> QED BY <1>1, <1>3, <1>4, <1>5, ChannelStep

\* Data arrive, and may throttle the channel.
LEMMA OnDataStep == ASSUME SessionInv, Session!OnData PROVE SessionInv'
  <1>1. /\ Session!Take /\ Session!P.t = "data" /\ Quiet /\ leaked' = leaked /\ toServer' = toServer
    BY DEF Session!OnData, Session!sizes, Quiet
  <1>2. PICK h \in ToClientPkt, r \in Seq(ToClientPkt) :
          /\ h = Session!P /\ toClient' = r /\ Orderly(r) /\ inHand' \in 0 .. Len(r)
          /\ \A d \in Conn : d # h.c => Kinds(r, d) = Kinds(toClient, d)
          /\ h.c \in Conn => Takes(h.t, Kinds(toClient, h.c), Kinds(r, h.c))
    BY <1>1, ClientTakes
  <1>3. PICK c \in Conn : h.c = c
    <2>1. h.c \in Conn
      BY <1>1, <1>2 DEF ToClientPkt
    <2> QED BY <2>1
  <1>4. PICK size \in chan[c].buffered .. MaxUnits :
          /\ chan' = [chan EXCEPT ![c].buffered = size, ![c].throttling = @ \/ Session!ThrottlesOn(c, size)]
          /\ count' = IF Session!ThrottlesOn(c, size) THEN count + 1 ELSE count
    BY <1>2, <1>3 DEF Session!OnData
  <1>5. Running /\ WellTyped /\ Orderly(toServer)
        /\ Fits(chan[c], srv[c], Kinds(toClient, c), Kinds(toServer, c))
        /\ chan[c] \in ChanType /\ srv[c] \in SrvType
        /\ (chan[c].throttling => Up(chan[c]))
    BY <1>1, ClientTakes, Parts DEF WellTyped
  <1>6. chan[c].throttling \in BOOLEAN /\ Session!ThrottlesOn(c, size) \in BOOLEAN
        /\ (Session!ThrottlesOn(c, size) => ~chan[c].throttling)
    BY <1>5 DEF Session!ThrottlesOn, ChanType, Session!ChanType
  <1>7. PICK on \in BOOLEAN : on <=> (chan[c].throttling \/ Session!ThrottlesOn(c, size))
    OBVIOUS
  <1>8. chan' = [chan EXCEPT ![c] = [chan[c] EXCEPT !.buffered = size, !.throttling = on]]
    BY <1>4, <1>5, <1>6, <1>7 DEF WellTyped
  <1>9. PICK new \in ChanType : /\ new = [chan[c] EXCEPT !.buffered = size, !.throttling = on]
                                /\ Alike(chan[c], new) /\ new.throttling = on
    <2>1. size \in 0 .. MaxUnits
      BY <1>5, ConstAssumption DEF ChanType, Session!ChanType
    <2>2. [chan[c] EXCEPT !.buffered = size, !.throttling = on] \in ChanType
      BY <1>5, <2>1 DEF ChanType, Session!ChanType
    <2> QED BY <1>5, <2>2 DEF ChanType, Session!ChanType, Alike
  <1>10. chan' \in [Conn -> ChanType] /\ chan'[c] = new /\ \A d \in Conn \ {c} : chan'[d] = chan[d]
    BY <1>5, <1>8, <1>9 DEF WellTyped
  <1>11. Up(chan[c]) /\ Fits(new, srv[c], Kinds(r, c), Kinds(toServer, c))
    <2>1. Takes("data", Kinds(toClient, c), Kinds(r, c))
      BY <1>1, <1>2, <1>3
    <2> QED BY <1>5, <1>9, <2>1, DataTaken
  <1>12. chan'[c].throttling => Up(chan'[c])
    BY <1>9, <1>10, <1>11 DEF Alike, Up
  <1>13. \/ chan'[c].throttling = chan[c].throttling /\ count' = count /\ leaked' = leaked
         \/ chan'[c].throttling /\ ~chan[c].throttling /\ count' = count + 1 /\ leaked' = leaked
    <2>1. CASE Session!ThrottlesOn(c, size)
      BY <1>1, <1>4, <1>6, <1>7, <1>9, <1>10, <2>1
    <2>2. CASE ~Session!ThrottlesOn(c, size)
      BY <1>1, <1>4, <1>6, <1>7, <1>9, <1>10, <2>2
    <2> QED BY <2>1, <2>2
  <1>14. toServer' \in Seq(ToServerPkt) /\ Orderly(toServer')
         /\ \A d \in Conn : d # c => Kinds(toServer', d) = Kinds(toServer, d)
    BY <1>1, <1>5 DEF WellTyped
  <1>15. Fits(chan'[c], srv[c], Kinds(r, c), Kinds(toServer', c))
    BY <1>1, <1>10, <1>11
  <1>16. \A d \in Conn : d # c => Kinds(r, d) = Kinds(toClient, d)
    BY <1>2, <1>3
  <1> QED BY <1>1, <1>2, <1>10, <1>12, <1>13, <1>14, <1>15, <1>16, ClientRecvStep

\* The server asks for a channel.
LEMMA OnOpenStep == ASSUME SessionInv, Session!OnOpen PROVE SessionInv'
  <1>1. /\ Session!Take /\ Session!P.t \in Opens /\ Quiet /\ leaked' = leaked /\ count' = count
    BY DEF Session!OnOpen, Session!sizes, Quiet, Opens
  <1>2. PICK h \in ToClientPkt, r \in Seq(ToClientPkt) :
          /\ h = Session!P /\ toClient' = r /\ Orderly(r) /\ inHand' \in 0 .. Len(r)
          /\ \A d \in Conn : d # h.c => Kinds(r, d) = Kinds(toClient, d)
          /\ h.c \in Conn => Takes(h.t, Kinds(toClient, h.c), Kinds(r, h.c))
    BY <1>1, ClientTakes
  <1>3. PICK c \in Conn, t \in Opens : h.c = c /\ h.t = t
    <2>1. h.c \in Conn /\ h.t \in Opens
      BY <1>1, <1>2 DEF ToClientPkt, Opens
    <2> QED BY <2>1
  <1>4. PICK type \in {"agent", "x11", "sock"} :
          \/ /\ chan' = [chan EXCEPT ![c] = [Session!NoChan EXCEPT !.type = type, !.s = type # "agent"]]
             /\ toServer' = toServer \o <<Session!Pkt("open_confirmation", c)>>
          \/ chan' = chan /\ toServer' = toServer \o <<Session!Pkt("open_failure", c)>>
    <2> DEFINE kind == IF Session!P.t = "agent_open" THEN "agent" ELSE IF Session!P.t = "x11_open" THEN "x11" ELSE "sock"
    <2>1. \/ /\ chan' = [chan EXCEPT ![Session!P.c] = [Session!NoChan EXCEPT !.type = kind, !.s = kind # "agent"]]
             /\ toServer' = toServer \o <<Session!Pkt("open_confirmation", Session!P.c)>>
          \/ chan' = chan /\ toServer' = toServer \o <<Session!Pkt("open_failure", Session!P.c)>>
      BY DEF Session!OnOpen, Session!Send
    <2>2. kind \in {"agent", "x11", "sock"} /\ Session!P.c = c
      BY <1>2, <1>3
    <2> HIDE DEF kind
    <2> QED BY <2>1, <2>2
  <1>5. Running /\ WellTyped /\ Orderly(toServer)
        /\ Fits(chan[c], srv[c], Kinds(toClient, c), Kinds(toServer, c))
        /\ chan[c] \in ChanType /\ srv[c] \in SrvType /\ toServer \in Seq(ToServerPkt)
    BY <1>1, ClientTakes, Parts DEF WellTyped
  <1>6. Takes(t, Kinds(toClient, c), Kinds(r, c)) /\ \A d \in Conn : d # c => Kinds(r, d) = Kinds(toClient, d)
    BY <1>2, <1>3
  <1>7. chan[c] = NoChan /\ Kinds(toServer, c) = {} /\ Fits(chan[c], srv[c], Kinds(r, c), {"open_failure"})
    <2>1. chan[c] = NoChan /\ Kinds(toServer, c) = {}
      BY <1>3, <1>5, <1>6, OpenTaken
    <2>2. Fits(chan[c], srv[c], Kinds(r, c), {"open_failure"})
      BY <1>3, <1>5, <1>6, OpenTaken
    <2> QED BY <2>1, <2>2
  <1>8. chan[c].throttling = FALSE
    BY <1>7 DEF NoChan, Session!NoChan
  <1>9. ASSUME NEW k \in {"open_confirmation", "open_failure"}, toServer' = toServer \o <<Session!Pkt(k, c)>>
        PROVE  /\ toServer' \in Seq(ToServerPkt) /\ Orderly(toServer') /\ Kinds(toServer', c) = {k}
               /\ \A d \in Conn : d # c => Kinds(toServer', d) = Kinds(toServer, d)
    <2>1. PICK u \in Seq(ToServerPkt) :
            u = toServer \o <<Session!Pkt(k, c)>> /\ Orderly(u) /\ Adds(toServer, u, c, k)
      <3>1. k \in ChanKinds /\ \A l \in Kinds(toServer, c) : MayFollow(l, k)
        BY <1>7 DEF ChanKinds
      <3> QED BY <1>5, <3>1, Tells
    <2> QED BY <1>7, <1>9, <2>1 DEF Adds
  <1>10. CASE /\ chan' = [chan EXCEPT ![c] = [Session!NoChan EXCEPT !.type = type, !.s = type # "agent"]]
              /\ toServer' = toServer \o <<Session!Pkt("open_confirmation", c)>>
    <2>1. PICK new \in ChanType : /\ new = [Session!NoChan EXCEPT !.type = type, !.s = type # "agent"]
                                  /\ Up(new) /\ new.sent = {} /\ new.got = {} /\ new.throttling = FALSE
      <3>1. 0 \in 0 .. MaxUnits
        BY ConstAssumption
      <3>2. [Session!NoChan EXCEPT !.type = type, !.s = type # "agent"] \in ChanType
        BY <3>1 DEF ChanType, Session!ChanType, Session!NoChan
      <3> QED BY <3>2 DEF Session!NoChan, Up
    <2>2. chan' \in [Conn -> ChanType] /\ chan'[c] = new /\ \A d \in Conn \ {c} : chan'[d] = chan[d]
      BY <1>5, <1>10, <2>1 DEF WellTyped
    <2>3. Fits(new, srv[c], Kinds(r, c), {"open_confirmation"})
      <3>1. PICK ch \in ChanType, sv \in SrvType : ch = chan[c] /\ sv = srv[c]
        BY <1>5
      <3>2. PICK said, told, rest : said = Kinds(toClient, c) /\ told = Kinds(toServer, c) /\ rest = Kinds(r, c)
        OBVIOUS
      <3>3. /\ Fits(ch, sv, said, told) /\ Takes(t, said, rest) /\ t \in Opens /\ new \in ChanType
            /\ Up(new) /\ new.sent = {} /\ new.got = {}
        BY <1>3, <1>5, <1>6, <2>1, <3>1, <3>2
      <3>4. Fits(new, sv, rest, {"open_confirmation"})
        BY <3>3, OpenTaken
      <3> QED BY <3>1, <3>2, <3>4
    <2>4. /\ toServer' \in Seq(ToServerPkt) /\ Orderly(toServer') /\ Kinds(toServer', c) = {"open_confirmation"}
          /\ \A d \in Conn : d # c => Kinds(toServer', d) = Kinds(toServer, d)
      BY <1>9, <1>10
    <2>5. Fits(chan'[c], srv[c], Kinds(r, c), Kinds(toServer', c))
      BY <2>2, <2>3, <2>4
    <2>6. chan'[c].throttling = chan[c].throttling /\ (chan'[c].throttling => Up(chan'[c]))
      BY <1>8, <2>1, <2>2
    <2> QED BY <1>1, <1>2, <1>6, <2>2, <2>4, <2>5, <2>6, ClientRecvStep
  <1>11. CASE chan' = chan /\ toServer' = toServer \o <<Session!Pkt("open_failure", c)>>
    <2>1. /\ toServer' \in Seq(ToServerPkt) /\ Orderly(toServer') /\ Kinds(toServer', c) = {"open_failure"}
          /\ \A d \in Conn : d # c => Kinds(toServer', d) = Kinds(toServer, d)
      BY <1>9, <1>11
    <2>2. Fits(chan'[c], srv[c], Kinds(r, c), Kinds(toServer', c))
      BY <1>7, <1>11, <2>1
    <2>3. chan' \in [Conn -> ChanType] /\ chan'[c].throttling = chan[c].throttling /\ (chan'[c].throttling => Up(chan'[c]))
          /\ \A d \in Conn \ {c} : chan'[d] = chan[d]
      BY <1>5, <1>8, <1>11 DEF WellTyped
    <2> QED BY <1>1, <1>2, <1>6, <2>1, <2>2, <2>3, ClientRecvStep
  <1> QED BY <1>4, <1>10, <1>11

\* The server confirms a channel that the client asked for.
LEMMA OnOpenConfirmationStep == ASSUME SessionInv, Session!OnOpenConfirmation PROVE SessionInv'
  <1>1. /\ Session!Take /\ Session!P.t = "open_confirmation" /\ Quiet /\ leaked' = leaked /\ count' = count
    BY DEF Session!OnOpenConfirmation, Session!sizes, Quiet
  <1>2. PICK h \in ToClientPkt, r \in Seq(ToClientPkt) :
          /\ h = Session!P /\ toClient' = r /\ Orderly(r) /\ inHand' \in 0 .. Len(r)
          /\ \A d \in Conn : d # h.c => Kinds(r, d) = Kinds(toClient, d)
          /\ h.c \in Conn => Takes(h.t, Kinds(toClient, h.c), Kinds(r, h.c))
    BY <1>1, ClientTakes
  <1>3. PICK c \in Conn : h.c = c
    <2>1. h.c \in Conn
      BY <1>1, <1>2 DEF ToClientPkt
    <2> QED BY <2>1
  <1>4. Running /\ WellTyped /\ Orderly(toServer)
        /\ Fits(chan[c], srv[c], Kinds(toClient, c), Kinds(toServer, c))
        /\ chan[c] \in ChanType /\ srv[c] \in SrvType /\ toServer \in Seq(ToServerPkt)
        /\ (chan[c].throttling => Up(chan[c]))
    BY <1>1, ClientTakes, Parts DEF WellTyped
  <1>5. Takes("open_confirmation", Kinds(toClient, c), Kinds(r, c)) /\ \A d \in Conn : d # c => Kinds(r, d) = Kinds(toClient, d)
    BY <1>1, <1>2, <1>3
  <1>6. PICK new \in ChanType : /\ new = [chan[c] EXCEPT !.type = "sock"] /\ new.type = "sock" /\ new.s = chan[c].s
                                /\ new.sent = chan[c].sent /\ new.got = chan[c].got /\ new.throttling = chan[c].throttling
    <2>1. [chan[c] EXCEPT !.type = "sock"] \in ChanType
      BY <1>4 DEF ChanType, Session!ChanType
    <2> QED BY <1>4, <2>1 DEF ChanType, Session!ChanType
  <1>7. /\ chan[c].type = "dormant" /\ Kinds(toServer, c) = {}
        /\ Fits(new, srv[c], Kinds(r, c), IF chan[c].sent # {} THEN {"close"} ELSE {})
    <2>1. PICK ch \in ChanType, sv \in SrvType : ch = chan[c] /\ sv = srv[c]
      BY <1>4
    <2>2. PICK said, told, rest : said = Kinds(toClient, c) /\ told = Kinds(toServer, c) /\ rest = Kinds(r, c)
      OBVIOUS
    <2>3. /\ Fits(ch, sv, said, told) /\ Takes("open_confirmation", said, rest) /\ new \in ChanType
          /\ new.type = "sock" /\ new.s = ch.s /\ new.sent = ch.sent /\ new.got = ch.got
      BY <1>4, <1>5, <1>6, <2>1, <2>2
    <2>4. ch.type = "dormant" /\ told = {} /\ Fits(new, sv, rest, IF ch.sent # {} THEN {"close"} ELSE {})
      BY <2>3, ConfirmationTaken
    <2> QED BY <2>1, <2>2, <2>4
  <1>8. /\ chan' = [chan EXCEPT ![c].type = "sock"]
        /\ toServer' = toServer \o IF chan[c].sent # {} THEN <<Session!Pkt("close", c)>> ELSE <<>>
    <2>1. Session!P.c = c
      BY <1>2, <1>3
    <2> QED BY <1>7, <2>1 DEF Session!OnOpenConfirmation, Session!Send, Session!PendingClose
  <1>9. chan' \in [Conn -> ChanType] /\ chan'[c] = new /\ \A d \in Conn \ {c} : chan'[d] = chan[d]
    BY <1>4, <1>6, <1>8 DEF WellTyped
  <1>10. /\ toServer' \in Seq(ToServerPkt) /\ Orderly(toServer')
         /\ Kinds(toServer', c) = IF chan[c].sent # {} THEN {"close"} ELSE {}
         /\ \A d \in Conn : d # c => Kinds(toServer', d) = Kinds(toServer, d)
    <2>1. CASE chan[c].sent # {}
      <3>1. "close" \in ChanKinds /\ \A l \in Kinds(toServer, c) : MayFollow(l, "close")
        BY <1>7 DEF ChanKinds
      <3>2. PICK u \in Seq(ToServerPkt) :
              u = toServer \o <<Session!Pkt("close", c)>> /\ Orderly(u) /\ Adds(toServer, u, c, "close")
        BY <1>4, <3>1, Tells
      <3>3. toServer' = u
        BY <1>8, <2>1, <3>2
      <3> QED BY <1>7, <2>1, <3>2, <3>3 DEF Adds
    <2>2. CASE chan[c].sent = {}
      <3>1. toServer' = toServer
        BY <1>4, <1>8, <2>2
      <3> QED BY <1>4, <1>7, <2>2, <3>1
    <2> QED BY <2>1, <2>2
  <1>11. Fits(chan'[c], srv[c], Kinds(r, c), Kinds(toServer', c))
    BY <1>7, <1>9, <1>10
  <1>12. chan'[c].throttling = chan[c].throttling /\ (chan'[c].throttling => Up(chan'[c]))
    BY <1>6, <1>9 DEF Up
  <1> QED BY <1>1, <1>2, <1>5, <1>9, <1>10, <1>11, <1>12, ClientRecvStep

\* The server refuses a channel that the client asked for.
LEMMA OnOpenFailureStep == ASSUME SessionInv, Session!OnOpenFailure PROVE SessionInv'
  <1>1. /\ Session!Take /\ Session!P.t = "open_failure" /\ Quiet /\ leaked' = leaked /\ count' = count /\ toServer' = toServer
    BY DEF Session!OnOpenFailure, Session!sizes, Quiet
  <1>2. PICK h \in ToClientPkt, r \in Seq(ToClientPkt) :
          /\ h = Session!P /\ toClient' = r /\ Orderly(r) /\ inHand' \in 0 .. Len(r)
          /\ \A d \in Conn : d # h.c => Kinds(r, d) = Kinds(toClient, d)
          /\ h.c \in Conn => Takes(h.t, Kinds(toClient, h.c), Kinds(r, h.c))
    BY <1>1, ClientTakes
  <1>3. PICK c \in Conn : h.c = c
    <2>1. h.c \in Conn
      BY <1>1, <1>2 DEF ToClientPkt
    <2> QED BY <2>1
  <1>4. Running /\ WellTyped /\ Orderly(toServer)
        /\ Fits(chan[c], srv[c], Kinds(toClient, c), Kinds(toServer, c))
        /\ chan[c] \in ChanType /\ srv[c] \in SrvType /\ toServer \in Seq(ToServerPkt)
        /\ (chan[c].throttling => Up(chan[c]))
    BY <1>1, ClientTakes, Parts DEF WellTyped
  <1>5. Takes("open_failure", Kinds(toClient, c), Kinds(r, c)) /\ \A d \in Conn : d # c => Kinds(r, d) = Kinds(toClient, d)
    BY <1>1, <1>2, <1>3
  <1>6. chan[c].type = "dormant" /\ Fits(NoChan, srv[c], Kinds(r, c), Kinds(toServer, c))
    BY <1>4, <1>5, FailureTaken
  <1>7. chan' = [chan EXCEPT ![c] = NoChan]
    <2>1. Session!P.c = c
      BY <1>2, <1>3
    <2> QED BY <1>4, <1>6, <2>1 DEF Session!OnOpenFailure, NoChan, WellTyped
  <1>8. NoChan \in ChanType /\ NoChan.throttling = FALSE
    <2>1. 0 \in 0 .. MaxUnits
      BY ConstAssumption
    <2> QED BY <2>1 DEF NoChan, Session!NoChan, ChanType, Session!ChanType
  <1>9. chan' \in [Conn -> ChanType] /\ chan'[c] = NoChan /\ \A d \in Conn \ {c} : chan'[d] = chan[d]
    BY <1>4, <1>7, <1>8 DEF WellTyped
  <1>10. chan'[c].throttling = chan[c].throttling /\ (chan'[c].throttling => Up(chan'[c]))
    <2>1. ~Up(chan[c]) /\ chan[c].throttling \in BOOLEAN
      BY <1>4, <1>6 DEF Up, ChanType, Session!ChanType
    <2> QED BY <1>4, <1>8, <1>9, <2>1
  <1>11. /\ toServer' \in Seq(ToServerPkt) /\ Orderly(toServer')
         /\ \A d \in Conn : d # c => Kinds(toServer', d) = Kinds(toServer, d)
         /\ Fits(chan'[c], srv[c], Kinds(r, c), Kinds(toServer', c))
    BY <1>1, <1>4, <1>6, <1>9
  <1> QED BY <1>1, <1>2, <1>5, <1>9, <1>10, <1>11, ClientRecvStep

\* The server closes a channel, or confirms a close.
LEMMA OnCloseStep == ASSUME SessionInv, Session!OnClose PROVE SessionInv'
  <1>1. Session!Take /\ Session!P.t \in Close
    BY DEF Session!OnClose, Close
  <1>2. PICK h \in ToClientPkt, r \in Seq(ToClientPkt) :
          /\ h = Session!P /\ toClient' = r /\ Orderly(r) /\ inHand' \in 0 .. Len(r)
          /\ \A d \in Conn : d # h.c => Kinds(r, d) = Kinds(toClient, d)
          /\ h.c \in Conn => Takes(h.t, Kinds(toClient, h.c), Kinds(r, h.c))
    BY <1>1, ClientTakes
  <1>3. PICK c \in Conn, t \in Close : h.c = c /\ h.t = t
    <2>1. h.c \in Conn /\ h.t \in Close
      BY <1>1, <1>2 DEF ToClientPkt, Close, Session!Close
    <2> QED BY <2>1
  <1>4. Running /\ WellTyped /\ Orderly(toServer)
        /\ Fits(chan[c], srv[c], Kinds(toClient, c), Kinds(toServer, c))
        /\ chan[c] \in ChanType /\ srv[c] \in SrvType /\ toServer \in Seq(ToServerPkt)
        /\ (chan[c].throttling => Up(chan[c]))
    BY <1>1, ClientTakes, Parts DEF WellTyped
  <1>5. Takes(t, Kinds(toClient, c), Kinds(r, c)) /\ \A d \in Conn : d # c => Kinds(r, d) = Kinds(toClient, d)
    BY <1>2, <1>3
  <1>6. PICK new \in ChanType :
          /\ new = Session!Closing(c, t).new
          /\ new.type = chan[c].type /\ new.s = FALSE /\ new.got = chan[c].got \cup {t} /\ new.sent = chan[c].sent \cup {t}
          /\ new.throttling = chan[c].throttling
    <2>1. 0 \in 0 .. MaxUnits
      BY ConstAssumption
    <2>2. chan[c].s => chan[c].sent \cup chan[c].got = {}
      BY <1>4 DEF Fits
    <2>3. Session!Closing(c, t).new
            = [chan[c] EXCEPT !.got = @ \cup {t}, !.sent = @ \cup {t},
                              !.s = IF chan[c].sent \cup chan[c].got = {} THEN FALSE ELSE @,
                              !.buffered = IF chan[c].sent \cup chan[c].got = {} THEN 0 ELSE @]
      BY DEF Session!Closing
    <2>4. [chan[c] EXCEPT !.got = @ \cup {t}, !.sent = @ \cup {t},
                          !.s = IF chan[c].sent \cup chan[c].got = {} THEN FALSE ELSE @,
                          !.buffered = IF chan[c].sent \cup chan[c].got = {} THEN 0 ELSE @] \in ChanType
      BY <1>4, <2>1 DEF ChanType, Session!ChanType, Close
    <2>5. chan[c].s \in BOOLEAN
      BY <1>4 DEF ChanType, Session!ChanType
    <2> QED BY <1>4, <2>2, <2>3, <2>4, <2>5 DEF ChanType, Session!ChanType
  <1>7. /\ Up(chan[c]) /\ (t \notin chan[c].sent => t \notin Kinds(toServer, c))
        /\ new.got = Close => new.sent = Close
        /\ (new.got = Close /\ t \in chan[c].sent) => Fits(NoChan, srv[c], Kinds(r, c), Kinds(toServer, c))
        /\ (new.got = Close /\ t \notin chan[c].sent) => Fits(NoChan, srv[c], Kinds(r, c), Kinds(toServer, c) \cup {t})
        /\ (new.got # Close /\ t \in chan[c].sent) => Fits(new, srv[c], Kinds(r, c), Kinds(toServer, c))
        /\ (new.got # Close /\ t \notin chan[c].sent) => Fits(new, srv[c], Kinds(r, c), Kinds(toServer, c) \cup {t})
    <2>1. PICK ch \in ChanType, sv \in SrvType : ch = chan[c] /\ sv = srv[c]
      BY <1>4
    <2>2. PICK said, told, rest : said = Kinds(toClient, c) /\ told = Kinds(toServer, c) /\ rest = Kinds(r, c)
      OBVIOUS
    <2>3. /\ Fits(ch, sv, said, told) /\ Takes(t, said, rest) /\ t \in Close /\ new \in ChanType
          /\ new.type = ch.type /\ new.s = FALSE /\ new.got = ch.got \cup {t} /\ new.sent = ch.sent \cup {t}
      BY <1>3, <1>4, <1>5, <1>6, <2>1, <2>2
    <2>4. /\ Up(ch) /\ (t \notin ch.sent => t \notin told)
          /\ new.got = Close => new.sent = Close
          /\ (new.got = Close /\ t \in ch.sent) => Fits(NoChan, sv, rest, told)
          /\ (new.got = Close /\ t \notin ch.sent) => Fits(NoChan, sv, rest, told \cup {t})
          /\ (new.got # Close /\ t \in ch.sent) => Fits(new, sv, rest, told)
          /\ (new.got # Close /\ t \notin ch.sent) => Fits(new, sv, rest, told \cup {t})
      BY <2>3, CloseTaken
    <2> QED BY <2>1, <2>2, <2>4
  <1>8. PICK to \in ChanType : to = IF new.got = Close THEN NoChan ELSE new
    <2>1. 0 \in 0 .. MaxUnits
      BY ConstAssumption
    <2>2. NoChan \in ChanType
      BY <2>1 DEF NoChan, Session!NoChan, ChanType, Session!ChanType
    <2> QED BY <1>6, <2>2
  <1>9. /\ chan' = [chan EXCEPT ![c] = to]
        /\ leaked' = IF new.got = Close /\ chan[c].throttling THEN leaked + 1 ELSE leaked
        /\ toServer' = toServer \o IF t \in chan[c].sent THEN <<>> ELSE <<Session!Pkt(t, c)>>
        /\ Quiet /\ count' = count
    <2>1. Session!P.c = c /\ Session!P.t = t
      BY <1>2, <1>3
    <2>2. Session!Closing(c, t).reply = IF t \in chan[c].sent THEN <<>> ELSE <<Session!Pkt(t, c)>>
      BY DEF Session!Closing
    <2>3. chan[c].type \notin {"none", "dormant"}
      BY <1>7 DEF Up
    <2>4. /\ chan' = [chan EXCEPT ![c] = IF new.got = Close /\ new.sent = Close THEN NoChan ELSE new]
          /\ leaked' = IF (new.got = Close /\ new.sent = Close) /\ chan[c].throttling THEN leaked + 1 ELSE leaked
          /\ toServer' = toServer \o Session!Closing(c, t).reply
          /\ Quiet /\ count' = count
      BY <1>6, <2>1, <2>3 DEF Session!OnClose, Session!Send, Session!sizes, Quiet, Close, NoChan
    <2> QED BY <1>7, <1>8, <2>2, <2>4
  <1>10. chan' \in [Conn -> ChanType] /\ chan'[c] = to /\ \A d \in Conn \ {c} : chan'[d] = chan[d]
    BY <1>4, <1>8, <1>9 DEF WellTyped
  <1>11. /\ chan'[c].throttling => Up(chan'[c])
         /\ \/ chan'[c].throttling = chan[c].throttling /\ count' = count /\ leaked' = leaked
            \/ ~chan'[c].throttling /\ chan[c].throttling /\ count' = count /\ leaked' = leaked + 1
    <2>1. chan[c].throttling \in BOOLEAN /\ NoChan.throttling = FALSE
      BY <1>4 DEF ChanType, Session!ChanType, NoChan, Session!NoChan
    <2>2. CASE new.got = Close
      BY <1>8, <1>9, <1>10, <2>1, <2>2
    <2>3. CASE new.got # Close
      BY <1>6, <1>7, <1>8, <1>9, <1>10, <2>3 DEF Up
    <2> QED BY <2>2, <2>3
  <1>12. /\ toServer' \in Seq(ToServerPkt) /\ Orderly(toServer')
         /\ Kinds(toServer', c) = IF t \in chan[c].sent THEN Kinds(toServer, c) ELSE Kinds(toServer, c) \cup {t}
         /\ \A d \in Conn : d # c => Kinds(toServer', d) = Kinds(toServer, d)
    <2>1. CASE t \notin chan[c].sent
      <3>1. t \in ChanKinds /\ \A l \in Kinds(toServer, c) : MayFollow(l, t)
        BY <1>3, <1>7, <2>1 DEF ChanKinds, MayFollow, Close, Session!Close
      <3>2. PICK u \in Seq(ToServerPkt) : u = toServer \o <<Session!Pkt(t, c)>> /\ Orderly(u) /\ Adds(toServer, u, c, t)
        BY <1>4, <3>1, Tells
      <3>3. toServer' = u
        BY <1>9, <2>1, <3>2
      <3> QED BY <2>1, <3>2, <3>3 DEF Adds
    <2>2. CASE t \in chan[c].sent
      <3>1. toServer' = toServer
        BY <1>4, <1>9, <2>2
      <3> QED BY <1>4, <2>2, <3>1
    <2> QED BY <2>1, <2>2
  <1>13. Fits(chan'[c], srv[c], Kinds(r, c), Kinds(toServer', c))
    BY <1>7, <1>8, <1>10, <1>12
  <1> QED BY <1>1, <1>2, <1>5, <1>9, <1>10, <1>11, <1>12, <1>13, ClientRecvStep

-----------------------------------------------------------------------------
(* Steps about no channel *)

\* A step that leaves the channels and what is said about them alone keeps the two ends in agreement.
LEMMA AsideStep ==
    ASSUME SessionInv, Running, SessionTyped', SizeKept', why' = "none",
           chan' = chan, srv' = srv, count' = count, leaked' = leaked,
           Orderly(toClient'), Orderly(toServer'), SaysTheSame(toClient, toClient'), SaysTheSame(toServer, toServer')
    PROVE  SessionInv'
  <1>1. \A c \in Conn : Fits(chan'[c], srv'[c], Kinds(toClient', c), Kinds(toServer', c))
    BY Parts DEF SaysTheSame
  <1>2. Throttled' /\ Session!NoBadClose' /\ Session!ServerKnown'
    BY DEF SessionInv, Throttled, Session!ThrottleCounted, Session!NoBadClose, Session!ServerKnown
  <1>3. Ends'
    BY <1>1 DEF Ends, Agree
  <1> QED BY <1>2, <1>3 DEF SessionInv

\* A step that ends the session, but not with a close of a channel that is not there, keeps the invariant.
LEMMA EndStep ==
    ASSUME SessionInv, state' = "closed", SessionTyped', Session!NoBadClose',
           chan' = chan, srv' = srv, count' = count, leaked' = leaked
    PROVE  SessionInv'
  <1>1. Throttled' /\ Session!ServerKnown' /\ SizeKept' /\ ~Running'
    BY DEF SessionInv, Throttled, Session!ThrottleCounted, Session!ServerKnown, SizeKept, Session!SizeKnown, Running
  <1> QED BY <1>1 DEF SessionInv

\* The window is resized.
LEMMA ResizeStep == ASSUME SessionInv, Session!Resize PROVE SessionInv'
  <1>1. /\ Running /\ inHand' = inHand /\ toClient' = toClient /\ toServer' = toServer /\ srv' = srv /\ phase' = phase
        /\ state' = state /\ why' = why /\ enabled' = enabled /\ chan' = chan /\ count' = count /\ leaked' = leaked
        /\ termSize' = 1
    BY DEF Session!Resize, Session!client, Running
  <1>2. ptySize' \in -1 .. 1 /\ sizeNeeded' \in BOOLEAN
    <2>1. ptySize \in -1 .. 1 /\ sizeNeeded \in BOOLEAN
      BY DEF SessionInv, SessionTyped, Session!TypeOK
    <2>2. CASE state = "session"
      BY <2>1, <2>2 DEF Session!Resize
    <2>3. CASE state # "session"
      <3>1. ptySize' = ptySize /\ sizeNeeded' = (sizeNeeded \/ Session!KeepsSize)
        BY <2>3 DEF Session!Resize
      <3> QED BY <2>1, <3>1
    <2> QED BY <2>2, <2>3
  <1>3. SessionTyped'
    <2>1. inHand' \in 0 .. Len(toClient') /\ termSize' \in 0 .. 1
      <3>1. inHand \in 0 .. Len(toClient)
        BY DEF SessionInv, SessionTyped, Session!TypeOK
      <3> QED BY <1>1, <3>1
    <2>2. /\ phase' \in 0 .. 7 /\ state' \in {"setup", "session", "closed", "crashed"}
          /\ why' \in {"none", "confusion", "bad_close", "exit", "accept"} /\ enabled' \subseteq {"agent", "x11"}
      BY <1>1 DEF SessionInv, SessionTyped, Session!TypeOK
    <2>3. chan' \in [Conn -> Session!ChanType] /\ count' \in Nat /\ leaked' \in Nat
          /\ srv' \in [Conn -> [st: {"none", "opening", "open"}, sent: SUBSET Session!Close, got: SUBSET Session!Close]]
      BY <1>1 DEF SessionInv, SessionTyped, Session!TypeOK
    <2>4. /\ toClient' \in Seq(ToClientPkt) /\ toServer' \in Seq(ToServerPkt)
          /\ state' = "setup" => phase' \in 0 .. 6
      BY <1>1 DEF SessionInv, SessionTyped
    <2> QED BY <1>2, <2>1, <2>2, <2>3, <2>4 DEF SessionTyped, Session!TypeOK
  <1>4. SizeKept'
    <2>1. CASE state = "session"
      BY <1>1, <2>1 DEF Session!Resize, SizeKept, Session!SizeKnown
    <2>2. CASE state # "session"
      <3>1. sizeNeeded' = (sizeNeeded \/ Session!KeepsSize)
        BY <2>2 DEF Session!Resize
      <3>2. phase >= 5 /\ "pty" \in Options => sizeNeeded'
        BY <3>1 DEF Session!KeepsSize
      <3> QED BY <1>1, <2>2, <3>2 DEF SizeKept, Session!SizeKnown
    <2> QED BY <2>1, <2>2
  <1>5. why' = "none" /\ Orderly(toClient') /\ Orderly(toServer') /\ SaysTheSame(toClient, toClient') /\ SaysTheSame(toServer, toServer')
    BY <1>1 DEF SessionInv, Ends, SaysTheSame
  <1> QED BY <1>1, <1>3, <1>4, <1>5, AsideStep

\* The client reads packets.
LEMMA RecvStep == ASSUME SessionInv, Session!Recv PROVE SessionInv'
  <1>1. /\ Running /\ inHand' \in 1 .. Len(toClient) /\ toClient' = toClient /\ toServer' = toServer /\ srv' = srv
        /\ phase' = phase /\ state' = state /\ why' = why /\ enabled' = enabled /\ chan' = chan /\ count' = count
        /\ leaked' = leaked /\ termSize' = termSize /\ ptySize' = ptySize /\ sizeNeeded' = sizeNeeded
    BY DEF Session!Recv, Session!client, Session!sizes, Running
  <1>2. SessionTyped'
    <2>1. inHand' \in 0 .. Len(toClient')
      BY <1>1 DEF SessionInv, SessionTyped
    <2> QED BY <1>1, <2>1 DEF SessionInv, SessionTyped, Session!TypeOK
  <1>3. SizeKept'
    BY <1>1 DEF SessionInv, SizeKept, Session!SizeKnown
  <1>4. why' = "none" /\ Orderly(toClient') /\ Orderly(toServer') /\ SaysTheSame(toClient, toClient') /\ SaysTheSame(toServer, toServer')
    BY <1>1 DEF SessionInv, Ends, SaysTheSame
  <1> QED BY <1>1, <1>2, <1>3, <1>4, AsideStep

\* The server ends the session, or answers EXEC_SHELL.
LEMMA SrvExitStep == ASSUME SessionInv, Session!SrvExit PROVE SessionInv'
  <1>1. /\ Running /\ inHand' = inHand /\ toServer' = toServer /\ srv' = srv
        /\ phase' = phase /\ state' = state /\ why' = why /\ enabled' = enabled /\ chan' = chan /\ count' = count
        /\ leaked' = leaked /\ termSize' = termSize /\ ptySize' = ptySize /\ sizeNeeded' = sizeNeeded
    BY DEF Session!SrvExit, Session!client, Session!sizes, Running, Session!Running
  <1>2. PICK t \in {"exit_status", "success"} : toClient' = toClient \o <<Session!Pkt(t, None)>>
    BY DEF Session!SrvExit, Session!ToClient
  <1>3. PICK m \in ToClientPkt : m = Session!Pkt(t, None) /\ m.c = None
    <2>1. Session!Pkt(t, None) \in ToClientPkt /\ Session!Pkt(t, None).c = None
      BY DEF Session!Pkt, ToClientPkt
    <2> QED BY <2>1
  <1>4. toClient \in Seq(ToClientPkt) /\ Orderly(toClient) /\ Orderly(toServer) /\ why = "none" /\ inHand \in 0 .. Len(toClient)
    BY <1>1 DEF SessionInv, SessionTyped, Session!TypeOK, Ends
  <1>5. PICK r \in Seq(ToClientPkt) : /\ r = toClient \o <<m>> /\ Orderly(r) /\ Len(r) = Len(toClient) + 1
                                      /\ Len(toClient) \in Nat /\ SaysTheSame(toClient, r)
    BY <1>3, <1>4, SaysAside
  <1>6. toClient' = r /\ inHand \in 0 .. Len(r)
    <2>1. toClient' = r
      BY <1>2, <1>3, <1>5
    <2>2. PICK n \in Nat, l \in Nat : n = Len(toClient) /\ l = Len(r) /\ l = n + 1
      BY <1>5
    <2>3. inHand \in 0 .. n
      BY <1>4, <2>2
    <2> QED BY <2>1, <2>2, <2>3
  <1>7. SessionTyped'
    BY <1>1, <1>6 DEF SessionInv, SessionTyped, Session!TypeOK
  <1>8. SizeKept'
    BY <1>1 DEF SessionInv, SizeKept, Session!SizeKnown
  <1>9. SaysTheSame(toServer, toServer')
    BY <1>1 DEF SaysTheSame
  <1> QED BY <1>1, <1>4, <1>5, <1>6, <1>7, <1>8, <1>9, AsideStep

\* The server takes a packet about no channel, and may answer it.
LEMMA SrvRecvAsideStep == ASSUME SessionInv, Session!SrvRecv, Head(toServer).c \notin Conn PROVE SessionInv'
  <1>1. /\ Running /\ inHand' = inHand /\ toServer # <<>> /\ toServer' = Tail(toServer)
        /\ phase' = phase /\ state' = state /\ why' = why /\ enabled' = enabled /\ chan' = chan /\ count' = count
        /\ leaked' = leaked /\ termSize' = termSize /\ ptySize' = ptySize /\ sizeNeeded' = sizeNeeded
    BY DEF Session!SrvRecv, Session!client, Session!sizes, Running, Session!Running
  <1>2. PICK h \in ToServerPkt, r \in Seq(ToServerPkt) :
          /\ h = Head(toServer) /\ toServer' = r /\ Orderly(r)
          /\ \A d \in Conn : d # h.c => Kinds(r, d) = Kinds(toServer, d)
    BY <1>1, ServerTakes
  <1>3. h.t \in Requests \cup {"exec", "exit_confirmation"} /\ SaysTheSame(toServer, r)
    BY <1>2 DEF ToServerPkt, SaysTheSame
  <1>4. Head(toServer).t \in Requests \cup {"exec", "exit_confirmation"}
    BY <1>2, <1>3
  <1>5. /\ srv' = srv
        /\ toClient' = toClient \/ \E t \in {"success", "failure"} : toClient' = toClient \o <<Session!Pkt(t, None)>>
    <2>1. CASE Head(toServer).t \in Requests
      <3>1. Head(toServer).t \in {Session!Order[i] : i \in DOMAIN Session!Order}
        BY <2>1 DEF Session!Order, Requests
      <3>2. Head(toServer).t \notin {"exec", "port_open", "open_confirmation", "open_failure"} \cup Session!Close
        BY <2>1 DEF Requests, Session!Close
      <3> QED BY <3>1, <3>2 DEF Session!SrvRecv, Session!ToClient
    <2>2. CASE Head(toServer).t = "exec"
      <3>1. Head(toServer).t \notin {Session!Order[i] : i \in DOMAIN Session!Order}
        BY <2>2 DEF Session!Order
      <3> QED BY <2>2, <3>1 DEF Session!SrvRecv, Session!Close
    <2>3. CASE Head(toServer).t = "exit_confirmation"
      <3>1. Head(toServer).t \notin {Session!Order[i] : i \in DOMAIN Session!Order}
        BY <2>3 DEF Session!Order
      <3> QED BY <2>3, <3>1 DEF Session!SrvRecv, Session!Close
    <2> QED BY <1>4, <2>1, <2>2, <2>3
  <1>6. toClient \in Seq(ToClientPkt) /\ Orderly(toClient) /\ why = "none" /\ inHand \in 0 .. Len(toClient)
    BY <1>1 DEF SessionInv, SessionTyped, Session!TypeOK, Ends
  <1>7. /\ toClient' \in Seq(ToClientPkt) /\ Orderly(toClient') /\ SaysTheSame(toClient, toClient')
        /\ inHand \in 0 .. Len(toClient')
    <2>1. CASE toClient' = toClient
      BY <1>6, <2>1 DEF SaysTheSame
    <2>2. CASE \E t \in {"success", "failure"} : toClient' = toClient \o <<Session!Pkt(t, None)>>
      <3>1. PICK t \in {"success", "failure"} : toClient' = toClient \o <<Session!Pkt(t, None)>>
        BY <2>2
      <3>2. PICK m \in ToClientPkt : m = Session!Pkt(t, None) /\ m.c = None
        <4>1. Session!Pkt(t, None) \in ToClientPkt /\ Session!Pkt(t, None).c = None
          BY DEF Session!Pkt, ToClientPkt
        <4> QED BY <4>1
      <3>3. PICK u \in Seq(ToClientPkt) : /\ u = toClient \o <<m>> /\ Orderly(u) /\ Len(u) = Len(toClient) + 1
                                          /\ Len(toClient) \in Nat /\ SaysTheSame(toClient, u)
        BY <1>6, <3>2, SaysAside
      <3>4. toClient' = u
        BY <3>1, <3>2, <3>3
      <3>5. PICK n \in Nat, l \in Nat : n = Len(toClient) /\ l = Len(u) /\ l = n + 1
        BY <3>3
      <3>6. inHand \in 0 .. n
        BY <1>6, <3>5
      <3>7. inHand \in 0 .. Len(u)
        BY <3>5, <3>6
      <3> QED BY <3>3, <3>4, <3>7
    <2> QED BY <1>5, <2>1, <2>2
  <1>8. SessionTyped'
    BY <1>1, <1>2, <1>5, <1>7 DEF SessionInv, SessionTyped, Session!TypeOK
  <1>9. SizeKept'
    BY <1>1 DEF SessionInv, SizeKept, Session!SizeKnown
  <1> QED BY <1>1, <1>2, <1>3, <1>5, <1>6, <1>7, <1>8, <1>9, AsideStep

\* A packet about no channel in the session: SUCCESS or FAILURE are ignored, EXIT_STATUS ends it.
LEMMA OnOtherStep == ASSUME SessionInv, Session!OnOther PROVE SessionInv'
  <1>1. /\ Session!Take /\ Session!P.t \in {"success", "failure", "exit_status"} /\ phase' = phase /\ enabled' = enabled
        /\ chan' = chan /\ count' = count /\ leaked' = leaked /\ state = "session"
        /\ termSize' = termSize /\ ptySize' = ptySize /\ sizeNeeded' = sizeNeeded
    BY DEF Session!OnOther, Session!client, Session!sizes
  <1>2. PICK h \in ToClientPkt, r \in Seq(ToClientPkt) :
          /\ h = Session!P /\ toClient' = r /\ Orderly(r) /\ inHand' \in 0 .. Len(r)
          /\ \A d \in Conn : d # h.c => Kinds(r, d) = Kinds(toClient, d)
    BY <1>1, ClientTakes
  <1>3. h.c \notin Conn
    BY <1>1, <1>2, ConstAssumption DEF ToClientPkt, ChanKinds, Opens
  <1>4. SaysTheSame(toClient, toClient')
    BY <1>2, <1>3 DEF SaysTheSame
  <1>5. srv' = srv /\ Running /\ toServer \in Seq(ToServerPkt) /\ Orderly(toServer) /\ why = "none"
    BY <1>1, ClientTakes, Parts DEF WellTyped, Ends
  <1>6. CASE state' = state /\ why' = why /\ toServer' = toServer
    <2>1. SessionTyped'
      BY <1>1, <1>2, <1>5, <1>6 DEF SessionInv, SessionTyped, Session!TypeOK
    <2>2. SizeKept'
      BY <1>1, <1>6 DEF SessionInv, SizeKept, Session!SizeKnown
    <2>3. SaysTheSame(toServer, toServer')
      BY <1>6 DEF SaysTheSame
    <2> QED BY <1>1, <1>2, <1>4, <1>5, <1>6, <2>1, <2>2, <2>3, AsideStep
  <1>7. CASE state' = "closed" /\ why' = "exit" /\ toServer' = toServer \o <<Session!Pkt("exit_confirmation", None)>>
    <2>1. PICK m \in ToServerPkt : m = Session!Pkt("exit_confirmation", None)
      <3>1. Session!Pkt("exit_confirmation", None) \in ToServerPkt
        BY DEF Session!Pkt, ToServerPkt
      <3> QED BY <3>1
    <2>2. toServer' \in Seq(ToServerPkt)
      BY <1>5, <1>7, <2>1, Put
    <2>3. SessionTyped' /\ Session!NoBadClose'
      BY <1>1, <1>2, <1>5, <1>7, <2>2 DEF SessionInv, SessionTyped, Session!TypeOK, Session!NoBadClose
    <2> QED BY <1>1, <1>5, <1>7, <2>3, EndStep
  <1> QED BY <1>6, <1>7 DEF Session!OnOther, Session!client, Session!End, Session!Send

-----------------------------------------------------------------------------
(* The set-up requests *)

\* The next request exists, is one to be made, and none between is.
LEMMA NextRequest ==
    ASSUME NEW p \in 0 .. 6
    PROVE  \E q \in p + 1 .. 7 :
             /\ q = Session!NextPhase(p) /\ (q = 7 \/ Session!Awaited(q))
             /\ \A r \in p + 1 .. q - 1 : ~Session!Awaited(r)
  <1> DEFINE Good(i, q) == (q = 7 \/ Session!Awaited(q)) /\ \A r \in i + 1 .. q - 1 : ~Session!Awaited(r)
             Exists(i) == \E q \in i + 1 .. 7 : Good(i, q)
  <1>1. Exists(6)
    <2>1. Good(6, 7)
      OBVIOUS
    <2> QED BY <2>1
  <1>2. ASSUME NEW i \in 0 .. 5, Exists(i + 1) PROVE Exists(i)
    <2>1. CASE Session!Awaited(i + 1)
      <3>1. Good(i, i + 1) /\ i + 1 \in i + 1 .. 7
        BY <2>1
      <3> QED BY <3>1
    <2>2. CASE ~Session!Awaited(i + 1)
      <3>1. PICK q \in (i + 1) + 1 .. 7 : Good(i + 1, q)
        BY <1>2
      <3>2. q \in i + 1 .. 7 /\ (q = 7 \/ Session!Awaited(q))
        BY <3>1
      <3>3. ASSUME NEW r \in i + 1 .. q - 1 PROVE ~Session!Awaited(r)
        <4>1. r = i + 1 \/ r \in (i + 1) + 1 .. q - 1
          OBVIOUS
        <4> QED BY <2>2, <3>1, <4>1
      <3> QED BY <3>2, <3>3
    <2> QED BY <2>1, <2>2
  <1> HIDE DEF Exists
  <1>3. Exists(5) /\ Exists(4) /\ Exists(3) /\ Exists(2) /\ Exists(1) /\ Exists(0)
    <2>1. Exists(5)
      BY <1>1, <1>2
    <2>2. Exists(4)
      BY <2>1, <1>2
    <2>3. Exists(3)
      BY <2>2, <1>2
    <2>4. Exists(2)
      BY <2>3, <1>2
    <2>5. Exists(1)
      BY <2>4, <1>2
    <2>6. Exists(0)
      BY <2>5, <1>2
    <2> QED BY <2>1, <2>2, <2>3, <2>4, <2>5, <2>6
  <1>4. Exists(p)
    <2>1. p = 0 \/ p = 1 \/ p = 2 \/ p = 3 \/ p = 4 \/ p = 5 \/ p = 6
      OBVIOUS
    <2> QED BY <1>1, <1>3, <2>1
  <1>5. \E q \in p + 1 .. 7 : (q = 7 \/ Session!Awaited(q)) /\ \A r \in p + 1 .. q - 1 : ~Session!Awaited(r)
    BY <1>4 DEF Exists
  <1> QED BY <1>5 DEF Session!NextPhase

\* Between two requests none that the configuration asks for is left out, the pty's among them.
LEMMA NoPtyBetween ==
    ASSUME NEW p \in 0 .. 4, NEW q \in p + 1 .. 7, "pty" \in Options, \A r \in p + 1 .. q - 1 : ~Session!Awaited(r)
    PROVE  q <= 5
  <1>1. Session!Awaited(5)
    BY DEF Session!Awaited, Session!Order
  <1> QED BY <1>1

\* The next set-up request is sent, or the session begins: the size of the terminal goes with
\* the pty request or is sent after it.
LEMMA ProceedStep ==
    ASSUME SessionInv, state = "setup", Session!Proceed(phase),
           chan' = chan, srv' = srv, count' = count, leaked' = leaked, why' = why, enabled' \subseteq {"agent", "x11"},
           toClient' \in Seq(ToClientPkt), Orderly(toClient'), SaysTheSame(toClient, toClient'),
           inHand' \in 0 .. Len(toClient')
    PROVE  SessionInv'
  <1>1. /\ phase \in 0 .. 6 /\ Running /\ why = "none" /\ Orderly(toServer) /\ toServer \in Seq(ToServerPkt)
        /\ termSize \in 0 .. 1 /\ ptySize \in -1 .. 1 /\ sizeNeeded \in BOOLEAN
    BY DEF SessionInv, SessionTyped, Session!TypeOK, Running, Ends
  <1>2. PICK q \in phase + 1 .. 7 : /\ q = Session!NextPhase(phase) /\ (q = 7 \/ Session!Awaited(q))
                                    /\ \A r \in phase + 1 .. q - 1 : ~Session!Awaited(r)
    BY <1>1, NextRequest
  <1>3. phase' = q /\ termSize' = termSize
    BY <1>2 DEF Session!Proceed
  <1>4. ("pty" \in Options /\ q > 5) => phase >= 5
    <2>1. ASSUME "pty" \in Options, q > 5, phase \in 0 .. 4 PROVE FALSE
      BY <1>2, <2>1, NoPtyBetween
    <2> QED BY <1>1, <2>1
  <1>5. /\ ptySize' \in -1 .. 1 /\ sizeNeeded' \in BOOLEAN /\ SizeKept'
        /\ state' \in {"setup", "session"} /\ (state' = "setup" => phase' \in 0 .. 6)
        /\ \E m \in ToServerPkt : m.c = None /\ toServer' = toServer \o <<m>>
    <2>1. CASE q < 7
      <3>1. Session!Awaited(q) /\ q \in 1 .. 6
        BY <1>1, <1>2, <2>1
      <3>2. Session!Order[q] \in Requests
        BY <3>1 DEF Session!Order, Requests
      <3>3. /\ toServer' = toServer \o <<Session!Pkt(Session!Order[q], None)>>
            /\ ptySize' = (IF Session!Order[q] = "pty" THEN termSize ELSE ptySize)
            /\ state' = state /\ sizeNeeded' = sizeNeeded
        BY <1>2, <2>1 DEF Session!Proceed, Session!Send
      <3>4. Session!Pkt(Session!Order[q], None) \in ToServerPkt /\ Session!Pkt(Session!Order[q], None).c = None
        BY <3>2 DEF Session!Pkt, ToServerPkt
      <3>5. ptySize' \in -1 .. 1 /\ sizeNeeded' \in BOOLEAN
        <4>1. ptySize' = termSize \/ ptySize' = ptySize
          BY <3>3
        <4> QED BY <1>1, <3>3, <4>1
      <3>6. SizeKept'
        <4>1. ASSUME phase' >= 5, "pty" \in Options PROVE ptySize' = termSize' \/ sizeNeeded'
          <5>1. q = 5 \/ q = 6
            BY <1>3, <3>1, <4>1
          <5>2. CASE q = 5
            <6>1. Session!Order[5] = "pty"
              BY DEF Session!Order
            <6> QED BY <1>3, <3>3, <5>2, <6>1
          <5>3. CASE q = 6
            <6>1. Session!Order[6] # "pty"
              BY DEF Session!Order
            <6>2. phase >= 5
              BY <1>4, <4>1, <5>3
            <6>3. ptySize = termSize \/ sizeNeeded
              BY <4>1, <6>2 DEF SessionInv, SizeKept
            <6> QED BY <1>3, <3>3, <5>3, <6>1, <6>3
          <5> QED BY <5>1, <5>2, <5>3
        <4> QED BY <3>3, <4>1 DEF SizeKept, Session!SizeKnown
      <3>7. state' = "setup" /\ phase' \in 0 .. 6
        BY <1>3, <3>1, <3>3
      <3> QED BY <3>3, <3>4, <3>5, <3>6, <3>7
    <2>2. CASE q = 7
      <3>1. /\ state' = "session" /\ toServer' = toServer \o <<Session!Pkt("exec", None)>>
            /\ ptySize' = (IF sizeNeeded /\ "pty" \in Options THEN termSize ELSE ptySize)
            /\ sizeNeeded' = FALSE
        BY <1>2, <2>2 DEF Session!Proceed, Session!Send
      <3>2. Session!Pkt("exec", None) \in ToServerPkt /\ Session!Pkt("exec", None).c = None
        BY DEF Session!Pkt, ToServerPkt
      <3>3. ptySize' \in -1 .. 1
        <4>1. ptySize' = termSize \/ ptySize' = ptySize
          BY <3>1
        <4> QED BY <1>1, <4>1
      <3>4. SizeKept'
        <4>1. ASSUME "pty" \in Options PROVE ptySize' = termSize'
          <5>1. phase >= 5
            BY <1>4, <2>2, <4>1
          <5>2. ptySize = termSize \/ sizeNeeded
            BY <4>1, <5>1 DEF SessionInv, SizeKept
          <5> QED BY <1>3, <3>1, <4>1, <5>2
        <4> QED BY <3>1, <4>1 DEF SizeKept, Session!SizeKnown
      <3> QED BY <3>1, <3>2, <3>3, <3>4
    <2>3. q < 7 \/ q = 7
      BY <1>1
    <2> QED BY <2>1, <2>2, <2>3
  <1>6. PICK m \in ToServerPkt : m.c = None /\ toServer' = toServer \o <<m>>
    BY <1>5
  <1>7. PICK r \in Seq(ToServerPkt) : /\ r = toServer \o <<m>> /\ Orderly(r) /\ Len(r) = Len(toServer) + 1
                                      /\ Len(toServer) \in Nat /\ SaysTheSame(toServer, r)
    BY <1>1, <1>6, TellsAside
  <1>8. toServer' = r
    BY <1>6, <1>7
  <1>9. SessionTyped'
    <2>1. /\ phase' \in 0 .. 7 /\ state' \in {"setup", "session", "closed", "crashed"}
          /\ why' \in {"none", "confusion", "bad_close", "exit", "accept"} /\ termSize' \in 0 .. 1
      BY <1>1, <1>3, <1>5
    <2>2. chan' \in [Conn -> Session!ChanType] /\ count' \in Nat /\ leaked' \in Nat
          /\ srv' \in [Conn -> [st: {"none", "opening", "open"}, sent: SUBSET Session!Close, got: SUBSET Session!Close]]
      BY DEF SessionInv, SessionTyped, Session!TypeOK
    <2>3. toServer' \in Seq(ToServerPkt)
      BY <1>7, <1>8
    <2> QED BY <1>5, <2>1, <2>2, <2>3 DEF SessionTyped, Session!TypeOK
  <1> QED BY <1>1, <1>5, <1>7, <1>8, <1>9, AsideStep

\* The set-up begins with the first request.
LEMMA StartStep == ASSUME SessionInv, Session!Start PROVE SessionInv'
  <1>1. /\ state = "setup" /\ phase = 0 /\ Session!Proceed(0) /\ chan' = chan /\ srv' = srv /\ count' = count
        /\ leaked' = leaked /\ why' = why /\ enabled' = enabled /\ toClient' = toClient /\ inHand' = inHand
    BY DEF Session!Start
  <1>2. /\ enabled' \subseteq {"agent", "x11"} /\ toClient' \in Seq(ToClientPkt) /\ Orderly(toClient')
        /\ inHand' \in 0 .. Len(toClient') /\ SaysTheSame(toClient, toClient')
    BY <1>1 DEF SessionInv, SessionTyped, Session!TypeOK, Ends, Running, SaysTheSame
  <1> QED BY <1>1, <1>2, ProceedStep

\* A packet while a request awaits its answer: the answer, or the end of the session.
LEMMA OnSetupPacketStep == ASSUME SessionInv, Session!OnSetupPacket PROVE SessionInv'
  <1>1. Session!Take /\ state = "setup"
    BY DEF Session!OnSetupPacket
  <1>2. PICK h \in ToClientPkt, r \in Seq(ToClientPkt) :
          /\ h = Session!P /\ toClient' = r /\ Orderly(r) /\ inHand' \in 0 .. Len(r)
          /\ \A d \in Conn : d # h.c => Kinds(r, d) = Kinds(toClient, d)
    BY <1>1, ClientTakes
  <1>3. srv' = srv /\ Running /\ why = "none" /\ enabled \subseteq {"agent", "x11"}
    BY <1>1, ClientTakes DEF Ends, SessionInv, SessionTyped, Session!TypeOK
  <1>4. CASE Session!P.t \in {"success", "failure"}
    <2>1. /\ Session!Proceed(phase) /\ chan' = chan /\ count' = count /\ leaked' = leaked /\ why' = why
          /\ enabled' = (IF Session!P.t = "success" /\ Session!Order[phase] \in {"agent", "x11"}
                           THEN enabled \cup {Session!Order[phase]} ELSE enabled)
      BY <1>4 DEF Session!OnSetupPacket
    <2>2. enabled' \subseteq {"agent", "x11"}
      BY <1>3, <2>1
    <2>3. h.c \notin Conn
      BY <1>2, <1>4, ConstAssumption DEF ToClientPkt, ChanKinds, Opens
    <2>4. SaysTheSame(toClient, toClient')
      BY <1>2, <2>3 DEF SaysTheSame
    <2> QED BY <1>1, <1>2, <1>3, <2>1, <2>2, <2>4, ProceedStep
  <1>5. CASE Session!P.t \notin {"success", "failure"}
    <2>1. /\ state' = "closed" /\ why' = "confusion" /\ phase' = phase /\ enabled' = enabled /\ chan' = chan
          /\ count' = count /\ leaked' = leaked /\ toServer' = toServer
          /\ termSize' = termSize /\ ptySize' = ptySize /\ sizeNeeded' = sizeNeeded
      BY <1>5 DEF Session!OnSetupPacket, Session!Bombout, Session!End, Session!sizes
    <2>2. SessionTyped' /\ Session!NoBadClose'
      BY <1>2, <1>3, <2>1 DEF SessionInv, SessionTyped, Session!TypeOK, Session!NoBadClose
    <2> QED BY <1>3, <2>1, <2>2, EndStep
  <1> QED BY <1>4, <1>5

-----------------------------------------------------------------------------
(* The session *)

\* At the beginning there is no channel and nothing is said about any.
LEMMA SessionBegins == ASSUME Session!Init PROVE SessionInv
  <1>1. /\ phase = 0 /\ state = "setup" /\ why = "none" /\ enabled = {} /\ count = 0 /\ leaked = 0 /\ inHand = 0
        /\ toClient = <<>> /\ toServer = <<>> /\ termSize = 0 /\ ptySize = -1 /\ sizeNeeded = FALSE
        /\ chan = [c \in Conn |-> NoChan] /\ srv = [c \in Conn |-> NoSrv]
    BY DEF Session!Init, NoChan, NoSrv
  <1>3. PICK q \in Seq(ToClientPkt) : q = toClient /\ q \in Seq(ToServerPkt) /\ q = toServer /\ Len(q) = 0
    <2>1. <<>> \in Seq(ToClientPkt) /\ <<>> \in Seq(ToServerPkt) /\ Len(<<>>) = 0
      OBVIOUS
    <2> QED BY <1>1, <2>1
  <1>4. SessionTyped
    <2>1. NoChan \in ChanType
      <3>1. 0 \in 0 .. MaxUnits
        BY ConstAssumption
      <3> QED BY <3>1 DEF NoChan, Session!NoChan, ChanType, Session!ChanType
    <2>2. chan \in [Conn -> Session!ChanType]
      BY <1>1, <2>1 DEF ChanType
    <2>3. srv \in [Conn -> [st: {"none", "opening", "open"}, sent: SUBSET Session!Close, got: SUBSET Session!Close]]
      BY <1>1 DEF NoSrv
    <2>4. inHand \in 0 .. Len(toClient)
      BY <1>1, <1>3
    <2>5. toClient \in Seq(ToClientPkt) /\ toServer \in Seq(ToServerPkt)
      BY <1>3
    <2>6. /\ phase \in 0 .. 7 /\ phase \in 0 .. 6 /\ count \in Nat /\ leaked \in Nat
          /\ termSize \in 0 .. 1 /\ ptySize \in -1 .. 1 /\ sizeNeeded \in BOOLEAN
      <3>1. 0 \in 0 .. 7 /\ 0 \in 0 .. 6 /\ 0 \in Nat /\ 0 \in 0 .. 1 /\ -1 \in -1 .. 1 /\ FALSE \in BOOLEAN
        OBVIOUS
      <3> QED BY <1>1, <3>1, Zenon
    <2> QED BY <1>1, <2>2, <2>3, <2>4, <2>5, <2>6 DEF SessionTyped, Session!TypeOK
  <1>5. SizeKept /\ Session!NoBadClose /\ Session!ServerKnown
    BY <1>1 DEF SizeKept, Session!SizeKnown, Session!NoBadClose, Session!ServerKnown, NoSrv
  <1>6. Throttled
    <2>1. {c \in Conn : chan[c].throttling} = {}
      BY <1>1 DEF NoChan, Session!NoChan
    <2>2. Session!Cardinality({c \in Conn : chan[c].throttling}) = 0
      BY <2>1, SameCardinality, FS_EmptySet
    <2> QED BY <1>1, <2>2 DEF Throttled, Session!ThrottleCounted, NoChan, Session!NoChan
  <1>7. Ends
    <2>1. \A c \in Conn : Kinds(q, c) = {}
      BY <1>3 DEF Kinds
    <2>2. Orderly(q)
      BY <1>3 DEF Orderly
    <2>3. ASSUME NEW c \in Conn PROVE Agree(c)
      <3>1. Idle(chan[c], srv[c], Kinds(toClient, c), Kinds(toServer, c))
        BY <1>1, <1>3, <2>1 DEF Idle
      <3>2. chan[c].s = FALSE
        BY <1>1 DEF NoChan, Session!NoChan
      <3> QED BY <3>1, <3>2 DEF Agree, Fits
    <2> QED BY <1>1, <1>3, <2>2, <2>3 DEF Ends
  <1> QED BY <1>4, <1>5, <1>6, <1>7 DEF SessionInv

\* A step that changes nothing of the session.
LEMMA SessionStutters == ASSUME SessionInv, UNCHANGED sessionVars PROVE SessionInv'
  <1>1. /\ phase' = phase /\ state' = state /\ why' = why /\ enabled' = enabled /\ chan' = chan /\ count' = count
        /\ leaked' = leaked /\ inHand' = inHand /\ toClient' = toClient /\ toServer' = toServer /\ srv' = srv
        /\ termSize' = termSize /\ ptySize' = ptySize /\ sizeNeeded' = sizeNeeded
    BY DEF sessionVars
  <1>2. SessionTyped' /\ SizeKept'
    BY <1>1 DEF SessionInv, SessionTyped, Session!TypeOK, SizeKept, Session!SizeKnown
  <1>3. Throttled' /\ Session!NoBadClose' /\ Session!ServerKnown'
    BY <1>1 DEF SessionInv, Throttled, Session!ThrottleCounted, Session!NoBadClose, Session!ServerKnown
  <1>4. Running' => Ends'
    BY <1>1 DEF SessionInv, Running, Ends, Agree
  <1> QED BY <1>2, <1>3, <1>4 DEF SessionInv

\* Every step of the client, the server and the user keeps the invariant.
LEMMA SessionSteps == ASSUME SessionInv, Session!Next PROVE SessionInv'
  <1>1. ASSUME Session!OnPacket PROVE SessionInv'
    BY <1>1, OnSetupPacketStep, OnOpenStep, OnOpenConfirmationStep, OnOpenFailureStep, OnCloseStep, OnDataStep,
       OnOtherStep DEF Session!OnPacket
  <1>2. ASSUME Session!SrvRecv PROVE SessionInv'
    BY <1>2, SrvRecvStep, SrvRecvAsideStep
  <1>3. ASSUME NEW c \in Conn, Session!Accept(c) \/ Session!LocalClose(c) \/ Session!LocalData(c) \/ Session!LocalSent(c)
        PROVE  SessionInv'
    BY <1>3, AcceptStep, LocalCloseStep, LocalDataStep, LocalSentStep
  <1>4. ASSUME NEW c \in Conn, Session!SrvOpen(c) \/ Session!SrvData(c) \/ \E t \in Session!Close : Session!SrvClose(c, t)
        PROVE  SessionInv'
    BY <1>4, SrvOpenStep, SrvDataStep, SrvCloseStep DEF Close
  <1> QED BY <1>1, <1>2, <1>3, <1>4, StartStep, ResizeStep, RecvStep, SrvExitStep DEF Session!Next

-----------------------------------------------------------------------------
(* The invariant of the login *)

AgentAsked == {"agent", "agent_key", "agent_sign", "agent_response"}
RsaUnderWay == {"agent", "agent_key", "agent_sign", "agent_response", "load", "rsa", "rsa_response"}

\* The last packet is a refusal, but for a challenge to the agent that was never answered.
Refused == pktin = "failure" \/ (pktin = "challenge" /\ "agent" \in tried)
\* A server that chokes on RSA: both methods that use it count as tried, and neither is under way.
Spared ==
    /\ pc \in {"keys", "encryption", "username", "user", "done", "bombout", "exit"} \/ {"publickey", "agent"} \subseteq tried
    /\ pc \notin RsaUnderWay /\ (pc = "prompt" => pwpkt # "rsa")
LoginInv ==
    /\ Login!TypeOK /\ Login!DoneGrantedOrStale /\ Login!WarnedBelowLine
    /\ pc \in AgentAsked => "agent" \in tried
    /\ pc = "agent" => pktin = "failure"
    /\ pc = "agent_sign" => pktin = "challenge"
    /\ pc \in {"tis", "ccard"} => pwpkt = pc
    /\ pc = "load" \/ (pc = "prompt" /\ pwpkt = "rsa") => Refused
    /\ "chokes_on_rsa" \in cfg.bugs => Spared
    /\ pc = "keys" => batches = {} /\ "chokes_on_rsa" \notin cfg.bugs
    /\ \A b \in batches : b.len \in Nat /\ b.wire = Login!Wire(b.len)

\* Where the head of the loop leads from t, the methods that count as tried: a method that was
\* tried is not tried again, and each state remembers the packet it answers with.
Lands(r, t) ==
    /\ t \subseteq r.tried /\ r.tried \subseteq t \cup {"publickey", "agent"}
    /\ r.pc \in {"agent", "tis", "ccard", "load", "prompt", "done"}
    /\ r.pc = "agent" => "agent" \in r.tried /\ "agent" \notin t
    /\ r.pc \in {"tis", "ccard"} => r.pwpkt = r.pc
    /\ {"publickey", "agent"} \subseteq t => r.pc \notin {"agent", "load"} /\ (r.pc = "prompt" => r.pwpkt # "rsa")

\* The methods after the agent: as Lands, or round the loop for a key of the wrong type.
LEMMA MethodsLand ==
    ASSUME NEW t
    PROVE  \/ /\ Lands(Login!Methods(t), t) /\ Login!Methods(t).pc \notin {"agent", "done", "loop"}
              /\ Login!Methods(t).tried = t
           \/ /\ Login!Methods(t).pc = "loop" /\ "publickey" \notin t
              /\ Login!Methods(t).tried = t \cup {"publickey"}
  <1>1. CASE "tis" \in cfg.auths \ t
    <2>1. Login!Methods(t) = [pc |-> "tis", pwpkt |-> "tis", tried |-> t]
      BY <1>1 DEF Login!Methods
    <2> QED BY <2>1 DEF Lands
  <1>2. CASE "tis" \notin cfg.auths \ t /\ "ccard" \in cfg.auths \ t
    <2>1. Login!Methods(t) = [pc |-> "ccard", pwpkt |-> "ccard", tried |-> t]
      BY <1>2 DEF Login!Methods
    <2> QED BY <2>1 DEF Lands
  <1>3. CASE "tis" \notin cfg.auths \ t /\ "ccard" \notin cfg.auths \ t
    <2>1. Login!Methods(t) = Login!AskOrTry(t)
      BY <1>3 DEF Login!Methods
    <2>2. CASE Login!UseKeyfile(t) /\ cfg.key = "wrong_type"
      <3>1. Login!AskOrTry(t) = [pc |-> "loop", pwpkt |-> "rsa", tried |-> t \cup {"publickey"}]
        BY <2>2 DEF Login!AskOrTry
      <3>2. "publickey" \notin t
        BY <2>2 DEF Login!UseKeyfile
      <3>3. Login!Methods(t).pc = "loop" /\ Login!Methods(t).tried = t \cup {"publickey"}
        BY <2>1, <3>1
      <3> QED BY <3>2, <3>3
    <2>3. CASE Login!UseKeyfile(t) /\ cfg.key \in {"clear", "unreadable"}
      <3>1. Login!AskOrTry(t) = [pc |-> "load", pwpkt |-> "rsa", tried |-> t]
        BY <2>3 DEF Login!AskOrTry
      <3> QED BY <2>1, <2>3, <3>1 DEF Login!UseKeyfile, Lands
    <2>4. CASE Login!UseKeyfile(t) /\ cfg.key = "encrypted"
      <3>1. Login!AskOrTry(t) = [pc |-> "prompt", pwpkt |-> "rsa", tried |-> t]
        BY <2>4 DEF Login!AskOrTry
      <3> QED BY <2>1, <2>4, <3>1 DEF Login!UseKeyfile, Lands
    <2>5. CASE ~(Login!UseKeyfile(t) /\ cfg.key \in {"wrong_type", "clear", "unreadable", "encrypted"})
      <3>1. Login!AskOrTry(t) = [pc |-> "prompt", pwpkt |-> "password", tried |-> t]
        BY <2>5 DEF Login!AskOrTry
      <3> QED BY <2>1, <3>1 DEF Lands
    <2> QED BY <2>2, <2>3, <2>4, <2>5
  <1> QED BY <1>1, <1>2, <1>3

\* The loop ends exactly when the last packet was no failure.
LEMMA RoundLands ==
    ASSUME NEW p, NEW t
    PROVE  /\ Lands(Login!Round(p, t), t) /\ (Login!Round(p, t).pc = "done" <=> p # "failure")
           /\ "agent" \in t => Login!Round(p, t).pc # "agent"
  <1>1. ASSUME NEW u
        PROVE  /\ p # "failure" => Login!Loop(p, u) = [pc |-> "done", pwpkt |-> pwpkt, tried |-> u]
               /\ (p = "failure" /\ cfg.agent /\ "agent" \notin u) =>
                    Login!Loop(p, u) = [pc |-> "agent", pwpkt |-> "password", tried |-> u \cup {"agent"}]
               /\ (p = "failure" /\ ~(cfg.agent /\ "agent" \notin u)) => Login!Loop(p, u) = Login!Methods(u)
    BY DEF Login!Loop
  <1>2. CASE p # "failure"
    <2>1. Login!Round(p, t) = [pc |-> "done", pwpkt |-> pwpkt, tried |-> t]
      BY <1>1, <1>2 DEF Login!Round
    <2> QED BY <1>2, <2>1 DEF Lands
  <1>3. CASE p = "failure" /\ cfg.agent /\ "agent" \notin t
    <2>1. Login!Round(p, t) = [pc |-> "agent", pwpkt |-> "password", tried |-> t \cup {"agent"}]
      BY <1>1, <1>3 DEF Login!Round
    <2> QED BY <1>3, <2>1 DEF Lands
  <1>4. CASE p = "failure" /\ ~(cfg.agent /\ "agent" \notin t)
    <2>1. Login!Loop(p, t) = Login!Methods(t)
      BY <1>1, <1>4
    <2>2. CASE Login!Methods(t).pc # "loop"
      <3>1. Login!Round(p, t) = Login!Methods(t)
        BY <2>1, <2>2 DEF Login!Round
      <3> QED BY <1>4, <2>2, <3>1, MethodsLand
    <2>3. CASE Login!Methods(t).pc = "loop"
      <3>1. "publickey" \notin t /\ Login!Methods(t).tried = t \cup {"publickey"}
        BY <2>3, MethodsLand
      <3>2. PICK u : u = t \cup {"publickey"}
        OBVIOUS
      <3>3. Login!Round(p, t) = Login!Loop(p, u)
        BY <2>1, <2>3, <3>1, <3>2 DEF Login!Round
      <3>4. Login!Loop(p, u) = Login!Methods(u)
        BY <1>1, <1>4, <3>2
      <3>5. Lands(Login!Methods(u), u) /\ Login!Methods(u).pc \notin {"agent", "done", "loop"}
        BY <3>2, MethodsLand
      <3> QED BY <1>4, <3>1, <3>2, <3>3, <3>4, <3>5 DEF Lands
    <2> QED BY <2>2, <2>3
  <1> QED BY <1>2, <1>3, <1>4

\* After the agent's keys, none of which will be asked for again.
LEMMA AfterAgentLands ==
    ASSUME NEW p, NEW t, "agent" \in t
    PROVE  /\ Lands(Login!AfterAgent(p, t), t) /\ Login!AfterAgent(p, t).pc # "agent"
           /\ Login!AfterAgent(p, t).pc = "done" => p # "failure"
  <1>1. CASE Login!Methods(t).pc # "loop"
    <2>1. Login!AfterAgent(p, t) = Login!Methods(t)
      BY <1>1 DEF Login!AfterAgent
    <2> QED BY <1>1, <2>1, MethodsLand
  <1>2. CASE Login!Methods(t).pc = "loop"
    <2>1. "publickey" \notin t /\ Login!Methods(t).tried = t \cup {"publickey"}
      BY <1>2, MethodsLand
    <2>2. PICK u : u = t \cup {"publickey"}
      OBVIOUS
    <2>3. Login!AfterAgent(p, t) = Login!Round(p, u)
      BY <1>2, <2>1, <2>2 DEF Login!AfterAgent
    <2>4. /\ Lands(Login!Round(p, u), u) /\ (Login!Round(p, u).pc = "done" <=> p # "failure")
          /\ Login!Round(p, u).pc # "agent"
      BY <2>2, RoundLands
    <2> QED BY <2>1, <2>2, <2>3, <2>4 DEF Lands
  <1> QED BY <1>1, <1>2

\* The login goes on where the loop leads, after answer p or a method that failed without one.
LEMMA GoesOn ==
    ASSUME LoginInv, NEW r, NEW t, Login!GoTo(r), Lands(r, t), t \subseteq {"publickey", "agent", "tis", "ccard"},
           UNCHANGED <<cfg, cipher, warned, prompts, batches>>, pc # "keys",
           pktin' \in {"none", "public_key", "success", "failure", "challenge"}, granted' \in BOOLEAN,
           keyi' \in 0 .. AgentKeys,
           r.pc = "done" => granted' \/ (pktin' = "challenge" /\ "agent" \in t),
           r.pc = "agent" => pktin' = "failure",
           r.pc \in {"load", "prompt"} => pktin' = "failure" \/ (pktin' = "challenge" /\ "agent" \in t),
           "chokes_on_rsa" \in cfg.bugs => {"publickey", "agent"} \subseteq t
    PROVE  LoginInv'
  <1>1. /\ pc' = r.pc /\ pwpkt' = r.pwpkt /\ tried' = r.tried /\ t \subseteq tried'
        /\ tried' \subseteq {"publickey", "agent", "tis", "ccard"}
        /\ pc' \in {"agent", "tis", "ccard", "load", "prompt", "done"}
    BY DEF Login!GoTo, Lands
  <1>2. cfg' = cfg /\ cipher' = cipher /\ warned' = warned /\ prompts' = prompts /\ batches' = batches
    OBVIOUS
  <1>3. Login!TypeOK'
    BY <1>1, <1>2 DEF LoginInv, Login!TypeOK, Login!Asking, Login!Ended
  <1>4. Login!DoneGrantedOrStale' /\ Login!WarnedBelowLine'
    BY <1>1 DEF Login!DoneGrantedOrStale, Login!WarnedBelowLine
  <1>5. /\ pc' \in AgentAsked => "agent" \in tried'
        /\ pc' = "agent" => pktin' = "failure"
        /\ pc' = "agent_sign" => pktin' = "challenge"
        /\ pc' \in {"tis", "ccard"} => pwpkt' = pc'
    BY <1>1 DEF Lands, AgentAsked
  <1>6. pc' = "load" \/ (pc' = "prompt" /\ pwpkt' = "rsa") => Refused'
    BY <1>1 DEF Refused
  <1>7. "chokes_on_rsa" \in cfg'.bugs => Spared'
    BY <1>1, <1>2 DEF Lands, Spared, RsaUnderWay
  <1>8. pc' # "keys" /\ \A b \in batches' : b.len \in Nat /\ b.wire = Login!Wire(b.len)'
    BY <1>1, <1>2 DEF LoginInv, Login!Wire
  <1> QED BY <1>3, <1>4, <1>5, <1>6, <1>7, <1>8 DEF LoginInv

\* The login goes on to a state that no method is chosen for, with nothing newly tried but what t says.
LEMMA Stays ==
    ASSUME LoginInv, UNCHANGED <<cfg, cipher, warned, prompts, batches>>, pc # "keys", pc' # "keys",
           Login!TypeOK', Login!DoneGrantedOrStale', Login!WarnedBelowLine',
           pc' \in AgentAsked => "agent" \in tried',
           pc' # "agent",
           pc' = "agent_sign" => pktin' = "challenge",
           pc' \in {"tis", "ccard"} => pwpkt' = pc',
           pc' = "load" \/ (pc' = "prompt" /\ pwpkt' = "rsa") => Refused',
           "chokes_on_rsa" \in cfg.bugs => Spared'
    PROVE  LoginInv'
  <1>1. pc' # "keys" /\ \A b \in batches' : b.len \in Nat /\ b.wire = Login!Wire(b.len)'
    BY DEF LoginInv, Login!Wire
  <1> QED BY <1>1 DEF LoginInv

\* The answer of the server to CMSG_USER or to a request, a failure leading on round the loop from t.
LEMMA AnswerRounds ==
    ASSUME LoginInv, NEW t, t \subseteq {"publickey", "agent", "tis", "ccard"}, NEW p \in {"success", "failure"},
           Login!Answer(p), Login!GoTo(Login!Round(p, t)),
           UNCHANGED <<cfg, cipher, warned, keyi, prompts, batches>>, pc # "keys",
           "chokes_on_rsa" \in cfg.bugs => {"publickey", "agent"} \subseteq t
    PROVE  LoginInv'
  <1>1. PICK r : r = Login!Round(p, t)
    OBVIOUS
  <1>2. Lands(r, t) /\ (r.pc = "done" <=> p # "failure") /\ Login!GoTo(r)
    BY <1>1, RoundLands
  <1>3. pktin' = p /\ granted' = (p = "success") /\ keyi' \in 0 .. AgentKeys
    BY DEF Login!Answer, LoginInv, Login!TypeOK
  <1>4. r.pc \in {"agent", "load", "prompt"} => pktin' = "failure"
    BY <1>2, <1>3
  <1>5. r.pc = "done" => granted'
    BY <1>2, <1>3
  <1> QED BY <1>2, <1>3, <1>4, <1>5, GoesOn

\* Where the login is, what counts as tried is one of the four methods, and both that use RSA for a
\* server that chokes on it.
LEMMA TriedSoFar ==
    ASSUME LoginInv
    PROVE  /\ tried \subseteq {"publickey", "agent", "tis", "ccard"}
           /\ ("chokes_on_rsa" \in cfg.bugs /\ pc \notin {"keys", "encryption", "username", "user", "done", "bombout", "exit"})
                => {"publickey", "agent"} \subseteq tried /\ pc \notin RsaUnderWay
  BY DEF LoginInv, Login!TypeOK, Spared

\* The answer to CMSG_USER.
LEMMA OnUserStep == ASSUME LoginInv, Login!OnUser PROVE LoginInv'
  <1>1. PICK p \in {"success", "failure"} : Login!Answer(p) /\ Login!GoTo(Login!Round(p, Login!PretendTried))
    BY DEF Login!OnUser
  <1>2. PICK t : t = Login!PretendTried
    OBVIOUS
  <1>3. t \subseteq {"publickey", "agent"} /\ ("chokes_on_rsa" \in cfg.bugs => {"publickey", "agent"} \subseteq t)
    BY <1>2 DEF Login!PretendTried
  <1>4. pc # "keys" /\ UNCHANGED <<cfg, cipher, warned, keyi, prompts, batches>>
    BY DEF Login!OnUser, Login!Configured
  <1> QED BY <1>1, <1>2, <1>3, <1>4, AnswerRounds

\* The encryption is confirmed, and the user name is there or has to be typed.
LEMMA EarlyStep == ASSUME LoginInv, Login!OnEncryption \/ Login!TypeUsername PROVE LoginInv'
  <1>1. /\ pc' \in {"username", "user", "exit"} /\ pc # "keys" /\ pktin' \in {"success", pktin}
        /\ UNCHANGED <<cfg, cipher, warned, tried, pwpkt, keyi, prompts, batches, granted>>
    BY DEF Login!OnEncryption, Login!TypeUsername
  <1>2. Login!TypeOK'
    BY <1>1 DEF LoginInv, Login!TypeOK, Login!Asking, Login!Ended
  <1>3. Login!DoneGrantedOrStale' /\ Login!WarnedBelowLine'
    BY <1>1 DEF Login!DoneGrantedOrStale, Login!WarnedBelowLine
  <1>4. /\ pc' \notin AgentAsked /\ pc' # "agent" /\ pc' # "agent_sign" /\ pc' \notin {"tis", "ccard"}
        /\ pc' # "load" /\ pc' # "prompt" /\ pc' # "keys"
    BY <1>1 DEF AgentAsked
  <1>5. Spared'
    BY <1>1 DEF Spared, RsaUnderWay
  <1> QED BY <1>1, <1>2, <1>3, <1>4, <1>5, Stays

\* The server's public keys and the choice of the cipher.
LEMMA OnPublicKeyStep == ASSUME LoginInv, Login!OnPublicKey PROVE LoginInv'
  <1>0. PICK list \in CipherLists, supported \in SUBSET Login!Ciphers,
             key \in Login!KeyKinds, auths \in SUBSET {"tis", "ccard"}, agent \in BOOLEAN, bugs \in Login!Bugs :
          /\ cfg' = [list |-> list, key |-> key, auths |-> auths, bugs |-> bugs, agent |-> agent]
          /\ \/ \E i \in Login!FirstOf(list, supported) :
                   /\ pc' = "encryption" /\ cipher' = list[i]
                   /\ warned' = (\E j \in 1 .. i - 1 : list[j] = "warn")
             \/ Login!FirstOf(list, supported) = {} /\ pc' = "bombout" /\ UNCHANGED <<cipher, warned>>
             \/ pc' = "exit" /\ UNCHANGED <<cipher, warned>>
    BY Zenon DEF Login!OnPublicKey
  <1>1. /\ cfg'.list = list
        /\ pc' = "encryption" => \E i \in Login!FirstOf(list, supported) :
             cipher' = list[i] /\ warned' = (\E j \in 1 .. i - 1 : list[j] = "warn")
    BY <1>0
  <1>2. /\ pktin' = "public_key" /\ batches = {} /\ pc' \in {"encryption", "bombout", "exit"}
        /\ tried' = tried /\ pwpkt' = pwpkt /\ keyi' = keyi /\ prompts' = prompts /\ batches' = batches /\ granted' = granted
    BY DEF Login!OnPublicKey, LoginInv
  <1>3. Login!WarnedBelowLine'
    <2>1. ASSUME pc' = "encryption", ~warned', NEW i \in DOMAIN list, NEW j \in DOMAIN list, list[i] = cipher', j < i,
                 list[j] = "warn"
          PROVE  FALSE
      <3>1. list \in Seq({"3des", "warn", "aes", "des", "blowfish"}) /\ \A k, l \in DOMAIN list : list[k] = list[l] => k = l
        BY ConstAssumption
      <3>2. PICK k \in Login!FirstOf(list, supported) :
              cipher' = list[k] /\ warned' = (\E l \in 1 .. k - 1 : list[l] = "warn")
        BY <1>1, <2>1
      <3>3. k \in DOMAIN list
        BY <3>2 DEF Login!FirstOf
      <3>4. k = i
        BY <2>1, <3>1, <3>2, <3>3
      <3>5. PICK n \in Nat : DOMAIN list = 1 .. n
        BY <3>1
      <3>6. j \in 1 .. k - 1
        BY <2>1, <3>4, <3>5
      <3> QED BY <2>1, <3>2, <3>6
    <2> QED BY <1>1, <2>1 DEF Login!WarnedBelowLine
  <1>4. Login!TypeOK' /\ Login!DoneGrantedOrStale'
    BY <1>2 DEF LoginInv, Login!TypeOK, Login!Asking, Login!Ended, Login!DoneGrantedOrStale
  <1>5. /\ pc' \notin AgentAsked /\ pc' # "agent" /\ pc' # "agent_sign" /\ pc' \notin {"tis", "ccard"}
        /\ pc' # "load" /\ pc' # "prompt" /\ pc' # "keys"
    BY <1>2 DEF AgentAsked
  <1>6. Spared'
    BY <1>2 DEF Spared, RsaUnderWay
  <1>7. \A b \in batches' : b.len \in Nat /\ b.wire = Login!Wire(b.len)'
    BY <1>2
  <1> QED BY <1>3, <1>4, <1>5, <1>6, <1>7 DEF LoginInv

\* The agent is asked about the next key, or its turn is over.
LEMMA NextKeyStep ==
    ASSUME LoginInv, NEW p, p = pktin', Login!NextKey(p, tried), pc # "keys", "agent" \in tried,
           pktin' \in {"failure", "challenge"}, granted' \in BOOLEAN,
           "chokes_on_rsa" \notin cfg.bugs,
           UNCHANGED <<cfg, cipher, warned, prompts, batches>>
    PROVE  LoginInv'
  <1>1. tried \subseteq {"publickey", "agent", "tis", "ccard"} /\ keyi \in 0 .. AgentKeys /\ AgentKeys \in Nat
    BY TriedSoFar, ConstAssumption DEF LoginInv, Login!TypeOK
  <1>2. CASE keyi < AgentKeys
    <2>1. pc' = "agent_key" /\ keyi' = keyi + 1 /\ pwpkt' = pwpkt /\ tried' = tried
      BY <1>2 DEF Login!NextKey, Login!SendKey
    <2>2. Login!TypeOK'
      <3>1. keyi' \in 0 .. AgentKeys
        BY <1>1, <1>2, <2>1
      <3> QED BY <1>1, <2>1, <3>1 DEF LoginInv, Login!TypeOK, Login!Asking, Login!Ended
    <2>3. Login!DoneGrantedOrStale' /\ Login!WarnedBelowLine'
      BY <2>1 DEF Login!DoneGrantedOrStale, Login!WarnedBelowLine
    <2> QED BY <2>1, <2>2, <2>3, Stays
  <1>3. CASE ~(keyi < AgentKeys)
    <2>1. PICK r : r = Login!AfterAgent(p, tried)
      OBVIOUS
    <2>2. Login!GoTo(r) /\ keyi' = 0
      BY <1>3, <2>1 DEF Login!NextKey
    <2>3. Lands(r, tried) /\ r.pc # "agent" /\ (r.pc = "done" => p # "failure")
      BY <2>1, AfterAgentLands
    <2>4. keyi' \in 0 .. AgentKeys
      BY <1>1, <2>2
    <2>5. /\ r.pc = "done" => pktin' = "challenge" /\ "agent" \in tried
          /\ r.pc \in {"load", "prompt"} => pktin' = "failure" \/ (pktin' = "challenge" /\ "agent" \in tried)
      BY <2>3
    <2> QED BY <1>1, <2>2, <2>3, <2>4, <2>5, GoesOn
  <1> QED BY <1>2, <1>3

\* The agent's list of keys arrives, or nothing does.
LEMMA AgentListStep == ASSUME LoginInv, Login!AgentList PROVE LoginInv'
  <1>1. /\ pc = "agent" /\ pktin = "failure" /\ "agent" \in tried /\ "chokes_on_rsa" \notin cfg.bugs
        /\ cfg' = cfg /\ cipher' = cipher /\ warned' = warned /\ pktin' = pktin /\ prompts' = prompts
        /\ batches' = batches /\ granted' = granted
    BY DEF Login!AgentList, Login!Configured, LoginInv, AgentAsked, Spared, RsaUnderWay
  <1>2. /\ tried \subseteq {"publickey", "agent", "tis", "ccard"} /\ AgentKeys \in Nat
        /\ granted \in BOOLEAN
    BY TriedSoFar, ConstAssumption DEF LoginInv, Login!TypeOK
  <1>3. CASE Login!SendKey(1) /\ AgentKeys > 0
    <2>1. pc' = "agent_key" /\ keyi' = 1 /\ pwpkt' = pwpkt /\ tried' = tried
      BY <1>3 DEF Login!SendKey
    <2>2. Login!TypeOK'
      <3>1. keyi' \in 0 .. AgentKeys
        BY <1>2, <1>3, <2>1
      <3> QED BY <1>1, <2>1, <3>1 DEF LoginInv, Login!TypeOK, Login!Asking, Login!Ended
    <2>3. Login!DoneGrantedOrStale' /\ Login!WarnedBelowLine'
      BY <2>1 DEF Login!DoneGrantedOrStale, Login!WarnedBelowLine
    <2> QED BY <1>1, <2>1, <2>2, <2>3, Stays
  <1>4. CASE Login!GoTo(Login!AfterAgent(pktin, tried)) /\ keyi' = 0
    <2>1. PICK r : r = Login!AfterAgent(pktin, tried)
      OBVIOUS
    <2>2. Lands(r, tried) /\ r.pc # "agent" /\ (r.pc = "done" => pktin # "failure")
      BY <1>1, <2>1, AfterAgentLands
    <2>3. keyi' \in 0 .. AgentKeys /\ Login!GoTo(r)
      BY <1>2, <1>4, <2>1
    <2>4. r.pc # "done" /\ (r.pc \in {"load", "prompt"} => pktin' = "failure" \/ (pktin' = "challenge" /\ "agent" \in tried))
      BY <1>1, <2>2
    <2>5. pktin' \in {"none", "public_key", "success", "failure", "challenge"} /\ granted' \in BOOLEAN /\ pc # "keys"
      BY <1>1, <1>2
    <2> QED BY <1>1, <1>2, <2>2, <2>3, <2>4, <2>5, GoesOn
  <1> QED BY <1>3, <1>4 DEF Login!AgentList

\* The server answers a request about an agent's key.
LEMMA OnAgentKeyStep == ASSUME LoginInv, Login!OnAgentKey PROVE LoginInv'
  <1>1. /\ pc = "agent_key" /\ "agent" \in tried /\ "chokes_on_rsa" \notin cfg.bugs
        /\ cfg' = cfg /\ cipher' = cipher /\ warned' = warned /\ prompts' = prompts /\ batches' = batches
    BY DEF Login!OnAgentKey, Login!Configured, LoginInv, AgentAsked, Spared, RsaUnderWay
  <1>2. CASE /\ Login!Answer("challenge") /\ pc' = "agent_sign" /\ UNCHANGED <<pwpkt, keyi>>
             /\ tried' \in {tried, tried \cup {"publickey"}}
    <2>1. pktin' = "challenge" /\ granted' = FALSE
      BY <1>2 DEF Login!Answer
    <2>2. Login!TypeOK'
      BY <1>1, <1>2, <2>1 DEF LoginInv, Login!TypeOK, Login!Asking, Login!Ended
    <2>3. Login!DoneGrantedOrStale' /\ Login!WarnedBelowLine'
      BY <1>2 DEF Login!DoneGrantedOrStale, Login!WarnedBelowLine
    <2> QED BY <1>1, <1>2, <2>1, <2>2, <2>3, Stays
  <1>3. CASE Login!Answer("failure") /\ Login!NextKey("failure", tried)
    <2>1. pktin' = "failure" /\ granted' = FALSE
      BY <1>3 DEF Login!Answer
    <2> QED BY <1>1, <1>3, <2>1, NextKeyStep
  <1> QED BY <1>2, <1>3 DEF Login!OnAgentKey

\* The agent signs, or fails to: the packet stays the challenge.
LEMMA AgentSignStep == ASSUME LoginInv, Login!AgentSign PROVE LoginInv'
  <1>1. /\ pc = "agent_sign" /\ pktin = "challenge" /\ "agent" \in tried /\ "chokes_on_rsa" \notin cfg.bugs
        /\ cfg' = cfg /\ cipher' = cipher /\ warned' = warned /\ pktin' = pktin /\ prompts' = prompts
        /\ batches' = batches /\ granted' = granted
    BY DEF Login!AgentSign, Login!Configured, LoginInv, AgentAsked, Spared, RsaUnderWay
  <1>2. granted \in BOOLEAN
    BY DEF LoginInv, Login!TypeOK
  <1>3. CASE pc' = "agent_response" /\ UNCHANGED <<pwpkt, tried, keyi>>
    <2>1. Login!TypeOK'
      BY <1>1, <1>3 DEF LoginInv, Login!TypeOK, Login!Asking, Login!Ended
    <2>2. Login!DoneGrantedOrStale' /\ Login!WarnedBelowLine'
      BY <1>3 DEF Login!DoneGrantedOrStale, Login!WarnedBelowLine
    <2> QED BY <1>1, <1>3, <2>1, <2>2, Stays
  <1>4. CASE Login!NextKey(pktin, tried)
    <2>1. PICK p : p = pktin'
      OBVIOUS
    <2>2. Login!NextKey(p, tried)
      BY <1>1, <1>4, <2>1
    <2> QED BY <1>1, <1>2, <2>1, <2>2, NextKeyStep
  <1> QED BY <1>3, <1>4 DEF Login!AgentSign

\* The verdict on the agent's response.
LEMMA OnAgentResponseStep == ASSUME LoginInv, Login!OnAgentResponse PROVE LoginInv'
  <1>1. /\ pc = "agent_response" /\ "agent" \in tried /\ "chokes_on_rsa" \notin cfg.bugs
        /\ cfg' = cfg /\ cipher' = cipher /\ warned' = warned /\ prompts' = prompts /\ batches' = batches
    BY DEF Login!OnAgentResponse, Login!Configured, LoginInv, AgentAsked, Spared, RsaUnderWay
  <1>2. CASE Login!Answer("success") /\ pc' = "done" /\ UNCHANGED <<pwpkt, tried, keyi>>
    <2>1. pktin' = "success" /\ granted' = TRUE
      BY <1>2 DEF Login!Answer
    <2>2. Login!TypeOK'
      BY <1>1, <1>2, <2>1 DEF LoginInv, Login!TypeOK, Login!Asking, Login!Ended
    <2>3. Login!DoneGrantedOrStale' /\ Login!WarnedBelowLine'
      BY <1>2, <2>1 DEF Login!DoneGrantedOrStale, Login!WarnedBelowLine
    <2> QED BY <1>1, <1>2, <2>1, <2>2, <2>3, Stays DEF AgentAsked
  <1>3. CASE Login!Answer("failure") /\ Login!NextKey("failure", tried)
    <2>1. pktin' = "failure" /\ granted' = FALSE
      BY <1>3 DEF Login!Answer
    <2> QED BY <1>1, <1>3, <2>1, NextKeyStep
  <1> QED BY <1>2, <1>3 DEF Login!OnAgentResponse

\* TIS or CryptoCard: a challenge becomes a prompt, a refusal leads on.
LEMMA OnChallengeStep == ASSUME LoginInv, Login!OnChallenge PROVE LoginInv'
  <1>1. /\ pc \in {"tis", "ccard"} /\ pwpkt = pc
        /\ cfg' = cfg /\ cipher' = cipher /\ warned' = warned /\ keyi' = keyi /\ prompts' = prompts /\ batches' = batches
    BY DEF Login!OnChallenge, Login!Configured, LoginInv
  <1>2. /\ tried \subseteq {"publickey", "agent", "tis", "ccard"}
        /\ "chokes_on_rsa" \in cfg.bugs => {"publickey", "agent"} \subseteq tried
    BY <1>1, TriedSoFar
  <1>3. CASE /\ Login!Answer("challenge") /\ UNCHANGED tried
             /\ LET both == pc = "tis" /\ "ccard" \in cfg.auths \ tried IN
                pc' = (IF both THEN "ccard" ELSE "prompt") /\ pwpkt' = (IF both THEN "ccard" ELSE pwpkt)
    <2>1. /\ pktin' = "challenge" /\ granted' = FALSE /\ tried' = tried
          /\ (pc' = "ccard" /\ pwpkt' = "ccard") \/ (pc' = "prompt" /\ pwpkt' \in {"tis", "ccard"})
      BY <1>1, <1>3 DEF Login!Answer
    <2>2. Login!TypeOK'
      BY <1>1, <2>1 DEF LoginInv, Login!TypeOK, Login!Asking, Login!Ended
    <2>3. Login!DoneGrantedOrStale' /\ Login!WarnedBelowLine'
      BY <2>1 DEF Login!DoneGrantedOrStale, Login!WarnedBelowLine
    <2>4. "chokes_on_rsa" \in cfg.bugs => Spared'
      BY <1>2, <2>1 DEF Spared, RsaUnderWay
    <2>5. /\ pc' \notin AgentAsked /\ pc' \notin {"agent", "agent_sign", "keys", "load"} /\ ~(pc' = "prompt" /\ pwpkt' = "rsa")
          /\ (pc' \in {"tis", "ccard"} => pwpkt' = pc')
      BY <2>1 DEF AgentAsked
    <2> QED BY <1>1, <2>2, <2>3, <2>4, <2>5, Stays
  <1>4. CASE Login!Answer("failure") /\ Login!GoTo(Login!Round("failure", tried \cup {pc}))
    <2>1. PICK t : t = tried \cup {pc}
      OBVIOUS
    <2>2. t \subseteq {"publickey", "agent", "tis", "ccard"} /\ Login!GoTo(Login!Round("failure", t))
      BY <1>1, <1>2, <1>4, <2>1
    <2>3. "chokes_on_rsa" \in cfg.bugs => {"publickey", "agent"} \subseteq t
      BY <1>2, <2>1
    <2> QED BY <1>1, <1>4, <2>2, <2>3, AnswerRounds
  <1> QED BY <1>3, <1>4 DEF Login!OnChallenge

\* The user answers a prompt: a password goes among packets of the lengths that Wire gives.
LEMMA TypedStep == ASSUME LoginInv, Login!Typed PROVE LoginInv'
  <1>1. /\ pc = "prompt" /\ prompts < MaxPrompts /\ prompts' = prompts + 1 /\ pktin' = pktin /\ cfg' = cfg
        /\ cipher' = cipher /\ warned' = warned /\ tried' = tried /\ pwpkt' = pwpkt /\ keyi' = keyi /\ granted' = granted
        /\ pc' \in {"exit", "load", "answer"} /\ (pc' = "load" => pwpkt = "rsa")
    BY DEF Login!Typed, Login!Configured
  <1>2. Login!TypeOK'
    <2>1. prompts' \in 0 .. MaxPrompts
      BY <1>1, ConstAssumption DEF LoginInv, Login!TypeOK
    <2> QED BY <1>1, <2>1 DEF LoginInv, Login!TypeOK, Login!Asking, Login!Ended
  <1>3. Login!DoneGrantedOrStale' /\ Login!WarnedBelowLine'
    BY <1>1 DEF Login!DoneGrantedOrStale, Login!WarnedBelowLine
  <1>4. pc' = "load" => Refused'
    BY <1>1 DEF LoginInv, Refused
  <1>5. "chokes_on_rsa" \in cfg.bugs => Spared'
    BY <1>1 DEF LoginInv, Spared, RsaUnderWay
  <1>6. \A b \in batches' : b.len \in Nat /\ b.wire = Login!Wire(b.len)'
    <2>1. ASSUME NEW b \in batches' PROVE b.len \in Nat /\ b.wire = Login!Wire(b.len)
      <3>1. b \in batches \/ \E len \in PwLens : b = [len |-> len, wire |-> Login!Wire(len)]
        BY <2>1 DEF Login!Typed
      <3>2. CASE b \in batches
        BY <3>2 DEF LoginInv
      <3>3. CASE \E len \in PwLens : b = [len |-> len, wire |-> Login!Wire(len)]
        BY <3>3, ConstAssumption
      <3> QED BY <3>1, <3>2, <3>3
    <2> QED BY <1>1, <2>1 DEF Login!Wire
  <1>7. pc' \notin AgentAsked /\ pc' \notin {"agent", "agent_sign", "keys", "tis", "ccard", "prompt"}
    BY <1>1 DEF AgentAsked
  <1> QED BY <1>1, <1>2, <1>3, <1>4, <1>5, <1>6, <1>7 DEF LoginInv

\* The key file is read; when it cannot be, the last packet decides, whatever it was.
LEMMA LoadStep == ASSUME LoginInv, Login!Load PROVE LoginInv'
  <1>1. /\ pc = "load" /\ Refused /\ "chokes_on_rsa" \notin cfg.bugs
        /\ pktin' = pktin /\ cfg' = cfg /\ cipher' = cipher /\ warned' = warned /\ keyi' = keyi
        /\ prompts' = prompts /\ batches' = batches /\ granted' = granted
    BY DEF Login!Load, Login!Configured, LoginInv, Spared, RsaUnderWay
  <1>2. /\ tried \subseteq {"publickey", "agent", "tis", "ccard"} /\ granted \in BOOLEAN /\ keyi \in 0 .. AgentKeys
        /\ pktin \in {"none", "public_key", "success", "failure", "challenge"}
    BY DEF LoginInv, Login!TypeOK
  <1>3. ASSUME NEW t \in {Login!TriedKeyfile, tried \ {"publickey"}}, Login!GoTo(Login!Round(pktin, t)) PROVE LoginInv'
    <2>1. PICK r : r = Login!Round(pktin, t)
      OBVIOUS
    <2>2. Lands(r, t) /\ (r.pc = "done" <=> pktin # "failure") /\ Login!GoTo(r)
      BY <1>3, <2>1, RoundLands
    <2>3. t \subseteq {"publickey", "agent", "tis", "ccard"} /\ ("agent" \in tried => "agent" \in t)
      BY <1>2, <1>3 DEF Login!TriedKeyfile
    <2>4. /\ r.pc = "done" => pktin' = "challenge" /\ "agent" \in t
          /\ r.pc # "done" => pktin' = "failure"
      BY <1>1, <2>2, <2>3 DEF Refused
    <2>5. pktin' \in {"none", "public_key", "success", "failure", "challenge"} /\ granted' \in BOOLEAN
          /\ keyi' \in 0 .. AgentKeys /\ pc # "keys"
      BY <1>1, <1>2
    <2>6. /\ r.pc = "agent" => pktin' = "failure"
          /\ r.pc \in {"load", "prompt"} => pktin' = "failure" \/ (pktin' = "challenge" /\ "agent" \in t)
      BY <2>4
    <2> QED BY <1>1, <2>2, <2>3, <2>4, <2>5, <2>6, GoesOn
  <1>4. CASE pc' = "rsa" /\ tried' = Login!TriedKeyfile /\ UNCHANGED pwpkt
    <2>1. Login!TypeOK'
      BY <1>1, <1>2, <1>4 DEF LoginInv, Login!TypeOK, Login!Asking, Login!Ended, Login!TriedKeyfile
    <2>2. Login!DoneGrantedOrStale' /\ Login!WarnedBelowLine'
      BY <1>4 DEF Login!DoneGrantedOrStale, Login!WarnedBelowLine
    <2> QED BY <1>1, <1>4, <2>1, <2>2, Stays DEF AgentAsked
  <1> QED BY <1>3, <1>4 DEF Login!Load

\* The configured key is offered, or a verdict is given.
LEMMA OnRsaStep == ASSUME LoginInv, Login!OnRsa \/ Login!OnVerdict PROVE LoginInv'
  <1>1. /\ pc \in {"rsa", "rsa_response", "answer"}
        /\ cfg' = cfg /\ cipher' = cipher /\ warned' = warned /\ keyi' = keyi /\ prompts' = prompts /\ batches' = batches
    BY DEF Login!OnRsa, Login!OnVerdict, Login!Configured
  <1>2. /\ tried \subseteq {"publickey", "agent", "tis", "ccard"}
        /\ "chokes_on_rsa" \in cfg.bugs => {"publickey", "agent"} \subseteq tried /\ pc \notin RsaUnderWay
    BY <1>1, TriedSoFar
  <1>3. CASE \/ pc = "rsa" /\ Login!Answer("challenge") /\ pc' = "rsa_response" /\ UNCHANGED <<pwpkt, tried>>
             \/ Login!Answer("success") /\ pc' = "done" /\ UNCHANGED <<pwpkt, tried>>
    <2>1. /\ pc' \in {"rsa_response", "done"} /\ pktin' \in {"challenge", "success"} /\ granted' \in BOOLEAN
          /\ tried' = tried /\ pwpkt' = pwpkt /\ (pc' = "done" => granted')
      BY <1>3 DEF Login!Answer
    <2>2. Login!TypeOK'
      BY <1>1, <2>1 DEF LoginInv, Login!TypeOK, Login!Asking, Login!Ended
    <2>3. Login!DoneGrantedOrStale' /\ Login!WarnedBelowLine'
      BY <2>1 DEF Login!DoneGrantedOrStale, Login!WarnedBelowLine
    <2>4. "chokes_on_rsa" \in cfg.bugs => Spared'
      BY <1>2, <1>3, <2>1 DEF Spared, RsaUnderWay
    <2> QED BY <1>1, <2>1, <2>2, <2>3, <2>4, Stays DEF AgentAsked
  <1>4. CASE Login!Answer("failure") /\ Login!GoTo(Login!Round("failure", tried))
    BY <1>1, <1>2, <1>4, AnswerRounds
  <1> QED BY <1>3, <1>4 DEF Login!OnRsa, Login!OnVerdict

-----------------------------------------------------------------------------
(* What the lengths on the wire tell *)

\* Division by a positive number, without remainders.
LEMMA Division ==
    ASSUME NEW n \in Nat, NEW h \in Nat \ {0}
    PROVE  /\ n \div h \in Nat /\ (n < h <=> n \div h = 0)
           /\ n >= 8 * h <=> n \div h >= 8
  <1>1. PICK q \in Nat : q = n \div h
    OBVIOUS
  <1>2. q * h <= n /\ n < q * h + h
    BY <1>1
  <1>3. n < h <=> q = 0
    <2>1. CASE q = 0
      BY <1>2, <2>1
    <2>2. CASE q >= 1
      <3>1. q * h >= h
        BY <2>2
      <3> QED BY <1>2, <2>2, <3>1
    <2> QED BY <2>1, <2>2
  <1>4. n >= 8 * h <=> q >= 8
    <2>1. CASE q >= 8
      <3>1. q * h >= 8 * h
        BY <2>1
      <3> QED BY <1>2, <2>1, <3>1
    <2>2. CASE q <= 7
      <3>1. q * h <= 7 * h
        BY <2>2
      <3> QED BY <1>2, <2>2, <3>1
    <2> QED BY <2>1, <2>2
  <1> QED BY <1>1, <1>3, <1>4

\* Passwords of one class look alike on the wire, but for long ones sent to a server that chokes
\* on the camouflage.
LEMMA SameWire ==
    ASSUME NEW m \in Nat, NEW n \in Nat,
           (IF m < Class THEN 0 ELSE m \div Login!Half) = (IF n < Class THEN 0 ELSE n \div Login!Half),
           ~{"chokes_on_ignore", "needs_plain_password"} \subseteq cfg.bugs
    PROVE  Login!Wire(m) = Login!Wire(n) \/ m >= 4 * Class
  <1>1. PICK h \in Nat \ {0} : h = Login!Half /\ Class = 2 * h
    BY ConstAssumption DEF Login!Half
  <1>2. /\ m \div h \in Nat /\ (m < h <=> m \div h = 0) /\ (m >= 8 * h <=> m \div h >= 8)
        /\ n \div h \in Nat /\ (n < h <=> n \div h = 0) /\ (n >= 8 * h <=> n \div h >= 8)
    BY Division
  <1>3. m < Class <=> n < Class
    <2>1. (IF m < Class THEN 0 ELSE m \div h) = (IF n < Class THEN 0 ELSE n \div h)
      BY <1>1
    <2> QED BY <1>1, <1>2, <2>1
  <1>4. m >= Class => m \div h = n \div h
    BY <1>1, <1>3
  <1>5. Login!Camouflage(m) = Login!Camouflage(n)
    <2>1. CASE m < Class
      BY <1>3, <2>1 DEF Login!Camouflage
    <2>2. CASE ~(m < Class)
      <3>1. /\ Login!Camouflage(m) = (m \div h) * h .. (m \div h) * h + h - 1
            /\ Login!Camouflage(n) = (n \div h) * h .. (n \div h) * h + h - 1
        BY <1>1, <1>3, <2>2 DEF Login!Camouflage
      <3>2. m \div h = n \div h
        BY <1>1, <1>4, <2>2
      <3> QED BY <3>1, <3>2
    <2> QED BY <2>1, <2>2
  <1>6. CASE "chokes_on_ignore" \notin cfg.bugs
    BY <1>5, <1>6 DEF Login!Wire
  <1>7. CASE "chokes_on_ignore" \in cfg.bugs /\ "needs_plain_password" \notin cfg.bugs
    <2>1. m < 4 * Class => n < 4 * Class
      BY <1>1, <1>2, <1>3, <1>4
    <2>2. /\ m < 4 * Class => Login!Wire(m) = {4 * Class}
          /\ n < 4 * Class => Login!Wire(n) = {4 * Class}
      BY <1>7 DEF Login!Wire
    <2> QED BY <1>1, <2>1, <2>2
  <1> QED BY <1>6, <1>7

\* What the invariant says of the wire, and of the server that chokes on RSA.
LEMMA LoginIsSound == ASSUME LoginInv PROVE LoginSound
  <1>1. Login!LengthsHidden
    <2>1. ASSUME NEW a \in batches, NEW b \in batches,
                 (IF a.len < Class THEN 0 ELSE a.len \div Login!Half) = (IF b.len < Class THEN 0 ELSE b.len \div Login!Half),
                 ~{"chokes_on_ignore", "needs_plain_password"} \subseteq cfg.bugs
          PROVE  a.wire = b.wire \/ a.len >= 4 * Class
      <3>1. a.len \in Nat /\ b.len \in Nat /\ a.wire = Login!Wire(a.len) /\ b.wire = Login!Wire(b.len)
        BY DEF LoginInv
      <3>2. PICK m \in Nat, n \in Nat : m = a.len /\ n = b.len
        BY <3>1
      <3>3. (IF m < Class THEN 0 ELSE m \div Login!Half) = (IF n < Class THEN 0 ELSE n \div Login!Half)
        BY <2>1, <3>2
      <3>4. Login!Wire(m) = Login!Wire(n) \/ m >= 4 * Class
        BY <2>1, <3>3, SameWire
      <3> QED BY <3>1, <3>2, <3>4
    <2> QED BY <2>1 DEF Login!LengthsHidden
  <1>2. Login!NoRsaForChoker
    BY DEF LoginInv, Spared, RsaUnderWay, Login!NoRsaForChoker
  <1> QED BY <1>1, <1>2 DEF LoginInv, LoginSound

\* The login begins in order.
LEMMA LoginBegins == ASSUME Login!Init PROVE LoginInv
  <1>1. /\ pc = "keys" /\ pktin = "none" /\ cfg = Login!NoCfg /\ tried = {} /\ keyi = 0 /\ prompts = 0
        /\ batches = {} /\ granted = FALSE
    BY DEF Login!Init
  <1>2. "chokes_on_rsa" \notin cfg.bugs
    BY <1>1 DEF Login!NoCfg
  <1>3. keyi \in 0 .. AgentKeys /\ prompts \in 0 .. MaxPrompts
    BY <1>1, ConstAssumption
  <1> QED BY <1>1, <1>2, <1>3 DEF LoginInv, Login!TypeOK, Login!DoneGrantedOrStale, Login!WarnedBelowLine, AgentAsked

\* A step that changes nothing of the login.
LEMMA LoginStutters == ASSUME LoginInv, UNCHANGED loginVars PROVE LoginInv'
  <1>1. /\ pc' = pc /\ pktin' = pktin /\ cfg' = cfg /\ cipher' = cipher /\ warned' = warned /\ tried' = tried
        /\ pwpkt' = pwpkt /\ keyi' = keyi /\ prompts' = prompts /\ batches' = batches /\ granted' = granted
    BY DEF loginVars
  <1>2. Login!TypeOK' /\ Login!DoneGrantedOrStale' /\ Login!WarnedBelowLine'
    BY <1>1 DEF LoginInv, Login!TypeOK, Login!DoneGrantedOrStale, Login!WarnedBelowLine
  <1>3. Refused' = Refused /\ Spared' = Spared
    BY <1>1 DEF Refused, Spared
  <1>4. \A b \in batches' : b.len \in Nat /\ b.wire = Login!Wire(b.len)'
    BY <1>1 DEF LoginInv, Login!Wire
  <1> QED BY <1>1, <1>2, <1>3, <1>4 DEF LoginInv

\* Every step of the login keeps the invariant.
LEMMA LoginSteps == ASSUME LoginInv, Login!Next PROVE LoginInv'
  BY OnPublicKeyStep, EarlyStep, TypedStep, OnUserStep, AgentListStep, OnAgentKeyStep, AgentSignStep,
     OnAgentResponseStep, OnChallengeStep, LoadStep, OnRsaStep DEF Login!Next, Login!Protocol

-----------------------------------------------------------------------------
(* The connection *)

\* One half moves, and the other stays as it is.
LEMMA InvariantHolds == Spec => [](SessionInv /\ LoginInv)
  <1>1. Init => SessionInv /\ LoginInv
    BY SessionBegins, LoginBegins DEF Init
  <1>2. ASSUME SessionInv, LoginInv, [Next]_vars PROVE SessionInv' /\ LoginInv'
    <2>1. CASE Session!Next /\ UNCHANGED <<live, loginVars>>
      BY <1>2, <2>1, SessionSteps, LoginStutters
    <2>2. CASE Login!Next /\ UNCHANGED <<live, sessionVars>>
      BY <1>2, <2>2, LoginSteps, SessionStutters
    <2>3. CASE UNCHANGED vars
      <3>1. UNCHANGED sessionVars /\ UNCHANGED loginVars
        BY <2>3 DEF vars
      <3> QED BY <1>2, <3>1, SessionStutters, LoginStutters
    <2> QED BY <1>2, <2>1, <2>2, <2>3 DEF Next
  <1> QED BY <1>1, <1>2, PTL DEF Spec

\* Every variable of the login and of the session stays in its range.
THEOREM TypeCorrect == Spec => []TypeOK
  <1>1. SessionInv /\ LoginInv => TypeOK
    BY DEF SessionInv, SessionTyped, LoginInv, TypeOK
  <1> QED BY <1>1, InvariantHolds, PTL

\* However closes cross, neither end of a channel meets a packet for one it has freed; a resize between
\* the set-up requests is not lost; and v1_throttle_count is the number of channels that throttle, and of
\* those freed while they did (ssh1_protocol, sshfwd_close, ssh1_throttle, ssh_size).
THEOREM TheEndsAgree == Spec => []EndsAgree
  <1>1. SessionInv => EndsAgree
    BY DEF SessionInv, SizeKept, Throttled, EndsAgree
  <1> QED BY <1>1, InvariantHolds, PTL

\* Nothing gets past the server but a stale challenge; passwords of one class of lengths look alike on
\* the wire; no RSA for a server that chokes on it; no cipher from below the line unconfirmed
\* (do_ssh1_login).
THEOREM LoginIsGranted == Spec => []LoginSound
  BY InvariantHolds, LoginIsSound, PTL
====
