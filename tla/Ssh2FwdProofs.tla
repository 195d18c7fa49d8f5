-------------------------- MODULE Ssh2FwdProofs --------------------------
(***************************************************************************)
(* Safety of forwarded connections for every set of channels and every     *)
(* bound: their throttling (Ssh2Throttle), and, at the end, their sockets. *)
(*                                                                         *)
(* The inductive invariant speaks of one channel at a time (ChanInv): the  *)
(* invariants the runs check do not say why a socket is frozen exactly     *)
(* when throttled or overridden, nor that an override on an open channel   *)
(* is matched by throttledAll, nor that an unthrottled channel has room    *)
(* for one more read; without those a step can break them.                 *)
(***************************************************************************)
EXTENDS Ssh2FwdMC, FiniteSetTheorems, TLAPS

\* One channel, from the values of its fields and of throttledAll.
ChanInv(ty, th, ov, fr, ob, rw, all) ==
    /\ ty \in {"none", "socks", "dormant"} => ~th /\ ~ov /\ ob = 0
    /\ ty \in {"none", "socks"} => ~fr
    /\ ty = "open" =>
         /\ ov => all /\ fr
         /\ th => ob > 0 /\ fr
         /\ fr => th \/ ov
         /\ ob = 0 \/ rw = 0
         /\ ~th => ob <= MaxRead
         /\ ob <= 2 * MaxRead

ChannelsInv ==
    \A c \in Channel : ChanInv(type[c], throttled[c], override[c], frozen[c],
                               outbuffer[c], remwindow[c], throttledAll)

\* The inductive invariant.
IInv == TypeOK /\ ThrottleMatchesBacklog /\ ChannelsInv

-----------------------------------------------------------------------------
\* No connection yet, nothing throttled.
LEMMA InitInv == Init => IInv
<1> SUFFICES ASSUME Init PROVE IInv
  OBVIOUS
<1>1. TypeOK
  <2>1. /\ type \in [Channel -> {"none", "socks", "dormant", "open", "gone"}]
        /\ throttled \in [Channel -> BOOLEAN] /\ override \in [Channel -> BOOLEAN]
        /\ frozen \in [Channel -> BOOLEAN] /\ throttledAll \in BOOLEAN
    BY DEF Init
  <2>2. /\ held \in [Channel -> 0 .. MaxRead] /\ outbuffer \in [Channel -> Nat]
        /\ remwindow \in [Channel -> 0 .. MaxWindow] /\ backlog \in 0 .. MaxQueue
    BY ConstAssumption DEF Init
  <2> QED
    BY <2>1, <2>2 DEF TypeOK
<1>2. ThrottleMatchesBacklog
  BY ConstAssumption DEF Init, ThrottleMatchesBacklog
<1>3. ChannelsInv
  BY DEF Init, ChannelsInv, ChanInv
<1> QED
  BY <1>1, <1>2, <1>3 DEF IInv

\* ssh2_pkt_send keeps the connection's own throttling in step with its
\* backlog, which a packet never shrinks.
LEMMA PktsSendFacts ==
  ASSUME TypeOK, ThrottleMatchesBacklog,
         NEW k \in Nat, NEW b \in 0 .. MaxQueue, NEW t, PktsSend(k, b, t)
  PROVE  /\ backlog' = b
         /\ throttledAll' = (throttledAll \/ Chokes(b))
         /\ throttledAll' \in BOOLEAN
         /\ ThrottleMatchesBacklog'
         /\ override' \in [Channel -> BOOLEAN]
         /\ \A c \in Channel : override'[c] = IF Chokes(b) /\ t[c] = "open" THEN TRUE ELSE override[c]
<1>1. backlog' = b /\ throttledAll' = (throttledAll \/ Chokes(b)) /\ throttledAll' \in BOOLEAN
  BY DEF PktsSend, Chokes, TypeOK
<1>2. override' \in [Channel -> BOOLEAN]
  BY DEF PktsSend, OverrideAfter, TypeOK
<1>3. \A c \in Channel : override'[c] = IF Chokes(b) /\ t[c] = "open" THEN TRUE ELSE override[c]
  BY DEF PktsSend, OverrideAfter
<1>4. b > MaxBacklog => throttledAll'
  BY <1>1, ConstAssumption DEF Chokes, TypeOK
<1>5. throttledAll => b >= MaxBacklog
  <2> DEFINE top == k * MaxCost
  <2>1. PICK cost \in k .. top : \/ backlog = 0 /\ b \in 0 .. Min(cost, MaxQueue)
                                 \/ backlog > 0 /\ b = Min(backlog + cost, MaxQueue)
    BY DEF PktsSend, BacklogAfter
  <2> HIDE DEF top
  <2>2. cost \in Nat
    BY <2>1
  <2> QED
    BY <2>1, <2>2, ConstAssumption DEF TypeOK, ThrottleMatchesBacklog, Min
<1>6. throttledAll' => b >= MaxBacklog
  <2>1. throttledAll' => throttledAll \/ b > MaxBacklog
    BY <1>1 DEF Chokes, TypeOK
  <2> QED
    BY <1>5, <2>1, ConstAssumption
<1> QED
  BY <1>1, <1>2, <1>3, <1>4, <1>6 DEF ThrottleMatchesBacklog

\* A channel whose own fields a step leaves alone survives the packets the
\* step sends.
LEMMA BystanderOfPkts ==
  ASSUME IInv, NEW k \in Nat, NEW b \in 0 .. MaxQueue, NEW t, PktsSend(k, b, t),
         NEW c \in Channel, type'[c] = type[c], t[c] = type[c],
         throttled'[c] = throttled[c], outbuffer'[c] = outbuffer[c], remwindow'[c] = remwindow[c],
         frozen'[c] = IF Chokes(b) /\ t[c] = "open" THEN TRUE ELSE frozen[c]
  PROVE  ChanInv(type[c], throttled[c], override[c], frozen[c],
                 outbuffer[c], remwindow[c], throttledAll)'
<1>1. ChanInv(type[c], throttled[c], override[c], frozen[c], outbuffer[c], remwindow[c], throttledAll)
  BY DEF IInv, ChannelsInv
<1>2. /\ throttledAll' = (throttledAll \/ Chokes(b))
      /\ override'[c] = IF Chokes(b) /\ t[c] = "open" THEN TRUE ELSE override[c]
  BY PktsSendFacts DEF IInv
<1>3. CASE Chokes(b) /\ type[c] = "open"
  BY <1>1, <1>2, <1>3 DEF ChanInv
<1>4. CASE ~(Chokes(b) /\ type[c] = "open")
  BY <1>1, <1>2, <1>4 DEF ChanInv
<1> QED
  BY <1>3, <1>4

\* The same channel when the step sends nothing.
LEMMA Bystander ==
  ASSUME IInv, throttledAll' = throttledAll, NEW c \in Channel, type'[c] = type[c],
         throttled'[c] = throttled[c], override'[c] = override[c], frozen'[c] = frozen[c],
         outbuffer'[c] = outbuffer[c], remwindow'[c] = remwindow[c]
  PROVE  ChanInv(type[c], throttled[c], override[c], frozen[c],
                 outbuffer[c], remwindow[c], throttledAll)'
  BY DEF IInv, ChannelsInv, ChanInv

\* ssh2_try_send sends no more than the window and leaves one of the two empty.
LEMMA SendableFacts ==
  ASSUME NEW buf \in Nat, NEW win \in Nat
  PROVE  /\ Sendable(buf, win) \in Nat
         /\ Sendable(buf, win) <= buf /\ Sendable(buf, win) <= win
         /\ buf - Sendable(buf, win) = 0 \/ win - Sendable(buf, win) = 0
  BY DEF Sendable, Min

-----------------------------------------------------------------------------
\* A new local connection starts frozen and unthrottled; the others only see its CHANNEL_OPEN packet.
LEMMA AcceptInv == ASSUME IInv, NEW c \in Channel, Accept(c) PROVE IInv'
<1>1. PICK b \in 0 .. MaxQueue :
        /\ PktsSend(1, b, type')
        /\ frozen' = FrozenAfter(b, type', [frozen EXCEPT ![c] = TRUE])
  BY DEF Accept, PktSend
<1>2. /\ type[c] = "none" /\ type' = [type EXCEPT ![c] = "dormant"]
      /\ throttled' = throttled /\ held' = held /\ outbuffer' = outbuffer /\ remwindow' = remwindow
  BY DEF Accept
<1>3. TypeOK /\ ThrottleMatchesBacklog
  BY DEF IInv
<1>4. ThrottleMatchesBacklog' /\ TypeOK'
  BY <1>1, <1>2, <1>3, PktsSendFacts DEF TypeOK, FrozenAfter
<1>5. ASSUME NEW d \in Channel
      PROVE  ChanInv(type[d], throttled[d], override[d], frozen[d], outbuffer[d], remwindow[d], throttledAll)'
  <2>1. CASE d # c
    <3>1. frozen'[d] = IF Chokes(b) /\ type'[d] = "open" THEN TRUE ELSE frozen[d]
      BY <1>1, <1>3, <2>1 DEF FrozenAfter, TypeOK
    <3>2. /\ type'[d] = type[d] /\ throttled'[d] = throttled[d]
          /\ outbuffer'[d] = outbuffer[d] /\ remwindow'[d] = remwindow[d]
      BY <1>2, <1>3, <2>1 DEF TypeOK
    <3> QED
      BY <1>1, <3>1, <3>2, BystanderOfPkts
  <2>2. CASE d = c
    <3>1. ~throttled[c] /\ ~override[c] /\ outbuffer[c] = 0
      BY <1>2 DEF IInv, ChannelsInv, ChanInv
    <3>2. type'[c] = "dormant"
      BY <1>2, <1>3 DEF TypeOK
    <3>3. ~override'[c]
      <4>1. override'[c] = IF Chokes(b) /\ type'[c] = "open" THEN TRUE ELSE override[c]
        BY <1>1 DEF PktsSend, OverrideAfter
      <4> QED
        BY <3>1, <3>2, <4>1
    <3> QED
      BY <1>2, <2>2, <3>1, <3>2, <3>3 DEF ChanInv
  <2> QED
    BY <2>1, <2>2
<1> QED
  BY <1>4, <1>5 DEF IInv, ChannelsInv

\* A dynamic forwarding's connection starts unfrozen.
LEMMA AcceptDynamicInv == ASSUME IInv, NEW c \in Channel, AcceptDynamic(c) PROVE IInv'
<1>1. /\ type[c] = "none" /\ type' = [type EXCEPT ![c] = "socks"]
      /\ UNCHANGED <<throttled, override, frozen, held, outbuffer, remwindow, backlog, throttledAll>>
  BY DEF AcceptDynamic
<1>2. TypeOK' /\ ThrottleMatchesBacklog'
  BY <1>1 DEF IInv, TypeOK, ThrottleMatchesBacklog
<1>3. ChannelsInv'
  BY <1>1 DEF IInv, TypeOK, ChannelsInv, ChanInv
<1> QED
  BY <1>2, <1>3 DEF IInv

\* A freed slot is clean again.
LEMMA ReleaseInv == ASSUME IInv, NEW c \in Channel, Release(c) PROVE IInv'
<1> USE DEF IInv, TypeOK
<1>1. TypeOK'
  <2>1. /\ type' \in [Channel -> {"none", "socks", "dormant", "open", "gone"}]
        /\ throttled' \in [Channel -> BOOLEAN] /\ override' \in [Channel -> BOOLEAN]
        /\ frozen' \in [Channel -> BOOLEAN] /\ throttledAll' \in BOOLEAN
    BY DEF Release
  <2>2. /\ held' \in [Channel -> 0 .. MaxRead] /\ outbuffer' \in [Channel -> Nat]
        /\ remwindow' \in [Channel -> 0 .. MaxWindow] /\ backlog' \in 0 .. MaxQueue
    BY ConstAssumption DEF Release
  <2> QED
    BY <2>1, <2>2
<1>2. ThrottleMatchesBacklog'
  BY DEF ThrottleMatchesBacklog, Release
<1>3. ASSUME NEW d \in Channel
      PROVE  ChanInv(type[d], throttled[d], override[d], frozen[d], outbuffer[d], remwindow[d], throttledAll)'
  <2>1. CASE d # c
    <3>1. /\ type'[d] = type[d] /\ throttled'[d] = throttled[d]
          /\ override'[d] = override[d] /\ frozen'[d] = frozen[d]
          /\ outbuffer'[d] = outbuffer[d] /\ remwindow'[d] = remwindow[d]
          /\ throttledAll' = throttledAll
      BY <2>1 DEF Release
    <3> QED
      BY <3>1, Bystander
  <2>2. CASE d = c
    BY <2>2 DEF Release, ChanInv
  <2> QED
    BY <2>1, <2>2
<1> QED
  BY <1>1, <1>2, <1>3 DEF ChannelsInv

\* As AcceptInv, with what is left of the SOCKS read kept for later.
LEMMA SocksConnectInv ==
  ASSUME IInv, NEW c \in Channel, NEW rest \in 0 .. MaxRead, SocksConnect(c, rest) PROVE IInv'
<1>1. PICK b \in 0 .. MaxQueue :
        /\ PktsSend(1, b, type')
        /\ frozen' = FrozenAfter(b, type', [frozen EXCEPT ![c] = TRUE])
  BY DEF SocksConnect, PktSend
<1>2. /\ type[c] = "socks" /\ type' = [type EXCEPT ![c] = "dormant"]
      /\ held' = [held EXCEPT ![c] = rest]
      /\ throttled' = throttled /\ outbuffer' = outbuffer /\ remwindow' = remwindow
  BY DEF SocksConnect
<1>3. TypeOK /\ ThrottleMatchesBacklog
  BY DEF IInv
<1>4. ThrottleMatchesBacklog' /\ TypeOK'
  BY <1>1, <1>2, <1>3, PktsSendFacts DEF TypeOK, FrozenAfter
<1>5. ASSUME NEW d \in Channel
      PROVE  ChanInv(type[d], throttled[d], override[d], frozen[d], outbuffer[d], remwindow[d], throttledAll)'
  <2>1. CASE d # c
    <3>1. frozen'[d] = IF Chokes(b) /\ type'[d] = "open" THEN TRUE ELSE frozen[d]
      BY <1>1, <1>3, <2>1 DEF FrozenAfter, TypeOK
    <3>2. /\ type'[d] = type[d] /\ throttled'[d] = throttled[d]
          /\ outbuffer'[d] = outbuffer[d] /\ remwindow'[d] = remwindow[d]
      BY <1>2, <1>3, <2>1 DEF TypeOK
    <3> QED
      BY <1>1, <3>1, <3>2, BystanderOfPkts
  <2>2. CASE d = c
    <3>1. ~throttled[c] /\ ~override[c] /\ outbuffer[c] = 0
      BY <1>2 DEF IInv, ChannelsInv, ChanInv
    <3>2. type'[c] = "dormant"
      BY <1>2, <1>3 DEF TypeOK
    <3>3. ~override'[c]
      <4>1. override'[c] = IF Chokes(b) /\ type'[c] = "open" THEN TRUE ELSE override[c]
        BY <1>1 DEF PktsSend, OverrideAfter
      <4> QED
        BY <3>1, <3>2, <4>1
    <3> QED
      BY <1>2, <2>2, <3>1, <3>2, <3>3 DEF ChanInv
  <2> QED
    BY <2>1, <2>2
<1> QED
  BY <1>4, <1>5 DEF IInv, ChannelsInv

\* A channel the server opens starts thawed, unless its confirmation chokes the connection.
LEMMA RemoteOpenInv ==
  ASSUME IInv, NEW c \in Channel, NEW win \in 0 .. MaxWindow, RemoteOpen(c, win) PROVE IInv'
<1>1. PICK b \in 0 .. MaxQueue : PktsSend(1, b, type') /\ frozen' = FrozenAfter(b, type', frozen)
  BY DEF RemoteOpen, PktSend
<1>2. /\ type[c] = "none" /\ type' = [type EXCEPT ![c] = "open"]
      /\ remwindow' = [remwindow EXCEPT ![c] = win]
      /\ throttled' = throttled /\ held' = held /\ outbuffer' = outbuffer
  BY DEF RemoteOpen
<1>3. TypeOK /\ ThrottleMatchesBacklog
  BY DEF IInv
<1>4. ThrottleMatchesBacklog' /\ TypeOK'
  BY <1>1, <1>2, <1>3, PktsSendFacts DEF TypeOK, FrozenAfter
<1>5. ASSUME NEW d \in Channel
      PROVE  ChanInv(type[d], throttled[d], override[d], frozen[d], outbuffer[d], remwindow[d], throttledAll)'
  <2>1. frozen'[d] = IF Chokes(b) /\ type'[d] = "open" THEN TRUE ELSE frozen[d]
    BY <1>1 DEF FrozenAfter
  <2>2. CASE d # c
    <3>1. /\ type'[d] = type[d] /\ throttled'[d] = throttled[d]
          /\ outbuffer'[d] = outbuffer[d] /\ remwindow'[d] = remwindow[d]
      BY <1>2, <1>3, <2>2 DEF TypeOK
    <3> QED
      BY <1>1, <2>1, <3>1, BystanderOfPkts
  <2>3. CASE d = c
    <3>1. ~throttled[c] /\ ~override[c] /\ outbuffer[c] = 0 /\ ~frozen[c]
      BY <1>2 DEF IInv, ChannelsInv, ChanInv
    <3>2. type'[c] = "open"
      BY <1>2, <1>3 DEF TypeOK
    <3>3. (frozen'[c] <=> override'[c]) /\ (override'[c] => throttledAll')
      <4>1. frozen'[c] <=> Chokes(b)
        BY <2>1, <2>3, <3>1, <3>2
      <4>2. override'[c] <=> Chokes(b)
        BY <1>1, <3>1, <3>2 DEF PktsSend, OverrideAfter
      <4>3. Chokes(b) => throttledAll'
        BY <1>1 DEF PktsSend
      <4> QED
        BY <4>1, <4>2, <4>3
    <3>4. ~throttled'[c] /\ outbuffer'[c] = 0
      BY <1>2, <3>1
    <3>5. 0 <= MaxRead /\ 0 <= 2 * MaxRead
      BY ConstAssumption
    <3> QED
      BY <2>3, <3>2, <3>3, <3>4, <3>5 DEF ChanInv
  <2> QED
    BY <2>2, <2>3
<1> QED
  BY <1>4, <1>5 DEF IInv, ChannelsInv

\* ssh_sent is the only way back from throttledAll.
LEMMA SshWritableInv ==
  ASSUME IInv, NEW n \in 1 .. backlog, SshWritable(n) PROVE IInv'
<1> DEFINE thaw == throttledAll /\ backlog' < MaxBacklog
<1>1. /\ backlog' = backlog - n
      /\ throttledAll' = (throttledAll /\ ~thaw)
      /\ override' = [c \in Channel |-> override[c] /\ ~(thaw /\ type[c] = "open")]
      /\ frozen' = [c \in Channel |-> IF thaw /\ type[c] = "open" THEN throttled[c] ELSE frozen[c]]
      /\ type' = type /\ throttled' = throttled /\ held' = held
      /\ outbuffer' = outbuffer /\ remwindow' = remwindow
  BY DEF SshWritable
<1>2. backlog' \in 0 .. MaxQueue /\ backlog' <= backlog
  <2>1. backlog \in 0 .. MaxQueue
    BY DEF IInv, TypeOK
  <2>2. PICK rest \in Int : rest = backlog - n
    BY <2>1
  <2> QED
    BY <1>1, <2>1, <2>2, ConstAssumption
<1>3. TypeOK'
  BY <1>1, <1>2 DEF IInv, TypeOK
<1>4. ThrottleMatchesBacklog'
  <2>1. backlog' > MaxBacklog => throttledAll'
    <3>1. PICK left \in 0 .. MaxQueue : left = backlog'
      BY <1>2
    <3>2. left > MaxBacklog => throttledAll
      BY <1>2, <3>1, ConstAssumption DEF IInv, ThrottleMatchesBacklog, TypeOK
    <3>3. left > MaxBacklog => ~(left < MaxBacklog)
      BY ConstAssumption
    <3> QED
      BY <1>1, <3>1, <3>2, <3>3
  <2>2. throttledAll' => backlog' >= MaxBacklog
    <3>1. throttledAll' => ~(backlog' < MaxBacklog)
      BY <1>1
    <3> QED
      BY <1>2, <3>1, ConstAssumption
  <2> QED
    BY <2>1, <2>2 DEF ThrottleMatchesBacklog
<1>5. ASSUME NEW d \in Channel
      PROVE  ChanInv(type[d], throttled[d], override[d], frozen[d], outbuffer[d], remwindow[d], throttledAll)'
  <2> HIDE DEF thaw
  <2>1. ChanInv(type[d], throttled[d], override[d], frozen[d], outbuffer[d], remwindow[d], throttledAll)
    BY DEF IInv, ChannelsInv
  <2>2. CASE thaw
    BY <1>1, <2>1, <2>2 DEF ChanInv
  <2>3. CASE ~thaw
    BY <1>1, <2>1, <2>3 DEF ChanInv
  <2> QED
    BY <2>2, <2>3
<1> QED
  BY <1>3, <1>4, <1>5 DEF IInv, ChannelsInv

\* The confirmed channel is thawed, unless sending what SOCKS left over chokes the connection.
LEMMA ConfirmInv ==
  ASSUME IInv, NEW c \in Channel, NEW win \in 0 .. MaxWindow, Confirm(c, win) PROVE IInv'
<1> DEFINE sent == Sendable(held[c], win)
           thawed == [frozen EXCEPT ![c] = FALSE]
<1>1. /\ type[c] = "dormant" /\ type' = [type EXCEPT ![c] = "open"]
      /\ held' = [held EXCEPT ![c] = 0]
      /\ outbuffer' = [outbuffer EXCEPT ![c] = held[c] - sent]
      /\ remwindow' = [remwindow EXCEPT ![c] = win - sent]
      /\ throttled' = throttled
      /\ \/ /\ sent > 0
            /\ \E b \in 0 .. MaxQueue : PktsSend(1, b, type') /\ frozen' = FrozenAfter(b, type', thawed)
         \/ sent = 0 /\ NothingSent /\ frozen' = thawed
  BY DEF Confirm, PktSend
<1>2. TypeOK /\ ThrottleMatchesBacklog
  BY DEF IInv
<1>3. held[c] \in 0 .. MaxRead /\ ~throttled[c] /\ ~override[c]
  BY <1>1, <1>2 DEF IInv, ChannelsInv, ChanInv, TypeOK
<1>4. /\ sent \in Nat /\ held[c] - sent \in 0 .. MaxRead /\ win - sent \in 0 .. MaxWindow
      /\ held[c] - sent = 0 \/ win - sent = 0
  <2>1. held[c] \in Nat /\ win \in Nat /\ held[c] <= MaxRead /\ win <= MaxWindow
    BY <1>3, ConstAssumption
  <2>2. /\ sent \in Nat /\ sent <= held[c] /\ sent <= win
        /\ held[c] - sent = 0 \/ win - sent = 0
    BY <2>1, SendableFacts
  <2> HIDE DEF sent
  <2> QED
    BY <2>1, <2>2, ConstAssumption
<1>5. /\ type'[c] = "open" /\ ~throttled'[c]
      /\ outbuffer'[c] \in 0 .. MaxRead /\ (outbuffer'[c] = 0 \/ remwindow'[c] = 0)
      /\ outbuffer'[c] <= 2 * MaxRead
  <2>1. type'[c] = "open" /\ outbuffer'[c] = held[c] - sent /\ remwindow'[c] = win - sent
    BY <1>1, <1>2 DEF TypeOK
  <2> HIDE DEF sent
  <2> QED
    BY <1>1, <1>3, <1>4, <2>1, ConstAssumption
<1>6. /\ type' \in [Channel -> {"none", "socks", "dormant", "open", "gone"}]
      /\ held' \in [Channel -> 0 .. MaxRead] /\ outbuffer' \in [Channel -> Nat]
      /\ remwindow' \in [Channel -> 0 .. MaxWindow] /\ throttled' \in [Channel -> BOOLEAN]
  <2> HIDE DEF sent
  <2> QED
    BY <1>1, <1>2, <1>4, ConstAssumption DEF TypeOK
<1>7. ASSUME NEW d \in Channel, d # c
      PROVE  /\ type'[d] = type[d] /\ throttled'[d] = throttled[d]
             /\ outbuffer'[d] = outbuffer[d] /\ remwindow'[d] = remwindow[d]
             /\ thawed[d] = frozen[d]
  BY <1>1, <1>2, <1>7 DEF TypeOK
<1>8. thawed \in [Channel -> BOOLEAN] /\ ~thawed[c]
  BY <1>2 DEF TypeOK
<1> HIDE DEF sent, thawed
<1>9. CASE sent > 0
  <2>1. PICK b \in 0 .. MaxQueue : PktsSend(1, b, type') /\ frozen' = FrozenAfter(b, type', thawed)
    <3>1. sent # 0
      BY <1>4, <1>9
    <3> QED
      BY <1>1, <3>1, Zenon
  <2>2. ThrottleMatchesBacklog' /\ TypeOK'
    BY <1>2, <1>6, <1>8, <2>1, PktsSendFacts DEF TypeOK, FrozenAfter
  <2>3. ASSUME NEW d \in Channel
        PROVE  ChanInv(type[d], throttled[d], override[d], frozen[d], outbuffer[d], remwindow[d], throttledAll)'
    <3>1. frozen'[d] = IF Chokes(b) /\ type'[d] = "open" THEN TRUE ELSE thawed[d]
      BY <2>1 DEF FrozenAfter
    <3>2. CASE d # c
      BY <1>7, <2>1, <3>1, <3>2, BystanderOfPkts
    <3>3. CASE d = c
      <4>1. (frozen'[c] <=> override'[c]) /\ (override'[c] => throttledAll')
        <5>1. frozen'[c] <=> Chokes(b)
          BY <1>5, <1>8, <3>1, <3>3
        <5>2. override'[c] <=> Chokes(b)
          BY <1>3, <1>5, <2>1 DEF PktsSend, OverrideAfter
        <5>3. Chokes(b) => throttledAll'
          BY <2>1 DEF PktsSend
        <5> QED
          BY <5>1, <5>2, <5>3
      <4> QED
        BY <1>5, <3>3, <4>1 DEF ChanInv
    <3> QED
      BY <3>2, <3>3
  <2> QED
    BY <2>2, <2>3 DEF IInv, ChannelsInv
<1>10. CASE sent = 0
  <2>1. NothingSent /\ frozen' = thawed
    BY <1>1, <1>10
  <2>2. ThrottleMatchesBacklog' /\ TypeOK'
    BY <1>2, <1>6, <1>8, <2>1 DEF TypeOK, NothingSent, ThrottleMatchesBacklog
  <2>3. ASSUME NEW d \in Channel
        PROVE  ChanInv(type[d], throttled[d], override[d], frozen[d], outbuffer[d], remwindow[d], throttledAll)'
    <3>1. CASE d # c
      BY <1>7, <2>1, <3>1, Bystander DEF NothingSent
    <3>2. CASE d = c
      BY <1>3, <1>5, <1>8, <2>1, <3>2 DEF ChanInv, NothingSent
    <3> QED
      BY <3>1, <3>2
  <2> QED
    BY <2>2, <2>3 DEF IInv, ChannelsInv
<1> QED
  BY <1>4, <1>9, <1>10

\* A read freezes the socket exactly when something stays in the buffer or the connection chokes.
LEMMA LocalDataInv ==
  ASSUME IInv, NEW c \in Channel, NEW n \in 1 .. MaxRead, LocalData(c, n) PROVE IInv'
<1> DEFINE sent == Sendable(outbuffer[c] + n, remwindow[c])
           left == outbuffer[c] + n - sent
<1>1. /\ type[c] = "open" /\ ~frozen[c]
      /\ outbuffer' = [outbuffer EXCEPT ![c] = left]
      /\ remwindow' = [remwindow EXCEPT ![c] = @ - sent]
      /\ throttled' = [throttled EXCEPT ![c] = @ \/ left > 0]
      /\ type' = type /\ held' = held
      /\ \/ /\ sent > 0
            /\ \E b \in 0 .. MaxQueue :
                 /\ PktsSend(1, b, type)
                 /\ frozen' = [FrozenAfter(b, type, frozen) EXCEPT ![c] = @ \/ left > 0]
         \/ sent = 0 /\ NothingSent /\ frozen' = [frozen EXCEPT ![c] = @ \/ left > 0]
  BY DEF LocalData, PktSend
<1>2. TypeOK /\ ThrottleMatchesBacklog
  BY DEF IInv
<1>3. ~throttled[c] /\ ~override[c] /\ outbuffer[c] <= MaxRead
  BY <1>1 DEF IInv, ChannelsInv, ChanInv
<1>4. /\ sent \in Nat /\ left \in 0 .. 2 * MaxRead
      /\ remwindow[c] - sent \in 0 .. MaxWindow
      /\ left = 0 \/ remwindow[c] - sent = 0
  <2>1. outbuffer[c] \in Nat /\ remwindow[c] \in Nat /\ remwindow[c] <= MaxWindow
    BY <1>2, ConstAssumption DEF TypeOK
  <2>2. PICK buf \in Nat : buf = outbuffer[c] + n
    BY <2>1
  <2>3. /\ sent \in Nat /\ sent <= buf /\ sent <= remwindow[c]
        /\ buf - sent = 0 \/ remwindow[c] - sent = 0
    BY <2>1, <2>2, SendableFacts
  <2> HIDE DEF sent
  <2>4. left = buf - sent
    BY <2>1, <2>2, <2>3
  <2>5. buf <= 2 * MaxRead
    BY <1>3, <2>1, <2>2, ConstAssumption
  <2> HIDE DEF left
  <2> QED
    BY <2>1, <2>3, <2>4, <2>5, ConstAssumption
<1> HIDE DEF sent, left
<1>5. /\ outbuffer'[c] = left /\ remwindow'[c] = remwindow[c] - sent
      /\ throttled'[c] <=> left > 0
  BY <1>1, <1>2, <1>3 DEF TypeOK
<1>6. ASSUME NEW d \in Channel, d # c
      PROVE  /\ throttled'[d] = throttled[d]
             /\ outbuffer'[d] = outbuffer[d] /\ remwindow'[d] = remwindow[d]
  BY <1>1, <1>2, <1>6 DEF TypeOK
<1>7. /\ outbuffer' \in [Channel -> Nat] /\ remwindow' \in [Channel -> 0 .. MaxWindow]
      /\ throttled' \in [Channel -> BOOLEAN]
  BY <1>1, <1>2, <1>4 DEF TypeOK
<1>8. ASSUME frozen'[c] <=> (override'[c] \/ left > 0), override'[c] => throttledAll'
      PROVE  ChanInv(type[c], throttled[c], override[c], frozen[c], outbuffer[c], remwindow[c], throttledAll)'
  <2>1. left \in Nat /\ left <= 2 * MaxRead /\ (left > 0 \/ left <= MaxRead)
    BY <1>4, ConstAssumption
  <2> QED
    BY <1>1, <1>4, <1>5, <1>8, <2>1 DEF ChanInv
<1>9. CASE sent > 0
  <2>1. PICK b \in 0 .. MaxQueue :
          /\ PktsSend(1, b, type)
          /\ frozen' = [FrozenAfter(b, type, frozen) EXCEPT ![c] = @ \/ left > 0]
    <3>1. sent # 0
      BY <1>4, <1>9
    <3> QED
      BY <1>1, <3>1, Zenon
  <2>2. /\ FrozenAfter(b, type, frozen) \in [Channel -> BOOLEAN]
        /\ \A d \in Channel : FrozenAfter(b, type, frozen)[d] =
                                IF Chokes(b) /\ type[d] = "open" THEN TRUE ELSE frozen[d]
    BY <1>2 DEF TypeOK, FrozenAfter
  <2>3. ThrottleMatchesBacklog' /\ TypeOK'
    <3>1. frozen' \in [Channel -> BOOLEAN]
      BY <2>1, <2>2
    <3>2. /\ backlog' = b /\ throttledAll' \in BOOLEAN /\ ThrottleMatchesBacklog'
          /\ override' \in [Channel -> BOOLEAN]
      BY <1>2, <2>1, PktsSendFacts
    <3>3. type' = type /\ held' = held
      BY <1>1
    <3> QED
      BY <1>2, <1>7, <3>1, <3>2, <3>3 DEF TypeOK
  <2>4. ASSUME NEW d \in Channel
        PROVE  ChanInv(type[d], throttled[d], override[d], frozen[d], outbuffer[d], remwindow[d], throttledAll)'
    <3>1. CASE d # c
      <4>1. frozen'[d] = IF Chokes(b) /\ type[d] = "open" THEN TRUE ELSE frozen[d]
        BY <2>1, <2>2, <3>1
      <4> QED
        BY <1>1, <1>6, <2>1, <3>1, <4>1, BystanderOfPkts
    <3>2. CASE d = c
      <4>1. frozen'[c] <=> (Chokes(b) \/ left > 0)
        BY <1>1, <2>1, <2>2
      <4>2. (override'[c] <=> Chokes(b)) /\ (Chokes(b) => throttledAll')
        BY <1>1, <1>3, <2>1 DEF PktsSend, OverrideAfter
      <4> QED
        BY <1>8, <3>2, <4>1, <4>2
    <3> QED
      BY <3>1, <3>2
  <2> QED
    BY <2>3, <2>4 DEF IInv, ChannelsInv
<1>10. CASE sent = 0
  <2>1. NothingSent /\ frozen' = [frozen EXCEPT ![c] = @ \/ left > 0]
    BY <1>1, <1>10
  <2>2. ThrottleMatchesBacklog' /\ TypeOK'
    BY <1>1, <1>2, <1>7, <2>1 DEF TypeOK, NothingSent, ThrottleMatchesBacklog
  <2>3. ASSUME NEW d \in Channel
        PROVE  ChanInv(type[d], throttled[d], override[d], frozen[d], outbuffer[d], remwindow[d], throttledAll)'
    <3>1. CASE d # c
      <4>1. frozen'[d] = frozen[d]
        BY <1>2, <2>1, <3>1 DEF TypeOK
      <4> QED
        BY <1>1, <1>6, <2>1, <3>1, <4>1, Bystander DEF NothingSent
    <3>2. CASE d = c
      <4>1. (frozen'[c] <=> left > 0) /\ ~override'[c]
        BY <1>1, <1>2, <1>3, <2>1 DEF NothingSent, TypeOK
      <4> QED
        BY <1>8, <3>2, <4>1
    <3> QED
      BY <3>1, <3>2
  <2> QED
    BY <2>2, <2>3 DEF IInv, ChannelsInv
<1> QED
  BY <1>4, <1>9, <1>10

\* A closed channel owes nothing; the others only see its packets.
LEMMA LocalCloseInv ==
  ASSUME IInv, NEW c \in Channel, NEW n \in 0 .. MaxRead, LocalClose(c, n) PROVE IInv'
<1>1. /\ type[c] \in {"socks", "dormant", "open"} /\ type' = [type EXCEPT ![c] = "gone"]
      /\ throttled' = throttled /\ held' = held
  BY DEF LocalClose
<1>2. TypeOK /\ ThrottleMatchesBacklog
  BY DEF IInv
<1>3. type'[c] = "gone" /\ type' \in [Channel -> {"none", "socks", "dormant", "open", "gone"}]
  BY <1>1, <1>2 DEF TypeOK
<1>4. ChanInv(type[c], throttled[c], override[c], frozen[c], outbuffer[c], remwindow[c], throttledAll)'
  BY <1>3 DEF ChanInv
<1>5. CASE type[c] = "open"
  <2> DEFINE sent == Sendable(outbuffer[c] + n, remwindow[c])
             pkts == IF sent > 0 THEN 2 ELSE 1
  <2>1. /\ outbuffer' = [outbuffer EXCEPT ![c] = @ + n - sent]
        /\ remwindow' = [remwindow EXCEPT ![c] = @ - sent]
        /\ \E b \in 0 .. MaxQueue : PktsSend(pkts, b, type) /\ frozen' = FrozenAfter(b, type, frozen)
    BY <1>5 DEF LocalClose
  <2>2. outbuffer[c] + n - sent \in Nat /\ remwindow[c] - sent \in 0 .. MaxWindow
    <3>1. outbuffer[c] \in Nat /\ remwindow[c] \in Nat /\ remwindow[c] <= MaxWindow
      BY <1>2, ConstAssumption DEF TypeOK
    <3>2. PICK buf \in Nat : buf = outbuffer[c] + n
      BY <3>1, ConstAssumption
    <3>3. sent \in Nat /\ sent <= buf /\ sent <= remwindow[c]
      BY <3>1, <3>2, SendableFacts
    <3> HIDE DEF sent
    <3> QED
      BY <3>1, <3>2, <3>3, ConstAssumption
  <2>3. pkts \in Nat
    OBVIOUS
  <2> HIDE DEF sent, pkts
  <2>4. PICK b \in 0 .. MaxQueue : PktsSend(pkts, b, type) /\ frozen' = FrozenAfter(b, type, frozen)
    BY <2>1
  <2>5. TypeOK' /\ ThrottleMatchesBacklog'
    BY <1>1, <1>2, <1>3, <2>1, <2>2, <2>3, <2>4, PktsSendFacts DEF TypeOK, FrozenAfter
  <2>6. ASSUME NEW d \in Channel, d # c
        PROVE  ChanInv(type[d], throttled[d], override[d], frozen[d], outbuffer[d], remwindow[d], throttledAll)'
    <3>1. frozen'[d] = IF Chokes(b) /\ type[d] = "open" THEN TRUE ELSE frozen[d]
      BY <2>4 DEF FrozenAfter
    <3>2. /\ type'[d] = type[d] /\ throttled'[d] = throttled[d]
          /\ outbuffer'[d] = outbuffer[d] /\ remwindow'[d] = remwindow[d]
      BY <1>1, <1>2, <2>1, <2>6 DEF TypeOK
    <3> QED
      BY <2>3, <2>4, <3>1, <3>2, BystanderOfPkts
  <2> QED
    BY <1>4, <2>5, <2>6 DEF IInv, ChannelsInv
<1>6. CASE type[c] # "open"
  <2>1. NothingSent /\ UNCHANGED <<outbuffer, remwindow, frozen>>
    BY <1>6 DEF LocalClose
  <2>2. TypeOK' /\ ThrottleMatchesBacklog'
    BY <1>1, <1>2, <1>3, <2>1 DEF TypeOK, NothingSent, ThrottleMatchesBacklog
  <2>3. ASSUME NEW d \in Channel, d # c
        PROVE  ChanInv(type[d], throttled[d], override[d], frozen[d], outbuffer[d], remwindow[d], throttledAll)'
    <3>1. type'[d] = type[d]
      BY <1>1, <1>2, <2>3 DEF TypeOK
    <3> QED
      BY <1>1, <2>1, <3>1, Bystander DEF NothingSent
  <2> QED
    BY <1>4, <2>2, <2>3 DEF IInv, ChannelsInv
<1> QED
  BY <1>5, <1>6

\* The try_send loop, over windows of which only an open channel's has grown.
LEMMA TrySendAllInv ==
  ASSUME IInv, NEW main \in {0, 1}, NEW window \in [Channel -> 0 .. MaxWindow],
         TrySendAll(window, main), type' = type, held' = held,
         \A c \in Channel : type[c] # "open" => window[c] = remwindow[c]
  PROVE  IInv'
<1> DEFINE sent == [c \in Channel |-> IF type[c] = "open" THEN Sendable(outbuffer[c], window[c]) ELSE 0]
           left == [c \in Channel |-> outbuffer[c] - sent[c]]
           pkts == main + Cardinality({c \in Channel : sent[c] > 0})
           thaw(f) == [c \in Channel |-> IF type[c] = "open" /\ left[c] = 0 THEN override'[c] ELSE f[c]]
<1>1. /\ outbuffer' = left
      /\ remwindow' = [c \in Channel |-> window[c] - sent[c]]
      /\ throttled' = [c \in Channel |-> Unthrottle(throttled, left, c)]
      /\ \/ \E b \in 0 .. MaxQueue :
              PktsSend(pkts, b, type) /\ frozen' = thaw(FrozenAfter(b, type, frozen))
         \/ NothingSent /\ frozen' = thaw(frozen)
  BY DEF TrySendAll
<1>2. TypeOK /\ ThrottleMatchesBacklog
  BY DEF IInv
<1>3. pkts \in Nat
  <2>1. IsFiniteSet({c \in Channel : sent[c] > 0})
    BY FS_Subset, ConstAssumption
  <2> HIDE DEF sent
  <2>2. Cardinality({c \in Channel : sent[c] > 0}) \in Nat
    BY <2>1, FS_CardinalityType
  <2> QED
    BY <2>2
<1>4. ASSUME NEW c \in Channel
      PROVE  /\ left[c] \in Nat /\ left[c] <= outbuffer[c]
             /\ window[c] - sent[c] \in 0 .. MaxWindow
             /\ type[c] = "open" => left[c] = 0 \/ window[c] - sent[c] = 0
             /\ type[c] # "open" => left[c] = outbuffer[c]
  <2>1. outbuffer[c] \in Nat /\ window[c] \in Nat /\ window[c] <= MaxWindow
    BY <1>2, ConstAssumption DEF TypeOK
  <2>2. CASE type[c] = "open"
    <3>1. sent[c] = Sendable(outbuffer[c], window[c])
      BY <2>2
    <3>2. /\ sent[c] \in Nat /\ sent[c] <= outbuffer[c] /\ sent[c] <= window[c]
          /\ outbuffer[c] - sent[c] = 0 \/ window[c] - sent[c] = 0
      BY <2>1, <3>1, SendableFacts
    <3> HIDE DEF sent
    <3>3. left[c] = outbuffer[c] - sent[c]
      OBVIOUS
    <3> HIDE DEF left
    <3> QED
      BY <2>1, <2>2, <3>2, <3>3, ConstAssumption
  <2>3. CASE type[c] # "open"
    <3>1. sent[c] = 0
      BY <2>3
    <3> HIDE DEF sent
    <3>2. left[c] = outbuffer[c] - 0 /\ window[c] - sent[c] = window[c]
      BY <2>1, <3>1
    <3> HIDE DEF left
    <3> QED
      BY <2>1, <2>3, <3>2
  <2> QED
    BY <2>2, <2>3
<1> HIDE DEF sent
<1>5. left \in [Channel -> Nat]
  BY <1>4
<1> HIDE DEF left, pkts
<1>6. /\ outbuffer' \in [Channel -> Nat] /\ remwindow' \in [Channel -> 0 .. MaxWindow]
      /\ throttled' \in [Channel -> BOOLEAN]
  BY <1>1, <1>2, <1>4, <1>5 DEF TypeOK, Unthrottle
\* What the loop leaves of one channel, whatever the packets did to it.
<1>7. ASSUME NEW c \in Channel, NEW choked \in BOOLEAN,
             override'[c] <=> (override[c] \/ (choked /\ type[c] = "open")),
             frozen'[c] <=> (IF type[c] = "open" /\ left[c] = 0 THEN override'[c]
                             ELSE frozen[c] \/ (choked /\ type[c] = "open")),
             throttledAll' <=> (throttledAll \/ choked)
      PROVE  ChanInv(type[c], throttled[c], override[c], frozen[c], outbuffer[c], remwindow[c], throttledAll)'
  <2>1. ChanInv(type[c], throttled[c], override[c], frozen[c], outbuffer[c], remwindow[c], throttledAll)
    BY DEF IInv, ChannelsInv
  <2>2. /\ outbuffer'[c] = left[c] /\ remwindow'[c] = window[c] - sent[c]
        /\ throttled'[c] <=> (throttled[c] /\ ~(type[c] = "open" /\ left[c] = 0))
        /\ type'[c] = type[c]
    BY <1>1 DEF Unthrottle
  <2>3. CASE type[c] # "open"
    BY <1>4, <1>7, <2>1, <2>2, <2>3 DEF ChanInv
  <2>4. CASE type[c] = "open" /\ left[c] = 0
    <3>1. 0 <= MaxRead /\ 0 <= 2 * MaxRead
      BY ConstAssumption
    <3>2. (override'[c] => throttledAll') /\ (frozen'[c] <=> override'[c]) /\ ~throttled'[c]
      BY <1>7, <2>1, <2>2, <2>4 DEF ChanInv
    <3> QED
      BY <2>2, <2>4, <3>1, <3>2 DEF ChanInv
  <2>5. CASE type[c] = "open" /\ left[c] # 0
    <3>1. left[c] > 0 /\ remwindow'[c] = 0
      BY <1>4, <2>2, <2>5
    <3>2. /\ override'[c] => throttledAll' /\ frozen'[c]
          /\ throttled'[c] => frozen'[c]
          /\ frozen'[c] => throttled'[c] \/ override'[c]
          /\ throttled'[c] <=> throttled[c]
      BY <1>7, <2>1, <2>2, <2>5 DEF ChanInv
    <3>3. /\ left[c] <= 2 * MaxRead
          /\ ~throttled[c] => left[c] <= MaxRead
      <4>1. /\ outbuffer[c] <= 2 * MaxRead
            /\ ~throttled[c] => outbuffer[c] <= MaxRead
        BY <2>1, <2>5 DEF ChanInv
      <4>2. left[c] \in Nat /\ outbuffer[c] \in Nat /\ left[c] <= outbuffer[c]
        BY <1>2, <1>4 DEF TypeOK
      <4> QED
        BY <4>1, <4>2, ConstAssumption
    <3> QED
      BY <2>2, <2>5, <3>1, <3>2, <3>3 DEF ChanInv
  <2> QED
    BY <2>3, <2>4, <2>5
<1>8. CASE \E b \in 0 .. MaxQueue :
             PktsSend(pkts, b, type) /\ frozen' = thaw(FrozenAfter(b, type, frozen))
  <2>1. PICK b \in 0 .. MaxQueue :
             PktsSend(pkts, b, type) /\ frozen' = thaw(FrozenAfter(b, type, frozen))
    BY <1>8
  <2>2. /\ backlog' = b /\ throttledAll' \in BOOLEAN /\ ThrottleMatchesBacklog'
        /\ override' \in [Channel -> BOOLEAN]
        /\ throttledAll' = (throttledAll \/ Chokes(b))
    BY <1>2, <1>3, <2>1, PktsSendFacts
  <2>3. \A c \in Channel :
          /\ override'[c] <=> (override[c] \/ (Chokes(b) /\ type[c] = "open"))
          /\ FrozenAfter(b, type, frozen)[c] <=> (frozen[c] \/ (Chokes(b) /\ type[c] = "open"))
    BY <1>2, <2>1 DEF PktsSend, OverrideAfter, FrozenAfter, TypeOK
  <2>4. \A c \in Channel :
          frozen'[c] = IF type[c] = "open" /\ left[c] = 0 THEN override'[c]
                       ELSE FrozenAfter(b, type, frozen)[c]
    BY <2>1
  <2>5. TypeOK'
    <3>1. FrozenAfter(b, type, frozen) \in [Channel -> BOOLEAN]
      BY <1>2 DEF FrozenAfter, TypeOK
    <3>2. frozen' \in [Channel -> BOOLEAN]
      BY <2>1, <2>2, <3>1
    <3> QED
      BY <1>2, <1>6, <2>2, <3>2 DEF TypeOK
  <2>6. Chokes(b) \in BOOLEAN
    BY DEF Chokes
  <2>7. ChannelsInv'
    BY <1>7, <2>2, <2>3, <2>4, <2>6 DEF ChannelsInv
  <2> QED
    BY <2>2, <2>5, <2>7 DEF IInv
<1>9. CASE NothingSent /\ frozen' = thaw(frozen)
  <2>1. TypeOK' /\ ThrottleMatchesBacklog'
    <3>1. frozen' \in [Channel -> BOOLEAN]
      BY <1>2, <1>9 DEF TypeOK, NothingSent
    <3> QED
      BY <1>2, <1>6, <1>9, <3>1 DEF TypeOK, NothingSent, ThrottleMatchesBacklog
  <2>2. \A c \in Channel :
          frozen'[c] = IF type[c] = "open" /\ left[c] = 0 THEN override'[c] ELSE frozen[c]
    BY <1>9
  <2>3. override' = override /\ throttledAll' = throttledAll
    BY <1>9 DEF NothingSent
  <2>4. ChannelsInv'
    <3> SUFFICES ASSUME NEW c \in Channel
                 PROVE  ChanInv(type[c], throttled[c], override[c], frozen[c], outbuffer[c],
                                remwindow[c], throttledAll)'
      BY DEF ChannelsInv
    <3> DEFINE choked == FALSE
    <3>1. choked \in BOOLEAN
      OBVIOUS
    <3>2. /\ override'[c] <=> (override[c] \/ (choked /\ type[c] = "open"))
          /\ throttledAll' <=> (throttledAll \/ choked)
      BY <2>3
    <3>3. frozen'[c] <=> (IF type[c] = "open" /\ left[c] = 0 THEN override'[c]
                          ELSE frozen[c] \/ (choked /\ type[c] = "open"))
      BY <2>2
    <3> HIDE DEF choked
    <3> QED
      BY <1>7, <3>1, <3>2, <3>3
  <2> QED
    BY <2>1, <2>4 DEF IInv
<1> QED
  BY <1>1, <1>8, <1>9

\* WINDOW_ADJUST runs the loop with one grown window.
LEMMA WindowAdjustInv ==
  ASSUME IInv, NEW c \in Channel, NEW n \in 1 .. MaxWindow, WindowAdjust(c, n) PROVE IInv'
<1>1. PICK window : window = [remwindow EXCEPT ![c] = @ + n]
  OBVIOUS
<1>2. /\ type[c] = "open" /\ remwindow[c] + n <= MaxWindow
      /\ TrySendAll(window, 0) /\ type' = type /\ held' = held
  BY <1>1 DEF WindowAdjust
<1>3. remwindow \in [Channel -> 0 .. MaxWindow]
  BY DEF IInv, TypeOK
<1>4. remwindow[c] + n \in 0 .. MaxWindow
  <2>1. remwindow[c] \in Nat
    BY <1>3, ConstAssumption
  <2> QED
    BY <1>2, <2>1, ConstAssumption
<1>5. /\ window \in [Channel -> 0 .. MaxWindow]
      /\ \A d \in Channel : type[d] # "open" => window[d] = remwindow[d]
  BY <1>1, <1>2, <1>3, <1>4
<1> QED
  BY <1>2, <1>5, TrySendAllInv

\* Terminal input runs the loop with the windows as they are.
LEMMA MainSessionInputInv == ASSUME IInv, MainSessionInput PROVE IInv'
<1>1. PICK window : window = remwindow
  OBVIOUS
<1>2. TrySendAll(window, 1) /\ type' = type /\ held' = held
  BY <1>1 DEF MainSessionInput
<1>3. window \in [Channel -> 0 .. MaxWindow]
  BY <1>1 DEF IInv, TypeOK
<1> QED
  BY <1>1, <1>2, <1>3, TrySendAllInv

-----------------------------------------------------------------------------
\* One step of any action preserves the invariant.
LEMMA StepInv == IInv /\ [Next]_vars => IInv'
<1> SUFFICES ASSUME IInv, [Next]_vars PROVE IInv'
  OBVIOUS
<1>1. ASSUME NEW c \in Channel, Accept(c) PROVE IInv'
  BY <1>1, AcceptInv
<1>2. ASSUME NEW c \in Channel, AcceptDynamic(c) PROVE IInv'
  BY <1>2, AcceptDynamicInv
<1>3. ASSUME NEW c \in Channel, Release(c) PROVE IInv'
  BY <1>3, ReleaseInv
<1>4. ASSUME NEW c \in Channel, NEW n \in 0 .. MaxRead, SocksConnect(c, n) PROVE IInv'
  BY <1>4, SocksConnectInv
<1>5. ASSUME NEW c \in Channel, NEW n \in 0 .. MaxRead, LocalClose(c, n) PROVE IInv'
  BY <1>5, LocalCloseInv
<1>6. ASSUME NEW c \in Channel, NEW win \in 0 .. MaxWindow, Confirm(c, win) PROVE IInv'
  BY <1>6, ConfirmInv
<1>7. ASSUME NEW c \in Channel, NEW win \in 0 .. MaxWindow, RemoteOpen(c, win) PROVE IInv'
  BY <1>7, RemoteOpenInv
<1>8. ASSUME NEW c \in Channel, NEW n \in 1 .. MaxRead, LocalData(c, n) PROVE IInv'
  BY <1>8, LocalDataInv
<1>9. ASSUME NEW c \in Channel, NEW n \in 1 .. MaxWindow, WindowAdjust(c, n) PROVE IInv'
  BY <1>9, WindowAdjustInv
<1>10. ASSUME NEW n \in 1 .. backlog, SshWritable(n) PROVE IInv'
  BY <1>10, SshWritableInv
<1>11. CASE MainSessionInput
  BY <1>11, MainSessionInputInv
<1>12. CASE UNCHANGED vars
  BY <1>12 DEF vars, IInv, TypeOK, ThrottleMatchesBacklog, ChannelsInv, ChanInv
<1> QED
  BY <1>1, <1>2, <1>3, <1>4, <1>5, <1>6, <1>7, <1>8, <1>9, <1>10, <1>11, <1>12 DEF Next

\* The inductive invariant: every handler leaves every channel in one of the
\* combinations ChanInv allows.
THEOREM Ssh2ThrottleIInv == Spec => []IInv
  BY InitInv, StepInv, PTL DEF Spec

\* Every variable of the module keeps its type, whatever the number of
\* channels and the sizes of buffers, packets and windows.
THEOREM Ssh2ThrottleTypeOK == Spec => []TypeOK
<1>1. IInv => TypeOK
  BY DEF IInv
<1> QED
  BY <1>1, Ssh2ThrottleIInv, PTL

\* throttled_all is set above SSH_MAX_BACKLOG and cleared below it.
THEOREM Ssh2ThrottleMatchesBacklog == Spec => []ThrottleMatchesBacklog
<1>1. IInv => ThrottleMatchesBacklog
  BY DEF IInv
<1> QED
  BY <1>1, Ssh2ThrottleIInv, PTL

\* The freezing of pfd_receive and x11_receive and that of ssh_throttle_all
\* never leave a socket frozen that nobody is bound to thaw.
THEOREM Ssh2FrozenForAReason == Spec => []FrozenForAReason
<1>1. IInv => FrozenForAReason
  <2>1. ASSUME IInv, NEW c \in Channel, Open(c), frozen[c]
        PROVE  \/ throttled[c] /\ outbuffer[c] > 0 /\ remwindow[c] = 0
               \/ override[c] /\ throttledAll
    <3>1. /\ ChanInv(type[c], throttled[c], override[c], frozen[c],
                     outbuffer[c], remwindow[c], throttledAll)
          /\ outbuffer[c] \in Nat
      BY <2>1 DEF IInv, ChannelsInv, TypeOK
    <3> QED
      BY <2>1, <3>1 DEF ChanInv, Open
  <2> QED
    BY <2>1 DEF FrozenForAReason
<1> QED
  BY <1>1, Ssh2ThrottleIInv, PTL

\* After every handler, each open channel has an empty buffer or no window:
\* the loops that send miss nobody.
THEOREM Ssh2NothingHeldBack == Spec => []NothingHeldBack
<1>1. IInv => NothingHeldBack
  BY DEF IInv, ChannelsInv, ChanInv, NothingHeldBack, Open
<1> QED
  BY <1>1, Ssh2ThrottleIInv, PTL

\* The data one channel can make PuTTY hold are bounded by two reads.
THEOREM Ssh2BufferBounded == Spec => []BufferBounded
<1>1. IInv => BufferBounded
  BY DEF IInv, ChannelsInv, ChanInv, BufferBounded, Open
<1> QED
  BY <1>1, Ssh2ThrottleIInv, PTL
-----------------------------------------------------------------------------
(* What is proved of the life of a channel holds of it here: the steps of Life *)
(* are those of the specification that Ssh2ChannelsProofs is about.            *)
Proved == INSTANCE Ssh2ChannelsProofs WITH type <- ctype, MaxQueue <- MaxMessages

\* Both begin in the same states.
LEMMA SameInit == MCInit => Proved!Init
  BY DEF MCInit, Life!Init, Proved!Init, Life!Chan, Proved!Chan, Life!To, Proved!To, Life!HalfOpen,
     Proved!HalfOpen, Life!Msg, Proved!Msg

\* Both take the same steps.
LEMMA SameNext == Life!Next <=> Proved!Next
  <1>1. Life!Id = Proved!Id
    BY DEF Life!Id, Proved!Id, Life!Cardinality, Proved!Cardinality
  <1>2. ASSUME NEW cs, NEW c PROVE Life!Rank(cs, c) = Proved!Rank(cs, c)
    BY DEF Life!Rank, Proved!Rank, Life!Cardinality, Proved!Cardinality
  <1>3. ASSUME NEW cs PROVE Life!Survivors(cs) = Proved!Survivors(cs)
    BY <1>2 DEF Life!Survivors, Proved!Survivors
  <1>4. ASSUME NEW passes PROVE Life!DoClose(passes) <=> Proved!DoClose(passes)
    BY <1>3 DEF Life!DoClose, Proved!DoClose, Life!server, Proved!server, Life!Chan, Proved!Chan
  <1>5. Life!Bombout <=> Proved!Bombout
    BY <1>4 DEF Life!Bombout, Proved!Bombout
  <1>6. Life!SshClosing <=> Proved!SshClosing
    BY <1>4 DEF Life!SshClosing, Proved!SshClosing, Life!server, Proved!server, Life!Chan,
       Proved!Chan
  <1>7. Life!MainInput <=> Proved!MainInput
    BY DEF Life!MainInput, Proved!MainInput, Life!server, Proved!server, Life!client, Proved!client,
       Life!local, Proved!local, Life!To, Proved!To, Life!HalfOpen, Proved!HalfOpen, Life!Msg,
       Proved!Msg, Life!Send, Proved!Send, Life!Room, Proved!Room
  <1>8. Life!Resize <=> Proved!Resize
    BY DEF Life!Resize, Proved!Resize, Life!server, Proved!server, Life!client, Proved!client,
       Life!local, Proved!local, Life!To, Proved!To, Life!HalfOpen, Proved!HalfOpen, Life!Msg,
       Proved!Msg, Life!Send, Proved!Send, Life!Room, Proved!Room
  <1>9. Life!RecvReply <=> Proved!RecvReply
    BY <1>5 DEF Life!RecvReply, Proved!RecvReply, Life!server, Proved!server, Life!Chan,
       Proved!Chan, Life!local, Proved!local, Life!To, Proved!To, Life!HalfOpen, Proved!HalfOpen,
       Life!Msg, Proved!Msg, Life!Send, Proved!Send
  <1>10. Life!RecvData <=> Proved!RecvData
    BY DEF Life!RecvData, Proved!RecvData, Life!server, Proved!server, Life!Found, Proved!Found,
       Life!Chan, Proved!Chan, Life!Receive, Proved!Receive
  <1>11. Life!RecvEof <=> Proved!RecvEof
    BY DEF Life!RecvEof, Proved!RecvEof, Life!server, Proved!server, Life!Found, Proved!Found,
       Life!FwdClose, Proved!FwdClose, Life!To, Proved!To, Life!HalfOpen, Proved!HalfOpen, Life!Msg,
       Proved!Msg, Life!Send, Proved!Send, Life!Receive, Proved!Receive
  <1>12. Life!RecvClose <=> Proved!RecvClose
    BY <1>4, <1>5 DEF Life!RecvClose, Proved!RecvClose, Life!server, Proved!server, Life!To,
       Proved!To, Life!HalfOpen, Proved!HalfOpen, Life!Msg, Proved!Msg, Life!Send, Proved!Send,
       Life!Chan, Proved!Chan, Life!Found, Proved!Found
  <1>13. Life!RecvConfirm <=> Proved!RecvConfirm
    BY DEF Life!RecvConfirm, Proved!RecvConfirm, Life!Crash, Proved!Crash, Life!server,
       Proved!server, Life!local, Proved!local, Life!Dangling, Proved!Dangling, Life!Found,
       Proved!Found, Life!To, Proved!To, Life!HalfOpen, Proved!HalfOpen, Life!Msg, Proved!Msg,
       Life!Send, Proved!Send, Life!Receive, Proved!Receive
  <1>14. Life!RecvFailure <=> Proved!RecvFailure
    BY DEF Life!RecvFailure, Proved!RecvFailure, Life!Crash, Proved!Crash, Life!server,
       Proved!server, Life!local, Proved!local, Life!Dangling, Proved!Dangling, Life!Found,
       Proved!Found, Life!Receive, Proved!Receive
  <1>15. Life!RecvOpen <=> Proved!RecvOpen
    BY <1>1 DEF Life!RecvOpen, Proved!RecvOpen, Life!server, Proved!server, Life!NewId,
       Proved!NewId, Life!Lowest, Proved!Lowest, Life!Msg, Proved!Msg, Life!Send, Proved!Send,
       Life!local, Proved!local, Life!To, Proved!To, Life!HalfOpen, Proved!HalfOpen, Life!Receive,
       Proved!Receive
  <1>16. Life!SrvRecv <=> Proved!SrvRecv
    BY DEF Life!SrvRecv, Proved!SrvRecv, Life!client, Proved!client, Life!local, Proved!local,
       Life!server, Proved!server, Life!SrvChannel, Proved!SrvChannel, Life!Chan, Proved!Chan
  <1>17. Life!SrvReply <=> Proved!SrvReply
    BY DEF Life!SrvReply, Proved!SrvReply, Life!client, Proved!client, Life!local, Proved!local,
       Life!To, Proved!To, Life!HalfOpen, Proved!HalfOpen, Life!Msg, Proved!Msg, Life!Tell,
       Proved!Tell
  <1>18. ASSUME NEW c PROVE Life!Accept(c) <=> Proved!Accept(c)
    BY <1>1 DEF Life!Accept, Proved!Accept, Life!Crash, Proved!Crash, Life!server, Proved!server,
       Life!local, Proved!local, Life!NewId, Proved!NewId, Life!Lowest, Proved!Lowest,
       Life!HalfOpen, Proved!HalfOpen, Life!Msg, Proved!Msg, Life!Send, Proved!Send
  <1>19. ASSUME NEW c PROVE Life!LocalClosing(c) <=> Proved!LocalClosing(c)
    BY DEF Life!LocalClosing, Proved!LocalClosing, Life!Crash, Proved!Crash, Life!server,
       Proved!server, Life!local, Proved!local, Life!FwdClose, Proved!FwdClose, Life!To, Proved!To,
       Life!HalfOpen, Proved!HalfOpen, Life!Msg, Proved!Msg, Life!Send, Proved!Send
  <1>20. ASSUME NEW c PROVE Life!LocalData(c) <=> Proved!LocalData(c)
    BY DEF Life!LocalData, Proved!LocalData, Life!server, Proved!server, Life!client, Proved!client,
       Life!local, Proved!local, Life!To, Proved!To, Life!HalfOpen, Proved!HalfOpen, Life!Msg,
       Proved!Msg, Life!Send, Proved!Send, Life!Room, Proved!Room
  <1>21. ASSUME NEW c PROVE Life!AgentReply(c) <=> Proved!AgentReply(c)
    BY DEF Life!AgentReply, Proved!AgentReply, Life!Crash, Proved!Crash, Life!server, Proved!server,
       Life!local, Proved!local, Life!To, Proved!To, Life!HalfOpen, Proved!HalfOpen, Life!Msg,
       Proved!Msg, Life!Send, Proved!Send, Life!Room, Proved!Room
  <1>22. ASSUME NEW c PROVE Life!SrvConfirm(c) <=> Proved!SrvConfirm(c)
    BY <1>1 DEF Life!SrvConfirm, Proved!SrvConfirm, Life!client, Proved!client, Life!local,
       Proved!local, Life!Taken, Proved!Taken, Life!Chan, Proved!Chan, Life!Lowest, Proved!Lowest,
       Life!Msg, Proved!Msg, Life!Tell, Proved!Tell
  <1>23. ASSUME NEW c PROVE Life!SrvRefuse(c) <=> Proved!SrvRefuse(c)
    BY DEF Life!SrvRefuse, Proved!SrvRefuse, Life!client, Proved!client, Life!local, Proved!local,
       Life!To, Proved!To, Life!HalfOpen, Proved!HalfOpen, Life!Msg, Proved!Msg, Life!Tell,
       Proved!Tell
  <1>24. ASSUME NEW c PROVE Life!SrvOpen(c) <=> Proved!SrvOpen(c)
    BY <1>1 DEF Life!SrvOpen, Proved!SrvOpen, Life!client, Proved!client, Life!local, Proved!local,
       Life!Taken, Proved!Taken, Life!Chan, Proved!Chan, Life!Lowest, Proved!Lowest, Life!HalfOpen,
       Proved!HalfOpen, Life!Msg, Proved!Msg, Life!Tell, Proved!Tell, Life!SrvRoom, Proved!SrvRoom
  <1>25. ASSUME NEW c PROVE Life!SrvSend(c) <=> Proved!SrvSend(c)
    BY DEF Life!SrvSend, Proved!SrvSend, Life!server, Proved!server, Life!client, Proved!client,
       Life!local, Proved!local, Life!To, Proved!To, Life!HalfOpen, Proved!HalfOpen, Life!Msg,
       Proved!Msg, Life!Tell, Proved!Tell, Life!SrvRoom, Proved!SrvRoom
  <1>26. ASSUME NEW c PROVE Life!SrvClose(c) <=> Proved!SrvClose(c)
    BY DEF Life!SrvClose, Proved!SrvClose, Life!client, Proved!client, Life!local, Proved!local,
       Life!To, Proved!To, Life!HalfOpen, Proved!HalfOpen, Life!Msg, Proved!Msg, Life!Tell,
       Proved!Tell
  <1>27. Life!ClientRecv <=> Proved!ClientRecv
    BY <1>9, <1>10, <1>11, <1>12, <1>13, <1>14, <1>15 DEF Life!ClientRecv, Proved!ClientRecv
  <1> QED BY <1>6, <1>7, <1>8, <1>16, <1>17, <1>18, <1>19, <1>20, <1>21, <1>22, <1>23, <1>24, <1>25,
             <1>26, <1>27 DEF Life!Next, Proved!Next, Life!Live, Proved!Live, Life!Chan, Proved!Chan

\* An open local socket and its channel point at each other, whatever runs beside them.
THEOREM SocketsMatch == SetupRequests = 0 /\ MCSpec => []SocketsMatchChannels
  <1>1. [MCNext]_allVars => [Proved!Next]_Proved!vars
    BY SameNext DEF MCNext, allVars, lifeVars, Proved!vars, Proved!client, Proved!local, Proved!server
  <1>2. Proved!IsFiniteSet(Conn)
    BY MCAssumption DEF IsFiniteSet, Proved!IsFiniteSet
  <1>3. SetupRequests = 0 /\ Proved!Init => Proved!IInv /\ Proved!Backed
    BY <1>2, MCAssumption, Proved!MatchInit
  <1>4. Proved!IInv /\ Proved!Backed /\ [Proved!Next]_Proved!vars => Proved!IInv' /\ Proved!Backed'
    BY <1>2, MCAssumption, Proved!MatchStep
  <1>5. Proved!IInv /\ Proved!Backed => SocketsMatchChannels
    <2>1. Proved!IInv /\ Proved!Backed => Proved!SocketsMatchChannels
      BY <1>2, MCAssumption, Proved!MatchHolds
    <2> QED BY <2>1 DEF SocketsMatchChannels, Life!SocketsMatchChannels, Proved!SocketsMatchChannels
  <1> QED BY SameInit, <1>1, <1>3, <1>4, <1>5, PTL DEF MCSpec
=============================================================================
