--------------------------- MODULE Ssh2Transport ---------------------------
(***************************************************************************)
(* The SSH-2 transport layer (do_ssh2_transport): the first key exchange,  *)
(* the exchanges the server asks for later, and the change of keys in both *)
(* directions.  A packet carries the number of the exchange its sender's   *)
(* key came from; who reads it with another key sees garbage (a bad MAC).  *)
(*                                                                         *)
(* The layers above (forwarded sockets, the keepalive timer) go on sending *)
(* while keys are exchanged: only what goes through ssh2_protocol waits.   *)
(***************************************************************************)
EXTENDS Integers, Sequences

CONSTANTS
    Preference,  \* the configured cipher list, "warn" marks the line
    Offers,      \* what a server may support: [cs, sc: sets of ciphers, gex: BOOLEAN]
    MaxExchange, \* bound of the model: key exchanges
    MaxSent      \* bound of the model: packets in flight each way

VARIABLES
    kpc,         \* where do_ssh2_transport waits
    kstate,      \* "open", "closed"
    exch,        \* number of the exchange begun last
    firstKex,
    csKey, scKey,\* exchange whose keys encrypt what we send, decrypt what we read
    session,     \* exchange that gave v2_session_id
    peer,        \* what the server's KEXINIT offered
    tobe,        \* ciphers chosen, client to server and back
    asked,       \* directions for which the user had to consent
    toSrv, toCli,\* packets in flight
    srvpc, srvIn, srvOut, srvSession, \* the server: state, keys, session id
    garbled      \* packets that one end could not read (history)

clientVars == <<kpc, kstate, exch, firstKex, csKey, scKey, session, peer, tobe, asked>>
serverVars == <<srvpc, srvIn, srvOut, srvSession>>
vars == <<clientVars, serverVars, toSrv, toCli, garbled>>

NoChoice == [cs |-> "unset", sc |-> "unset"]

Init ==
    /\ kpc = "start" /\ kstate = "open" /\ exch = 0 /\ firstKex = TRUE
    /\ csKey = 0 /\ scKey = 0 /\ session = 0 /\ peer \in Offers
    /\ tobe = NoChoice /\ asked = {}
    /\ toSrv = <<>> /\ toCli = <<>> /\ garbled = {}
    /\ srvpc = "start" /\ srvIn = 0 /\ srvOut = 0 /\ srvSession = 0

-----------------------------------------------------------------------------
(* Choice of algorithms.                                                   *)

\* Where the first cipher of our list that the other side has stands in it; 0: nowhere.
FirstCommon(offer) ==
    LET best == {i \in DOMAIN Preference : /\ Preference[i] \in offer
                                           /\ \A j \in 1..(i - 1) : Preference[j] \notin offer}
    IN IF best = {} THEN 0 ELSE CHOOSE i \in best : TRUE

\* Directions whose cipher stands below the warning line.
Warned(cs, sc) ==
    {d \in {"cs", "sc"} : \E i \in 1..(IF d = "cs" THEN cs ELSE sc) : Preference[i] = "warn"}

-----------------------------------------------------------------------------
(* Client.  ssh->exhash starts anew with each exchange: its number stands  *)
(* for the keys, and for the session id if it is the first.                *)

Sealed(type) == [type |-> type, key |-> csKey, gap |-> kpc = "newkeys"]
Put(types) == toSrv' = toSrv \o [i \in DOMAIN types |-> Sealed(types[i])]
KexInit == IF peer.gex THEN "gexrequest" ELSE "kexdhinit"
Close == kstate' = "closed"

\* The first call, with typed input: KEXINIT goes out and the answer is waited for.
TypedFirst ==
    /\ kstate = "open" /\ kpc = "start"
    /\ kpc' = "kexinit" /\ exch' = exch + 1 /\ Put(<<"kexinit">>)
    /\ UNCHANGED <<kstate, firstKex, csKey, scKey, session, peer, tobe, asked, toCli, serverVars, garbled>>

\* The server's KEXINIT, which may also be what makes us send ours.
OnKexInit(p) ==
    LET begin == kpc \in {"start", "run"}
        cs == FirstCommon(peer.cs)
        sc == FirstCommon(peer.sc)
        common == cs > 0 /\ sc > 0
    IN
    /\ kpc \in {"start", "run", "kexinit"} /\ p.type = "kexinit"
    /\ exch' = IF begin THEN exch + 1 ELSE exch
    /\ Put((IF begin THEN <<"kexinit">> ELSE <<>>) \o (IF common THEN <<KexInit>> ELSE <<>>))
    /\ IF common
         THEN /\ tobe' = [cs |-> Preference[cs], sc |-> Preference[sc]]
              /\ asked' = Warned(cs, sc)
              /\ \/ kpc' = (IF peer.gex THEN "group" ELSE "reply") /\ UNCHANGED kstate
                 \/ asked' # {} /\ Close /\ UNCHANGED kpc  \* the user declines
         ELSE Close /\ tobe' = NoChoice /\ asked' = {} /\ UNCHANGED kpc
    /\ UNCHANGED <<firstKex, csKey, scKey, session, peer>>

OnGroup(p) ==
    /\ kpc = "group" /\ p.type = "group"
    /\ Put(<<"gexinit">>) /\ kpc' = "reply"
    /\ UNCHANGED <<kstate, exch, firstKex, csKey, scKey, session, peer, tobe, asked>>

\* The host key has signed the exchange hash, and the user accepts it or not.
OnReply(p) ==
    /\ kpc = "reply" /\ p.type = "reply"
    /\ \/ Put(<<"newkeys">>) /\ kpc' = "newkeys" /\ UNCHANGED kstate
       \/ Close /\ UNCHANGED <<kpc, toSrv>>
    /\ UNCHANGED <<exch, firstKex, csKey, scKey, session, peer, tobe, asked>>

\* v2_session_id comes from the first exchange and from no other.
SessionId(first, old) == IF first THEN exch ELSE old

\* Mutant: the keys of the other direction wait for the next exchange.
NewKeysOut == csKey' = exch /\ UNCHANGED scKey
\* Both directions change keys when the server's NEWKEYS is here.
NewKeys == scKey' = exch /\ csKey' = exch

OnNewKeys(p) ==
    /\ kpc = "newkeys" /\ p.type = "newkeys"
    /\ NewKeys /\ session' = SessionId(firstKex, session)
    /\ firstKex' = FALSE /\ kpc' = "run"
    /\ UNCHANGED <<kstate, exch, peer, tobe, asked, toSrv>>

\* Anything else: passed up while no exchange is under way, else a protocol error.
OnOther(p) ==
    /\ IF p.type = "unknown" THEN Put(<<"unimplemented">>) ELSE UNCHANGED toSrv
    /\ IF kpc = "run" THEN UNCHANGED kstate ELSE Close
    /\ UNCHANGED <<kpc, exch, firstKex, csKey, scKey, session, peer, tobe, asked>>

Expected(p) ==
    \/ kpc \in {"start", "run", "kexinit"} /\ p.type = "kexinit"
    \/ kpc = p.type /\ p.type \in {"group", "reply", "newkeys"}

\* ssh2_rdpkt and ssh2_protocol: DISCONNECT, IGNORE and DEBUG end there.
Receive ==
    /\ kstate = "open" /\ toCli # <<>>
    /\ toCli' = Tail(toCli)
    /\ LET p == Head(toCli) IN
       IF p.key # scKey
         THEN /\ Close /\ garbled' = garbled \union {[by |-> "client", gap |-> FALSE]}
              /\ UNCHANGED <<kpc, exch, firstKex, csKey, scKey, session, peer, tobe, asked, toSrv>>
         ELSE /\ UNCHANGED garbled
              /\ CASE p.type = "disconnect" ->
                        Close /\ UNCHANGED <<kpc, exch, firstKex, csKey, scKey, session, peer, tobe, asked, toSrv>>
                   [] p.type = "ignore" -> UNCHANGED <<clientVars, toSrv>>
                   [] Expected(p) -> OnKexInit(p) \/ OnGroup(p) \/ OnReply(p) \/ OnNewKeys(p)
                   [] OTHER -> OnOther(p)
    /\ UNCHANGED serverVars

\* A keepalive (ssh_special), or data of a forwarded socket (sshfwd_write): neither asks
\* do_ssh2_transport.
SendAnyway ==
    /\ kstate = "open" /\ kpc # "start" /\ Len(toSrv) < MaxSent
    /\ \/ Put(<<"ignore">>)
       \/ ~firstKex /\ Put(<<"data">>)
    /\ UNCHANGED <<clientVars, serverVars, toCli, garbled>>

-----------------------------------------------------------------------------
(* A server that follows the protocol.                                     *)

Reply(types) == toCli' = toCli \o [i \in DOMAIN types |-> [type |-> types[i], key |-> srvOut]]
NothingCommon == FirstCommon(peer.cs) = 0 \/ FirstCommon(peer.sc) = 0

SrvBegin ==
    /\ kstate = "open" /\ srvpc \in {"start", "run"} /\ Len(toCli) < MaxSent /\ exch < MaxExchange
    /\ srvpc' = "kexinit" /\ Reply(<<"kexinit">>)
    /\ UNCHANGED <<clientVars, srvIn, srvOut, srvSession, toSrv, garbled>>

SrvRead(p) ==
    CASE p.type = "kexinit" /\ NothingCommon ->
            srvpc' = "gone" /\ Reply(<<"disconnect">>) /\ UNCHANGED <<srvIn, srvOut, srvSession>>
      [] p.type = "kexinit" /\ ~NothingCommon ->
            srvpc' = "init" /\ UNCHANGED <<toCli, srvIn, srvOut, srvSession>>
      [] p.type = "gexrequest" -> Reply(<<"group">>) /\ UNCHANGED serverVars
      [] p.type \in {"kexdhinit", "gexinit"} ->
            /\ Reply(<<"reply", "newkeys">>) /\ srvOut' = exch /\ srvpc' = "newkeys"
            /\ srvSession' = (IF srvSession = 0 THEN exch ELSE srvSession) /\ UNCHANGED srvIn
      [] p.type = "newkeys" -> srvIn' = exch /\ srvpc' = "run" /\ UNCHANGED <<toCli, srvOut, srvSession>>
      [] OTHER -> UNCHANGED <<toCli, serverVars>>

SrvReceive ==
    /\ kstate = "open" /\ srvpc \notin {"start", "gone"} /\ toSrv # <<>> /\ toSrv' = Tail(toSrv)
    /\ LET p == Head(toSrv) IN
       IF p.key # srvIn
         THEN /\ garbled' = garbled \union {[by |-> "server", gap |-> p.gap]}
              /\ srvpc' = "gone" /\ Reply(<<"disconnect">>) /\ UNCHANGED <<srvIn, srvOut, srvSession>>
         ELSE SrvRead(p) /\ UNCHANGED garbled
    /\ UNCHANGED clientVars

\* Data and unknown messages once a session runs, ignored ones at any time.
SrvSend ==
    /\ kstate = "open" /\ srvpc \notin {"start", "gone"} /\ Len(toCli) < MaxSent /\ Len(toSrv) < MaxSent
    /\ \/ Reply(<<"ignore">>)
       \/ (srvpc = "run" \/ (srvpc = "newkeys" /\ srvIn # 0)) /\ \E t \in {"data", "unknown"} : Reply(<<t>>)
    /\ UNCHANGED <<clientVars, serverVars, toSrv, garbled>>

Next == TypedFirst \/ Receive \/ SendAnyway \/ SrvBegin \/ SrvReceive \/ SrvSend

\* The network delivers, and both ends read what has arrived.
Fairness == WF_vars(Receive) /\ WF_vars(SrvReceive) /\ WF_vars(kpc = "kexinit" /\ SrvBegin)

-----------------------------------------------------------------------------
Ciphers == {Preference[i] : i \in DOMAIN Preference} \ {"warn"}

\* Every variable stays in its range.
TypeOK ==
    /\ kpc \in {"start", "kexinit", "group", "reply", "newkeys", "run"} /\ kstate \in {"open", "closed"}
    /\ exch \in 0..MaxExchange /\ firstKex \in BOOLEAN /\ {csKey, scKey, session} \subseteq 0..exch
    /\ peer \in Offers /\ {tobe.cs, tobe.sc} \subseteq Ciphers \union {"unset"} /\ asked \subseteq {"cs", "sc"}

\* Whatever the order of the two NEWKEYS and of the data around them, the client can read
\* every packet a conforming server sends.
ClientReads == \A g \in garbled : g.by = "server"

\* What the server cannot read is only what was sent between our NEWKEYS and the server's:
\* the old key goes on encrypting until both directions change together (ssh.c:4323).
GarbledOnlyInGap == \A g \in garbled : g.gap

\* While nothing is in flight and both ends are out of the exchange they use the same keys,
\* and the session id of the first exchange.
KeysAgree ==
    kpc = "run" /\ srvpc = "run" /\ toSrv = <<>> /\ toCli = <<>> =>
        /\ csKey = srvIn /\ scKey = srvOut /\ csKey = scKey
        /\ session = srvSession /\ session = 1

\* A cipher in use is the best one both sides have, and the user was asked exactly for
\* those that stand below the warning line.
NegotiatedBest ==
    kpc \in {"group", "reply", "newkeys", "run"} =>
        \A d \in {"cs", "sc"} :
            /\ tobe[d] \in peer[d]
            /\ LET pos == CHOOSE i \in DOMAIN Preference : Preference[i] = tobe[d]
                   line == CHOOSE i \in DOMAIN Preference : Preference[i] = "warn"
               IN /\ \A i \in 1..(pos - 1) : Preference[i] \notin peer[d]
                  /\ pos > line <=> d \in asked

\* An exchange under way ends in a running transport or in a closed connection.
ExchangeEnds == kpc \in {"kexinit", "group", "reply", "newkeys"} ~> (kpc = "run" \/ kstate = "closed")
=============================================================================
