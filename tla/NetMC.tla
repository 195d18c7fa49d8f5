-------------------------------- MODULE NetMC --------------------------------
(* What carries a session - the numbers of its channels, a socket, a proxy, a  *)
(* Telnet connection - checked side by side: live names the one a behaviour    *)
(* is about, and the others stay at their beginning.                           *)
EXTENDS ChannelId

CONSTANTS MaxData, MaxWrites, Options, Backlog, MaxServer, MaxUser, Room, MaxIn, MaxOut

ASSUME MCAssumption ==
    \A n \in {MaxData, MaxWrites, Backlog, MaxServer, MaxUser, Room, MaxIn, MaxOut} : n \in Nat

VARIABLES live,
    how, pstate, link, subFrozen, pfreeze, pin, pout, poob, feed, wire, served, got, writes, sentData, fate,
    tn, peer, fromServer, peerSize, peerText, asks, text, acts, typed,
    sk, events, readOn, writeOn, inbox, ended, outbox, arrived, wrote, toPlug, toPeer, sentTo, outcome

Proxied == INSTANCE Proxy
TelnetEnds == INSTANCE Telnet
Tcp == INSTANCE Winnet

\* The server does not transmit in binary: it writes a NUL after every CR.
ASSUME TelnetAssumption == Options \subseteq TelnetEnds!OptionNames /\ "THEY_BIN" \notin Options

proxyVars == <<how, pstate, link, subFrozen, pfreeze, pin, pout, poob, feed, wire, served, got,
               writes, sentData, fate>>
telnetVars == <<tn, peer, fromServer, peerSize, peerText, asks, text, acts, typed>>
socketVars == <<sk, events, readOn, writeOn, inbox, ended, outbox, arrived, wrote, toPlug, toPeer,
                sentTo, outcome>>
allVars == <<live, vars, proxyVars, telnetVars, socketVars>>

MCInit ==
    /\ Init /\ Proxied!Init /\ TelnetEnds!Init /\ Tcp!Init
    /\ live \in {"numbers", "proxy", "telnet", "socket"}
    \* What a component that is not live starts from does not matter.
    /\ live # "proxy" => how = [method |-> "direct", creds |-> FALSE, addr |-> "ipv4", backend |-> "raw"]
    /\ live # "telnet" => ~tn.activated
    /\ live # "socket" => sk.connected /\ ~sk.frozen

MCNext ==
    \/ live = "numbers" /\ Next /\ UNCHANGED <<live, proxyVars, telnetVars, socketVars>>
    \/ live = "proxy" /\ Proxied!Next /\ UNCHANGED <<live, vars, telnetVars, socketVars>>
    \/ live = "telnet" /\ TelnetEnds!Next /\ UNCHANGED <<live, vars, proxyVars, socketVars>>
    \/ live = "socket" /\ Tcp!Next /\ UNCHANGED <<live, vars, proxyVars, telnetVars>>

MCSpec == /\ MCInit /\ [][MCNext]_allVars
          /\ WF_vars(Probe) /\ WF_vars(EndAlloc) /\ Proxied!Fairness /\ TelnetEnds!Fairness /\ Tcp!Fairness

\* Both ways of a connection are the sequence that was sent, through the negotiation of a proxy
\* and its backlogs, freezes and urgent data, and no event is lost (Proxy, Winnet).
ConnectionSound ==
    /\ Proxied!TypeOK /\ Proxied!DeliveredInOrder /\ Proxied!NothingTooSoon /\ Proxied!NamesGoToProxies
    /\ Tcp!TypeOK /\ Tcp!InOrder /\ Tcp!NoLostWakeup

\* The ends of a Telnet connection agree on the options when they rest, one kind of ENVIRON is
\* on, one end echoes, and the text is intact both ways (Telnet).
TelnetSound ==
    /\ TelnetEnds!TypeOK /\ TelnetEnds!EndsAgree /\ TelnetEnds!OneEnviron
    /\ TelnetEnds!EchoedOnce /\ TelnetEnds!TextIntact

\* The search for a number ends, what arrives is read and what waits is sent, at every level, and
\* two ends that negotiate come to rest (AllocReturns of ChannelId, Delivers of Proxy, Flows of
\* Winnet, ComesToRest of Telnet).
NetProceeds == AllocReturns /\ Proxied!Delivers /\ Tcp!Flows /\ TelnetEnds!ComesToRest
=============================================================================
