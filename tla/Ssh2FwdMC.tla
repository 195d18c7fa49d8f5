------------------------------ MODULE Ssh2FwdMC ------------------------------
(* Forwarded connections of SSH-2, checked side by side: how they are         *)
(* throttled, and how one lives and ends (Ssh2Channels, without a set-up      *)
(* phase).  live names the one a behaviour is about.                          *)
EXTENDS Ssh2Throttle

CONSTANTS Conn, Main, SetupRequests, AgentFwd, Resizes, MaxMessages

\* What Ssh2Channels assumes of them.
ASSUME MCAssumption ==
    /\ Main \notin Conn /\ IsFiniteSet(Conn)
    /\ SetupRequests \in Nat /\ MaxMessages \in Nat /\ MaxMessages > 0
    /\ AgentFwd \in BOOLEAN /\ Resizes \in BOOLEAN

VARIABLES live, state, awaited, channels, localid, remoteid, ctype, closes, s, plug, query, c2s, s2c,
          srv, srvOwes

Life == INSTANCE Ssh2Channels WITH type <- ctype, MaxQueue <- MaxMessages

lifeVars == <<state, awaited, channels, localid, remoteid, ctype, closes, s, plug, query, c2s, s2c,
              srv, srvOwes>>
allVars == <<live, vars, lifeVars>>

\* No fair action is enabled at the beginning of either: the one that is not live may stay there.
MCInit == Init /\ Life!Init /\ live \in {"throttle", "life"}
MCNext ==
    \/ live = "throttle" /\ Next /\ UNCHANGED <<live, lifeVars>>
    \/ live = "life" /\ Life!Next /\ UNCHANGED <<live, vars>>
MCSpec == MCInit /\ [][MCNext]_allVars /\ Fairness /\ Life!Fairness

\* An open local socket has its channel and the channel its socket (Ssh2Channels).
SocketsMatchChannels == Life!SocketsMatchChannels
\* A channel closed by either end is freed, and a close of the server is answered (Ssh2Channels).
ClosesEnd == Life!ClosesEnd
=============================================================================
