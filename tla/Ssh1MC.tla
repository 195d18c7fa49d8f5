------------------------------- MODULE Ssh1MC -------------------------------
(* The two halves of an SSH-1 connection, checked side by side: live names   *)
(* the one a behaviour is about, and the other stays at its beginning.       *)
EXTENDS Integers, Sequences, FiniteSets

CONSTANTS Conn, None, Options, Limit, MaxUnits, MaxQueue, AgentKeys, PwLens, MaxPrompts, Class,
          CipherLists

ASSUME ConstAssumption ==
    /\ None \notin Conn /\ IsFiniteSet(Conn) /\ Limit \in Nat /\ MaxUnits \in Nat /\ MaxQueue \in Nat
    /\ AgentKeys \in Nat /\ MaxPrompts \in Nat /\ PwLens \subseteq Nat /\ Class \in Nat \ {0} /\ Class % 2 = 0
    \* gprefs (settings.c) weeds duplicates from a list of preference.
    /\ \A list \in CipherLists : /\ list \in Seq({"3des", "warn", "aes", "des", "blowfish"})
                                /\ \A i, j \in DOMAIN list : list[i] = list[j] => i = j

VARIABLES live,
    phase, state, why, enabled, chan, count, leaked, inHand, toClient, toServer, srv,
    termSize, ptySize, sizeNeeded,
    pc, pktin, cfg, cipher, warned, tried, pwpkt, keyi, prompts, batches, granted

\* The default preference, and one with more below the warning line.
Preferences == {<<"aes", "blowfish", "3des", "warn", "des">>, <<"3des", "warn", "aes", "des", "blowfish">>}

Session == INSTANCE Ssh1Session
Login == INSTANCE Ssh1Login
sessionVars == <<phase, state, why, enabled, chan, count, leaked, inHand, toClient, toServer,
                 srv, termSize, ptySize, sizeNeeded>>
loginVars == <<pc, pktin, cfg, cipher, warned, tried, pwpkt, keyi, prompts, batches, granted>>
vars == <<live, sessionVars, loginVars>>

Init == Session!Init /\ Login!Init /\ live \in {"login", "session"}
Next ==
    \/ live = "session" /\ Session!Next /\ UNCHANGED <<live, loginVars>>
    \/ live = "login" /\ Login!Next /\ UNCHANGED <<live, sessionVars>>
Spec == Init /\ [][Next]_vars /\ Session!Fairness /\ Login!Fairness

\* Every variable stays in its range.
TypeOK == Session!TypeOK /\ Login!TypeOK

\* However closes cross, neither end uses a channel the other has freed, and a resize is not
\* lost between the set-up requests; ssh1_throttle counts the channels that throttle, and the
\* shares lost (NoBadClose, ServerKnown, SizeKnown, ThrottleCounted of Ssh1Session).
EndsAgree ==
    /\ Session!NoBadClose /\ Session!ServerKnown /\ Session!SizeKnown
    /\ Session!ThrottleCounted
\* Success is only claimed when the server granted it, or after a stale challenge; the wire shows
\* the class of a password's length, not the length; no RSA for a server that chokes on it; no
\* cipher below the warning line without consent (the four of Ssh1Login).
LoginSound ==
    /\ Login!DoneGrantedOrStale
    /\ Login!LengthsHidden /\ Login!NoRsaForChoker /\ Login!WarnedBelowLine
\* The frozen connection is read again, a closed channel is freed, and the login comes to ask
\* the user or ends.
Proceeds == Session!Thaws /\ Session!ClosedIsFreed /\ Login!ComesToAsk

\* "Authentication successful" (ssh.c:3129) means that the server said so.
DoneGranted == Login!DoneGranted
=============================================================================
