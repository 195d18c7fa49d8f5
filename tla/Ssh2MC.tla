------------------------------- MODULE Ssh2MC -------------------------------
(* The layers of an SSH-2 connection - transport, authentication, set-up,    *)
(* the window of a channel - checked side by side: live names the one a      *)
(* behaviour is about, and the others stay at their beginning.               *)
EXTENDS Ssh2Window, Sequences

CONSTANTS MaxExchange, MaxSent, AgentKeys, MaxPrompts, Banners, MaxForward, MaxWindow, MaxAccept,
          Preference, Offers, MethodSets, Configs, Wanted

ASSUME MCAssumption ==
    /\ MaxExchange \in Nat \ {0} /\ MaxSent \in Nat /\ AgentKeys \in Nat /\ MaxPrompts \in Nat
    /\ Banners \in Nat /\ MaxForward \in Nat \ {0} /\ MaxWindow \in Nat /\ MaxAccept \in Nat
    \* gprefs (settings.c) weeds duplicates from a list of preference and adds what it lacks.
    /\ Preference \in Seq(STRING) /\ \E i \in DOMAIN Preference : Preference[i] = "warn"
    /\ \A i, j \in DOMAIN Preference : Preference[i] = Preference[j] => i = j
    /\ \A o \in Offers : "warn" \notin o.cs /\ "warn" \notin o.sc /\ o.gex \in BOOLEAN

VARIABLES live,
    kpc, kstate, exch, firstKex, csKey, scKey, session, peer, tobe, asked,
    toSrv, toCli, srvpc, srvIn, srvOut, srvSession, garbled,
    apc, s, pktin, pktout, acfg, toAuth, asks, granted, bannered, sentBack, damaged,
    step, ssh2state, wanted, fallback, second, forwards, listens, on, remwin, toSetup, reqs,
    allowed, credit, opened, term, pty, resized, eof

\* What the run checks: the default list, servers with and without a common cipher, two lists of
\* methods, every configuration that can get anywhere, and much and little to be set up.
DefaultList == <<"aes", "3des", "warn", "des">>
SomeOffers == [cs: {{"aes"}, {"des"}, {"none"}}, sc: {{"aes"}, {"des", "3des"}}, gex: BOOLEAN]
SomeMethods == {{"publickey", "keyboard-interactive"}, {"password"}}
SomeConfigs ==
    {[agent |-> a, key |-> k, encrypted |-> TRUE, change |-> c, named |-> FALSE] :
        a \in BOOLEAN, k \in {"none", "agent_too"}, c \in BOOLEAN}
      \ {[agent |-> FALSE, key |-> "none", encrypted |-> TRUE, change |-> FALSE, named |-> FALSE]}
SomeWanted == {{"x11", "remote", "agent", "pty", "local"}, {"pty"}}

Transport == INSTANCE Ssh2Transport
Auth == INSTANCE Ssh2Auth
Setup == INSTANCE Ssh2Setup

ASSUME AuthAssumption == Configs \subseteq Auth!Config /\ MethodSets \subseteq SUBSET Auth!Methods

transportVars == <<kpc, kstate, exch, firstKex, csKey, scKey, session, peer, tobe, asked,
                   toSrv, toCli, srvpc, srvIn, srvOut, srvSession, garbled>>
authVars == <<apc, s, pktin, pktout, acfg, toAuth, asks, granted, bannered, sentBack, damaged>>
setupVars == <<step, ssh2state, wanted, fallback, second, forwards, listens, on, remwin, toSetup, reqs,
               allowed, credit, opened, term, pty, resized, eof>>
allVars == <<live, vars, transportVars, authVars, setupVars>>

MCInit == /\ Init /\ Transport!Init /\ Auth!Init /\ Setup!Init
          /\ live \in {"window", "transport", "auth", "setup"}
          \* What a component that is not live starts from does not matter.
          /\ live # "transport" => peer = CHOOSE o \in Offers : TRUE
          /\ live # "auth" => acfg = (CHOOSE c \in Configs : TRUE) /\ ~s.needPw
          /\ live # "setup" => wanted = (CHOOSE w \in Wanted : TRUE) /\ ~fallback /\ on = {}
MCNext ==
    \/ live = "window" /\ Next /\ UNCHANGED <<live, transportVars, authVars, setupVars>>
    \/ live = "transport" /\ Transport!Next /\ UNCHANGED <<live, vars, authVars, setupVars>>
    \/ live = "auth" /\ Auth!Next /\ UNCHANGED <<live, vars, transportVars, setupVars>>
    \/ live = "setup" /\ Setup!Next /\ UNCHANGED <<live, vars, transportVars, authVars>>
MCSpec == MCInit /\ [][MCNext]_allVars /\ Fairness /\ Transport!Fairness /\ Auth!Fairness /\ Setup!Fairness

\* Every variable stays in its range.
LayersTypeOK == Transport!TypeOK /\ Auth!TypeOK /\ Setup!TypeOK

\* The client can read all that a conforming server sends, the server loses only what is sent
\* between the two NEWKEYS, outside an exchange both ends have the same keys and session id, and
\* the ciphers are the best common ones, with consent below the warning line (Ssh2Transport).
ExchangeSound ==
    /\ Transport!ClientReads /\ Transport!GarbledOnlyInGap
    /\ Transport!KeysAgree /\ Transport!NegotiatedBest

\* The connection layer starts only when access was granted; a refusal is taken for the answer
\* to the request it answers; the user is asked in vain only when all methods were tried
\* (InWhenGranted, BackForPassword and IdlePromptIsLast of Ssh2Auth).
AccessEarned == Auth!InWhenGranted /\ Auth!BackForPassword /\ Auth!IdlePromptIsLast

\* Every request gets one answer and every prompt gives one: the client never waits for a packet
\* the server does not owe it (AnsweredOnce and AnswerOwed of Ssh2Auth).
AnswersMatch == Auth!AnsweredOnce /\ Auth!AnswerOwed

\* Whatever else comes between the set-up requests, the set-up gives up only for a reason, and
\* window adjustments, the size, the end of the input and what was granted are kept (Ssh2Setup).
SetupSound ==
    /\ Setup!GivesUpForAReason /\ Setup!CreditKept /\ Setup!OnWhenGranted
    /\ Setup!SizeReaches /\ Setup!EofReaches

\* The layers above the window keep all of this.
LayersSound == ExchangeSound /\ AccessEarned /\ AnswersMatch /\ SetupSound

\* An exchange of keys ends, authentication comes to an answer, and so does the set-up.
LayersProceed == Transport!ExchangeEnds /\ Auth!AuthProceeds /\ Setup!SetupEnds
=============================================================================
