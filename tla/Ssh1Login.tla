------------------------------ MODULE Ssh1Login ------------------------------
(***************************************************************************)
(* The SSH-1 login, do_ssh1_login: the server's public keys, the cipher,   *)
(* the user name, and then one method after another - the agent's keys,    *)
(* TIS, CryptoCard, the configured key, a password - while the last packet *)
(* from the server is SMSG_FAILURE.  The coroutine is at pc: waiting for a *)
(* packet, for the agent or for the user.  pktin keeps the type of the     *)
(* last packet, whatever has happened since.                               *)
(***************************************************************************)
EXTENDS Integers, Sequences, FiniteSets

CONSTANTS
    CipherLists,  \* the orders of preference a configuration may have
    AgentKeys,    \* number of keys the agent holds
    PwLens,       \* lengths of the passwords the user may type
    MaxPrompts,   \* bound of the model: how often the user is asked
    Class         \* passwords shorter than this are hidden among all shorter lengths (16)

VARIABLES
    pc,             \* where do_ssh1_login is
    pktin,          \* ssh->pktin.type
    cfg,            \* the configuration and what is known of the agent and the server
    cipher, warned, \* cipher_type; askcipher was shown
    tried,          \* tried_publickey, tried_agent, tis_auth_refused, ccard_auth_refused
    pwpkt,          \* pwpkt_type
    keyi,           \* the agent's key being tried
    prompts,        \* times the user was asked
    batches,        \* passwords sent: [len, wire] with the lengths seen on the wire (history)
    granted         \* the server regards the user as authenticated

vars == <<pc, pktin, cfg, cipher, warned, tried, pwpkt, keyi, prompts, batches, granted>>

Ciphers == {"3des", "blowfish", "des"}
KeyKinds == {"none", "wrong_type", "unreadable", "clear", "encrypted"}
Bugs == {{}, {"chokes_on_rsa"}, {"chokes_on_ignore"}, {"chokes_on_ignore", "needs_plain_password"}}
NoCfg == [list |-> <<>>, key |-> "none", auths |-> {}, bugs |-> {}, agent |-> FALSE]

Init ==
    /\ pc = "keys" /\ pktin = "none" /\ cfg = NoCfg /\ cipher = "none" /\ warned = FALSE
    /\ tried = {} /\ pwpkt = "none" /\ keyi = 0 /\ prompts = 0
    /\ batches = {} /\ granted = FALSE

-----------------------------------------------------------------------------

\* Where the first cipher of the list is that the server has (SSH-1 has no AES).
FirstOf(list, supported) ==
    {i \in DOMAIN list : list[i] \in supported /\ \A j \in 1 .. i - 1 : list[j] \notin supported}

\* SMSG_PUBLIC_KEY.  The host key is verified and a cipher from below the line
\* "warn below here" confirmed by the user (verify_ssh_host_key, askcipher: refusing ends the program).
OnPublicKey ==
    /\ pc = "keys"
    /\ \E list \in CipherLists, supported \in SUBSET Ciphers,
          key \in KeyKinds, auths \in SUBSET {"tis", "ccard"},
          agent \in BOOLEAN, bugs \in Bugs :
        /\ cfg' = [list |-> list, key |-> key, auths |-> auths, bugs |-> bugs, agent |-> agent]
        /\ \/ \E i \in FirstOf(list, supported) :
                /\ pc' = "encryption" /\ cipher' = list[i]
                /\ warned' = \E j \in 1 .. i - 1 : list[j] = "warn"
           \/ FirstOf(list, supported) = {} /\ pc' = "bombout" /\ UNCHANGED <<cipher, warned>>
           \/ pc' = "exit" /\ UNCHANGED <<cipher, warned>>
    /\ pktin' = "public_key"
    /\ UNCHANGED <<tried, pwpkt, keyi, prompts, batches, granted>>

\* The server has switched encryption on: the user name is configured or asked for.
OnEncryption ==
    /\ pc = "encryption" /\ pktin' = "success" /\ pc' \in {"username", "user"}
    /\ UNCHANGED <<cfg, cipher, warned, tried, pwpkt, keyi, prompts, batches, granted>>

TypeUsername ==
    /\ pc = "username" /\ pc' \in {"user", "exit"}
    /\ UNCHANGED <<pktin, cfg, cipher, warned, tried, pwpkt, keyi, prompts, batches, granted>>

-----------------------------------------------------------------------------
UseKeyfile(t) == cfg.key # "none" /\ "publickey" \notin t

\* The configured key, else a password.  t is what has been tried.
AskOrTry(t) ==
    CASE UseKeyfile(t) /\ cfg.key = "wrong_type" -> [pc |-> "loop", pwpkt |-> "rsa", tried |-> t \cup {"publickey"}]
      [] UseKeyfile(t) /\ cfg.key \in {"clear", "unreadable"} -> [pc |-> "load", pwpkt |-> "rsa", tried |-> t]
      [] UseKeyfile(t) /\ cfg.key = "encrypted" -> [pc |-> "prompt", pwpkt |-> "rsa", tried |-> t]
      [] OTHER -> [pc |-> "prompt", pwpkt |-> "password", tried |-> t]

\* The rest of the loop's body after the agent.
Methods(t) ==
    IF "tis" \in cfg.auths \ t THEN [pc |-> "tis", pwpkt |-> "tis", tried |-> t]
    ELSE IF "ccard" \in cfg.auths \ t THEN [pc |-> "ccard", pwpkt |-> "ccard", tried |-> t]
    ELSE AskOrTry(t)

\* Mutant: when every method has been tried the loop ends as if one had succeeded.
LoopExhausted(p, t) ==
    IF p # "failure" \/ {"agent", "publickey"} \subseteq t THEN [pc |-> "done", pwpkt |-> pwpkt, tried |-> t]
    ELSE IF cfg.agent /\ "agent" \notin t THEN [pc |-> "agent", pwpkt |-> "password", tried |-> t \cup {"agent"}]
    ELSE Methods(t)

\* The head of the loop with p as the last packet.
Loop(p, t) ==
    IF p # "failure" THEN [pc |-> "done", pwpkt |-> pwpkt, tried |-> t]
    ELSE IF cfg.agent /\ "agent" \notin t THEN [pc |-> "agent", pwpkt |-> "password", tried |-> t \cup {"agent"}]
    ELSE Methods(t)

\* A key of the wrong type leads straight round the loop.
Round(p, t) == LET once == Loop(p, t) IN IF once.pc = "loop" THEN Loop(p, once.tried) ELSE once

GoTo(next) ==
    /\ pc' = next.pc /\ pwpkt' = next.pwpkt /\ tried' = next.tried

Configured == <<cfg, cipher, warned>>

\* The answer of the server to CMSG_USER or to a request.  It counts the user
\* as authenticated exactly when it says so.
Answer(p) == pktin' = p /\ granted' = (p = "success")

PretendTried == IF "chokes_on_rsa" \in cfg.bugs THEN {"publickey", "agent"} ELSE {}

OnUser ==
    /\ pc = "user"
    /\ \E p \in {"success", "failure"} : Answer(p) /\ GoTo(Round(p, PretendTried))
    /\ UNCHANGED <<Configured, keyi, prompts, batches>>

\* The agent's list of keys arrives (or nothing does), then each key is
\* offered.  A packet from the server meanwhile is fatal; typing is ignored.
SendKey(i) == pc' = "agent_key" /\ keyi' = i /\ UNCHANGED <<pwpkt, tried>>
AfterAgent(p, t) == LET next == Methods(t) IN IF next.pc = "loop" THEN Round(p, next.tried) ELSE next
NextKey(p, t) ==
    IF keyi < AgentKeys THEN SendKey(keyi + 1)
    ELSE GoTo(AfterAgent(p, t)) /\ keyi' = 0

AgentList ==
    /\ pc = "agent"
    /\ \/ SendKey(1) /\ AgentKeys > 0
       \/ GoTo(AfterAgent(pktin, tried)) /\ keyi' = 0
    /\ UNCHANGED <<Configured, pktin, prompts, batches, granted>>

\* The agent's key may be the configured one, which is then not tried again.
OnAgentKey ==
    /\ pc = "agent_key"
    /\ \/ /\ Answer("challenge") /\ pc' = "agent_sign" /\ UNCHANGED <<pwpkt, keyi>>
          /\ tried' \in {tried, tried \cup {"publickey"}}
       \/ Answer("failure") /\ NextKey("failure", tried)
    /\ UNCHANGED <<Configured, prompts, batches>>

AgentSign ==
    /\ pc = "agent_sign"
    /\ \/ pc' = "agent_response" /\ UNCHANGED <<pwpkt, tried, keyi>>
       \/ NextKey(pktin, tried)
    /\ UNCHANGED <<Configured, pktin, prompts, batches, granted>>

OnAgentResponse ==
    /\ pc = "agent_response"
    /\ \/ Answer("success") /\ pc' = "done" /\ UNCHANGED <<pwpkt, tried, keyi>>
       \/ Answer("failure") /\ NextKey("failure", tried)
    /\ UNCHANGED <<Configured, prompts, batches>>

\* TIS and CryptoCard: a challenge becomes a prompt.  A TIS challenge is
\* followed by a request for CryptoCard if the server has that too.
OnChallenge ==
    /\ pc \in {"tis", "ccard"}
    /\ \/ /\ Answer("challenge") /\ UNCHANGED tried
          /\ LET both == pc = "tis" /\ "ccard" \in cfg.auths \ tried IN
             pc' = (IF both THEN "ccard" ELSE "prompt") /\ pwpkt' = (IF both THEN "ccard" ELSE pwpkt)
       \/ Answer("failure") /\ GoTo(Round("failure", tried \cup {pc}))
    /\ UNCHANGED <<Configured, keyi, prompts, batches>>

-----------------------------------------------------------------------------
Half == Class \div 2

\* Mutant: the random lengths begin above the length of the password.
CamouflageShort(len) ==
    IF len < Class THEN len .. Class - 1 ELSE (len \div Half) * Half .. (len \div Half) * Half + Half - 1

\* The lengths of the packets a password of this length is sent among.
Camouflage(len) ==
    IF len < Class THEN 0 .. Class - 1
    ELSE LET bottom == (len \div Half) * Half IN bottom .. bottom + Half - 1

Wire(len) ==
    IF "chokes_on_ignore" \notin cfg.bugs THEN Camouflage(len)
    ELSE IF "needs_plain_password" \notin cfg.bugs THEN {IF len < 4 * Class THEN 4 * Class ELSE len}
    ELSE {len}

\* The user answers the prompt, or ends the program with ^C or ^D.
Typed ==
    /\ pc = "prompt" /\ prompts < MaxPrompts /\ prompts' = prompts + 1
    /\ \/ pc' = "exit" /\ UNCHANGED batches
       \/ /\ pc' = (IF pwpkt = "rsa" THEN "load" ELSE "answer")
          /\ \E len \in PwLens :
               batches' = IF pwpkt = "password" THEN batches \cup {[len |-> len, wire |-> Wire(len)]} ELSE batches
    /\ UNCHANGED <<pktin, Configured, tried, pwpkt, keyi, granted>>

\* Mutant: a key that cannot be read does not count as tried.
TriedUnreadable == tried

TriedKeyfile == tried \cup {"publickey"}

\* tryauth: the key file is read.  If that fails, round again - with the last
\* packet as it is.
Load ==
    /\ pc = "load"
    /\ \/ cfg.key = "unreadable" /\ GoTo(Round(pktin, TriedKeyfile))
       \/ cfg.key = "encrypted" /\ GoTo(Round(pktin, tried \ {"publickey"}))
       \/ /\ cfg.key \in {"clear", "encrypted"}
          /\ pc' = "rsa" /\ tried' = TriedKeyfile /\ UNCHANGED pwpkt
    /\ UNCHANGED <<pktin, Configured, keyi, prompts, batches, granted>>

\* CMSG_AUTH_RSA for the configured key, and the answer to its challenge.
OnRsa ==
    /\ pc = "rsa"
    /\ \/ Answer("challenge") /\ pc' = "rsa_response" /\ UNCHANGED <<pwpkt, tried>>
       \/ Answer("failure") /\ GoTo(Round("failure", tried))
    /\ UNCHANGED <<Configured, keyi, prompts, batches>>

\* The verdict on an RSA response, a password or a TIS or CryptoCard response.
OnVerdict ==
    /\ pc \in {"rsa_response", "answer"}
    /\ \/ Answer("success") /\ pc' = "done" /\ UNCHANGED <<pwpkt, tried>>
       \/ Answer("failure") /\ GoTo(Round("failure", tried))
    /\ UNCHANGED <<Configured, keyi, prompts, batches>>

Protocol ==
    \/ OnEncryption \/ OnUser \/ AgentList \/ OnAgentKey \/ AgentSign
    \/ OnAgentResponse \/ OnChallenge \/ Load \/ OnRsa \/ OnVerdict
Next == OnPublicKey \/ TypeUsername \/ Typed \/ Protocol

\* A server that has begun answers, and so does the agent; the user need not.
Fairness == WF_vars(Protocol)
Spec == Init /\ [][Next]_vars /\ Fairness

-----------------------------------------------------------------------------
Asking == {"username", "prompt"}
Ended == {"done", "bombout", "exit"}
TypeOK ==
    /\ pc \in Asking \cup Ended \cup {"keys", "encryption", "user", "agent", "agent_key", "agent_sign",
              "agent_response", "tis", "ccard", "load", "rsa", "rsa_response", "answer"}
    /\ pktin \in {"none", "public_key", "success", "failure", "challenge"}
    /\ tried \subseteq {"publickey", "agent", "tis", "ccard"} /\ granted \in BOOLEAN
    /\ keyi \in 0..AgentKeys /\ prompts \in 0..MaxPrompts

\* "Authentication successful" means that the server said so.
DoneGranted == pc = "done" => granted

\* It does not if an agent does not answer a challenge: pktin is then not
\* FAILURE, and the first failure without a packet ends the loop.  Nothing
\* else gets past the server.
DoneGrantedOrStale == pc = "done" => granted \/ (pktin = "challenge" /\ "agent" \in tried)

\* A server known to choke on RSA authentication is never sent any.
NoRsaForChoker ==
    "chokes_on_rsa" \in cfg.bugs => pc \notin {"agent_key", "agent_sign", "agent_response", "rsa", "rsa_response"}

\* What goes over the wire says no more of a password than its class of
\* lengths: short, or within Class \div 2 of a multiple of that.
LengthsHidden ==
    LET class(len) == IF len < Class THEN 0 ELSE len \div Half IN
    \A a, b \in batches :
        (class(a.len) = class(b.len) /\ ~{"chokes_on_ignore", "needs_plain_password"} \subseteq cfg.bugs)
            => a.wire = b.wire \/ a.len >= 4 * Class

\* A cipher from below the warning line is not used unless the user agreed.
WarnedBelowLine ==
    pc = "encryption" /\ ~warned =>
        \A i, j \in DOMAIN cfg.list : cfg.list[i] = cipher /\ j < i => cfg.list[j] # "warn"

\* The login never goes round by itself for ever: it comes to ask the user or
\* ends, whatever the server refuses.
ComesToAsk == (pc \notin {"keys"} \cup Asking \cup Ended) ~> (pc \in Asking \cup Ended)
=============================================================================
