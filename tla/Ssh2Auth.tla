------------------------------ MODULE Ssh2Auth ------------------------------
(***************************************************************************)
(* SSH-2 user authentication (the first half of do_ssh2_authconn): a user  *)
(* name, "none" to learn the methods, then the keys of the agent, the key  *)
(* file, keyboard-interactive and passwords until one is accepted.  s is   *)
(* the coroutine's structure.  Between two packets the coroutine waits for *)
(* the server, for the user or for the agent's thread, and what it waits   *)
(* with - s, pktin and the half-built pktout - is shared with everything   *)
(* else that runs meanwhile.                                               *)
(***************************************************************************)
EXTENDS Integers, Sequences

CONSTANTS
    MethodSets,  \* lists of methods the server may send with a refusal
    Configs,     \* configurations: see Config
    AgentKeys,   \* keys the agent holds
    MaxPrompts,  \* prompts in one INFO_REQUEST
    Banners      \* bound of the model: banners the server sends

VARIABLES
    apc,         \* where the coroutine waits; "loop": at the top with a packet in pktin
    s, pktin,
    pktout,      \* the packet under construction: its kind, and answers put in it
    acfg,        \* configuration
    toAuth, asks,\* answers and requests in flight
    granted,     \* the server has sent USERAUTH_SUCCESS
    bannered,    \* banners sent
    sentBack,    \* what the refusal that led back to the user name answered (history)
    damaged      \* packets sent other than they were meant (history)

vars == <<apc, s, pktin, pktout, acfg, toAuth, asks, granted, bannered, sentBack, damaged>>

Nothing == [kind |-> "unset", answers |-> 0]
NoPacket == [type |-> "unset", of |-> "unset", partial |-> FALSE, methods |-> {}, num |-> 0]
Config == [agent: BOOLEAN,            \* agent_exists()
           key: {"none", "file", "agent_too"}, \* cfg.keyfile, and whether the agent has it
           encrypted: BOOLEAN,
           change: BOOLEAN,           \* cfg.change_username
           named: BOOLEAN]            \* cfg.username is not empty

\* s is fresh from malloc: need_pw holds anything until it is first assigned.
Init ==
    /\ apc = "start" /\ pktin = NoPacket /\ pktout = Nothing
    /\ acfg \in Configs
    /\ \E pw \in BOOLEAN :
         s = [type |-> "none", method |-> "none", gotit |-> FALSE, needPw |-> pw, can |-> {}, tried |-> {},
              kbd |-> FALSE, num |-> 0, curr |-> 0, keyi |-> 0, gotUser |-> FALSE]
    /\ toAuth = <<>> /\ asks = <<>> /\ granted = FALSE /\ bannered = 0
    /\ sentBack = "unset" /\ damaged = {}

world == <<acfg, toAuth, granted, bannered>>

-----------------------------------------------------------------------------
(* The user name, and the parts of the loop body in the order of the code. *)

Send(kind) == asks' = Append(asks, kind) /\ pktout' = Nothing
Silent == UNCHANGED <<asks, pktout>>

SendNone(t) ==
    /\ Send("none") /\ apc' = "wait"
    /\ s' = [t EXCEPT !.gotUser = TRUE, !.type = "none", !.gotit = FALSE, !.tried = {}, !.kbd = FALSE]

Username(t) ==
    IF (t.gotUser /\ ~acfg.change) \/ acfg.named
      THEN SendNone(t)
      ELSE apc' = "user" /\ s' = t /\ Silent

\* INFO_RESPONSE is begun at the first prompt and stays in pktout until the last.
Begun(t) ==
    LET p == IF t.curr = 0 THEN [kind |-> "response", answers |-> 0] ELSE pktout
    IN [p EXCEPT !.answers = IF t.needPw THEN @ + 1 ELSE @]

Damage(t, p) == IF p = [kind |-> "response", answers |-> t.num] THEN {} ELSE {"response"}

\* What is done with a method once a password, if needed, is here.
Answer(t) ==
    CASE t.method = "file" ->
           \/ /\ Send("signature") /\ apc' = "wait" /\ s' = [t EXCEPT !.type = "publickey"]
              /\ UNCHANGED damaged
           \/ /\ Send("none") /\ apc' = "wait" /\ UNCHANGED damaged
              /\ \/ t.needPw /\ s' = [t EXCEPT !.type = "none", !.tried = @ \ {"config"}]
                 \/ s' = [t EXCEPT !.type = "none"]
      [] t.method = "password" ->
           /\ Send("password") /\ apc' = "wait" /\ s' = [t EXCEPT !.type = "password"]
           /\ UNCHANGED damaged
      [] t.method = "ki" ->
           LET built == Begun(t)
               curr == IF t.needPw THEN t.curr + 1 ELSE t.curr
           IN IF curr >= t.num
                THEN /\ asks' = Append(asks, IF Damage(t, built) = {} THEN "response" ELSE "garbage")
                     /\ pktout' = Nothing /\ apc' = "wait"
                     /\ s' = [t EXCEPT !.type = "ki", !.curr = curr]
                     /\ damaged' = damaged \union Damage(t, built)
                ELSE /\ pktout' = built /\ apc' = "loop" /\ UNCHANGED <<asks, damaged>>
                     /\ s' = [t EXCEPT !.type = "ki", !.curr = curr, !.gotit = TRUE]
      [] OTHER -> Send("disconnect") /\ apc' = "closed" /\ s' = t /\ UNCHANGED damaged

\* A method without prompts is answered at once.
AskOrAnswer(t) ==
    IF t.needPw THEN apc' = "prompt" /\ s' = t /\ Silent /\ UNCHANGED damaged ELSE Answer(t)

\* Prompts of a running keyboard-interactive method, or else a password.
Prompts(t, p) ==
    IF t.kbd
      THEN LET num == IF t.curr = 0 THEN p.num ELSE t.num
           IN AskOrAnswer([t EXCEPT !.method = "ki", !.type = "ki", !.tried = @ \union {"ki"},
                                    !.num = num, !.needPw = t.curr < num])
      ELSE IF t.method = "none" /\ "password" \in t.can
        THEN AskOrAnswer([t EXCEPT !.method = "password", !.needPw = TRUE])
        ELSE AskOrAnswer(t)

\* Mutant: a method refused once is tried again.
TriedKiNot(t) == t.tried
TriedKi(t) == t.tried \union {"ki"}

KeyboardInteractive(t, p) ==
    IF "keyboard-interactive" \in t.can /\ "ki" \notin t.tried
      THEN /\ Send("ki") /\ apc' = "kistart" /\ UNCHANGED damaged
           /\ s' = [t EXCEPT !.method = "ki", !.type = "ki", !.tried = TriedKi(t)]
      ELSE Prompts(t, p)

ConfiguredKey(t, p) ==
    IF "publickey" \in t.can /\ acfg.key # "none" /\ "config" \notin t.tried
      THEN /\ Send("offer") /\ apc' = "offerfile" /\ UNCHANGED damaged
           /\ s' = [t EXCEPT !.tried = @ \union {"config"}]
      ELSE KeyboardInteractive(t, p)

Agent(t, p) ==
    IF "publickey" \in t.can /\ acfg.agent /\ "agent" \notin t.tried
      THEN /\ apc' = "identities" /\ Silent /\ UNCHANGED damaged
           /\ s' = [t EXCEPT !.tried = @ \union {"agent"}]
      ELSE ConfiguredKey(t, p)

NoKeyLeft(t, p) == ConfiguredKey(t, p)
\* Mutant: one key more than the agent has.
MoreKeysOrOne(t) == t.keyi <= AgentKeys
MoreKeys(t) == t.keyi < AgentKeys

\* The next key of the agent; a key that is the configured one counts for both.
OfferKey(t, p) ==
    IF MoreKeys(t)
      THEN /\ Send("offer") /\ apc' = "offeragent" /\ UNCHANGED damaged
           /\ s' = [t EXCEPT !.tried = IF t.keyi = 0 /\ acfg.key = "agent_too" THEN @ \union {"config"} ELSE @]
      ELSE NoKeyLeft(t, p)

-----------------------------------------------------------------------------
(* Events.                                                                 *)

Begin ==
    /\ apc = "start" /\ apc' = "service" /\ Send("service")
    /\ UNCHANGED <<s, pktin, world, sentBack, damaged>>

TypeUser == /\ apc = "user" /\ SendNone(s)
            /\ UNCHANGED <<pktin, world, sentBack, damaged>>

\* A line is typed at a prompt.
TypeAnswer == apc = "prompt" /\ Answer(s) /\ UNCHANGED <<pktin, world, sentBack>>

Refused(p) == ~p.partial

Accepted(p) == p.type = "success"

\* The top of the loop, with the packet in pktin.
Loop ==
    /\ apc = "loop"
    /\ LET t == [s EXCEPT !.gotit = FALSE, !.method = "none"]
           stop == /\ s' = s /\ Silent /\ UNCHANGED <<sentBack, damaged>>
       IN CASE pktin.type = "banner" -> apc' = "wait" /\ stop
            [] Accepted(pktin) -> apc' = "in" /\ stop
            [] pktin.type = "info" /\ s.kbd /\ ~Accepted(pktin) ->
                 /\ Agent([t EXCEPT !.curr = IF s.gotit THEN @ ELSE 0], pktin) /\ UNCHANGED sentBack
            [] pktin.type = "failure" /\ Refused(pktin) /\ s.type = "password" ->
                 /\ Username([s EXCEPT !.gotit = FALSE, !.kbd = FALSE])
                 /\ sentBack' = pktin.of /\ UNCHANGED damaged
            [] pktin.type = "failure" /\ ~(Refused(pktin) /\ s.type = "password") ->
                 /\ Agent([t EXCEPT !.kbd = FALSE, !.can = pktin.methods], pktin) /\ UNCHANGED sentBack
            [] OTHER -> apc' = "closed" /\ stop  \* a strange packet
    /\ UNCHANGED <<pktin, world>>

\* Mutant: the method is not noted.
RefusedOffer(t) == [t EXCEPT !.gotit = TRUE]
\* The refusal of the configured key is looked at again at the top.
OfferRefused(t) == [t EXCEPT !.gotit = TRUE, !.type = "offer"]
\* Mutant: the refusal is not looked at again.
KiRefusalSeen(p) == FALSE
KiRefusal(p) == p.type = "failure"

\* A packet that comes while the user is asked is lost but for its place in pktin.
Dropped == apc \in {"user", "prompt"}

OnPacket(p) ==
    CASE Dropped -> UNCHANGED <<apc, s, sentBack, damaged>> /\ Silent
      [] apc = "service" ->
           /\ IF p.type = "accept" THEN Username(s) ELSE apc' = "closed" /\ Silent /\ UNCHANGED s
           /\ UNCHANGED <<sentBack, damaged>>
      [] apc = "wait" -> apc' = "loop" /\ UNCHANGED <<s, sentBack, damaged>> /\ Silent
      [] apc \in {"identities", "sign"} -> apc' = "closed" /\ UNCHANGED <<s, sentBack, damaged>> /\ Silent
      [] apc = "offeragent" /\ p.type # "pkok" ->
           OfferKey([s EXCEPT !.keyi = @ + 1], p) /\ UNCHANGED sentBack
      [] apc = "offeragent" /\ p.type = "pkok" ->
           /\ pktout' = [kind |-> "signature", answers |-> 0] /\ apc' = "sign"
           /\ UNCHANGED <<s, asks, sentBack, damaged>>
      [] apc = "offerfile" /\ p.type # "pkok" ->
           /\ apc' = "loop" /\ s' = OfferRefused(s)
           /\ Silent /\ UNCHANGED <<sentBack, damaged>>
      [] apc = "offerfile" /\ p.type = "pkok" ->
           Prompts([s EXCEPT !.method = "file", !.needPw = acfg.encrypted], p) /\ UNCHANGED sentBack
      [] apc = "kistart" /\ p.type # "info" ->
           /\ s' = [s EXCEPT !.type = "kiquiet", !.gotit = KiRefusal(p)]
           /\ apc' = (IF KiRefusal(p) THEN "loop" ELSE "wait")
           /\ Silent /\ UNCHANGED <<sentBack, damaged>>
      [] OTHER -> \* the first INFO_REQUEST
           Prompts([s EXCEPT !.kbd = TRUE, !.curr = 0], p) /\ UNCHANGED sentBack

Receive ==
    /\ apc \notin {"start", "loop", "in", "closed"} /\ toAuth # <<>>
    /\ toAuth' = Tail(toAuth) /\ pktin' = Head(toAuth)
    /\ OnPacket(Head(toAuth))
    /\ UNCHANGED <<acfg, granted, bannered>>

\* The agent's thread posts its answer, or none (reply NULL).
AgentAnswers ==
    /\ \/ /\ apc = "identities"
          /\ \/ OfferKey([s EXCEPT !.keyi = 0], pktin)
             \/ ConfiguredKey(s, pktin)
       \/ /\ apc = "sign"
          /\ \/ /\ asks' = Append(asks, IF pktout.kind = "signature" THEN "signature" ELSE "garbage")
                /\ damaged' = damaged \union (IF pktout.kind = "signature" THEN {} ELSE {"signature"})
                /\ pktout' = Nothing /\ apc' = "wait" /\ s' = s
             \/ OfferKey([s EXCEPT !.keyi = @ + 1], pktin)
    /\ UNCHANGED <<pktin, world, sentBack>>

\* The keepalive timer: an IGNORE is built in pktout, whatever else is being built there.
Keepalive ==
    /\ apc \in {"prompt", "sign"} /\ pktout.kind \in {"response", "signature"}
    /\ pktout' = [kind |-> "ping", answers |-> 0]
    /\ UNCHANGED <<apc, s, pktin, world, asks, sentBack, damaged>>

-----------------------------------------------------------------------------
(* The server: it answers each request, in order.                          *)

Packet(type, of) == [NoPacket EXCEPT !.type = type, !.of = of]
Refusal(of, p, m) == [Packet("failure", of) EXCEPT !.partial = p, !.methods = m]
Refusals(of) == {Refusal(of, p, m) : p \in BOOLEAN, m \in MethodSets}
FullRefusals(of) == {r \in Refusals(of) : ~r.partial}
InfoRequests(of) == {[Packet("info", of) EXCEPT !.num = n] : n \in 0..MaxPrompts}
Answers(of) ==
    CASE of = "service" -> {Packet("accept", of)}
      [] of = "none" -> FullRefusals(of) \union {Packet("success", of)}
      [] of = "offer" -> FullRefusals(of) \union {Packet("pkok", of)}
      [] of = "ki" -> FullRefusals(of) \union InfoRequests(of)
      [] of = "response" -> \* a second request without prompts is left out
           Refusals(of) \union {r \in InfoRequests(of) : r.num > 0} \union {Packet("success", of)}
      [] of \in {"signature", "password"} -> Refusals(of) \union {Packet("success", of)}
      [] OTHER -> {Packet("disconnect", of)}

SrvAnswer ==
    /\ asks # <<>> /\ asks' = Tail(asks)
    /\ \E p \in Answers(Head(asks)) :
         toAuth' = Append(toAuth, p) /\ granted' = (granted \/ p.type = "success")
    /\ UNCHANGED <<apc, s, pktin, pktout, acfg, bannered, sentBack, damaged>>

SrvBanner ==
    /\ bannered < Banners /\ ~granted /\ apc \notin {"start", "service", "closed"}
    /\ bannered' = bannered + 1 /\ toAuth' = Append(toAuth, Packet("banner", "banner"))
    /\ UNCHANGED <<apc, s, pktin, pktout, acfg, asks, granted, sentBack, damaged>>

Next ==
    \/ Begin \/ TypeUser \/ TypeAnswer \/ Loop \/ Receive \/ AgentAnswers \/ Keepalive
    \/ SrvAnswer \/ SrvBanner

\* The server answers, the network delivers, the agent's thread ends.
Fairness == WF_vars(Loop) /\ WF_vars(Receive) /\ WF_vars(AgentAnswers) /\ WF_vars(SrvAnswer)

-----------------------------------------------------------------------------
Methods == {"publickey", "password", "keyboard-interactive"}
StateType ==
    [type: {"none", "offer", "publickey", "password", "ki", "kiquiet"}, method: {"none", "file", "password", "ki"},
     gotit: BOOLEAN, needPw: BOOLEAN, can: SUBSET Methods, tried: SUBSET {"agent", "config", "ki"},
     kbd: BOOLEAN, num: 0..MaxPrompts, curr: 0..MaxPrompts, keyi: 0..AgentKeys, gotUser: BOOLEAN]

\* Every variable stays in its range.
TypeOK ==
    /\ apc \in {"start", "service", "user", "wait", "loop", "identities", "sign", "offeragent", "offerfile",
                "kistart", "prompt", "in", "closed"}
    /\ s \in StateType /\ acfg \in Config /\ granted \in BOOLEAN /\ bannered \in 0..Banners

\* The connection layer starts only when the server has granted access, however its answers
\* and banners fell among the states of the coroutine.
InWhenGranted == apc = "in" => granted

\* A user is asked for a secret that no method uses only when every method the server
\* accepts has been tried: need_pw keeps its old value there (ssh.c:5105).
IdlePromptIsLast ==
    apc = "prompt" /\ s.method = "none" =>
        /\ "password" \notin s.can
        /\ "keyboard-interactive" \in s.can => "ki" \in s.tried
        /\ "publickey" \in s.can /\ acfg.agent => "agent" \in s.tried
        /\ "publickey" \in s.can /\ acfg.key # "none" => "config" \in s.tried

\* Without a banner among the answers, only a refused password sends the user back to the
\* user name, or a refused signature of the agent after a password that was half of the
\* proof: s->type is not set there.
BackForPassword == bannered = 0 => sentBack \in {"unset", "password", "signature"}

\* Every INFO_RESPONSE answers each prompt once, unless a keepalive was built over it.
AnsweredOnce ==
    /\ damaged \subseteq {"response", "signature"}
    /\ apc = "prompt" /\ s.method = "ki" /\ s.curr > 0 /\ pktout.kind # "ping" =>
         pktout = [kind |-> "response", answers |-> s.curr]

\* Without a banner, the coroutine never waits for an answer when none is owed or on its way.
AnswerOwed ==
    bannered = 0 /\ asks = <<>> /\ toAuth = <<>> =>
        /\ apc # "offeragent" /\ apc # "offerfile" /\ apc # "kistart" /\ apc # "service" /\ apc # "wait"

\* Authentication comes to ask the user, succeeds or ends, if no banner gets in its way.
AuthProceeds == (apc \in {"wait", "loop", "sign", "identities"}) ~> (apc \in {"user", "prompt", "in", "closed"} \/ bannered > 0)

=============================================================================
