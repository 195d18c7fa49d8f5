-------------------------------- MODULE Telnet --------------------------------
(* The Telnet backend (telnet.c) and a Telnet server: options negotiated from   *)
(* both ends at once, subnegotiations, the escaping of the data, the size of    *)
(* the window, and the freeze that follows the backlog of the terminal.  What   *)
(* a Windows CE build never receives, urgent data, is left out (in_synch stays  *)
(* FALSE: its polling threads report FD_READ only).                             *)
EXTENDS Integers, FiniteSets, SequencesExt

CONSTANTS
    Options,    \* the options that are negotiated, of OptionNames
    Backlog,    \* TELNET_MAX_BACKLOG
    MaxServer,  \* bound of the model: negotiations and characters the server sends
    MaxUser     \* bound of the model: resizes, keys and Telnet commands of the user

OptionNames == {"NAWS", "TSPEED", "TTYPE", "OENV", "NENV", "ECHO", "WE_SGA", "THEY_SGA", "WE_BIN", "THEY_BIN"}

VARIABLES
    tn,         \* the Telnet structure, with what it has written and given to the terminal
    peer,       \* the server: per option "off", "on", "asked on", "asked off"
    fromServer, \* bytes on their way to the client
    peerSize, peerText, \* the size and the keys the server was told
    asks, text, \* negotiations and characters sent by the server
    acts, typed \* actions of the user, keys among them

vars == <<tn, peer, fromServer, peerSize, peerText, asks, text, acts, typed>>

\* The side that performs an option: ours are sent with WILL, theirs with DO.
Theirs == {"ECHO", "THEY_SGA", "THEY_BIN"}
Send(o) == IF o \in Theirs THEN "DO" ELSE "WILL"
NSend(o) == IF o \in Theirs THEN "DONT" ELSE "WONT"
Ack(o) == IF o \in Theirs THEN "WILL" ELSE "DO"
Nak(o) == IF o \in Theirs THEN "WONT" ELSE "DONT"

\* The option code, which does not tell the side.
Code(o) == CASE o \in {"WE_SGA", "THEY_SGA"} -> "SGA" [] o \in {"WE_BIN", "THEY_BIN"} -> "BIN" [] OTHER -> o

InitialState(o) == IF o \in {"OENV", "WE_BIN", "THEY_BIN"} THEN "INACTIVE" ELSE "REQUESTED"

-----------------------------------------------------------------------------
\* send_opt.
SendOpt(t, cmd, o) == [t EXCEPT !.out = Append(@, <<"IAC", cmd, Code(o)>>)]
Put(t, o, st) == [t EXCEPT !.opt[o] = st]
Is(t, o, st) == o \in Options /\ t.opt[o] = st

\* deactivate_option.
Deactivate(t, o) ==
    IF o \notin Options THEN t
    ELSE Put(IF t.opt[o] \in {"REQUESTED", "ACTIVE"} THEN SendOpt(t, NSend(o), o) ELSE t,
             o, "REALLY_INACTIVE")

\* option_side_effects: echo and editing, and in the passive mode the least
\* that is asked for when the server has begun.
Ask(t, o) == IF Is(t, o, "INACTIVE") THEN SendOpt(Put(t, o, "REQUESTED"), Send(o), o) ELSE t
SideEffects(t, o, enabled) ==
    LET u == [t EXCEPT !.echoing = IF o = "ECHO" THEN ~enabled ELSE @,
                       !.editing = IF o = "THEY_SGA" THEN ~enabled ELSE @]
    IN  IF t.activated THEN u
        ELSE [Ask(Ask(Ask(u, "ECHO"), "WE_SGA"), "THEY_SGA") EXCEPT !.activated = TRUE]

\* telnet_size.
SendSize(t) ==
    IF Is(t, "NAWS", "ACTIVE") THEN [t EXCEPT !.out = Append(@, <<"SB", "NAWS", t.size>>)] ELSE t

\* Mutant: both kinds of environment variables are kept.
ActivateBoth(t, o) == SideEffects(IF o = "NAWS" THEN SendSize(t) ELSE t, o, TRUE)

\* activate_option: only one kind of environment variables.
Activate(t, o) ==
    LET u == CASE o = "NAWS" -> SendSize(t)
               [] o = "NENV" -> Deactivate(t, "OENV")
               [] o = "OENV" -> Deactivate(t, "NENV")
               [] OTHER -> t
    IN  SideEffects(u, o, TRUE)

\* refused_option: the old kind is tried when the new one is refused.
Refused(t, o) ==
    SideEffects(IF o = "NENV" /\ Is(t, "OENV", "INACTIVE")
                  THEN SendOpt(Put(t, "OENV", "REQUESTED"), "WILL", "OENV") ELSE t, o, FALSE)

\* proc_rec_opt for an acknowledgement and for a refusal.
OnAck(t, o) ==
    CASE t.opt[o] = "REQUESTED" -> Activate(Put(t, o, "ACTIVE"), o)
      [] t.opt[o] = "ACTIVE" -> t
      [] t.opt[o] = "INACTIVE" -> Activate(SendOpt(Put(t, o, "ACTIVE"), Send(o), o), o)
      [] t.opt[o] = "REALLY_INACTIVE" -> SendOpt(t, NSend(o), o)

OnNak(t, o) ==
    CASE t.opt[o] = "REQUESTED" -> Refused(Put(t, o, "INACTIVE"), o)
      [] t.opt[o] = "ACTIVE" -> SideEffects(SendOpt(Put(t, o, "INACTIVE"), NSend(o), o), o, FALSE)
      [] OTHER -> t

ProcRecOpt(t, cmd, code) ==
    IF \E o \in Options : Code(o) = code /\ cmd \in {Ack(o), Nak(o)}
      THEN LET o == CHOOSE x \in Options : Code(x) = code /\ cmd \in {Ack(x), Nak(x)}
           IN  IF cmd = Ack(o) THEN OnAck(t, o) ELSE OnNak(t, o)
      ELSE SendOpt(t, IF cmd = "WILL" THEN "DONT" ELSE "WONT", code)

\* process_subneg: what is asked for is told, whether the option is on or not.
ProcessSubneg(t) ==
    IF \/ t.sbOpt \in {"TSPEED", "TTYPE"} /\ t.sb = <<"SEND">>
       \/ t.sbOpt \in {"OENV", "NENV"} /\ t.sb # <<>> /\ Head(t.sb) = "SEND"
      THEN [t EXCEPT !.out = Append(@, <<"SB", t.sbOpt, "IS">>)]
      ELSE t

\* c_write1: the character goes to the terminal, whose backlog freezes the socket.
CWrite(t, c) ==
    [t EXCEPT !.text = Append(@, c), !.backlog = @ + 1, !.frozen = t.backlog + 1 > Backlog]

\* do_telnet_read, one byte.
Byte(t, c) ==
    LET To(s) == [t EXCEPT !.state = s]
        Top(u) == [u EXCEPT !.state = "TOP_LEVEL"]
    IN  CASE t.state \in {"TOP_LEVEL", "SEENCR"} ->
               IF c = "NUL" /\ t.state = "SEENCR" THEN Top(t)
               ELSE IF c = "IAC" THEN To("SEENIAC")
               ELSE [CWrite(t, c) EXCEPT !.state =
                       IF c = "CR" /\ ~Is(t, "THEY_BIN", "ACTIVE") THEN "SEENCR" ELSE "TOP_LEVEL"]
          [] t.state = "SEENIAC" ->
               IF c \in {"DO", "DONT", "WILL", "WONT", "SB"} THEN To(c)
               ELSE IF c = "IAC" THEN Top(CWrite(t, c)) ELSE Top(t)
          [] t.state \in {"DO", "DONT", "WILL", "WONT"} -> Top(ProcRecOpt(t, t.state, c))
          [] t.state = "SB" -> [t EXCEPT !.sbOpt = c, !.sb = <<>>, !.state = "SUBNEGOT"]
          [] t.state = "SUBNEGOT" /\ c = "IAC" -> To("SUBNEG_IAC")
          [] t.state = "SUBNEG_IAC" /\ c = "SE" -> Top(ProcessSubneg(t))
          [] OTHER -> [t EXCEPT !.sb = Append(@, c), !.state = "SUBNEGOT"]

\* do_telnet_read, a whole buffer.
Read(t, bytes) ==
    LET read[i \in 0 .. Len(bytes)] == IF i = 0 THEN t ELSE Byte(read[i - 1], bytes[i])
    IN  read[Len(bytes)]

-----------------------------------------------------------------------------
\* telnet_init: in the passive mode nothing is asked for.
New == [opt |-> [o \in Options |-> "INACTIVE"], echoing |-> TRUE, editing |-> TRUE,
        activated |-> FALSE, state |-> "TOP_LEVEL", sbOpt |-> "", sb |-> <<>>, size |-> 0,
        out |-> <<>>, text |-> <<>>, backlog |-> 0, frozen |-> FALSE]
AskedFirst ==
    LET asked == {o \in Options : InitialState(o) = "REQUESTED"}
    IN  CHOOSE q \in [1 .. Cardinality(asked) -> asked] : \A o \in asked : \E i \in DOMAIN q : q[i] = o

Init ==
    /\ \/ tn = New
       \/ tn = [New EXCEPT !.opt = [o \in Options |-> InitialState(o)], !.activated = TRUE,
                           !.out = [i \in DOMAIN AskedFirst |->
                                       <<"IAC", Send(AskedFirst[i]), Code(AskedFirst[i])>>]]
    /\ peer = [o \in Options |-> "off"] /\ fromServer = <<>> /\ peerSize = 0
    /\ peerText = <<>>
    /\ asks = 0 /\ text = <<>> /\ acts = 0 /\ typed = <<>>

Server == <<peer, peerSize, peerText, asks, text>>
User == <<acts, typed>>

\* telnet_receive: one byte arrives or all of them, which is any number of bytes.
Receive(k) ==
    /\ ~tn.frozen /\ 0 < k /\ k <= Len(fromServer)
    /\ tn' = Read(tn, SubSeq(fromServer, 1, k))
    /\ fromServer' = SubSeq(fromServer, k + 1, Len(fromServer))
    /\ UNCHANGED <<Server, User>>

\* The terminal works off its backlog: telnet_unthrottle.
Unthrottle ==
    /\ tn.backlog > 0
    /\ tn' = [tn EXCEPT !.backlog = @ - 1, !.frozen = tn.backlog - 1 > Backlog]
    /\ UNCHANGED <<Server, User, fromServer>>

\* telnet_size: the user resizes the window.
Resize ==
    /\ acts < MaxUser /\ acts' = acts + 1
    /\ tn' = SendSize([tn EXCEPT !.size = acts + 1])
    /\ UNCHANGED <<Server, fromServer, typed>>

\* Mutant: IAC is not doubled.
EscapeNot(c) == IF c = "CR" THEN <<"CR", "NUL">> ELSE <<c>>

\* telnet_send, which does not ask for the binary mode, and the end of line of
\* telnet_special, which does.
Escape(c) ==
    CASE c = "IAC" -> <<"IAC", "IAC">>
      [] c = "CR" -> <<"CR", "NUL">>
      [] c = "EOL" -> IF Is(tn, "WE_BIN", "ACTIVE") THEN <<"CR">> ELSE <<"CR", "LF">>
      [] OTHER -> <<c>>
Key(c) ==
    /\ acts < MaxUser /\ acts' = acts + 1 /\ typed' = Append(typed, c)
    /\ tn' = [tn EXCEPT !.out = @ \o <<<<"KEYS", Escape(c)>>>>]
    /\ UNCHANGED <<Server, fromServer>>

\* telnet_special, for the commands of two bytes (a ping only while SGA is on).
Special(cmd) ==
    /\ acts < MaxUser /\ acts' = acts + 1
    /\ tn' = (IF cmd = "PING" /\ ~Is(tn, "THEY_SGA", "ACTIVE") THEN tn
              ELSE [tn EXCEPT !.out = Append(@, <<"KEYS", <<"IAC", IF cmd = "PING" THEN "NOP" ELSE cmd>>>>)])
    /\ UNCHANGED <<Server, fromServer, typed>>

-----------------------------------------------------------------------------
(* The server.  It answers what changes its mind and nothing else.            *)
Yes(o) == IF o \in Theirs THEN "WILL" ELSE "DO"
No(o) == IF o \in Theirs THEN "WONT" ELSE "DONT"
Say(cmd, o) == fromServer' = fromServer \o <<"IAC", cmd, Code(o)>>

Unescape(b) ==
    CASE b = <<"IAC", "IAC">> -> <<"IAC">>
      [] b = <<"CR", "LF">> -> <<"EOL">>
      [] b = <<"CR">> -> <<"EOL">>
      [] b = <<"CR", "NUL">> -> <<"CR">>
      [] b # <<"IAC", "IAC">> /\ Head(b) = "IAC" -> <<>>
      [] OTHER -> b
ServerReceives ==
    /\ tn.out # <<>> /\ tn' = [tn EXCEPT !.out = Tail(@)]
    /\ LET m == Head(tn.out) IN
       IF m[1] \in {"SB", "KEYS"}
         THEN /\ peerSize' = (IF m[1] = "SB" /\ m[2] = "NAWS" THEN m[3] ELSE peerSize)
              /\ peerText' = (IF m[1] = "KEYS" THEN peerText \o Unescape(m[2]) ELSE peerText)
              /\ UNCHANGED <<peer, fromServer>>
         ELSE \E o \in Options :
                /\ Code(o) = m[3] /\ m[2] \in {Send(o), NSend(o)} /\ UNCHANGED <<peerSize, peerText>>
                /\ IF m[2] = Send(o)
                     THEN \/ /\ peer[o] = "off" /\ peer' = [peer EXCEPT ![o] = "on"] /\ Say(Yes(o), o)
                          \/ peer[o] = "off" /\ UNCHANGED peer /\ Say(No(o), o)
                          \/ /\ peer[o] # "off" /\ UNCHANGED fromServer
                             /\ peer' = [peer EXCEPT ![o] = IF @ = "asked on" THEN "on" ELSE @]
                     ELSE IF peer[o] = "on"
                       THEN peer' = [peer EXCEPT ![o] = "off"] /\ Say(No(o), o)
                       ELSE peer' = [peer EXCEPT ![o] = "off"] /\ UNCHANGED fromServer
    /\ UNCHANGED <<asks, text, User>>

\* The server starts a negotiation of its own.
ServerAsks(o) ==
    /\ asks < MaxServer /\ asks' = asks + 1
    /\ \/ peer[o] = "off" /\ peer' = [peer EXCEPT ![o] = "asked on"] /\ Say(Yes(o), o)
       \/ peer[o] = "on" /\ peer' = [peer EXCEPT ![o] = "asked off"] /\ Say(No(o), o)
    /\ UNCHANGED <<tn, peerSize, peerText, text, User>>

\* Text, with IAC doubled and NUL after CR, and a request for the terminal type.
Escaped(c) == CASE c = "IAC" -> <<"IAC", "IAC">> [] c = "CR" -> <<"CR", "NUL">> [] OTHER -> <<c>>
ServerWrites ==
    /\ asks < MaxServer /\ asks' = asks + 1
    /\ \E c \in {"x", "CR", "IAC"} : text' = Append(text, c) /\ fromServer' = fromServer \o Escaped(c)
    /\ UNCHANGED <<tn, peer, peerSize, peerText, User>>

ServerQueries ==
    /\ asks < MaxServer /\ asks' = asks + 1 /\ "TTYPE" \in Options /\ peer["TTYPE"] = "on"
    /\ fromServer' = fromServer \o <<"IAC", "SB", "TTYPE", "SEND", "IAC", "SE">>
    /\ UNCHANGED <<tn, peer, peerSize, peerText, text, User>>

Next ==
    \/ \E k \in {1, Len(fromServer)} : Receive(k)
    \/ (\E c \in {"CR", "IAC", "EOL"} : Key(c)) \/ Special("PING")
    \/ Unthrottle \/ Resize \/ ServerReceives \/ ServerWrites \/ ServerQueries
    \/ \E o \in Options : ServerAsks(o)

\* What arrives is read at both ends, and the terminal works off its backlog.
Fairness ==
    /\ WF_vars(\E k \in {1, Len(fromServer)} : Receive(k))
    /\ WF_vars(Unthrottle) /\ WF_vars(ServerReceives)

Spec == Init /\ [][Next]_vars /\ Fairness
-----------------------------------------------------------------------------
TypeOK ==
    /\ tn.opt \in [Options -> {"REQUESTED", "ACTIVE", "INACTIVE", "REALLY_INACTIVE"}]
    /\ tn.echoing \in BOOLEAN /\ tn.editing \in BOOLEAN /\ tn.activated \in BOOLEAN
    /\ tn.state \in {"TOP_LEVEL", "SEENCR", "SEENIAC", "DO", "DONT", "WILL", "WONT", "SB", "SUBNEGOT", "SUBNEG_IAC"}
    /\ tn.backlog \in 0 .. MaxServer /\ tn.frozen = (tn.backlog > Backlog)
    /\ peer \in [Options -> {"off", "on", "asked on", "asked off"}]

Quiet == tn.out = <<>> /\ fromServer = <<>>

\* When nothing is under way both ends think the same of every option, whoever
\* asked and however the requests crossed, and the server knows the size.
EndsAgree ==
    Quiet => /\ \A o \in Options : (tn.opt[o] = "ACTIVE") <=> (peer[o] = "on")
             /\ Is(tn, "NAWS", "ACTIVE") => peerSize = tn.size

\* "We may only have one kind of ENVIRON going at a time" (telnet.c:338).
OneEnviron == ~(Is(tn, "OENV", "ACTIVE") /\ Is(tn, "NENV", "ACTIVE"))

\* We echo exactly what the server does not, but for a request under way.
EchoedOnce ==
    "ECHO" \in Options /\ tn.opt["ECHO"] # "REQUESTED" => (tn.echoing <=> tn.opt["ECHO"] # "ACTIVE")

\* The terminal shows what the server wrote, however it is cut up and whatever is
\* negotiated in between, and the server reads the keys that were typed.
TextIntact ==
    /\ IsPrefix(tn.text, text) /\ (fromServer = <<>> => tn.text = text)
    /\ tn.out = <<>> => peerText = typed

\* Both ends come to rest: no answer is answered for ever.
ComesToRest == []<>(Quiet \/ tn.frozen)
=============================================================================
