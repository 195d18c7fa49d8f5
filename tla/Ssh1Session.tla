----------------------------- MODULE Ssh1Session -----------------------------
(***************************************************************************)
(* An SSH-1 session after the login (ssh1_protocol): the set-up requests,  *)
(* answered one at a time; then forwarded connections opened from either   *)
(* side, closed by CHANNEL_CLOSE and CHANNEL_CLOSE_CONFIRMATION in both    *)
(* directions, and the freezing of the whole SSH socket while a local      *)
(* socket is backed up.  The server follows the same closing rules.        *)
(*                                                                         *)
(* A channel is named by the connection it serves, and the numbers of both *)
(* sides are left out (ChannelId, Ssh2Channels).  Packets that one read of *)
(* the SSH socket returned are all handled before anything else happens,   *)
(* even when the first of them freezes the socket: inHand counts them.     *)
(***************************************************************************)
EXTENDS Integers, Sequences, FiniteSets

CONSTANTS
    Conn,      \* forwarded connections
    None,      \* not one of them
    Options,   \* what the configuration asks for
    Limit,     \* SSH1_BUFFER_LIMIT, in units of data
    MaxUnits,  \* bound of the model: backlog of a local socket
    MaxQueue   \* bound of the model: packets of the server in flight

Order == <<"agent", "x11", "listen", "remote", "pty", "compress">>

VARIABLES
    phase,     \* index in Order of the request that awaits its answer; 0 at the start, 7 later
    state,     \* "setup", "session", "closed", or "crashed" (memory safety lost)
    why,       \* what ended the session
    enabled,   \* agentfwd_enabled and X11_fwd_enabled
    chan,      \* the channels: see ChanType
    count,     \* v1_throttle_count
    leaked,    \* structures freed while they throttled (history)
    inHand,    \* packets read and not handled yet
    toClient, toServer,
    srv,       \* the server's channels
    termSize, ptySize, sizeNeeded  \* size of the terminal, size the server knows, size_needed

client == <<phase, state, why, enabled, chan, count, leaked>>
sizes == <<termSize, ptySize, sizeNeeded>>
vars == <<client, inHand, toClient, toServer, srv, sizes>>

Close == {"close", "confirmation"}
ChanType ==
    [type: {"none", "dormant", "sock", "x11", "agent"}, \* "none" after sfree
     s: BOOLEAN,                     \* c->u.*.s is not NULL
     sent: SUBSET Close,             \* bits 1 and 2 of c->closes
     got: SUBSET Close,              \* bits 4 and 8
     throttling: BOOLEAN,            \* c->v.v1.throttling
     buffered: 0..MaxUnits]          \* backlog of the local socket
NoChan == [type |-> "none", s |-> FALSE, sent |-> {}, got |-> {}, throttling |-> FALSE, buffered |-> 0]

Init ==
    /\ phase = 0 /\ state = "setup" /\ why = "none" /\ enabled = {}
    /\ chan = [c \in Conn |-> NoChan] /\ count = 0 /\ leaked = 0
    /\ inHand = 0 /\ toClient = <<>> /\ toServer = <<>>
    /\ srv = [c \in Conn |-> [st |-> "none", sent |-> {}, got |-> {}]]
    /\ termSize = 0 /\ ptySize = -1 /\ sizeNeeded = FALSE

-----------------------------------------------------------------------------
Pkt(t, c) == [t |-> t, c |-> c]

Frozen == count > 0
Idle == inHand = 0
Send(ps) == toServer' = toServer \o ps
Listening == "listen" \in Options /\ phase > 3
Awaited(p) == p \in DOMAIN Order /\ Order[p] \in Options \ {"listen"}

\* The next request to be sent after request p has been answered.
NextPhase(p) ==
    CHOOSE q \in p + 1 .. 7 :
        /\ q = 7 \/ Awaited(q)
        /\ \A r \in p + 1 .. q - 1 : ~Awaited(r)

\* Run on from request p to the next one that has an answer to wait for, or
\* into the session, where a resize that came too early is made up for.
Proceed(p) ==
    LET q == NextPhase(p) IN
    /\ phase' = q
    /\ IF q < 7
         THEN /\ Send(<<Pkt(Order[q], None)>>)
              /\ ptySize' = IF Order[q] = "pty" THEN termSize ELSE ptySize
              /\ UNCHANGED <<state, sizeNeeded>>
         ELSE /\ state' = "session"
              /\ Send(<<Pkt("exec", None)>>)
              /\ ptySize' = IF sizeNeeded /\ "pty" \in Options THEN termSize ELSE ptySize
              /\ sizeNeeded' = FALSE
    /\ UNCHANGED termSize

End(reason, to) == state' = to /\ why' = reason
Bombout(reason) ==
    /\ End(reason, "closed")
    /\ UNCHANGED <<phase, enabled, chan, count, leaked, toServer, sizes>>

Start == phase = 0 /\ state = "setup" /\ Proceed(0)
         /\ UNCHANGED <<why, enabled, chan, count, leaked, inHand, toClient, srv>>

\* SSH_STATE_INTERMED: the pty has been asked for.
KeepsSize == "pty" \in Options /\ phase >= 5

\* The user resizes the window (ssh_size): sent, kept for later, or left to
\* the request that is still to be made.
Resize ==
    /\ Idle /\ state \in {"setup", "session"} /\ termSize = 0
    /\ termSize' = 1
    /\ IF state = "session"
         THEN ptySize' = (IF "pty" \in Options THEN 1 ELSE ptySize) /\ UNCHANGED sizeNeeded
         ELSE /\ sizeNeeded' = (sizeNeeded \/ KeepsSize)
              /\ UNCHANGED ptySize
    /\ UNCHANGED <<client, inHand, toClient, toServer, srv>>

-----------------------------------------------------------------------------
\* ssh1_throttle.  Nothing is taken from a frozen socket.
Recv ==
    /\ Idle /\ ~Frozen /\ state \in {"setup", "session"} /\ toClient # <<>>
    /\ inHand' \in 1 .. Len(toClient)
    /\ UNCHANGED <<client, toClient, toServer, srv, sizes>>

\* The next packet leaves the receive buffer; what follows the end of the
\* session is not looked at.
Take == /\ inHand > 0 /\ state \in {"setup", "session"}
        /\ toClient' = Tail(toClient) /\ inHand' = inHand - 1
        /\ UNCHANGED srv
P == Head(toClient)

\* A packet while a set-up request awaits its answer.  What the request is
\* for does not matter but for the two kinds of forwarding.
OnSetupPacket ==
    /\ Take /\ state = "setup"
    /\ IF P.t \in {"success", "failure"}
         THEN /\ enabled' = IF P.t = "success" /\ Order[phase] \in {"agent", "x11"}
                              THEN enabled \cup {Order[phase]} ELSE enabled
              /\ Proceed(phase)
              /\ UNCHANGED <<why, chan, count, leaked>>
         ELSE Bombout("confusion")

\* The server asks for a channel: refused unless that was enabled (a remote
\* forwarding only has to be configured) and the local connection can be begun.
OnOpen ==
    /\ Take /\ state = "session" /\ P.t \in {"agent_open", "x11_open", "port_open"}
    /\ LET type == IF P.t = "agent_open" THEN "agent" ELSE IF P.t = "x11_open" THEN "x11" ELSE "sock"
           able == IF type = "sock" THEN "remote" \in Options ELSE type \in enabled
       IN  \/ /\ able
              /\ chan' = [chan EXCEPT ![P.c] = [NoChan EXCEPT !.type = type, !.s = type # "agent"]]
              /\ Send(<<Pkt("open_confirmation", P.c)>>)
           \/ /\ ~able \/ type # "agent"
              /\ Send(<<Pkt("open_failure", P.c)>>)
              /\ UNCHANGED chan
    /\ UNCHANGED <<phase, state, why, enabled, count, leaked, sizes>>

PendingClose(c) == IF chan[c].sent # {} THEN <<Pkt("close", c)>> ELSE <<>>

\* A close that was asked for while the channel was half open is sent now.
OnOpenConfirmation ==
    /\ Take /\ state = "session" /\ P.t = "open_confirmation"
    /\ IF chan[P.c].type = "dormant"
         THEN /\ chan' = [chan EXCEPT ![P.c].type = "sock"]
              /\ Send(PendingClose(P.c))
         ELSE UNCHANGED <<chan, toServer>>
    /\ UNCHANGED <<phase, state, why, enabled, count, leaked, sizes>>

OnOpenFailure ==
    /\ Take /\ state = "session" /\ P.t = "open_failure"
    /\ chan' = [chan EXCEPT ![P.c] = IF @.type = "dormant" THEN NoChan ELSE @]
    /\ UNCHANGED <<phase, state, why, enabled, count, leaked, toServer, sizes>>

\* Mutant: the first packet of either kind closes the channel for good.
EchoOnly(c, t) ==
    LET old == chan[c] IN
    [new |-> [old EXCEPT !.got = Close, !.sent = Close, !.s = FALSE, !.buffered = 0],
     reply |-> IF t \in old.sent THEN <<>> ELSE <<Pkt(t, c)>>]

\* What CHANNEL_CLOSE or its confirmation does to a channel: the socket is
\* closed unless that was done before, and the same packet goes back once.
Closing(c, t) ==
    LET old == chan[c] IN
    [new |-> [old EXCEPT !.got = @ \cup {t}, !.sent = @ \cup {t},
                         !.s = IF old.sent \cup old.got = {} THEN FALSE ELSE @,
                         !.buffered = IF old.sent \cup old.got = {} THEN 0 ELSE @],
     reply |-> IF t \in old.sent THEN <<>> ELSE <<Pkt(t, c)>>]

\* The structure is freed when the two packets have gone both ways.
OnClose ==
    /\ Take /\ state = "session" /\ P.t \in Close
    /\ LET c == P.c
           closing == Closing(c, P.t)
           done == closing.new.got = Close /\ closing.new.sent = Close
       IN  IF chan[c].type \notin {"none", "dormant"}
             THEN /\ chan' = [chan EXCEPT ![c] = IF done THEN NoChan ELSE closing.new]
                  /\ leaked' = IF done /\ chan[c].throttling THEN leaked + 1 ELSE leaked
                  /\ Send(closing.reply)
                  /\ UNCHANGED <<phase, state, why, enabled, count, sizes>>
             ELSE Bombout("bad_close")

\* Mutant: every packet that finds a full buffer throttles once more.
ThrottleAgain(c, size) == chan[c].s /\ size > Limit

ThrottlesOn(c, size) == chan[c].s /\ ~chan[c].throttling /\ size > Limit

\* CHANNEL_DATA for the local socket, which takes any part of it (pfd_send and
\* x11_send ignore a socket that is gone; an agent channel never backs up).
OnData ==
    /\ Take /\ state = "session" /\ P.t = "data"
    /\ \E size \in chan[P.c].buffered .. MaxUnits :
        /\ size # 0 => chan[P.c].s /\ chan[P.c].type \in {"sock", "x11"}
        /\ chan' = [chan EXCEPT ![P.c].buffered = size,
                                ![P.c].throttling = @ \/ ThrottlesOn(P.c, size)]
        /\ count' = IF ThrottlesOn(P.c, size) THEN count + 1 ELSE count
    /\ UNCHANGED <<phase, state, why, enabled, leaked, toServer, sizes>>

\* SUCCESS and FAILURE may answer EXEC_SHELL.  EXIT_STATUS is confirmed and,
\* like DISCONNECT, ends the session; anything else is a protocol error.
OnOther ==
    /\ Take /\ state = "session"
    /\ \/ P.t \in {"success", "failure"} /\ UNCHANGED <<client, toServer, sizes>>
       \/ /\ P.t = "exit_status"
          /\ Send(<<Pkt("exit_confirmation", None)>>) /\ End("exit", "closed")
          /\ UNCHANGED <<phase, enabled, chan, count, leaked, sizes>>

-----------------------------------------------------------------------------
\* A local connection is accepted (pfd_accepting, new_sock_channel), also
\* while ssh->channels is still NULL: alloc_channel_id then reads through it.
Accept(c) ==
    /\ Idle /\ state \in {"setup", "session"} /\ Listening
    /\ chan[c] = NoChan /\ srv[c].st = "none"
    /\ IF state = "session"
         THEN /\ chan' = [chan EXCEPT ![c] = [NoChan EXCEPT !.type = "dormant", !.s = TRUE]]
              /\ Send(<<Pkt("port_open", c)>>)
              /\ UNCHANGED <<state, why>>
         ELSE End("accept", "crashed") /\ UNCHANGED <<chan, toServer>>
    /\ UNCHANGED <<phase, enabled, count, leaked, inHand, toClient, srv, sizes>>

\* The local socket ends (pfd_closing or x11_closing, and sshfwd_close).
LocalClose(c) ==
    /\ Idle /\ state = "session" /\ chan[c].s
    /\ chan' = [chan EXCEPT ![c].s = FALSE, ![c].sent = {"close"}, ![c].buffered = 0]
    /\ Send(IF chan[c].type # "dormant" THEN <<Pkt("close", c)>> ELSE <<>>)
    /\ UNCHANGED <<phase, state, why, enabled, count, leaked, inHand, toClient, srv, sizes>>

\* Data from the local socket, which is frozen until the channel is confirmed.
LocalData(c) ==
    /\ Idle /\ state = "session" /\ chan[c].s /\ chan[c].type \in {"sock", "x11"}
    /\ Len(toServer) < MaxQueue
    /\ Send(<<Pkt("data", c)>>)
    /\ UNCHANGED <<client, inHand, toClient, srv, sizes>>

\* Mutant: any channel whose backlog is small gives a share back.
ReleasesAll(c, size) == size < Limit

Releases(c, size) == chan[c].throttling /\ size < Limit

\* The local socket takes some of its backlog (pfd_sent, sshfwd_unthrottle).
LocalSent(c) ==
    /\ Idle /\ state = "session" /\ chan[c].buffered > 0
    /\ \E size \in 0 .. chan[c].buffered - 1 :
        /\ chan' = [chan EXCEPT ![c].buffered = size, ![c].throttling = @ /\ ~Releases(c, size)]
        /\ count' = IF Releases(c, size) THEN count - 1 ELSE count
    /\ UNCHANGED <<phase, state, why, enabled, leaked, inHand, toClient, toServer, srv, sizes>>

-----------------------------------------------------------------------------
ToClient(ps) == toClient' = toClient \o ps
Room == Len(toClient) < MaxQueue
Running == state \in {"setup", "session"}

\* The server reads one packet.  It answers requests and opens, and returns
\* either closing packet once; a channel is forgotten when all four are through.
SrvRecv ==
    /\ Running /\ toServer # <<>> /\ toServer' = Tail(toServer)
    /\ LET p == Head(toServer)
           old == srv[p.c]
           new == [old EXCEPT !.got = @ \cup {p.t}, !.sent = @ \cup {p.t}]
       IN  CASE p.t \in {Order[i] : i \in DOMAIN Order} ->
                  UNCHANGED srv /\ \E t \in {"success", "failure"} : ToClient(<<Pkt(t, None)>>)
             [] p.t = "exec" -> srv' = srv /\ toClient' = toClient
             [] p.t = "port_open" ->
                  \/ srv' = [srv EXCEPT ![p.c].st = "open"] /\ ToClient(<<Pkt("open_confirmation", p.c)>>)
                  \/ srv' = srv /\ ToClient(<<Pkt("open_failure", p.c)>>)
             [] p.t = "open_confirmation" -> srv' = [srv EXCEPT ![p.c].st = "open"] /\ UNCHANGED toClient
             [] p.t = "open_failure" -> srv' = [srv EXCEPT ![p.c].st = "none"] /\ UNCHANGED toClient
             [] p.t \in Close ->
                  /\ srv' = [srv EXCEPT ![p.c] = IF new.got = Close /\ new.sent = Close
                                                   THEN [st |-> "none", sent |-> {}, got |-> {}] ELSE new]
                  /\ ToClient(IF p.t \in old.sent THEN <<>> ELSE <<Pkt(p.t, p.c)>>)
             [] OTHER -> UNCHANGED <<srv, toClient>>
    /\ UNCHANGED <<client, inHand, sizes>>

\* The server opens a channel for something it granted (it may do so as soon
\* as it has granted it).
SrvOpen(c) ==
    /\ Running /\ Room /\ srv[c].st = "none" /\ chan[c] = NoChan
    /\ \A i \in DOMAIN toClient : toClient[i].c # c
    /\ \A i \in DOMAIN toServer : toServer[i].c # c
    /\ \E t \in {"agent_open", "x11_open", "port_open"} :
        /\ (IF t = "agent_open" THEN "agent" \in enabled
            ELSE IF t = "x11_open" THEN "x11" \in enabled
            ELSE "remote" \in Options /\ phase > 4)
        /\ ToClient(<<Pkt(t, c)>>)
    /\ srv' = [srv EXCEPT ![c].st = "opening"]
    /\ UNCHANGED <<client, inHand, toServer, sizes>>

SrvData(c) ==
    /\ Running /\ Room /\ srv[c].st = "open" /\ srv[c].sent = {}
    /\ \E n \in 1..2 : ToClient([i \in 1..n |-> Pkt("data", c)])
    /\ UNCHANGED <<client, inHand, toServer, srv, sizes>>

SrvClose(c, t) ==
    /\ Running /\ srv[c].st = "open" /\ t \notin srv[c].sent
    /\ IF t = "close" THEN Room ELSE "close" \in srv[c].got
    /\ srv' = [srv EXCEPT ![c].sent = @ \cup {t}]
    /\ ToClient(<<Pkt(t, c)>>)
    /\ UNCHANGED <<client, inHand, toServer, sizes>>

SrvExit ==
    /\ Running /\ Room /\ state = "session" /\ toClient = <<>>
    /\ \E t \in {"exit_status", "success"} : ToClient(<<Pkt(t, None)>>)
    /\ UNCHANGED <<client, inHand, toServer, srv, sizes>>

OnPacket == \/ OnSetupPacket \/ OnOpen \/ OnOpenConfirmation \/ OnOpenFailure
            \/ OnClose \/ OnData \/ OnOther

Next ==
    \/ Start \/ Resize \/ Recv \/ OnPacket
    \/ SrvRecv \/ SrvExit
    \/ \E c \in Conn :
        \/ Accept(c) \/ LocalClose(c) \/ LocalData(c) \/ LocalSent(c)
        \/ SrvOpen(c) \/ SrvData(c) \/ \E t \in Close : SrvClose(c, t)

\* The client handles what it has read and reads on, local sockets drain and
\* the server answers.
Fairness ==
    /\ WF_vars(Recv) /\ WF_vars(OnPacket) /\ WF_vars(SrvRecv)
    /\ \A c \in Conn : WF_vars(LocalSent(c)) /\ WF_vars(SrvClose(c, "confirmation"))

Spec == Init /\ [][Next]_vars /\ Fairness

-----------------------------------------------------------------------------
TypeOK ==
    /\ phase \in 0..7 /\ state \in {"setup", "session", "closed", "crashed"}
    /\ why \in {"none", "confusion", "bad_close", "exit", "accept"}
    /\ enabled \subseteq {"agent", "x11"} /\ chan \in [Conn -> ChanType]
    /\ count \in Nat /\ leaked \in Nat /\ inHand \in 0 .. Len(toClient)
    /\ srv \in [Conn -> [st: {"none", "opening", "open"}, sent: SUBSET Close, got: SUBSET Close]]
    /\ termSize \in 0..1 /\ ptySize \in -1..1 /\ sizeNeeded \in BOOLEAN

\* However closes cross, the client never meets a CHANNEL_CLOSE or a
\* confirmation for a channel it has freed or that is half open, which would
\* end the session with an error.
NoBadClose == why # "bad_close"

\* A structure outlives what the server may still say about the channel.
ServerKnown == \A c \in Conn : srv[c].st = "open" /\ srv[c].sent # Close => chan[c].type # "none"

\* v1_throttle_count counts the channels that throttle and those that were
\* freed while they did, so ssh1_throttle's assertion holds and the socket is
\* frozen no longer than that.
ThrottleCounted == count = Cardinality({c \in Conn : chan[c].throttling}) + leaked

\* Once the session runs, the server knows the size of the terminal, however
\* the set-up requests and the resizes were ordered.
SizeKnown == state = "session" /\ "pty" \in Options => ptySize = termSize

\* A channel whose socket went while it throttled: nobody gives its share back.
Stuck == leaked > 0 \/ \E c \in Conn : chan[c].throttling /\ ~chan[c].s

\* A frozen SSH connection is read again, unless a share was lost.
Thaws == Frozen ~> (~Frozen \/ Stuck \/ state # "session")

\* A channel that either end closed is freed.
ClosedIsFreed ==
    \A c \in Conn : (chan[c].sent # {} /\ chan[c].type # "none")
                       ~> (chan[c] = NoChan \/ Stuck \/ state # "session")
=============================================================================
