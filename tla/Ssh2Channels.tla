---------------------------- MODULE Ssh2Channels ----------------------------
(***************************************************************************)
(* The life of the channels of one SSH-2 connection: opened from either    *)
(* side, confirmed or refused, closed by a two-way CHANNEL_CLOSE, their    *)
(* numbers reused; the local sockets they serve; and the end of the        *)
(* connection.  Flow control is left to Ssh2Window and Ssh2Throttle.       *)
(*                                                                         *)
(* A channel structure is named by the connection it serves, so c in       *)
(* channels means that the structure has not been freed.  Pointers to it   *)
(* are the plug of its local socket (plug[c]), an agent query (query[c])   *)
(* and ssh->mainchan, which is always Main.  s[c] is the pointer back to   *)
(* the socket.  Every message carries, for the properties only, the        *)
(* connection it is about (of).                                            *)
(*                                                                         *)
(* Init is the moment the main session channel is open.  SetupRequests     *)
(* channel requests (x11-req, auth-agent-req, pty-req, shell) are still to *)
(* be answered, while the local listeners already accept.                  *)
(***************************************************************************)
EXTENDS Integers, Sequences, FiniteSets

CONSTANTS
    Conn,           \* forwarded connections, from either side
    Main,           \* the terminal session
    SetupRequests,  \* requests to be answered before SSH_STATE_SESSION
    AgentFwd,       \* ssh->agentfwd_enabled
    Resizes,        \* the terminal is resized (and the pty was requested)
    MaxQueue        \* bound of the model: unprompted messages and agent replies wait for room

Chan == Conn \cup {Main}

ASSUME ConstAssumption ==
    /\ Main \notin Conn /\ IsFiniteSet(Conn)
    /\ SetupRequests \in Nat /\ MaxQueue \in Nat /\ MaxQueue > 0
    /\ AgentFwd \in BOOLEAN /\ Resizes \in BOOLEAN

VARIABLES
    state,      \* ssh->state; "crashed" if memory safety was lost
    awaited,    \* set-up requests not answered yet
    channels,   \* ssh->channels
    localid, remoteid, type, closes,  \* fields of each channel structure
    s,          \* c->u.pfd.s or c->u.x11.s is not NULL
    plug,       \* the local socket: "none", "open" or "closed"
    query,      \* an agent query of this channel is in another thread
    c2s, s2c,   \* messages in flight
    srv,        \* the server's channel table
    srvOwes     \* the server has a set-up request to answer

local == <<localid, remoteid, type, closes, s, plug, query>>
client == <<state, awaited, channels, local>>
server == <<srv, srvOwes>>
vars == <<client, c2s, s2c, server>>

Id == 0 .. Cardinality(Conn)
HalfOpen == -1      \* remoteid of a channel that is not confirmed

Msg(kind, id, from, c) == [kind |-> kind, id |-> id, from |-> from, of |-> c]
To(kind, id, c) == Msg(kind, id, HalfOpen, c)

Lowest(used) == CHOOSE i \in Id : i \notin used /\ \A j \in Id : j < i => j \in used

Init ==
    /\ state = IF SetupRequests = 0 THEN "session" ELSE "setup"
    /\ awaited = SetupRequests
    /\ channels = {Main}
    /\ localid = [c \in Chan |-> 0]
    /\ remoteid = [c \in Chan |-> IF c = Main THEN 0 ELSE HalfOpen]
    /\ type = [c \in Chan |-> IF c = Main THEN "main" ELSE "none"]
    /\ closes = [c \in Chan |-> 0]
    /\ s = [c \in Chan |-> FALSE] /\ plug = [c \in Chan |-> "none"]
    /\ query = [c \in Chan |-> FALSE]
    /\ c2s = IF SetupRequests = 0 THEN <<>> ELSE <<To("request", 0, Main)>>
    /\ s2c = <<>>
    /\ srv = [c \in Chan |-> [st |-> IF c = Main THEN "open" ELSE "none",
                              sid |-> 0, peer |-> 0, sentClose |-> FALSE, gotClose |-> FALSE]]
    /\ srvOwes = FALSE

-----------------------------------------------------------------------------
\* alloc_channel_id, see ChannelId.
NewId == Lowest({localid[c] : c \in channels})

Send(m) == c2s' = Append(c2s, m)
Room == Len(c2s) < MaxQueue

\* The rank of c in the tree cs, which is sorted by localid.
Rank(cs, c) == Cardinality({d \in cs : localid[d] < localid[c]})

\* What the loop of ssh_do_close leaves of the tree cs: it deletes element i
\* and goes on with element i + 1.
Survivors(cs) == {c \in cs : Rank(cs, c) % 2 = 1}

\* ssh_do_close, once or twice in a row.  It leaves a socket of a channel that
\* is not confirmed alone.
DoClose(passes) ==
    LET left == IF passes = 1 THEN Survivors(channels) ELSE Survivors(Survivors(channels))
        shut == {c \in channels \ left : type[c] = "sock" /\ s[c]}
    IN  /\ state' = "closed" /\ channels' = left
        /\ plug' = [c \in Chan |-> IF c \in shut THEN "closed" ELSE plug[c]]
        /\ c2s' = <<>> /\ s2c' = <<>>
        /\ UNCHANGED <<awaited, localid, remoteid, type, closes, s, query, server>>

\* bombout, called while a packet is handled: ssh_receive runs ssh_do_close again.
Bombout == DoClose(2)

\* Reading through a dangling pointer: anything may happen.
Crash ==
    /\ state' = "crashed"
    /\ UNCHANGED <<awaited, channels, local, c2s, s2c, server>>

\* The SSH connection fails or the server closes it: ssh_closing.
SshClosing == state \in {"setup", "session"} /\ DoClose(1)

-----------------------------------------------------------------------------
\* pfd_accepting, new_sock_channel and ssh_send_port_open (after the SOCKS
\* exchange if the forwarding is dynamic).  The listeners outlive the
\* connection, whose socket is then NULL.
Accept(c) ==
    /\ type[c] = "none" /\ srv[c].st = "none"
    /\ \/ /\ state \in {"setup", "session"}
          /\ channels' = channels \cup {c}
          /\ localid' = [localid EXCEPT ![c] = NewId]
          /\ remoteid' = [remoteid EXCEPT ![c] = HalfOpen]
          /\ type' = [type EXCEPT ![c] = "dormant"]
          /\ s' = [s EXCEPT ![c] = TRUE] /\ plug' = [plug EXCEPT ![c] = "open"]
          /\ Send(Msg("open", HalfOpen, NewId, c))
          /\ UNCHANGED <<state, awaited, closes, query, s2c, server>>
       \/ state = "closed" /\ Crash

\* Mutant: the structure is freed as soon as CHANNEL_CLOSE is sent.
FwdCloseAndFree(c) ==
    IF state = "session" /\ closes[c] = 0
      THEN /\ IF remoteid[c] # HalfOpen THEN Send(To("close", remoteid[c], c)) ELSE UNCHANGED c2s
           /\ closes' = [closes EXCEPT ![c] = 1]
           /\ s' = [s EXCEPT ![c] = FALSE]
           /\ channels' = channels \ {c}
      ELSE UNCHANGED <<channels, c2s, closes, s>>

\* Mutant: c->closes counts, and is not looked at.
FwdCloseTwice(c) ==
    /\ UNCHANGED channels
    /\ IF state = "session"
         THEN /\ IF remoteid[c] # HalfOpen THEN Send(To("close", remoteid[c], c)) ELSE UNCHANGED c2s
              /\ closes' = [closes EXCEPT ![c] = @ + 1]
              /\ s' = [s EXCEPT ![c] = FALSE]
         ELSE UNCHANGED <<c2s, closes, s>>

\* sshfwd_close.
FwdClose(c) ==
    /\ UNCHANGED channels
    /\ IF state = "session" /\ closes[c] = 0
         THEN /\ IF remoteid[c] # HalfOpen THEN Send(To("close", remoteid[c], c)) ELSE UNCHANGED c2s
              /\ closes' = [closes EXCEPT ![c] = 1]
              /\ s' = [s EXCEPT ![c] = FALSE]
         ELSE UNCHANGED <<c2s, closes, s>>

\* The local socket closes or fails: pfd_closing, x11_closing.
LocalClosing(c) ==
    /\ state # "crashed" /\ plug[c] = "open"
    /\ \/ /\ plug' = [plug EXCEPT ![c] = "closed"]
          /\ FwdClose(c)
          /\ UNCHANGED <<state, awaited, localid, remoteid, type, query, s2c, server>>
       \/ c \notin channels /\ Crash

\* pfd_receive, x11_receive on a confirmed channel.
LocalData(c) ==
    /\ state = "session" /\ plug[c] = "open" /\ type[c] = "sock" /\ Room
    /\ Send(To("data", remoteid[c], c))
    /\ UNCHANGED <<client, s2c, server>>

\* ssh_send.  If the main channel has been freed, the data go into the freed
\* buffer and nowhere else.
MainInput ==
    /\ state = "session" /\ Room
    /\ Main \in channels /\ Send(To("data", remoteid[Main], Main))
    /\ UNCHANGED <<client, s2c, server>>

\* ssh_size, ssh_special: a request through ssh->mainchan, freed or not.
Resize ==
    /\ Resizes /\ state = "session" /\ Room
    /\ Send(To("resize", remoteid[Main], Main))
    /\ UNCHANGED <<client, s2c, server>>

\* The agent answers: ssh_agentf_callback on the structure it was given.
AgentReply(c) ==
    /\ state # "crashed" /\ query[c] /\ Room
    /\ \/ /\ query' = [query EXCEPT ![c] = FALSE]
          /\ \/ state = "session" /\ Send(To("answer", remoteid[c], c))
             \/ UNCHANGED c2s
          /\ UNCHANGED <<state, awaited, channels, localid, remoteid, type, closes, s, plug,
                         s2c, server>>
       \/ (c \notin channels \/ state = "closed") /\ Crash

-----------------------------------------------------------------------------
\* find234 with ssh_channelfind.
Found(id) == {c \in channels : localid[c] = id}

\* ssh_gotdata up to the coroutine, for a packet of this kind.
Receive(kind) ==
    /\ state = "session" /\ s2c # <<>> /\ Head(s2c).kind = kind
    /\ s2c' = Tail(s2c)

\* The answer to the oldest set-up request; the last one starts the shell.
RecvReply ==
    /\ state = "setup" /\ s2c # <<>>
    /\ IF Head(s2c).kind = "reply"
         THEN /\ s2c' = Tail(s2c) /\ awaited' = awaited - 1
              /\ IF awaited = 1
                   THEN state' = "session" /\ UNCHANGED c2s
                   ELSE UNCHANGED state /\ Send(To("request", remoteid[Main], Main))
              /\ UNCHANGED <<channels, local, server>>
         ELSE Bombout  \* "Unexpected response to ... request"

\* CHANNEL_DATA.  An agent channel hands a complete message to agent_query.
RecvData ==
    /\ Receive("data")
    /\ \/ query' = [c \in Chan |-> query[c] \/ (c \in Found(Head(s2c).id) /\ type[c] = "agent")]
       \/ UNCHANGED query
    /\ UNCHANGED <<state, awaited, channels, localid, remoteid, type, closes, s, plug, c2s, server>>

\* CHANNEL_EOF: x11_close or pfd_close, and sshfwd_close.
RecvEof ==
    /\ Receive("eof")
    /\ \/ \E c \in Found(Head(s2c).id) :
            /\ type[c] \in {"sock", "agent"}
            /\ plug' = [plug EXCEPT ![c] = IF s[c] THEN "closed" ELSE @]
            /\ FwdClose(c)
       \/ /\ \A c \in Found(Head(s2c).id) : type[c] \notin {"sock", "agent"}
          /\ UNCHANGED <<channels, plug, c2s, closes, s>>
    /\ UNCHANGED <<state, awaited, localid, remoteid, type, query, server>>

\* Mutant: the answering CHANNEL_CLOSE does not look at c->closes.
RecvCloseAgain ==
    /\ state = "session" /\ s2c # <<>> /\ Head(s2c).kind = "close"
    /\ \E c \in Found(Head(s2c).id) :
         /\ remoteid[c] # HalfOpen
         /\ IF channels = {c}
              THEN DoClose(1)
              ELSE /\ channels' = channels \ {c}
                   /\ Send(To("close", remoteid[c], c))
                   /\ closes' = [closes EXCEPT ![c] = 1]
                   /\ plug' = [plug EXCEPT ![c] = IF s[c] THEN "closed" ELSE @]
                   /\ s' = [s EXCEPT ![c] = FALSE]
                   /\ s2c' = Tail(s2c)
                   /\ UNCHANGED <<state, awaited, localid, remoteid, type, query, server>>

\* CHANNEL_CLOSE: the socket is closed, CHANNEL_CLOSE answered unless it was
\* sent before, the structure freed, and the connection with the last one.
RecvClose ==
    /\ state = "session" /\ s2c # <<>> /\ Head(s2c).kind = "close"
    /\ LET found == {c \in Found(Head(s2c).id) : remoteid[c] # HalfOpen}
       IN  IF found = {}
             THEN Bombout
             ELSE \E c \in found :
                    IF channels = {c}
                      THEN DoClose(1)
                      ELSE /\ channels' = channels \ {c}
                           /\ IF closes[c] = 0 THEN Send(To("close", remoteid[c], c)) ELSE UNCHANGED c2s
                           /\ closes' = [closes EXCEPT ![c] = 1]
                           /\ plug' = [plug EXCEPT ![c] = IF s[c] THEN "closed" ELSE @]
                           /\ s' = [s EXCEPT ![c] = FALSE]
                           /\ s2c' = Tail(s2c)
                           /\ UNCHANGED <<state, awaited, localid, remoteid, type, query, server>>

\* s[c] was left behind by a socket that has been freed.
Dangling(c) == s[c] /\ plug[c] # "open"

\* Mutant: no CHANNEL_CLOSE for a close that was decided earlier.
RecvConfirmNoPendingClose ==
    /\ Receive("confirm")
    /\ \E c \in Found(Head(s2c).id) :
         /\ type[c] = "dormant" /\ ~Dangling(c)
         /\ remoteid' = [remoteid EXCEPT ![c] = Head(s2c).from]
         /\ type' = [type EXCEPT ![c] = "sock"]
         /\ \/ s[c] /\ closes[c] = 0 /\ Send(To("data", Head(s2c).from, c))
            \/ UNCHANGED c2s
         /\ UNCHANGED <<state, awaited, channels, localid, closes, s, plug, query, server>>

\* CHANNEL_OPEN_CONFIRMATION: pfd_confirm may have data to send that came with
\* the SOCKS request; a close decided before the confirmation is sent now.
RecvConfirm ==
    \/ /\ Receive("confirm")
       /\ \E c \in Found(Head(s2c).id) :
            /\ type[c] = "dormant" /\ ~Dangling(c)
            /\ remoteid' = [remoteid EXCEPT ![c] = Head(s2c).from]
            /\ type' = [type EXCEPT ![c] = "sock"]
            /\ \/ s[c] /\ closes[c] = 0 /\ Send(To("data", Head(s2c).from, c))
               \/ closes[c] = 0 /\ UNCHANGED c2s
               \/ closes[c] = 1 /\ Send(To("close", Head(s2c).from, c))
            /\ UNCHANGED <<state, awaited, channels, localid, closes, s, plug, query, server>>
    \/ /\ state = "session" /\ s2c # <<>> /\ Head(s2c).kind = "confirm"
       /\ \E c \in Found(Head(s2c).id) : type[c] = "dormant" /\ Dangling(c)
       /\ Crash

\* Mutant: the socket of a refused connection is left open.
RecvFailureKeepsSocket ==
    /\ Receive("failure")
    /\ \E c \in Found(Head(s2c).id) :
         /\ type[c] = "dormant"
         /\ channels' = channels \ {c}
         /\ UNCHANGED <<plug, state, awaited, local, c2s, server>>

\* CHANNEL_OPEN_FAILURE.
RecvFailure ==
    \/ /\ Receive("failure")
       /\ \E c \in Found(Head(s2c).id) :
            /\ type[c] = "dormant" /\ ~Dangling(c)
            /\ plug' = [plug EXCEPT ![c] = IF s[c] THEN "closed" ELSE @]
            /\ channels' = channels \ {c}
       /\ UNCHANGED <<state, awaited, localid, remoteid, type, closes, s, query, c2s, server>>
    \/ /\ state = "session" /\ s2c # <<>> /\ Head(s2c).kind = "failure"
       /\ \E c \in Found(Head(s2c).id) : type[c] = "dormant" /\ Dangling(c)
       /\ Crash

\* CHANNEL_OPEN: refused, or a local connection (pfd_newconnect, x11_init) or
\* an agent channel is made.
RecvOpen ==
    /\ Receive("open")
    /\ LET c == Head(s2c).of
           sid == Head(s2c).from
       IN  \/ /\ Send(To("failure", sid, c))
              /\ UNCHANGED <<channels, local>>
           \/ \E kind \in {"sock"} \cup (IF AgentFwd THEN {"agent"} ELSE {}) :
                /\ channels' = channels \cup {c}
                /\ localid' = [localid EXCEPT ![c] = NewId]
                /\ remoteid' = [remoteid EXCEPT ![c] = sid]
                /\ type' = [type EXCEPT ![c] = kind]
                /\ s' = [s EXCEPT ![c] = (kind = "sock")]
                /\ plug' = [plug EXCEPT ![c] = IF kind = "sock" THEN "open" ELSE @]
                /\ Send(Msg("confirm", sid, NewId, c))
                /\ UNCHANGED <<closes, query>>
    /\ UNCHANGED <<state, awaited, server>>

-----------------------------------------------------------------------------
\* The server: any that keeps to the protocol.  It numbers its channels with
\* the lowest number free at its end.
Tell(m) == s2c' = Append(s2c, m)
SrvRoom == Len(s2c) < MaxQueue

Taken == {srv[c].sid : c \in {d \in Chan : srv[d].st \in {"asked", "open"}}}

\* The server's channel with number sid, if it has one.
SrvChannel(sid) == {c \in Chan : srv[c].st \in {"asked", "open"} /\ srv[c].sid = sid}

SrvRecv ==
    /\ c2s # <<>> /\ c2s' = Tail(c2s)
    /\ LET m == Head(c2s)
       IN  \/ /\ m.kind = "open"
              /\ srv' = [srv EXCEPT ![m.of].st = "wanted", ![m.of].peer = m.from]
              /\ UNCHANGED srvOwes
           \/ /\ m.kind = "confirm"
              /\ srv' = [c \in Chan |-> IF c \in SrvChannel(m.id)
                                          THEN [srv[c] EXCEPT !.st = "open", !.peer = m.from] ELSE srv[c]]
              /\ UNCHANGED srvOwes
           \/ /\ m.kind = "failure"
              /\ srv' = [c \in Chan |-> IF c \in SrvChannel(m.id)
                                          THEN [srv[c] EXCEPT !.st = "gone"] ELSE srv[c]]
              /\ UNCHANGED srvOwes
           \/ /\ m.kind = "close"
              /\ srv' = [c \in Chan |->
                           IF c \in SrvChannel(m.id)
                             THEN [srv[c] EXCEPT !.gotClose = TRUE,
                                                 !.st = IF srv[c].sentClose THEN "gone" ELSE @]
                             ELSE srv[c]]
              /\ UNCHANGED srvOwes
           \/ /\ m.kind = "request"
              /\ srvOwes' = (srvOwes \/ awaited > 0) /\ UNCHANGED srv
           \/ m.kind \in {"data", "answer", "resize"} /\ UNCHANGED server
    /\ UNCHANGED <<client, s2c>>

SrvReply ==
    /\ srvOwes /\ srvOwes' = FALSE
    /\ Tell(To("reply", 0, Main))
    /\ UNCHANGED <<client, c2s, srv>>

SrvConfirm(c) ==
    /\ srv[c].st = "wanted"
    /\ srv' = [srv EXCEPT ![c].st = "open", ![c].sid = Lowest(Taken)]
    /\ Tell(Msg("confirm", srv[c].peer, Lowest(Taken), c))
    /\ UNCHANGED <<client, c2s, srvOwes>>

SrvRefuse(c) ==
    /\ srv[c].st = "wanted"
    /\ srv' = [srv EXCEPT ![c].st = "gone"]
    /\ Tell(To("failure", srv[c].peer, c))
    /\ UNCHANGED <<client, c2s, srvOwes>>

SrvOpen(c) ==
    /\ state \in {"setup", "session"} /\ SrvRoom
    /\ srv[c].st = "none" /\ type[c] = "none"
    /\ srv' = [srv EXCEPT ![c].st = "asked", ![c].sid = Lowest(Taken)]
    /\ Tell(Msg("open", HalfOpen, Lowest(Taken), c))
    /\ UNCHANGED <<client, c2s, srvOwes>>

SrvSend(c) ==
    /\ state \in {"setup", "session"} /\ SrvRoom
    /\ srv[c].st = "open" /\ ~srv[c].sentClose /\ ~srvOwes
    /\ \E kind \in {"data", "eof"} : Tell(To(kind, srv[c].peer, c))
    /\ UNCHANGED <<client, c2s, server>>

SrvClose(c) ==
    /\ srv[c].st = "open" /\ ~srv[c].sentClose /\ ~srvOwes
    /\ srv' = [srv EXCEPT ![c].sentClose = TRUE, ![c].st = IF srv[c].gotClose THEN "gone" ELSE @]
    /\ Tell(To("close", srv[c].peer, c))
    /\ UNCHANGED <<client, c2s, srvOwes>>

ClientRecv ==
    RecvReply \/ RecvData \/ RecvEof \/ RecvClose \/ RecvConfirm \/ RecvFailure \/ RecvOpen

Live == state \in {"setup", "session"}

Next ==
    \/ SshClosing \/ MainInput \/ Resize \/ ClientRecv
    \/ \E c \in Conn : Accept(c) \/ LocalClosing(c) \/ LocalData(c) \/ AgentReply(c)
    \/ Live /\ \/ SrvRecv \/ SrvReply
               \/ \E c \in Chan : SrvConfirm(c) \/ SrvRefuse(c) \/ SrvSend(c) \/ SrvClose(c)
               \/ \E c \in Conn : SrvOpen(c)

\* The network delivers both ways; the server answers opens, set-up requests
\* and CHANNEL_CLOSE.
Fairness ==
    /\ WF_vars(ClientRecv)
    /\ WF_vars(Live /\ SrvRecv)
    /\ WF_vars(Live /\ SrvReply)
    /\ \A c \in Chan : WF_vars(Live /\ (SrvConfirm(c) \/ SrvRefuse(c)))
    /\ \A c \in Chan : WF_vars(Live /\ srv[c].gotClose /\ SrvClose(c))

Spec == Init /\ [][Next]_vars /\ Fairness
-----------------------------------------------------------------------------
\* Type invariant.
TypeOK ==
    /\ state \in {"setup", "session", "closed", "crashed"}
    /\ awaited \in 0 .. SetupRequests
    /\ channels \subseteq Chan
    /\ localid \in [Chan -> Id] /\ remoteid \in [Chan -> Id \cup {HalfOpen}]
    /\ type \in [Chan -> {"none", "main", "dormant", "sock", "agent"}]
    /\ closes \in [Chan -> {0, 1}]
    /\ s \in [Chan -> BOOLEAN] /\ plug \in [Chan -> {"none", "open", "closed"}]
    /\ query \in [Chan -> BOOLEAN] /\ srvOwes \in BOOLEAN

Numbered == {"confirm", "failure", "data", "eof", "close"}

\* A message from the server reaches the channel it was meant for, although
\* channel numbers are reused: a number is free again only after the last
\* message to its old owner.
DeliveredToOwner ==
    (state = "session" /\ s2c # <<>> /\ Head(s2c).kind \in Numbered) =>
        Found(Head(s2c).id) = {Head(s2c).of}

\* A message to the server names a channel the server has and on which we
\* have not sent CHANNEL_CLOSE: nothing follows it, and it is sent only once.
\* The answer of an agent and a resize are the exceptions: the code sends them
\* whatever has become of the channel.
ServerKnowsChannel ==
    (Live /\ c2s # <<>> /\ Head(c2s).kind \in {"data", "close", "request"}) =>
        LET m == Head(c2s)
        IN  SrvChannel(m.id) = {m.of} /\ srv[m.of].st = "open" /\ ~srv[m.of].gotClose

\* In both directions, whatever the order in which the ends close: no message ever reaches a
\* channel it was not meant for.
MessagesFindOwner == DeliveredToOwner /\ ServerKnowsChannel

\* An open local socket and its channel point at each other.
SocketsMatchChannels ==
    state = "session" => \A c \in Conn :
        (plug[c] = "open") <=> (c \in channels /\ s[c])

\* A channel we have closed is freed in the end, so its number comes back, and
\* a server that closes a channel gets its answer.
ClosesEnd ==
    /\ \A c \in Conn : (c \in channels /\ closes[c] = 1) ~> (c \notin channels \/ ~Live)
    /\ \A c \in Chan : srv[c].sentClose ~> (srv[c].st = "gone" \/ ~Live)

\* "Now we must shut down any port and X forwardings going through this
\* connection" (ssh.c:2099).
ForwardingsShut == state = "closed" => \A c \in Conn : plug[c] # "open"
=============================================================================
