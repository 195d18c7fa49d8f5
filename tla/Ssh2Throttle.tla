---------------------------- MODULE Ssh2Throttle ----------------------------
(***************************************************************************)
(* The other direction of an SSH-2 forwarded connection: data read from    *)
(* local sockets, through the per-channel output buffers and the server's  *)
(* window, into the one SSH connection, and the freezing of local sockets  *)
(* that keeps those buffers small.  Two things freeze a local socket:      *)
(*   - throttled: its own channel has unsent data (pfd_receive, x11_receive);*)
(*   - override: the SSH connection itself has backed up (ssh_throttle_all).*)
(*                                                                         *)
(* A channel goes from "none" through either                               *)
(*   "dormant"  accepted locally, CHANNEL_OPEN sent, not confirmed yet, or *)
(*   "socks"    accepted by a dynamic forwarding, SOCKS exchange going on, *)
(* to "open", and to "gone" when its socket is closed; or straight to open *)
(* when the server opened it.  The closing handshake is Ssh2Channels.      *)
(* Data are counted in units; a packet costs 1 .. MaxCost units on the SSH *)
(* connection (headers, padding, compression).                             *)
(***************************************************************************)
EXTENDS Integers, FiniteSets

CONSTANTS
    Channel,     \* the forwarded channels
    MaxBacklog,  \* SSH_MAX_BACKLOG
    MaxCost,     \* largest packet, in units of the SSH connection
    MaxQueue,    \* bound of the model: the SSH backlog is not counted past it
    MaxRead,     \* most units one read from a local socket returns
    MaxWindow    \* bound of the model on the server's window

ASSUME ConstAssumption ==
    /\ IsFiniteSet(Channel)
    /\ MaxBacklog \in Nat /\ MaxBacklog > 0
    /\ MaxCost \in Nat /\ MaxCost > 0
    /\ MaxRead \in Nat /\ MaxRead > 0
    /\ MaxWindow \in Nat /\ MaxWindow > 0
    /\ MaxQueue \in Nat /\ MaxQueue > MaxBacklog

VARIABLES
    type,         \* see above
    throttled,    \* PFwdPrivate.throttled
    override,     \* PFwdPrivate.throttle_override
    frozen,       \* Actual_Socket.frozen of the local socket
    held,         \* units left over from the SOCKS exchange (PFwdPrivate.buffer)
    outbuffer,    \* c->v.v2.outbuffer
    remwindow,    \* c->v.v2.remwindow
    backlog,      \* output_data of the SSH socket
    throttledAll  \* ssh->throttled_all

sockvars == <<throttled, override, frozen, held>>
vars == <<type, throttled, override, frozen, held, outbuffer, remwindow, backlog, throttledAll>>

Init ==
    /\ type = [c \in Channel |-> "none"]
    /\ throttled = [c \in Channel |-> FALSE]
    /\ override = [c \in Channel |-> FALSE]
    /\ frozen = [c \in Channel |-> FALSE]
    /\ held = [c \in Channel |-> 0]
    /\ outbuffer = [c \in Channel |-> 0]
    /\ remwindow = [c \in Channel |-> 0]
    /\ backlog = 0 /\ throttledAll = FALSE

-----------------------------------------------------------------------------
Min(a, b) == IF a <= b THEN a ELSE b

\* The possible backlogs of the SSH socket after k more packets: the kernel
\* takes any part of the output while nothing waits for FD_WRITE, else none.
BacklogAfter(b, k) ==
    \E cost \in k .. k * MaxCost :
        \/ backlog = 0 /\ b \in 0 .. Min(cost, MaxQueue)
        \/ backlog > 0 /\ b = Min(backlog + cost, MaxQueue)

\* Whether a packet that leaves backlog b makes ssh2_pkt_send throttle all.
Chokes(b) == b > MaxBacklog /\ ~throttledAll

\* throttle_override of every channel of types t after ssh2_pkt_send left b.
OverrideAfter(b, t) ==
    [c \in Channel |-> IF Chokes(b) /\ t[c] = "open" THEN TRUE ELSE override[c]]

\* The freezing that goes with it, from the frozen flags f.
FrozenAfter(b, t, f) ==
    [c \in Channel |-> IF Chokes(b) /\ t[c] = "open" THEN TRUE ELSE f[c]]

\* ssh2_pkt_send, k times, leaving the SSH socket with backlog b.  The caller
\* computes frozen' from FrozenAfter.
PktsSend(k, b, t) ==
    /\ BacklogAfter(b, k)
    /\ backlog' = b
    /\ throttledAll' = (throttledAll \/ Chokes(b))
    /\ override' = OverrideAfter(b, t)

PktSend(b, t) == PktsSend(1, b, t)

NothingSent == UNCHANGED <<backlog, throttledAll, override>>

-----------------------------------------------------------------------------
\* pfd_accepting of an ordinary forwarding: the registered socket stays
\* frozen, new_sock_channel and ssh_send_port_open.
Accept(c) ==
    /\ type[c] = "none"
    /\ type' = [type EXCEPT ![c] = "dormant"]
    /\ \E b \in 0 .. MaxQueue :
         /\ PktSend(b, type')
         /\ frozen' = FrozenAfter(b, type', [frozen EXCEPT ![c] = TRUE])
    /\ UNCHANGED <<throttled, held, outbuffer, remwindow>>

\* pfd_accepting of a dynamic forwarding: "we want to receive SOCKS _now_!"
AcceptDynamic(c) ==
    /\ type[c] = "none"
    /\ type' = [type EXCEPT ![c] = "socks"]
    /\ UNCHANGED <<throttled, override, frozen, held, outbuffer, remwindow, backlog, throttledAll>>

\* The connect: label of pfd_receive: the SOCKS request is complete, rest
\* units came in the same read.
SocksConnect(c, rest) ==
    /\ type[c] = "socks"
    /\ type' = [type EXCEPT ![c] = "dormant"]
    /\ held' = [held EXCEPT ![c] = rest]
    /\ \E b \in 0 .. MaxQueue :
         /\ PktSend(b, type')
         /\ frozen' = FrozenAfter(b, type', [frozen EXCEPT ![c] = TRUE])
    /\ UNCHANGED <<throttled, outbuffer, remwindow>>

\* Mutant: the window does not limit what is sent.
SendableUnlimited(buf, win) == buf

\* ssh2_try_send for a channel whose buffer and window hold buf and win.
Sendable(buf, win) == Min(buf, win)

\* Mutant: the channel is confirmed without thawing its socket.
ConfirmFrozen(c, win) ==
    /\ type[c] = "dormant"
    /\ type' = [type EXCEPT ![c] = "open"]
    /\ held' = [held EXCEPT ![c] = 0]
    /\ LET sent == Sendable(held[c], win)
       IN  /\ outbuffer' = [outbuffer EXCEPT ![c] = held[c] - sent]
           /\ remwindow' = [remwindow EXCEPT ![c] = win - sent]
           /\ \/ /\ sent > 0
                 /\ \E b \in 0 .. MaxQueue :
                      PktSend(b, type') /\ frozen' = FrozenAfter(b, type', frozen)
              \/ sent = 0 /\ NothingSent /\ frozen' = frozen
    /\ UNCHANGED throttled

\* CHANNEL_OPEN_CONFIRMATION: the channel becomes CHAN_SOCKDATA, and
\* pfd_confirm thaws the socket and writes what was held.  What
\* sshfwd_write returns is ignored here.
Confirm(c, win) ==
    /\ type[c] = "dormant"
    /\ type' = [type EXCEPT ![c] = "open"]
    /\ held' = [held EXCEPT ![c] = 0]
    /\ LET sent == Sendable(held[c], win)
           thawed == [frozen EXCEPT ![c] = FALSE]
       IN  /\ outbuffer' = [outbuffer EXCEPT ![c] = held[c] - sent]
           /\ remwindow' = [remwindow EXCEPT ![c] = win - sent]
           /\ \/ /\ sent > 0
                 /\ \E b \in 0 .. MaxQueue :
                      PktSend(b, type') /\ frozen' = FrozenAfter(b, type', thawed)
              \/ sent = 0 /\ NothingSent /\ frozen' = thawed
    /\ UNCHANGED throttled

\* CHANNEL_OPEN from the server: pfd_newconnect or x11_init, then the
\* confirmation.
RemoteOpen(c, win) ==
    /\ type[c] = "none"
    /\ type' = [type EXCEPT ![c] = "open"]
    /\ remwindow' = [remwindow EXCEPT ![c] = win]
    /\ \E b \in 0 .. MaxQueue :
         PktSend(b, type') /\ frozen' = FrozenAfter(b, type', frozen)
    /\ UNCHANGED <<throttled, held, outbuffer>>

\* Mutant: pfd_receive does not freeze the socket.
LocalDataUnfrozen(c, n) ==
    /\ type[c] = "open" /\ ~frozen[c] /\ n \in 1 .. MaxRead
    /\ LET sent == Sendable(outbuffer[c] + n, remwindow[c])
           left == outbuffer[c] + n - sent
       IN  /\ outbuffer' = [outbuffer EXCEPT ![c] = left]
           /\ remwindow' = [remwindow EXCEPT ![c] = @ - sent]
           /\ throttled' = [throttled EXCEPT ![c] = @ \/ left > 0]
           /\ \/ /\ sent > 0
                 /\ \E b \in 0 .. MaxQueue :
                      PktSend(b, type) /\ frozen' = FrozenAfter(b, type, frozen)
              \/ sent = 0 /\ NothingSent /\ frozen' = frozen
    /\ UNCHANGED <<type, held>>

\* FD_READ of n units on a local socket that is not frozen: pfd_receive or
\* x11_receive calls sshfwd_write, and the socket is frozen if anything stays
\* in the channel's buffer.
LocalData(c, n) ==
    /\ type[c] = "open" /\ ~frozen[c] /\ n \in 1 .. MaxRead
    /\ LET sent == Sendable(outbuffer[c] + n, remwindow[c])
           left == outbuffer[c] + n - sent
           stop(f) == [f EXCEPT ![c] = @ \/ left > 0]
       IN  /\ outbuffer' = [outbuffer EXCEPT ![c] = left]
           /\ remwindow' = [remwindow EXCEPT ![c] = @ - sent]
           /\ throttled' = stop(throttled)
           /\ \/ /\ sent > 0
                 /\ \E b \in 0 .. MaxQueue :
                      PktSend(b, type) /\ frozen' = stop(FrozenAfter(b, type, frozen))
              \/ sent = 0 /\ NothingSent /\ frozen' = stop(frozen)
    /\ UNCHANGED <<type, held>>

\* Mutant: pfd_unthrottle leaves throttled set.
UnthrottleForgets(t, left, c) == t[c]

\* pfd_unthrottle for the channels the try_send loop leaves empty.
Unthrottle(t, left, c) == t[c] /\ ~(type[c] = "open" /\ left[c] = 0)

\* The try_send loop of do_ssh2_authconn over every channel, with main packets
\* of the terminal session: window is remwindow, with the growth of one window.
TrySendAll(window, main) ==
    LET sent == [c \in Channel |-> IF type[c] = "open" THEN Sendable(outbuffer[c], window[c]) ELSE 0]
        left == [c \in Channel |-> outbuffer[c] - sent[c]]
        pkts == main + Cardinality({c \in Channel : sent[c] > 0})
        thaw(f) == [c \in Channel |-> IF type[c] = "open" /\ left[c] = 0
                                        THEN override'[c] ELSE f[c]]
    IN  /\ outbuffer' = left
        /\ remwindow' = [c \in Channel |-> window[c] - sent[c]]
        /\ throttled' = [c \in Channel |-> Unthrottle(throttled, left, c)]
        /\ \/ /\ pkts > 0
              /\ \E b \in 0 .. MaxQueue :
                   PktsSend(pkts, b, type) /\ frozen' = thaw(FrozenAfter(b, type, frozen))
           \/ pkts = 0 /\ NothingSent /\ frozen' = thaw(frozen)

\* CHANNEL_WINDOW_ADJUST.  It is ignored for a channel that is closing.
WindowAdjust(c, n) ==
    /\ type[c] = "open" /\ n > 0 /\ remwindow[c] + n <= MaxWindow
    /\ TrySendAll([remwindow EXCEPT ![c] = @ + n], 0)
    /\ UNCHANGED <<type, held>>

\* Terminal input: a packet for the main session, and the try_send loop.
MainSessionInput == TrySendAll(remwindow, 1) /\ UNCHANGED <<type, held>>

\* Mutant: ssh_sent unthrottles whatever is left to send.
SshWritableTooSoon(n) ==
    /\ n \in 1 .. backlog
    /\ backlog' = backlog - n
    /\ throttledAll' = FALSE
    /\ override' = [c \in Channel |-> override[c] /\ ~(throttledAll /\ type[c] = "open")]
    /\ frozen' = [c \in Channel |-> IF throttledAll /\ type[c] = "open" THEN throttled[c] ELSE frozen[c]]
    /\ UNCHANGED <<type, throttled, held, outbuffer, remwindow>>

\* FD_WRITE on the SSH socket: n units go, and ssh_sent is told what is left.
SshWritable(n) ==
    /\ n \in 1 .. backlog
    /\ backlog' = backlog - n
    /\ LET thaw == throttledAll /\ backlog' < MaxBacklog
       IN  /\ throttledAll' = (throttledAll /\ ~thaw)
           /\ override' = [c \in Channel |-> override[c] /\ ~(thaw /\ type[c] = "open")]
           /\ frozen' = [c \in Channel |-> IF thaw /\ type[c] = "open" THEN throttled[c] ELSE frozen[c]]
    /\ UNCHANGED <<type, throttled, held, outbuffer, remwindow>>

\* FD_CLOSE on a local socket: select_result reads what is left of its input
\* whether it is frozen or not (n units), then pfd_closing.  An open channel
\* sends what it can of the data and then CHANNEL_CLOSE; pfd_receive drops
\* the data of a channel that is not confirmed, which has nothing to close yet.
LocalClose(c, n) ==
    /\ type[c] \in {"socks", "dormant", "open"}
    /\ type' = [type EXCEPT ![c] = "gone"]
    /\ IF type[c] = "open"
         THEN LET sent == Sendable(outbuffer[c] + n, remwindow[c])
              IN  /\ outbuffer' = [outbuffer EXCEPT ![c] = @ + n - sent]
                  /\ remwindow' = [remwindow EXCEPT ![c] = @ - sent]
                  /\ \E b \in 0 .. MaxQueue :
                       /\ PktsSend(IF sent > 0 THEN 2 ELSE 1, b, type)
                       /\ frozen' = FrozenAfter(b, type, frozen)
         ELSE NothingSent /\ UNCHANGED <<outbuffer, remwindow, frozen>>
    /\ UNCHANGED <<throttled, held>>

\* The channel structure is freed (or the socket, if it never had one) and
\* the slot can serve another connection.
Release(c) ==
    /\ type[c] = "gone"
    /\ type' = [type EXCEPT ![c] = "none"]
    /\ throttled' = [throttled EXCEPT ![c] = FALSE]
    /\ override' = [override EXCEPT ![c] = FALSE]
    /\ frozen' = [frozen EXCEPT ![c] = FALSE]
    /\ held' = [held EXCEPT ![c] = 0]
    /\ outbuffer' = [outbuffer EXCEPT ![c] = 0]
    /\ remwindow' = [remwindow EXCEPT ![c] = 0]
    /\ UNCHANGED <<backlog, throttledAll>>

Next ==
    \/ \E c \in Channel :
         \/ Accept(c) \/ AcceptDynamic(c) \/ Release(c)
         \/ \E n \in 0 .. MaxRead : SocksConnect(c, n) \/ LocalClose(c, n)
         \/ \E win \in 0 .. MaxWindow : Confirm(c, win) \/ RemoteOpen(c, win)
         \/ \E n \in 1 .. MaxRead : LocalData(c, n)
         \/ \E n \in 1 .. MaxWindow : WindowAdjust(c, n)
    \/ MainSessionInput
    \/ \E n \in 1 .. backlog : SshWritable(n)

\* The server keeps granting window to an open channel, and the network
\* takes the whole SSH backlog again and again.
Fairness ==
    /\ \A c \in Channel : WF_vars(\E n \in 1 .. MaxWindow : WindowAdjust(c, n))
    /\ WF_vars(SshWritable(backlog))

Spec == Init /\ [][Next]_vars /\ Fairness
-----------------------------------------------------------------------------
\* Type invariant.
TypeOK ==
    /\ type \in [Channel -> {"none", "socks", "dormant", "open", "gone"}]
    /\ throttled \in [Channel -> BOOLEAN]
    /\ override \in [Channel -> BOOLEAN]
    /\ frozen \in [Channel -> BOOLEAN]
    /\ held \in [Channel -> 0 .. MaxRead]
    /\ outbuffer \in [Channel -> Nat]
    /\ remwindow \in [Channel -> 0 .. MaxWindow]
    /\ backlog \in 0 .. MaxQueue
    /\ throttledAll \in BOOLEAN

Open(c) == type[c] = "open"

\* Everything is stopped exactly while the SSH connection is backed up:
\* above SSH_MAX_BACKLOG always, below it never, so that ssh_sent, which is
\* only called when the backlog shrinks, always finds the way back.
ThrottleMatchesBacklog ==
    /\ backlog > MaxBacklog => throttledAll
    /\ throttledAll => backlog >= MaxBacklog

\* A frozen socket has somebody left to thaw it: either its own channel has
\* data waiting for window, so a WINDOW_ADJUST runs the try_send loop over it,
\* or the connection is throttled and ssh_sent will call pfd_override_throttle.
FrozenForAReason ==
    \A c \in Channel : (Open(c) /\ frozen[c]) =>
        \/ throttled[c] /\ outbuffer[c] > 0 /\ remwindow[c] = 0
        \/ override[c] /\ throttledAll

\* No channel sits on data it could send: the loops that send look at every
\* channel whose window or buffer can have grown.
NothingHeldBack ==
    \A c \in Channel : Open(c) => outbuffer[c] = 0 \/ remwindow[c] = 0

\* A local sender cannot make PuTTY buffer without limit: one channel holds
\* at most what one read returned on top of what SOCKS left over.
BufferBounded ==
    \A c \in Channel : Open(c) => outbuffer[c] <= 2 * MaxRead

\* "Throttle or unthrottle _all_ local data streams (for when sends on the
\* SSH connection itself back up)" (ssh.c:2228).
AllThrottled ==
    throttledAll => \A c \in Channel : Open(c) => frozen[c]

\* Every frozen socket of an open channel is read from again, or closed.
SocketThaws ==
    \A c \in Channel : (Open(c) /\ frozen[c]) ~> (~frozen[c] \/ ~Open(c))
=============================================================================
