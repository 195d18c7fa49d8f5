----------------------------- MODULE Ssh2Window -----------------------------
(***************************************************************************)
(* The receive window of one open SSH-2 forwarded channel: data from the   *)
(* server, through PuTTY's CHANNEL_DATA handler, into the local socket's   *)
(* output buffer, and the WINDOW_ADJUST messages that flow back.           *)
(*                                                                         *)
(* Three parties share the byte counts: the server (srvWin, what it may    *)
(* still send), the connection (dataFlight and adjFlight, bytes of         *)
(* CHANNEL_DATA and of window credit on the wire: the order of messages of *)
(* one kind does not matter to a count) and PuTTY (locwindow, backlog).    *)
(* The local socket is a winnet.c socket: writable, or waiting for         *)
(* FD_WRITE with the rest of its data in output_data.                      *)
(***************************************************************************)
EXTENDS Integers

CONSTANTS
    WinSize,  \* OUR_V2_WINSIZE
    Word,     \* number of unsigned int values
    Preload   \* bytes PuTTY itself put in the socket before any channel data:
              \* 0, or a SOCKS reply the kernel has not taken yet

ASSUME ConstAssumption ==
    /\ WinSize \in Nat /\ WinSize > 0 /\ Word \in Nat /\ Preload \in Nat
    /\ 2 * WinSize + Preload < Word

VARIABLES
    closes,      \* c->closes: 1 once we have sent CHANNEL_CLOSE
    locwindow,   \* c->v.v2.locwindow
    backlog,     \* bufchain_size of the socket's output_data
    writable,    \* s->writable
    srvWin,      \* the server's count of what it may send
    srvDone,     \* the server has sent CHANNEL_EOF
    dataFlight,  \* CHANNEL_DATA bytes on the wire
    adjFlight    \* WINDOW_ADJUST credit on the wire

vars == <<closes, locwindow, backlog, writable, srvWin, srvDone, dataFlight, adjFlight>>

USub(a, b) == IF b <= a THEN a - b ELSE a - b + Word

\* The channel has just been confirmed, in either direction: we granted
\* OUR_V2_WINSIZE and the other end knows it.
Init ==
    /\ closes = 0 /\ locwindow = WinSize
    /\ backlog = Preload /\ writable = (Preload = 0)
    /\ srvWin = WinSize /\ srvDone = FALSE
    /\ dataFlight = 0 /\ adjFlight = 0

-----------------------------------------------------------------------------
\* Mutant: the new window is sent whole, not as an increment.
SetWindowWhole(window, newwin) ==
    IF closes = 0 /\ newwin > window
      THEN locwindow' = newwin /\ adjFlight' = adjFlight + newwin
      ELSE locwindow' = window /\ adjFlight' = adjFlight

\* Mutant: the increment is computed the wrong way round.
SetWindowSwapped(window, newwin) ==
    IF closes = 0 /\ newwin > window
      THEN locwindow' = newwin /\ adjFlight' = adjFlight + (window - newwin)
      ELSE locwindow' = window /\ adjFlight' = adjFlight

\* ssh2_set_window, for a channel whose locwindow has reached the value window.
SetWindow(window, newwin) ==
    IF closes = 0 /\ newwin > window
      THEN locwindow' = newwin /\ adjFlight' = adjFlight + (newwin - window)
      ELSE locwindow' = window /\ adjFlight' = adjFlight

\* sk_tcp_write of n bytes: buffered, then offered to the kernel if the
\* socket is writable; a short send makes it wait for FD_WRITE.
SkWrite(n) ==
    \E sent \in 0 .. backlog + n :
        /\ ~writable => sent = 0
        /\ backlog' = backlog + n - sent
        /\ writable' = (writable /\ backlog' = 0)

\* Mutant: the handler grants the full window whatever is still buffered.
ReceiveDataFullWindow(n) ==
    /\ n \in 1 .. dataFlight
    /\ dataFlight' = dataFlight - n
    /\ IF closes = 0 THEN SkWrite(n) ELSE UNCHANGED <<backlog, writable>>
    /\ SetWindow(USub(locwindow, n), WinSize)
    /\ UNCHANGED <<closes, srvWin, srvDone>>

\* SSH2_MSG_CHANNEL_DATA with n bytes: pfd_send or x11_send, which return 0
\* when the socket is already gone, then the window is enlarged again if less
\* than OUR_V2_WINSIZE is buffered.
ReceiveData(n) ==
    /\ n \in 1 .. dataFlight
    /\ dataFlight' = dataFlight - n
    /\ IF closes = 0 THEN SkWrite(n) ELSE UNCHANGED <<backlog, writable>>
    /\ IF backlog' < WinSize
         THEN SetWindow(USub(locwindow, n), WinSize - backlog')
         ELSE locwindow' = USub(locwindow, n) /\ UNCHANGED adjFlight
    /\ UNCHANGED <<closes, srvWin, srvDone>>

\* Mutant: the plug is not told that the socket drained.
SocketWritableSilent(sent) ==
    /\ closes = 0 /\ ~writable /\ sent \in 0 .. backlog
    /\ backlog' = backlog - sent
    /\ writable' = (backlog' = 0)
    /\ UNCHANGED <<closes, locwindow, adjFlight, srvWin, srvDone, dataFlight>>

\* FD_WRITE: try_send, then plug_sent with what is left if anything went.
\* pfd_sent and x11_sent pass it to sshfwd_unthrottle, which computes
\* OUR_V2_WINSIZE - bufsize as an unsigned int.
SocketWritable(sent) ==
    /\ closes = 0 /\ ~writable /\ sent \in 0 .. backlog
    /\ backlog' = backlog - sent
    /\ writable' = (backlog' = 0)
    /\ IF sent > 0
         THEN SetWindow(locwindow, USub(WinSize, backlog'))
         ELSE UNCHANGED <<locwindow, adjFlight>>
    /\ UNCHANGED <<closes, srvWin, srvDone, dataFlight>>

\* sshfwd_close with the socket closed and its unsent output discarded: the
\* local end closed or failed (pfd_closing), or the server's CHANNEL_EOF,
\* which comes after its data, was handled.
CloseChannel ==
    /\ closes = 0
    /\ closes' = 1 /\ backlog' = 0 /\ writable' = FALSE
    /\ UNCHANGED <<locwindow, srvWin, srvDone, dataFlight, adjFlight>>

LocalClosing == CloseChannel

ReceiveEof == srvDone /\ dataFlight = 0 /\ CloseChannel

-----------------------------------------------------------------------------
\* The server: it sends within its window and takes our adjustments in.
ServerSend(n) ==
    /\ ~srvDone /\ n \in 1 .. srvWin
    /\ srvWin' = srvWin - n /\ dataFlight' = dataFlight + n
    /\ UNCHANGED <<closes, locwindow, backlog, writable, srvDone, adjFlight>>

ServerAdjust(n) ==
    /\ n \in 1 .. adjFlight
    /\ srvWin' = srvWin + n /\ adjFlight' = adjFlight - n
    /\ UNCHANGED <<closes, locwindow, backlog, writable, srvDone, dataFlight>>

ServerEof ==
    /\ ~srvDone /\ srvDone' = TRUE
    /\ UNCHANGED <<closes, locwindow, backlog, writable, srvWin, dataFlight, adjFlight>>

Next ==
    \/ \E n \in 1 .. WinSize : ReceiveData(n) \/ ServerSend(n)
    \/ \E n \in 1 .. adjFlight : ServerAdjust(n)
    \/ \E sent \in 0 .. backlog : SocketWritable(sent)
    \/ LocalClosing \/ ReceiveEof \/ ServerEof

\* The network delivers, the server processes what it receives and the local
\* application keeps reading: FD_WRITE is posted whenever the kernel has
\* taken some of the backlog.
Fairness ==
    /\ WF_vars(\E n \in 1 .. WinSize : ReceiveData(n))
    /\ WF_vars(\E n \in 1 .. adjFlight : ServerAdjust(n))
    /\ WF_vars(\E sent \in 1 .. backlog : SocketWritable(sent))

Spec == Init /\ [][Next]_vars /\ Fairness

-----------------------------------------------------------------------------
\* Type invariant.
TypeOK ==
    /\ closes \in {0, 1} /\ writable \in BOOLEAN /\ srvDone \in BOOLEAN
    /\ locwindow \in 0 .. Word - 1
    /\ backlog \in Nat /\ srvWin \in Nat /\ dataFlight \in Nat /\ adjFlight \in Nat

\* The two ends agree: what we think the server may still send is what it
\* thinks, plus what is on the wire in either direction. So a server that
\* keeps to its window never overruns ours, and locwindow -= length
\* (ssh.c do_ssh2_authconn, CHANNEL_DATA) never wraps.
WindowsAgree == srvWin + dataFlight + adjFlight = locwindow

\* Backlog on the socket is paid for out of the window: the two together
\* never exceed OUR_V2_WINSIZE, which bounds the memory one channel can use
\* and keeps OUR_V2_WINSIZE - bufsize in sshfwd_unthrottle from wrapping.
BacklogPaidFor == closes = 0 => backlog + locwindow <= WinSize

\* "OUR_V2_WINSIZE is the maximum window size we present on SSH2 channels"
\* (ssh.c:351).
WindowPresented == locwindow <= WinSize

\* The server is never left without window while the channel is open: every
\* byte the local application takes is granted again.
ServerNotStarved ==
    (closes = 0 /\ ~srvDone /\ srvWin = 0) ~> (closes = 1 \/ srvDone \/ srvWin > 0)
=============================================================================
