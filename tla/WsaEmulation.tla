---------------------------- MODULE WsaEmulation ----------------------------
(***************************************************************************)
(* The Windows CE build has no WSAAsyncSelect: do_select makes a thread    *)
(* for each socket that polls it and sends WM_NETEVENT to the window.      *)
(* This module has these threads, the window's thread with its message     *)
(* loop, the dialogs a backend shows while it handles an event, and the    *)
(* ways a session ends.                                                    *)
(*                                                                         *)
(* Sockets are numbered in the order they are opened, and a thread has the *)
(* number of its socket: 0 is the connection of the session, the others    *)
(* are connections a forwarding makes (x11_init, pfd_newconnect).          *)
(*                                                                         *)
(* frames is the stack of the window's thread: the calls into a backend    *)
(* that have not returned.  All but the last show a dialog; dialog says    *)
(* whether the last one does too, that is, whether messages are pumped.    *)
(***************************************************************************)
EXTENDS Integers, Sequences, FiniteSets

CONSTANTS
    Last,       \* sockets are 0 .. Last
    MaxDialogs, \* bound of the model: dialogs shown in a session
    MaxErrors   \* bound of the model: failing writes in a session

ASSUME ConstAssumption == Last \in Nat /\ MaxDialogs \in Nat /\ MaxErrors \in Nat

Socket == 0 .. Last
None == -1
Window == -2        \* in closing: the window is destroyed

VARIABLES
    sock,       \* "none", "open" or "closed"
    readable,   \* FIONREAD is not 0
    frozen, pendingError,   \* fields of Actual_Socket
    thread,     \* where the thread of a socket is
    gTerminate, \* g_bTerminate
    handle,     \* g_hWSAEmulationThread
    pending,    \* pending_netevent and its socket
    frames, dialog,
    closing,    \* what ShutdownWSAEmulationThread was called for, or None
    sessionClosed,  \* session_closed
    app,        \* "running", "exited", or "aborted" by fatalbox
    dialogs, errors \* dialogs and failing writes so far

network == <<sock, readable, frozen, pendingError>>
threads == <<thread, gTerminate, handle>>
window == <<pending, frames, dialog, closing, sessionClosed>>
vars == <<network, threads, window, app, dialogs, errors>>

Call(via, of, own, caller) == [via |-> via, of |-> of, own |-> own, caller |-> caller]

Init ==
    /\ sock = [i \in Socket |-> IF i = 0 THEN "open" ELSE "none"]
    /\ readable = [i \in Socket |-> FALSE]
    /\ frozen = [i \in Socket |-> FALSE]
    /\ pendingError = [i \in Socket |-> FALSE]
    /\ thread = [i \in Socket |-> IF i = 0 THEN "created" ELSE "none"]
    /\ gTerminate = FALSE /\ handle = 0
    /\ pending = None /\ frames = <<>> /\ dialog = FALSE
    /\ closing = None /\ sessionClosed = FALSE
    /\ app = "running" /\ dialogs = 0 /\ errors = 0

Running == app = "running"
Goto(t, pc) == thread' = [thread EXCEPT ![t] = pc]

-----------------------------------------------------------------------------
\* WSAAsyncEmulationThreadProc.
ThreadStart(t) ==
    /\ Running /\ thread[t] = "created"
    /\ gTerminate' = FALSE /\ Goto(t, "check")
    /\ UNCHANGED <<network, handle, window, app, dialogs, errors>>

ThreadCheck(t) ==
    /\ Running /\ thread[t] = "check"
    /\ Goto(t, IF gTerminate THEN "done" ELSE "poll")
    /\ UNCHANGED <<network, gTerminate, handle, window, app, dialogs, errors>>

\* SendMessage returns only when the window's thread has handled the message;
\* ioctlsocket on a closed socket is an error, and fatalbox exits.
ThreadPoll(t) ==
    /\ Running /\ thread[t] = "poll"
    /\ IF sock[t] = "open"
         THEN Goto(t, IF readable[t] THEN "send" ELSE "check") /\ UNCHANGED app
         ELSE app' = "aborted" /\ UNCHANGED thread
    /\ UNCHANGED <<network, gTerminate, handle, window, dialogs, errors>>

-----------------------------------------------------------------------------
\* The window's thread runs a message loop, WinMain's or that of a dialog.
Pumping == Running /\ closing = None /\ (frames = <<>> \/ dialog)
InBackend == Running /\ closing = None /\ frames # <<>> /\ ~dialog
Top == frames[Len(frames)]

\* The flag of enact_pending_netevent.
Reentering == \E i \in 1 .. Len(frames) : frames[i].via = "event"

Push(call) == frames' = Append(frames, call) /\ dialog' = FALSE

\* FD_READ in select_result: nothing is done for a closed or frozen socket.
Receives(i) == sock[i] = "open" /\ ~frozen[i]
SelectResult(fs, i, own, caller) ==
    /\ readable' = [readable EXCEPT ![i] = @ /\ ~Receives(i)]
    /\ frames' = Append(fs, Call("event", IF Receives(i) THEN i ELSE None, own, caller))
    /\ dialog' = FALSE

\* Mutant: enact_pending_netevent does not look at its flag.
NetEventAlways(t) ==
    /\ Pumping /\ thread[t] = "send" /\ \A k \in 1 .. Len(frames) : frames[k].caller # t
    /\ pending' = None
    /\ SelectResult(frames, t, None, t)
    /\ UNCHANGED <<sock, frozen, pendingError, threads, closing, sessionClosed, app, dialogs, errors>>

\* WM_NETEVENT: an event that is still pending comes first, the new one (own)
\* after it; while an event is being handled the new one is kept as pending.
NetEvent(t) ==
    /\ Pumping /\ thread[t] = "send" /\ \A k \in 1 .. Len(frames) : frames[k].caller # t
    /\ IF Reentering
         THEN /\ pending' = t /\ Goto(t, "check")
              /\ UNCHANGED <<readable, frames, dialog>>
         ELSE /\ pending' = None
              /\ IF pending = None THEN SelectResult(frames, t, None, t)
                                   ELSE SelectResult(frames, pending, t, t)
              /\ UNCHANGED thread
    /\ UNCHANGED <<sock, frozen, pendingError, gTerminate, handle, closing, sessionClosed,
                   app, dialogs, errors>>

\* The message loop and WM_TIMER enact what was kept.
EnactPending ==
    /\ Pumping /\ pending # None /\ ~Reentering
    /\ pending' = None /\ SelectResult(frames, pending, None, None)
    /\ UNCHANGED <<sock, frozen, pendingError, threads, closing, sessionClosed, app, dialogs, errors>>

\* net_pending_errors, called by WM_TIMER: plug_closing.
NetPendingErrors(i) ==
    /\ Pumping /\ Len(frames) < 2 /\ pendingError[i]
    /\ Push(Call("error", i, None, None))
    /\ UNCHANGED <<network, threads, pending, closing, sessionClosed, app, dialogs, errors>>

\* A key is typed: ldisc_send, and the backend's send.  The dialogs have no
\* owner window, so this can happen while one is open.
Input ==
    /\ Pumping /\ Len(frames) < 2 /\ sock[0] = "open"
    /\ Push(Call("input", 0, None, None))
    /\ UNCHANGED <<network, threads, pending, closing, sessionClosed, app, dialogs, errors>>

-----------------------------------------------------------------------------
\* The backend, while its frame is on top.  It only acts if it was called.
Acts == InBackend /\ Top.of # None

\* Mutant: the thread of the other socket is told to stop.
OpenSocketAlone ==
    /\ Acts /\ Top.via = "event" /\ Top.of = 0
    /\ \E i \in Socket :
         /\ sock[i] = "none" /\ i > 0 /\ sock[i - 1] # "none"
         /\ sock' = [sock EXCEPT ![i] = "open"] /\ Goto(i, "created") /\ handle' = i
    /\ gTerminate' = TRUE
    /\ UNCHANGED <<readable, frozen, pendingError, window, app, dialogs, errors>>

\* A packet makes a connection: sk_new and do_select(s, 1).  The handle of the thread before is only closed.
OpenSocket ==
    /\ Acts /\ Top.via = "event" /\ Top.of = 0
    /\ \E i \in Socket :
         /\ sock[i] = "none" /\ i > 0 /\ sock[i - 1] # "none"
         /\ sock' = [sock EXCEPT ![i] = "open"] /\ Goto(i, "created") /\ handle' = i
    /\ UNCHANGED <<readable, frozen, pendingError, gTerminate, window, app, dialogs, errors>>

\* p_closesocket after do_select(s, 0).
Closed(i) ==
    /\ sock' = [sock EXCEPT ![i] = "closed"]
    /\ readable' = [readable EXCEPT ![i] = FALSE]
    /\ pendingError' = [pendingError EXCEPT ![i] = FALSE]
    /\ UNCHANGED frozen

\* ShutdownWSAEmulationThread up to its wait, if there is a handle.
Shutdown(what) ==
    /\ handle # None
    /\ gTerminate' = TRUE /\ closing' = what
    /\ UNCHANGED <<network, thread, handle, app>>

\* sk_tcp_close.
CloseSocket(i) ==
    /\ Acts /\ sock[i] = "open"
    /\ \/ Shutdown(i)
       \/ handle = None /\ Closed(i) /\ UNCHANGED <<threads, closing, app>>
    /\ UNCHANGED <<pending, frames, dialog, sessionClosed, dialogs, errors>>

\* sk_set_frozen.
SetFrozen(i) ==
    /\ Acts /\ sock[i] = "open"
    /\ frozen' = [frozen EXCEPT ![i] = ~@]
    /\ UNCHANGED <<sock, readable, pendingError, threads, window, app, dialogs, errors>>

\* A send in sk_tcp_write fails.
WriteFails(i) ==
    /\ Acts /\ sock[i] = "open" /\ ~pendingError[i] /\ errors < MaxErrors
    /\ pendingError' = [pendingError EXCEPT ![i] = TRUE] /\ errors' = errors + 1
    /\ UNCHANGED <<sock, readable, frozen, threads, window, app, dialogs>>

\* A dialog: a host key to be confirmed, a warning, an error.  If the answer is
\* no the program exits.
ShowDialog ==
    /\ Acts /\ dialogs < MaxDialogs
    /\ dialog' = TRUE /\ dialogs' = dialogs + 1
    /\ UNCHANGED <<network, threads, pending, frames, closing, sessionClosed, app, errors>>

EndDialog ==
    /\ Running /\ closing = None /\ dialog /\ dialog' = FALSE
    /\ app' \in {"running", "exited"}
    /\ UNCHANGED <<network, threads, pending, frames, closing, sessionClosed, dialogs, errors>>

\* The call returns.  plug_closing has closed its socket.  After the event that
\* was pending WM_NETEVENT goes on with its own; at its end SendMessage returns.
\* A session that ended is marked as closed.
Return ==
    /\ InBackend
    /\ (Top.via = "error" => sock[Top.of] = "closed")
    /\ LET below == SubSeq(frames, 1, Len(frames) - 1)
           caller == Top.caller
       IN  IF Top.own # None
             THEN /\ pending' = None
                  /\ SelectResult(below, Top.own, None, caller)
                  /\ UNCHANGED thread
             ELSE /\ frames' = below /\ dialog' = (below # <<>>)
                  /\ thread' = [t \in Socket |-> IF t = caller /\ thread[t] = "send"
                                                   THEN "check" ELSE thread[t]]
                  /\ UNCHANGED <<readable, pending>>
    /\ sessionClosed' = (sessionClosed \/ (Top.via = "event" /\ Top.of = 0 /\ sock[0] = "closed"))
    /\ UNCHANGED <<sock, frozen, pendingError, gTerminate, handle, closing, app, dialogs, errors>>

-----------------------------------------------------------------------------
\* WM_CLOSE and WM_DESTROY: PostQuitMessage and ShutdownWSAEmulationThread.
\* The message loop then ends, and cleanup_exit exits.
DestroyWindow ==
    /\ Pumping
    /\ \/ Shutdown(Window)
       \/ handle = None /\ app' = "exited" /\ UNCHANGED <<network, threads, closing>>
    /\ UNCHANGED <<pending, frames, dialog, sessionClosed, dialogs, errors>>

\* Mutant: the handle is closed but not forgotten.
StoppedKeepsHandle ==
    /\ sessionClosed' = TRUE /\ closing' = None
    /\ IF closing = Window
         THEN app' = "exited" /\ UNCHANGED network
         ELSE Closed(closing) /\ UNCHANGED app
    /\ UNCHANGED <<handle, gTerminate, pending, frames, dialog, dialogs, errors>>

\* What follows the wait.
Stopped ==
    /\ handle' = None /\ sessionClosed' = TRUE /\ closing' = None
    /\ IF closing = Window
         THEN app' = "exited" /\ UNCHANGED network
         ELSE Closed(closing) /\ UNCHANGED app
    /\ UNCHANGED <<gTerminate, pending, frames, dialog, dialogs, errors>>

WaitDone ==
    /\ Running /\ closing # None /\ thread[handle] = "done"
    /\ Stopped /\ UNCHANGED thread

\* Mutant: the thread is left alone after the timeout.
WaitTimeoutNoKill ==
    /\ Running /\ closing # None /\ thread[handle] # "done"
    /\ Stopped /\ UNCHANGED thread

\* Mutant: no timeout.
WaitForever ==
    /\ Running /\ closing # None /\ thread[handle] = "done"
    /\ Stopped /\ Goto(handle, "killed")

\* Four seconds have passed: TerminateThread.
WaitTimeout ==
    /\ Running /\ closing # None /\ thread[handle] # "done"
    /\ Stopped /\ Goto(handle, "killed")

-----------------------------------------------------------------------------
DataArrives(i) ==
    /\ Running /\ sock[i] = "open" /\ ~readable[i]
    /\ readable' = [readable EXCEPT ![i] = TRUE]
    /\ UNCHANGED <<sock, frozen, pendingError, threads, window, app, dialogs, errors>>

ThreadStep(t) == ThreadStart(t) \/ ThreadCheck(t) \/ ThreadPoll(t)
Wait == WaitDone \/ WaitTimeout

Next ==
    \/ \E i \in Socket : ThreadStep(i) \/ NetEvent(i) \/ NetPendingErrors(i)
                         \/ CloseSocket(i) \/ SetFrozen(i) \/ WriteFails(i) \/ DataArrives(i)
    \/ EnactPending \/ Input \/ OpenSocket \/ ShowDialog \/ EndDialog \/ Return
    \/ DestroyWindow \/ Wait

\* Threads run; sent messages are handled in the order they were sent; timer
\* messages come; the user answers dialogs; backends return, and plug_closing
\* closes its socket; the wait ends.
Fairness ==
    /\ \A t \in Socket : WF_vars(ThreadStep(t)) /\ SF_vars(NetEvent(t))
    /\ SF_vars(EnactPending) /\ SF_vars(EndDialog) /\ WF_vars(Return) /\ WF_vars(Wait)
    /\ WF_vars(Acts /\ Top.via = "error" /\ CloseSocket(Top.of))

Spec == Init /\ [][Next]_vars /\ Fairness
-----------------------------------------------------------------------------
Live == {"created", "check", "poll", "send"}

Calls == [via : {"event", "error", "input"}, of : Socket \cup {None},
          own : Socket \cup {None}, caller : Socket \cup {None}]

\* Type invariant; g_hWSAEmulationThread is 0 or the handle of a thread that
\* has not been terminated.
TypeOK ==
    /\ sock \in [Socket -> {"none", "open", "closed"}]
    /\ readable \in [Socket -> BOOLEAN] /\ frozen \in [Socket -> BOOLEAN]
    /\ pendingError \in [Socket -> BOOLEAN]
    /\ thread \in [Socket -> Live \cup {"none", "done", "killed"}]
    /\ gTerminate \in BOOLEAN /\ handle \in Socket \cup {None}
    /\ handle # None => thread[handle] \in Live \cup {"done"}
    /\ pending \in Socket \cup {None}
    /\ frames \in Seq(Calls)
    /\ dialog \in BOOLEAN /\ closing \in Socket \cup {None, Window}
    /\ sessionClosed \in BOOLEAN /\ app \in {"running", "exited", "aborted"}
    /\ dialogs \in 0 .. MaxDialogs /\ errors \in 0 .. MaxErrors

\* The thread of a closed socket has stopped (otherwise its next poll aborts
\* the program), unless another socket was opened after it and took its place
\* in g_hWSAEmulationThread.
ClosedIsNotPolled ==
    \A i \in Socket : (sock[i] = "closed" /\ thread[i] \in Live) =>
        \E j \in Socket : j > i /\ sock[j] # "none"

\* Events are handled one at a time: select_result is not called from a dialog
\* that select_result has led to.
OneEventAtATime ==
    \A i, j \in 1 .. Len(frames) :
        frames[i].via = "event" /\ frames[j].via = "event" => i = j

\* As long as no socket has been closed, what arrives is read, unless the
\* socket is frozen: also what arrives during a dialog, whose event may be
\* overwritten in the one place for a pending event.
DataRead ==
    \A i \in Socket :
        (sock[i] = "open" /\ readable[i]) ~>
            \/ ~readable[i] \/ frozen[i] \/ ~Running
            \/ \E j \in Socket : closing # None \/ sock[j] = "closed"

\* A thread waits for the window in SendMessage while the window waits for the
\* thread; the window gets out of it.
WaitEnds == (closing # None) ~> (closing = None \/ ~Running)

\* Both: nothing that arrives waits for good, and nor does the window.
NothingWaits == DataRead /\ WaitEnds

\* do_select is to "Set up, or shut down, an AsyncSelect" for the socket it is
\* given (window.c:1030): the connection of the session is polled until it is
\* closed itself.
SelectedUntilClosed ==
    (Running /\ closing = None /\ sock[0] = "open") => thread[0] \in Live
=============================================================================
