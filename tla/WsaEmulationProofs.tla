------------------------- MODULE WsaEmulationProofs -------------------------
(***************************************************************************)
(* Safety of WsaEmulation for any number of sockets, dialogs and failing   *)
(* writes.  The invariant is about the handle: it always belongs to the    *)
(* socket opened last, so that closing this socket stops its thread, and   *)
(* once the handle is gone that thread has stopped.                        *)
(***************************************************************************)
EXTENDS WsaEmulation, SequenceTheorems, TLAPS

\* Sockets are opened in the order of their numbers, each with its thread.
OpenedInOrder ==
    \A i, j \in Socket : (j < i /\ sock[i] # "none") => sock[j] # "none"

ThreadOfSocket == \A i \in Socket : sock[i] = "none" <=> thread[i] = "none"

\* The socket opened last has the handle, or its thread has stopped.
LatestHandled ==
    \A i \in Socket : (sock[i] # "none" /\ \A j \in Socket : j > i => sock[j] = "none") =>
        \/ handle = i
        \/ handle = None /\ thread[i] \notin Live

\* ShutdownWSAEmulationThread waits for a handle, and for an open socket.
WaitsForHandle ==
    /\ closing # None => handle # None
    /\ closing \in Socket => sock[closing] = "open"

\* Of the calls fs, only a WM_NETEVENT has an event of its own left to handle,
\* and only one of them is an event.
NoEvent(fs) == \A k \in 1 .. Len(fs) : fs[k].via # "event"
CallsOK(fs) ==
    /\ fs \in Seq(Calls)
    /\ \A k \in 1 .. Len(fs) : fs[k].own # None => fs[k].via = "event"
    /\ \A i, j \in 1 .. Len(fs) : fs[i].via = "event" /\ fs[j].via = "event" => i = j

SocketInv == TypeOK /\ OpenedInOrder /\ ThreadOfSocket /\ LatestHandled /\ WaitsForHandle
             /\ ClosedIsNotPolled

IInv == SocketInv /\ CallsOK(frames)
-----------------------------------------------------------------------------
\* A call may be added if it is no event or the only one.
LEMMA PushOK ==
    ASSUME NEW fs, CallsOK(fs), NEW c \in Calls,
           c.own # None => c.via = "event", c.via = "event" => NoEvent(fs)
    PROVE  CallsOK(Append(fs, c))
<1> DEFINE new == Append(fs, c)
<1>1. fs \in Seq(Calls) BY DEF CallsOK
<1>2. /\ new \in Seq(Calls) /\ Len(new) = Len(fs) + 1 /\ Len(fs) \in Nat
      /\ \A i \in 1 .. Len(fs) : new[i] = fs[i]
      /\ new[Len(fs) + 1] = c
  BY <1>1, AppendProperties
<1> HIDE DEF new
<1>3. ASSUME NEW k \in 1 .. Len(new) PROVE k \in 1 .. Len(fs) \/ k = Len(fs) + 1
  BY <1>2
<1>4. ASSUME NEW k \in 1 .. Len(new), new[k].own # None PROVE new[k].via = "event"
  BY <1>2, <1>3, <1>4 DEF CallsOK
<1>5. ASSUME NEW i \in 1 .. Len(new), NEW j \in 1 .. Len(new),
             new[i].via = "event", new[j].via = "event"
      PROVE  i = j
  BY <1>2, <1>3, <1>5 DEF CallsOK, NoEvent
<1> QED BY <1>2, <1>4, <1>5 DEF CallsOK, new

\* When a call returns the calls below it are in order, and if it was an event
\* there is none among them.
LEMMA PopOK ==
    ASSUME NEW fs, CallsOK(fs), fs # <<>>
    PROVE  LET below == SubSeq(fs, 1, Len(fs) - 1)
           IN  /\ CallsOK(below)
               /\ fs[Len(fs)] \in Calls
               /\ fs[Len(fs)].own # None => NoEvent(below)
<1> DEFINE n == Len(fs) - 1
           below == SubSeq(fs, 1, n)
<1>1. fs \in Seq(Calls) /\ Len(fs) \in Nat /\ Len(fs) > 0 /\ \A i \in 1 .. Len(fs) : fs[i] \in Calls
  BY DEF CallsOK
<1>2. \A i \in 1 .. n : i \in 1 .. Len(fs) /\ fs[i] \in Calls /\ i # Len(fs)
  BY <1>1
<1>3. n \in Int /\ 1 \in Int /\ n >= 0 /\ Len(fs) \in 1 .. Len(fs)
  BY <1>1
<1> HIDE DEF n
<1>4. /\ below \in Seq(Calls)
      /\ Len(below) = IF 1 <= n THEN n - 1 + 1 ELSE 0
      /\ \A i \in 1 .. n - 1 + 1 : below[i] = fs[1 + i - 1]
  BY <1>2, <1>3, SubSeqProperties
<1> HIDE DEF below
<1>5. Len(below) = n /\ \A i \in 1 .. n : below[i] = fs[i]
  BY <1>3, <1>4
<1>6. CallsOK(below)
  BY <1>2, <1>4, <1>5 DEF CallsOK
<1>7. fs[Len(fs)].own # None => NoEvent(below)
  BY <1>2, <1>3, <1>5 DEF CallsOK, NoEvent
<1> QED BY <1>1, <1>3, <1>6, <1>7 DEF below, n

\* Handling an event adds a call that is in order if no other event is being
\* handled.
LEMMA SelectResultOK ==
    ASSUME NEW fs, CallsOK(fs), NoEvent(fs), NEW i \in Socket,
           NEW own \in Socket \cup {None}, NEW caller \in Socket \cup {None},
           SelectResult(fs, i, own, caller)
    PROVE  CallsOK(frames')
<1>1. PICK c : c = Call("event", IF Receives(i) THEN i ELSE None, own, caller)
  OBVIOUS
<1>2. c \in Calls /\ c.via = "event"
  BY <1>1 DEF Call, Calls
<1>3. CallsOK(Append(fs, c))
  BY <1>2, PushOK
<1> QED BY <1>1, <1>3 DEF SelectResult

-----------------------------------------------------------------------------
\* No step leaves the calls of the window's thread in disorder.
LEMMA CallsStep == TypeOK /\ CallsOK(frames) /\ [Next]_vars => CallsOK(frames')
<1> SUFFICES ASSUME TypeOK, CallsOK(frames), [Next]_vars PROVE CallsOK(frames')
  OBVIOUS
<1> USE DEF network, threads, window
<1>1. CASE UNCHANGED frames
  BY <1>1
<1>2. ASSUME NEW i \in Socket, NetEvent(i) PROVE CallsOK(frames')
  <2>1. CASE Reentering
    BY <1>2, <2>1 DEF NetEvent
  <2>2. CASE ~Reentering
    <3>1. NoEvent(frames)
      BY <2>2 DEF Reentering, NoEvent
    <3>2. pending \in Socket \cup {None}
      BY DEF TypeOK
    <3>3. \/ SelectResult(frames, i, None, i)
          \/ pending # None /\ SelectResult(frames, pending, i, i)
      BY <1>2, <2>2 DEF NetEvent
    <3> QED BY <3>1, <3>2, <3>3, SelectResultOK
  <2> QED BY <2>1, <2>2
<1>3. ASSUME EnactPending PROVE CallsOK(frames')
  <2>1. NoEvent(frames)
    BY <1>3 DEF EnactPending, Reentering, NoEvent
  <2>2. pending \in Socket
    BY <1>3 DEF TypeOK, EnactPending
  <2> QED BY <1>3, <2>1, <2>2, SelectResultOK DEF EnactPending
<1>4. ASSUME NEW via \in {"error", "input"}, NEW i \in Socket, Push(Call(via, i, None, None))
      PROVE  CallsOK(frames')
  <2>1. PICK c : c = Call(via, i, None, None)
    OBVIOUS
  <2>2. c \in Calls /\ c.own = None /\ c.via # "event"
    BY <2>1 DEF Call, Calls
  <2> QED BY <1>4, <2>1, <2>2, PushOK DEF Push
<1>5. ASSUME NEW i \in Socket, NetPendingErrors(i) PROVE CallsOK(frames')
  BY <1>4, <1>5 DEF NetPendingErrors
<1>6. ASSUME Input PROVE CallsOK(frames')
  <2>1. 0 \in Socket
    BY ConstAssumption DEF Socket
  <2> QED BY <1>4, <1>6, <2>1 DEF Input
<1>7. ASSUME Return PROVE CallsOK(frames')
  <2> DEFINE below == SubSeq(frames, 1, Len(frames) - 1)
  <2>1. frames # <<>>
    BY <1>7 DEF Return, InBackend
  <2>2. CallsOK(below) /\ Top \in Calls /\ (Top.own # None => NoEvent(below))
    BY <2>1, PopOK DEF Top
  <2>3. CASE Top.own = None
    BY <1>7, <2>2, <2>3 DEF Return
  <2>4. CASE Top.own # None
    <3>1. Top.own \in Socket /\ Top.caller \in Socket \cup {None}
      BY <2>2, <2>4 DEF Calls
    <3>2. SelectResult(below, Top.own, None, Top.caller)
      BY <1>7, <2>4 DEF Return
    <3> HIDE DEF below
    <3> QED BY <2>2, <2>4, <3>1, <3>2, SelectResultOK
  <2> QED BY <2>3, <2>4
<1>8. ASSUME Next PROVE UNCHANGED frames \/ Input \/ EnactPending \/ Return
                        \/ \E i \in Socket : NetEvent(i) \/ NetPendingErrors(i)
  BY <1>8 DEF Next, ThreadStep, ThreadStart, ThreadCheck, ThreadPoll, CloseSocket, Shutdown,
     SetFrozen, WriteFails, DataArrives, OpenSocket, ShowDialog, EndDialog, DestroyWindow,
     Wait, WaitDone, WaitTimeout, Stopped
<1>9. CASE UNCHANGED vars
  BY <1>1, <1>9 DEF vars
<1> QED BY <1>1, <1>2, <1>3, <1>5, <1>6, <1>7, <1>8, <1>9

\* Initially nothing has been called.
LEMMA CallsInit == Init => CallsOK(frames)
BY DEF Init, CallsOK
-----------------------------------------------------------------------------
\* The types hold initially and after every step (the handle never belongs to
\* a thread that was terminated).
LEMMA TypeInit == Init => TypeOK
<1> SUFFICES ASSUME Init PROVE TypeOK
  OBVIOUS
<1>1. 0 \in Socket
  BY ConstAssumption DEF Socket
<1>2. dialogs \in 0 .. MaxDialogs /\ errors \in 0 .. MaxErrors
  BY ConstAssumption DEF Init
<1>3. frames \in Seq(Calls)
  BY DEF Init
<1> QED BY <1>1, <1>2, <1>3 DEF Init, TypeOK, Live

LEMMA TypeStep == IInv /\ [Next]_vars => TypeOK'
<1> SUFFICES ASSUME IInv, [Next]_vars PROVE TypeOK'
  OBVIOUS
<1> USE DEF network, threads, window
<1>1. TypeOK /\ CallsOK(frames) /\ CallsOK(frames')
  BY CallsStep DEF IInv, SocketInv
<1>2. frames' \in Seq(Calls)
  BY <1>1 DEF CallsOK
<1>3. ASSUME NEW t \in Socket, ThreadStep(t) PROVE TypeOK'
  <2>1. PICK pc \in Live \cup {"done"} : thread' = thread \/ thread' = [thread EXCEPT ![t] = pc]
    BY <1>3 DEF ThreadStep, ThreadStart, ThreadCheck, ThreadPoll, Goto, Live
  <2>2. gTerminate' \in BOOLEAN /\ app' \in {"running", "exited", "aborted"}
    BY <1>1, <1>3 DEF TypeOK, ThreadStep, ThreadStart, ThreadCheck, ThreadPoll
  <2>3. UNCHANGED <<network, handle, window, dialogs, errors>>
    BY <1>3 DEF ThreadStep, ThreadStart, ThreadCheck, ThreadPoll
  <2> QED BY <1>1, <2>1, <2>2, <2>3 DEF TypeOK
<1>4. ASSUME NEW t \in Socket, NetEvent(t) PROVE TypeOK'
  <2>1. thread' = thread \/ thread' = [thread EXCEPT ![t] = "check"]
    BY <1>4 DEF NetEvent, Goto
  <2>2. pending' \in Socket \cup {None} /\ dialog' \in BOOLEAN
    BY <1>1, <1>4 DEF NetEvent, SelectResult, TypeOK
  <2>3. readable' = readable \/ \E i \in Socket : readable' = [readable EXCEPT ![i] = @ /\ ~Receives(i)]
    BY <1>1, <1>4 DEF NetEvent, SelectResult, TypeOK
  <2>4. readable' \in [Socket -> BOOLEAN]
    BY <1>1, <2>3 DEF TypeOK, Receives
  <2> QED BY <1>1, <1>2, <1>4, <2>1, <2>2, <2>4 DEF TypeOK, NetEvent, Live
<1>5. ASSUME EnactPending PROVE TypeOK'
  <2>1. pending \in Socket /\ pending' = None /\ dialog' = FALSE
    BY <1>1, <1>5 DEF EnactPending, SelectResult, TypeOK
  <2>2. readable' \in [Socket -> BOOLEAN]
    BY <1>1, <1>5, <2>1 DEF TypeOK, EnactPending, SelectResult, Receives
  <2> QED BY <1>1, <1>2, <1>5, <2>1, <2>2 DEF TypeOK, EnactPending
<1>6. ASSUME Input \/ \E i \in Socket : NetPendingErrors(i) PROVE TypeOK'
  BY <1>1, <1>2, <1>6 DEF TypeOK, NetPendingErrors, Input, Push
<1>7. ASSUME OpenSocket PROVE TypeOK'
  BY <1>1, <1>7 DEF TypeOK, OpenSocket, Goto, Live
<1>8. ASSUME NEW i \in Socket, CloseSocket(i) PROVE TypeOK'
  BY <1>1, <1>8 DEF TypeOK, CloseSocket, Shutdown, Closed
<1>9. ASSUME NEW i \in Socket, SetFrozen(i) \/ WriteFails(i) \/ DataArrives(i) PROVE TypeOK'
  <2>1. CASE SetFrozen(i) \/ DataArrives(i)
    BY <1>1, <2>1 DEF TypeOK, SetFrozen, DataArrives
  <2>2. CASE WriteFails(i)
    <3>1. errors' \in 0 .. MaxErrors
      BY <1>1, <2>2, ConstAssumption DEF TypeOK, WriteFails
    <3> QED BY <1>1, <2>2, <3>1 DEF TypeOK, WriteFails
  <2> QED BY <1>9, <2>1, <2>2
<1>10. ASSUME ShowDialog \/ EndDialog PROVE TypeOK'
  <2>1. app' \in {"running", "exited", "aborted"} /\ dialog' \in BOOLEAN
    BY <1>1, <1>10 DEF TypeOK, ShowDialog, EndDialog
  <2>3. dialogs' \in 0 .. MaxDialogs
    BY <1>1, <1>10, ConstAssumption DEF TypeOK, ShowDialog, EndDialog
  <2>2. UNCHANGED <<network, threads, pending, frames, closing, sessionClosed, errors>>
    BY <1>10 DEF ShowDialog, EndDialog
  <2> QED BY <1>1, <2>1, <2>2, <2>3 DEF TypeOK
<1>11. ASSUME Return PROVE TypeOK'
  <2>1. Top \in Calls
    BY <1>1, <1>11, PopOK DEF Return, InBackend, Top
  <2>2. \/ UNCHANGED <<readable, pending>> /\ dialog' \in BOOLEAN
           /\ thread' = [t \in Socket |-> IF t = Top.caller /\ thread[t] = "send"
                                            THEN "check" ELSE thread[t]]
        \/ pending' = None /\ dialog' = FALSE /\ UNCHANGED thread
           /\ Top.own # None /\ readable' = [readable EXCEPT ![Top.own] = @ /\ ~Receives(Top.own)]
    BY <1>11 DEF Return, SelectResult
  <2>3. readable' \in [Socket -> BOOLEAN] /\ pending' \in Socket \cup {None} /\ dialog' \in BOOLEAN
    BY <1>1, <2>1, <2>2 DEF TypeOK, Calls, Receives
  <2>4. thread' \in [Socket -> Live \cup {"none", "done", "killed"}]
        /\ (handle # None => thread'[handle] \in Live \cup {"done"})
    BY <1>1, <2>2 DEF TypeOK, Live
  <2>5. sessionClosed' \in BOOLEAN
    BY <1>11 DEF Return
  <2> QED BY <1>1, <1>2, <1>11, <2>3, <2>4, <2>5 DEF TypeOK, Return
<1>12. ASSUME DestroyWindow PROVE TypeOK'
  <2>1. closing' \in Socket \cup {None, Window} /\ gTerminate' \in BOOLEAN
        /\ app' \in {"running", "exited", "aborted"}
    BY <1>1, <1>12 DEF TypeOK, DestroyWindow, Shutdown
  <2>2. UNCHANGED <<network, thread, handle, pending, frames, dialog, sessionClosed, dialogs, errors>>
    BY <1>12 DEF DestroyWindow, Shutdown
  <2> QED BY <1>1, <2>1, <2>2 DEF TypeOK
<1>13. ASSUME Wait PROVE TypeOK'
  <2>1. Stopped /\ (UNCHANGED thread \/ thread' = [thread EXCEPT ![handle] = "killed"])
    BY <1>13 DEF Wait, WaitDone, WaitTimeout, Goto
  <2>2. thread' \in [Socket -> Live \cup {"none", "done", "killed"}]
    BY <1>1, <2>1 DEF TypeOK
  <2>3. /\ sock' \in [Socket -> {"none", "open", "closed"}]
        /\ readable' \in [Socket -> BOOLEAN] /\ frozen' \in [Socket -> BOOLEAN]
        /\ pendingError' \in [Socket -> BOOLEAN]
        /\ app' \in {"running", "exited", "aborted"}
    BY <1>1, <2>1 DEF TypeOK, Stopped, Closed
  <2>4. handle' = None /\ closing' = None /\ sessionClosed' = TRUE
        /\ UNCHANGED <<gTerminate, pending, frames, dialog, dialogs, errors>>
    BY <2>1 DEF Stopped
  <2> QED BY <1>1, <2>2, <2>3, <2>4 DEF TypeOK
<1>14. CASE UNCHANGED vars
  BY <1>1, <1>14 DEF TypeOK, vars
<1> QED BY <1>3, <1>4, <1>5, <1>6, <1>7, <1>8, <1>9, <1>10, <1>11, <1>12, <1>13, <1>14 DEF Next
-----------------------------------------------------------------------------
Sockets == OpenedInOrder /\ ThreadOfSocket /\ LatestHandled /\ WaitsForHandle /\ ClosedIsNotPolled

\* A thread that only goes on or ends changes nothing in what is said of the
\* sockets; a wait may begin.
LEMMA ThreadGoesOn ==
    ASSUME TypeOK, Sockets, UNCHANGED <<sock, handle>>,
           \A t \in Socket : thread'[t] = thread[t]
                             \/ (thread[t] \in Live /\ thread'[t] \in Live \cup {"done"}),
           closing' = closing \/ (handle # None /\ (closing' \in Socket => sock[closing'] = "open"))
    PROVE  Sockets'
<1>1. \A t \in Socket : /\ thread'[t] = "none" <=> thread[t] = "none"
                        /\ thread'[t] \in Live => thread[t] \in Live
  BY DEF Live
<1>2. OpenedInOrder'
  BY DEF Sockets, OpenedInOrder
<1>3. ThreadOfSocket'
  BY <1>1 DEF Sockets, ThreadOfSocket
<1>4. LatestHandled'
  BY <1>1 DEF Sockets, LatestHandled
<1>5. WaitsForHandle'
  BY DEF Sockets, WaitsForHandle
<1>6. ClosedIsNotPolled'
  BY <1>1 DEF Sockets, ClosedIsNotPolled
<1> QED BY <1>2, <1>3, <1>4, <1>5, <1>6 DEF Sockets

\* A socket is closed when the handle is gone, or has just been given up
\* because its thread has stopped.
LEMMA CloseKeepsOrder ==
    ASSUME TypeOK, Sockets, NEW i \in Socket, sock[i] = "open",
           sock' = [sock EXCEPT ![i] = "closed"],
           handle' = None, closing' = None,
           \A t \in Socket : thread'[t] = thread[t] \/ (t = handle /\ thread'[t] \in {"done", "killed"}
                                                        /\ thread[t] # "none"),
           handle # None => thread'[handle] \in {"done", "killed"}
    PROVE  Sockets'
<1>1. \A t \in Socket : sock'[t] = "none" <=> sock[t] = "none"
  BY DEF TypeOK
<1>2. \A t \in Socket : /\ thread'[t] = "none" <=> thread[t] = "none"
                        /\ thread'[t] \in Live => thread[t] \in Live /\ t # handle
  <2>1. \A t \in Socket : t # None
    BY ConstAssumption DEF Socket, None
  <2> QED BY <2>1 DEF Live
<1>3. OpenedInOrder'
  BY <1>1 DEF Sockets, OpenedInOrder
<1>4. ThreadOfSocket'
  BY <1>1, <1>2 DEF Sockets, ThreadOfSocket
<1>5. LatestHandled'
  BY <1>1, <1>2 DEF Sockets, LatestHandled
<1>6. WaitsForHandle'
  BY ConstAssumption DEF WaitsForHandle, None, Socket
<1>7. ClosedIsNotPolled'
  <2>1. ASSUME NEW t \in Socket, sock'[t] = "closed", thread'[t] \in Live
        PROVE  \E j \in Socket : j > t /\ sock'[j] # "none"
    <3>1. sock[t] # "none" /\ thread[t] \in Live /\ t # handle
      BY <1>1, <1>2, <2>1
    <3>2. \E j \in Socket : j > t /\ sock[j] # "none"
      BY <3>1 DEF Sockets, LatestHandled
    <3> QED BY <1>1, <3>2
  <2> QED BY <2>1 DEF ClosedIsNotPolled
<1> QED BY <1>3, <1>4, <1>5, <1>6, <1>7 DEF Sockets

\* The window's own wait ends without closing a socket.
LEMMA WindowGone ==
    ASSUME TypeOK, Sockets, UNCHANGED sock, handle' = None, closing' = None,
           \A t \in Socket : thread'[t] = thread[t] \/ (t = handle /\ thread'[t] \in {"done", "killed"}
                                                        /\ thread[t] # "none"),
           handle # None => thread'[handle] \in {"done", "killed"}
    PROVE  Sockets'
<1>1. \A t \in Socket : /\ thread'[t] = "none" <=> thread[t] = "none"
                        /\ thread'[t] \in Live => thread[t] \in Live /\ t # handle
  <2>1. \A t \in Socket : t # None
    BY ConstAssumption DEF Socket, None
  <2> QED BY <2>1 DEF Live
<1>2. OpenedInOrder' /\ ThreadOfSocket'
  BY <1>1 DEF Sockets, OpenedInOrder, ThreadOfSocket
<1>3. LatestHandled'
  BY <1>1 DEF Sockets, LatestHandled
<1>4. WaitsForHandle'
  BY ConstAssumption DEF WaitsForHandle, None, Socket
<1>5. ClosedIsNotPolled'
  BY <1>1 DEF Sockets, ClosedIsNotPolled
<1> QED BY <1>2, <1>3, <1>4, <1>5 DEF Sockets

\* The socket that is opened becomes the latest one and gets the handle.
LEMMA OpenKeepsOrder ==
    ASSUME TypeOK, Sockets, NEW i \in Socket, sock[i] = "none", i > 0, sock[i - 1] # "none",
           sock' = [sock EXCEPT ![i] = "open"], thread' = [thread EXCEPT ![i] = "created"],
           handle' = i, closing' = None
    PROVE  Sockets'
<1>1. \A t \in Socket : /\ sock'[t] = (IF t = i THEN "open" ELSE sock[t])
                        /\ thread'[t] = (IF t = i THEN "created" ELSE thread[t])
  BY DEF TypeOK
<1>2. \A t \in Socket : t \in Int /\ (t > i => sock[t] = "none") /\ (t < i => sock[t] # "none")
  <2>1. i - 1 \in Socket /\ \A t \in Socket : t \in Int /\ (t < i => t = i - 1 \/ t < i - 1)
    BY ConstAssumption DEF Socket
  <2> QED BY <2>1 DEF Sockets, OpenedInOrder
<1>3. OpenedInOrder'
  BY <1>1, <1>2 DEF OpenedInOrder
<1>4. ThreadOfSocket'
  BY <1>1 DEF Sockets, ThreadOfSocket
<1>5. LatestHandled'
  BY <1>1, <1>2 DEF LatestHandled
<1>6. WaitsForHandle'
  BY ConstAssumption DEF WaitsForHandle, None, Socket
<1>7. ClosedIsNotPolled'
  BY <1>1, <1>2 DEF Sockets, ClosedIsNotPolled
<1> QED BY <1>3, <1>4, <1>5, <1>6, <1>7 DEF Sockets

\* What is said of sockets, threads and the handle holds after every step.
LEMMA SocketsStep == IInv /\ [Next]_vars => Sockets'
<1> SUFFICES ASSUME IInv, [Next]_vars PROVE Sockets'
  OBVIOUS
<1> USE DEF network, threads, window
<1>1. TypeOK /\ Sockets /\ CallsOK(frames)
  BY DEF IInv, SocketInv, Sockets
<1>2. CASE UNCHANGED <<sock, thread, handle, closing>>
  BY <1>1, <1>2, ThreadGoesOn
<1>3. ASSUME NEW t \in Socket, ThreadStep(t) PROVE Sockets'
  <2>1. UNCHANGED <<sock, handle, closing>>
    BY <1>3 DEF ThreadStep, ThreadStart, ThreadCheck, ThreadPoll
  <2>2. PICK pc \in Live \cup {"done"} :
           thread' = thread \/ (thread[t] \in Live /\ thread' = [thread EXCEPT ![t] = pc])
    BY <1>3 DEF ThreadStep, ThreadStart, ThreadCheck, ThreadPoll, Goto, Live
  <2>3. \A x \in Socket : thread'[x] = thread[x]
                          \/ (thread[x] \in Live /\ thread'[x] \in Live \cup {"done"})
    BY <1>1, <2>2 DEF TypeOK
  <2> QED BY <1>1, <2>1, <2>3, ThreadGoesOn
<1>4. ASSUME NEW t \in Socket, NetEvent(t) PROVE Sockets'
  <2>1. UNCHANGED <<sock, handle, closing>>
    BY <1>4 DEF NetEvent
  <2>2. \A x \in Socket : thread'[x] = thread[x]
                          \/ (thread[x] \in Live /\ thread'[x] \in Live \cup {"done"})
    BY <1>1, <1>4 DEF NetEvent, Goto, TypeOK, Live
  <2> QED BY <1>1, <2>1, <2>2, ThreadGoesOn
<1>5. ASSUME Return PROVE Sockets'
  <2>1. UNCHANGED <<sock, handle, closing>>
    BY <1>5 DEF Return
  <2>2. \A x \in Socket : thread'[x] = thread[x]
                          \/ (thread[x] \in Live /\ thread'[x] \in Live \cup {"done"})
    BY <1>1, <1>5 DEF Return, TypeOK, Live
  <2> QED BY <1>1, <2>1, <2>2, ThreadGoesOn
<1>6. ASSUME NEW what \in Socket \cup {Window}, Shutdown(what), what \in Socket => sock[what] = "open"
      PROVE  Sockets'
  <2>1. UNCHANGED <<sock, thread, handle>> /\ closing' = what /\ handle # None
    BY <1>6 DEF Shutdown
  <2> QED BY <1>1, <1>6, <2>1, ThreadGoesOn
<1>7. ASSUME NEW i \in Socket, CloseSocket(i) PROVE Sockets'
  <2>1. sock[i] = "open" /\ closing = None
    BY <1>7 DEF CloseSocket, Acts, InBackend
  <2>2. CASE Shutdown(i)
    BY <1>6, <2>1, <2>2
  <2>3. CASE handle = None /\ Closed(i) /\ UNCHANGED <<threads, closing, app>>
    BY <1>1, <2>1, <2>3, CloseKeepsOrder DEF Closed
  <2> QED BY <1>7, <2>2, <2>3 DEF CloseSocket
<1>8. ASSUME DestroyWindow PROVE Sockets'
  <2>1. Window \in Socket => sock[Window] = "open"
    BY ConstAssumption DEF Window, Socket
  <2> QED BY <1>2, <1>6, <1>8, <2>1 DEF DestroyWindow
<1>9. ASSUME Wait PROVE Sockets'
  <2>1. /\ closing # None /\ handle # None /\ Stopped
        /\ \/ thread[handle] = "done" /\ UNCHANGED thread
           \/ thread[handle] # "done" /\ thread' = [thread EXCEPT ![handle] = "killed"]
    BY <1>1, <1>9 DEF Wait, WaitDone, WaitTimeout, Goto, Sockets, WaitsForHandle
  <2>2. handle \in Socket /\ handle' = None /\ closing' = None
    BY <1>1, <2>1 DEF TypeOK, Stopped
  <2>3. \A t \in Socket : thread'[t] = thread[t] \/ (t = handle /\ thread'[t] \in {"done", "killed"}
                                                     /\ thread[t] # "none")
    BY <1>1, <2>1, <2>2 DEF TypeOK, Live
  <2>4. thread'[handle] \in {"done", "killed"}
    BY <1>1, <2>1, <2>2 DEF TypeOK
  <2>5. CASE closing = Window
    <3>1. UNCHANGED sock
      BY <2>1, <2>5 DEF Stopped
    <3> QED BY <1>1, <2>2, <2>3, <2>4, <3>1, WindowGone
  <2>6. CASE closing # Window
    <3>1. closing \in Socket /\ sock[closing] = "open" /\ sock' = [sock EXCEPT ![closing] = "closed"]
      BY <1>1, <2>1, <2>6 DEF TypeOK, Stopped, Closed, Sockets, WaitsForHandle
    <3> QED BY <1>1, <2>2, <2>3, <2>4, <3>1, CloseKeepsOrder
  <2> QED BY <2>5, <2>6
<1>10. ASSUME OpenSocket PROVE Sockets'
  <2>1. PICK i \in Socket : /\ sock[i] = "none" /\ i > 0 /\ sock[i - 1] # "none"
                            /\ sock' = [sock EXCEPT ![i] = "open"]
                            /\ thread' = [thread EXCEPT ![i] = "created"] /\ handle' = i
    BY <1>10 DEF OpenSocket, Goto
  <2>2. closing' = None
    BY <1>10 DEF OpenSocket, Acts, InBackend
  <2> QED BY <1>1, <2>1, <2>2, OpenKeepsOrder
<1>11. ASSUME Next
       PROVE  \/ UNCHANGED <<sock, thread, handle, closing>>
              \/ Return \/ DestroyWindow \/ Wait \/ OpenSocket
              \/ \E i \in Socket : ThreadStep(i) \/ NetEvent(i) \/ CloseSocket(i)
  BY <1>11 DEF Next, SetFrozen, WriteFails, DataArrives, EnactPending, Input, NetPendingErrors,
     ShowDialog, EndDialog
<1>12. CASE UNCHANGED vars
  BY <1>2, <1>12 DEF vars
<1> QED BY <1>2, <1>3, <1>4, <1>5, <1>7, <1>8, <1>9, <1>10, <1>11, <1>12
-----------------------------------------------------------------------------
\* The invariant holds in every reachable state.
LEMMA Invariant == Spec => []IInv
<1>1. Init => IInv
  <2> SUFFICES ASSUME Init PROVE IInv
    OBVIOUS
  <2>1. TypeOK /\ CallsOK(frames)
    BY TypeInit, CallsInit
  <2>2. OpenedInOrder /\ ThreadOfSocket /\ ClosedIsNotPolled
    BY ConstAssumption DEF Init, Socket, OpenedInOrder, ThreadOfSocket, ClosedIsNotPolled
  <2>3. LatestHandled /\ WaitsForHandle
    BY ConstAssumption DEF Init, Socket, LatestHandled, WaitsForHandle, None
  <2> QED BY <2>1, <2>2, <2>3 DEF IInv, SocketInv
<1>2. IInv /\ [Next]_vars => IInv'
  BY TypeStep, SocketsStep, CallsStep DEF IInv, SocketInv, Sockets
<1> QED BY <1>1, <1>2, PTL DEF Spec

\* Type correctness, and the handle is 0 or that of a thread that has not been
\* terminated (do_select, ShutdownWSAEmulationThread).
THEOREM WsaTypeOK == Spec => []TypeOK
BY Invariant, PTL DEF IInv, SocketInv

\* The thread of a closed socket has stopped, unless a later socket took its
\* place in g_hWSAEmulationThread: no thread of its own socket polls it again.
THEOREM WsaClosedIsNotPolled == Spec => []ClosedIsNotPolled
BY Invariant, PTL DEF IInv, SocketInv

\* enact_pending_netevent never runs select_result inside itself, however deep
\* dialogs and other calls are nested.
THEOREM WsaOneEventAtATime == Spec => []OneEventAtATime
<1>1. IInv => OneEventAtATime
  BY DEF IInv, CallsOK, OneEventAtATime
<1> QED BY <1>1, Invariant, PTL
=============================================================================
