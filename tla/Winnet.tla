-------------------------------- MODULE Winnet --------------------------------
(* A socket of the network layer (winnet.c) over WSAAsyncSelect: how it comes   *)
(* to be, the events that are posted for it, its freeze, the data waiting to be *)
(* sent, urgent data to be sent, and errors.  WSAAsyncSelect posts an event once and not    *)
(* again before the call that re-enables it; the window handles events in       *)
(* order, between calls of the plug.                                            *)
EXTENDS Integers, Sequences

CONSTANTS
    Room,       \* blocks Winsock takes before a send would block
    MaxIn, MaxOut   \* bounds of the model: blocks that arrive, that are written

VARIABLES
    sk,         \* Actual_Socket
    events,     \* messages posted to the window
    readOn, writeOn,    \* FD_READ, FD_WRITE are enabled
    inbox, ended,   \* received by Winsock and not read; the peer has closed: "no", "yes", "reset"
    outbox,     \* taken by Winsock and not yet on its way
    arrived, wrote, \* blocks that arrived, that were written
    toPlug, toPeer, \* what the plug received and Winsock took, in order
    sentTo,     \* the last size the plug was told, by sk_write or plug_sent
    outcome     \* "fine", "closed" by the plug, "freed": a freed socket was used

winsock == <<events, readOn, writeOn, inbox, ended, outbox>>
counts == <<arrived, wrote>>
vars == <<sk, winsock, counts, toPlug, toPeer, sentTo, outcome>>

-----------------------------------------------------------------------------
\* sk_new: ports below 1024 are tried from the top; none may be left.
Ports == 1 .. 3
BindPort(priv, used) ==
    IF ~priv THEN {0} ELSE {p \in Ports \ used : \A q \in Ports : q > p => q \in used}

\* sk_newlistener: an address that can be parsed overrides the choice between the loopback
\* address and all addresses; select_result asks localhost_only of each that is accepted.
LocalhostOnly(src, localOnly) == IF src \in {"none", "name"} THEN localOnly ELSE src = "loopback"
Accepted(src, localOnly, isLocal) == isLocal \/ ~LocalhostOnly(src, localOnly)

Fresh == [writable |-> FALSE, frozen |-> FALSE, frozenReadable |-> FALSE, pendingError |-> FALSE,
          oob |-> <<>>, out |-> <<>>, connected |-> TRUE]

\* sk_new, whose connect goes on or has completed, and sk_register after an accept.
Origins ==
    {[Fresh EXCEPT !.connected = FALSE] : p \in UNION {BindPort(b, u) : b \in BOOLEAN, u \in SUBSET Ports}}
      \cup {[Fresh EXCEPT !.writable = TRUE]}
      \cup {[Fresh EXCEPT !.writable = TRUE, !.frozen = TRUE] :
              c \in {x \in {"none", "name", "loopback", "other"} \X BOOLEAN \X BOOLEAN :
                       Accepted(x[1], x[2], x[3])}}

Init ==
    /\ sk \in Origins
    /\ events = (IF sk.connected THEN <<>> ELSE <<"CONNECT", "WRITE">>)
    /\ readOn = TRUE /\ writeOn = FALSE /\ inbox = <<>> /\ ended = "no" /\ outbox = 0
    /\ arrived = 0 /\ wrote = 0 /\ toPlug = <<>> /\ toPeer = <<>> /\ sentTo = 0 /\ outcome = "fine"

Open == outcome = "fine"

-----------------------------------------------------------------------------
\* try_send: as much as Winsock takes, urgent data first.  After an error nothing is sent.
Take(s) ==
    LET n == Len(s.oob) + Len(s.out)
        k == IF n <= Room - outbox THEN n ELSE Room - outbox
        rest == SubSeq(s.oob \o s.out, k + 1, n)
    IN  [k |-> k, gone |-> SubSeq(s.oob \o s.out, 1, k),
         s |-> [s EXCEPT !.oob = IF k < Len(s.oob) THEN SubSeq(s.oob, k + 1, Len(s.oob)) ELSE <<>>,
                         !.out = IF k < Len(s.oob) THEN s.out ELSE rest,
                         !.writable = k = n]]

TrySend(s) ==
    IF s.oob \o s.out = <<>> THEN sk' = s /\ UNCHANGED <<toPeer, outbox, writeOn>>
    ELSE IF ended = "reset"
      THEN sk' = [s EXCEPT !.pendingError = TRUE] /\ UNCHANGED <<toPeer, outbox, writeOn>>
    ELSE LET r == Take(s) IN
         /\ sk' = r.s /\ toPeer' = toPeer \o r.gone
         /\ outbox' = outbox + r.k /\ writeOn' = (writeOn \/ ~r.s.writable)

Size(s) == Len(s.oob) + Len(s.out)
SendOrKeep(s) == IF s.writable THEN TrySend(s) ELSE sk' = s /\ UNCHANGED <<toPeer, outbox, writeOn>>

\* sk_tcp_write.
Write ==
    /\ Open /\ wrote < MaxOut /\ wrote' = wrote + 1
    /\ SendOrKeep([sk EXCEPT !.out = Append(@, wrote + 1)])
    /\ sentTo' = Len(sk'.out)
    /\ UNCHANGED <<events, readOn, inbox, ended, arrived, toPlug, outcome>>

\* sk_tcp_write_oob: urgent data takes the place of all that waits.
WriteOob ==
    /\ Open /\ wrote < MaxOut /\ wrote' = wrote + 1
    /\ SendOrKeep([sk EXCEPT !.out = <<>>, !.oob = <<wrote + 1>>])
    /\ sentTo' = Len(sk'.oob)
    /\ UNCHANGED <<events, readOn, inbox, ended, arrived, toPlug, outcome>>

\* A call that reads re-enables FD_READ: it is posted again if there is more.
Reads(rest, posted) ==
    /\ inbox' = rest /\ readOn' = (rest = <<>>)
    /\ events' = (IF rest = <<>> THEN posted ELSE Append(posted, "READ"))

\* Mutant: what came while the socket was frozen is not looked at again.
SetFrozenNoPeek ==
    /\ Open /\ sk' = [sk EXCEPT !.frozen = ~@, !.frozenReadable = FALSE]
    /\ UNCHANGED <<winsock, counts, toPlug, toPeer, sentTo, outcome>>

\* sk_tcp_set_frozen: a socket that became readable while it was frozen is peeked at.
SetFrozen ==
    /\ Open /\ sk' = [sk EXCEPT !.frozen = ~@, !.frozenReadable = FALSE]
    /\ IF sk.frozen /\ sk.frozenReadable THEN Reads(inbox, events) ELSE UNCHANGED <<inbox, readOn, events>>
    /\ UNCHANGED <<writeOn, ended, outbox, counts, toPlug, toPeer, sentTo, outcome>>

\* sk_tcp_close: events that are still posted are for a socket that is not found.
Close ==
    /\ Open /\ outcome' = "closed"
    /\ UNCHANGED <<sk, winsock, counts, toPlug, toPeer, sentTo>>

-----------------------------------------------------------------------------
\* select_result, for the first event posted.
Event(e) == Open /\ events # <<>> /\ Head(events) = e

\* FD_CONNECT; an error in the message is plug_closing, which closes the socket.
Connect ==
    /\ Event("CONNECT") /\ events' = Tail(events)
    /\ \/ sk' = [sk EXCEPT !.connected = TRUE, !.writable = TRUE] /\ UNCHANGED outcome
       \/ outcome' = "closed" /\ UNCHANGED sk
    /\ UNCHANGED <<readOn, writeOn, inbox, ended, outbox, counts, toPlug, toPeer, sentTo>>

\* FD_READ: one recv, of any size; nothing left at the end of the stream, or an error, is
\* plug_closing, which closes the socket.
Read ==
    /\ Event("READ")
    /\ IF sk.frozen
         THEN /\ sk' = [sk EXCEPT !.frozenReadable = TRUE] /\ events' = Tail(events)
              /\ UNCHANGED <<readOn, inbox, toPlug, outcome>>
         ELSE IF inbox = <<>> /\ ended # "no"
         THEN events' = Tail(events) /\ outcome' = "closed" /\ UNCHANGED <<sk, readOn, inbox, toPlug>>
         ELSE \E k \in 0 .. Len(inbox) :
                /\ k = 0 => inbox = <<>>
                /\ toPlug' = toPlug \o SubSeq(inbox, 1, k)
                /\ Reads(SubSeq(inbox, k + 1, Len(inbox)), Tail(events))
                /\ UNCHANGED <<sk, outcome>>
    /\ UNCHANGED <<writeOn, ended, outbox, counts, toPeer, sentTo>>

\* FD_WRITE: plug_sent only when the backlog has become smaller.
WriteEvent ==
    /\ Event("WRITE") /\ events' = Tail(events)
    /\ TrySend([sk EXCEPT !.writable = TRUE])
    /\ sentTo' = (IF Size(sk') < Size(sk) THEN Size(sk') ELSE sentTo)
    /\ UNCHANGED <<readOn, inbox, ended, counts, toPlug, outcome>>

\* FD_CLOSE: all that is left is given to the plug, frozen or not; a plug that closes
\* meanwhile frees the socket the loop goes on reading from.
CloseEvent ==
    /\ Event("CLOSE") /\ events' = Tail(events)
    /\ \/ toPlug' = toPlug \o inbox /\ inbox' = <<>> /\ outcome' = "closed"
       \/ \E k \in 1 .. Len(inbox) :
            toPlug' = toPlug \o SubSeq(inbox, 1, k) /\ inbox' = <<>> /\ outcome' = "freed"
    /\ UNCHANGED <<sk, readOn, writeOn, ended, outbox, counts, toPeer, sentTo>>

\* net_pending_errors: plug_closing, which closes the socket.
PendingError ==
    /\ Open /\ sk.pendingError /\ outcome' = "closed"
    /\ UNCHANGED <<sk, winsock, counts, toPlug, toPeer, sentTo>>

-----------------------------------------------------------------------------
(* Winsock and the peer. *)
Arrives ==
    /\ ended = "no" /\ arrived < MaxIn /\ sk.connected /\ arrived' = arrived + 1
    /\ inbox' = Append(inbox, arrived + 1) /\ readOn' = FALSE
    /\ events' = (IF readOn THEN Append(events, "READ") ELSE events)
    /\ UNCHANGED <<sk, writeOn, ended, outbox, wrote, toPlug, toPeer, sentTo, outcome>>

PeerCloses ==
    /\ ended = "no" /\ sk.connected /\ ended' \in {"yes", "reset"} /\ events' = Append(events, "CLOSE")
    /\ UNCHANGED <<sk, readOn, writeOn, inbox, outbox, counts, toPlug, toPeer, sentTo, outcome>>

Drains ==
    /\ outbox > 0 /\ ended # "reset" /\ outbox' = outbox - 1 /\ writeOn' = FALSE
    /\ events' = (IF writeOn THEN Append(events, "WRITE") ELSE events)
    /\ UNCHANGED <<sk, readOn, inbox, ended, counts, toPlug, toPeer, sentTo, outcome>>

SelectResult == Connect \/ Read \/ WriteEvent \/ CloseEvent
Next ==
    \/ Write \/ WriteOob \/ SetFrozen \/ Close \/ SelectResult \/ PendingError
    \/ Arrives \/ PeerCloses \/ Drains

\* The window handles its messages, the timer comes, and the peer takes what is sent.
Fairness == WF_vars(SelectResult) /\ WF_vars(PendingError) /\ WF_vars(Drains)
Spec == Init /\ [][Next]_vars /\ Fairness
-----------------------------------------------------------------------------
TypeOK ==
    /\ \A f \in {"writable", "frozen", "frozenReadable", "pendingError", "connected"} : sk[f] \in BOOLEAN
    /\ Len(sk.oob) <= 1 /\ Len(sk.out) <= MaxOut /\ outbox \in 0 .. Room
    /\ ended \in {"no", "yes", "reset"} /\ outcome \in {"fine", "closed", "freed"}
    /\ sentTo \in 0 .. MaxOut + 1

\* The plug receives what the peer sent, in order and without a gap; the peer gets what the plug
\* wrote in order, and what urgent data has displaced is the only thing that is missing.
InOrder ==
    /\ toPlug = [i \in 1 .. Len(toPlug) |-> i]
    /\ \A i, j \in DOMAIN toPeer : i < j => toPeer[i] < toPeer[j]

\* Nobody waits for an event that will not come: unread data has one posted or is known to the
\* freeze, and a plug that was last told of a backlog is told again.
NoLostWakeup ==
    Open => /\ inbox # <<>> => sk.frozenReadable \/ \E i \in DOMAIN events : events[i] \in {"READ", "CLOSE"}
            /\ Size(sk) > 0 => \/ sk.pendingError \/ writeOn \/ ended # "no"
                               \/ \E i \in DOMAIN events : events[i] \in {"WRITE", "CLOSE"}

\* What arrives is read, unless the plug keeps the socket frozen; a backlog is sent.
Flows ==
    /\ (Open /\ inbox # <<>>) ~> (inbox = <<>> \/ sk.frozen \/ ~Open)
    /\ (Open /\ Size(sk) > 0) ~> (Size(sk) = 0 \/ ~Open)
=============================================================================
