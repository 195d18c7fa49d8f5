------------------------------- MODULE Socks -------------------------------
(***************************************************************************)
(* One connection of a forwarded port (portfwd.c), from its beginning to   *)
(* the first data: made to a host the server has named, accepted for a     *)
(* fixed one, or accepted for one the client names in SOCKS 4, 4A or 5.    *)
(* hostname and port serve as a buffer until the request is complete, and  *)
(* what comes after the request is kept until the server has confirmed.    *)
(* The client is a stream of bytes that is cut anywhere.                   *)
(***************************************************************************)
EXTENDS Integers, SequencesExt

CONSTANTS
    Requests,   \* what a client sends, and what is to come of it
    BufSize,    \* lenof(pr->hostname)
    Pieces      \* how many bytes arrive at a time

VARIABLES
    req,        \* the client
    toCome,     \* its bytes that have not arrived
    pr          \* the connection: a PFwdPrivate

svars == <<req, toCome, pr>>

\* pr->dynamic: 0; 1; and the states of an exchange.
Plain == "plain"  Start == "1"  Socks4 == "0x4000"  Socks4A == "0x4001"
Methods == "0x5000"  Request == "0x5001"
States == {Plain, Start, Socks4, Socks4A, Methods, Request}

Zeros(n) == [i \in 1 .. n |-> 0]
Port(b, at) == b[at] * 256 + b[at + 1]

Say(r, bytes) == [r EXCEPT !.said = Append(@, bytes)]
Shut(r) == [r EXCEPT !.open = FALSE]

\* The label connect: the channel is asked for, and the socket frozen until it is confirmed.
Connect(r, host, port) == [r EXCEPT !.dynamic = Plain, !.asked = <<host, port>>, !.frozen = TRUE]

\* 91 is "request rejected"; 90 "request granted", with the address of the request.
Reject4(r) == Shut(Say(r, <<0, 91>> \o Zeros(6)))
Grant4(r) == Say(r, <<0, 90>> \o SubSeq(r.buf, 3, 8))
IsName4(b) == b[5] = 0 /\ b[6] = 0 /\ b[7] = 0 /\ b[8] # 0

\* Mutant: the user name of SOCKS 4A is not taken out of the buffer.
Take4Keeping(r) ==
    LET b == r.buf
        named == [r EXCEPT !.dynamic = IF @ = Start THEN Socks4 ELSE @]
    IN  IF Len(b) < 2 THEN named
        ELSE IF b[2] # 1 THEN Reject4(named)
        ELSE IF Len(b) <= 8 \/ Last(b) # 0 THEN named
        ELSE IF ~IsName4(b) THEN Connect(Grant4(named), SubSeq(b, 5, 8), Port(b, 3))
        ELSE IF named.dynamic = Socks4 THEN [named EXCEPT !.dynamic = Socks4A]
          ELSE Connect(Grant4(named), SubSeq(b, 9, Len(b) - 1), Port(b, 3))

\* The user name, and after it the host name of SOCKS 4A, end with a zero.
Take4(r) ==
    LET b == r.buf
        named == [r EXCEPT !.dynamic = IF @ = Start THEN Socks4 ELSE @]
    IN  IF Len(b) < 2 THEN named
        ELSE IF b[2] # 1 THEN Reject4(named)
        ELSE IF Len(b) <= 8 \/ Last(b) # 0 THEN named
        ELSE IF ~IsName4(b) THEN Connect(Grant4(named), SubSeq(b, 5, 8), Port(b, 3))
        ELSE IF named.dynamic = Socks4
          THEN [named EXCEPT !.dynamic = Socks4A, !.buf = SubSeq(b, 1, 8)]
          ELSE Connect(Grant4(named), SubSeq(b, 9, Len(b) - 1), Port(b, 3))

\* The methods of SOCKS 5: none of them is answered with 0xFF, and the request awaited all the same.
TakeMethods(r) ==
    LET b == r.buf
        named == [r EXCEPT !.dynamic = Methods]
    IN  IF Len(b) < 2 \/ (Len(b) >= 2 /\ Len(b) < 2 + b[2]) THEN named
        ELSE [Say(named, <<5, IF \E i \in 1 .. b[2] : b[2 + i] = 0 THEN 0 ELSE 255>>)
                EXCEPT !.dynamic = Request, !.buf = <<>>]

AddrLen(b) == CASE b[4] = 1 -> 4 [] b[4] = 4 -> 16 [] b[4] = 3 -> 1 + b[5] [] OTHER -> 0
Reply5(r, rep) == Say(r, <<5, rep, 0, 1>> \o Zeros(6))

TakeRequest(r) ==
    LET b == r.buf
    IN  IF Len(b) < 6 \/ (Len(b) >= 6 /\ Len(b) < 6 + AddrLen(b)) THEN r
        ELSE IF b[2] # 1 \/ b[3] # 0 THEN Shut(Reply5(r, 1))
        ELSE IF b[4] = 1 THEN Connect(Reply5(r, 0), SubSeq(b, 5, 8), Port(b, 5 + AddrLen(b)))
        ELSE IF b[4] = 3 THEN Connect(Reply5(r, 0), SubSeq(b, 6, 5 + b[5]), Port(b, 5 + AddrLen(b)))
        ELSE Shut(Reply5(r, 8))

\* What is in the buffer is looked at again with every byte.
Look(r) ==
    CASE r.buf[1] = 4 /\ r.dynamic \in {Start, Socks4, Socks4A} -> Take4(r)
      [] r.buf[1] = 5 /\ r.dynamic \in {Start, Methods} -> TakeMethods(r)
      [] r.buf[1] = 5 /\ r.dynamic = Request -> TakeRequest(r)
      [] OTHER -> Shut(r)

Byte(r, c) ==
    IF Len(r.buf) >= BufSize
      THEN IF r.dynamic \in {Socks4, Socks4A} THEN Reject4(r) ELSE Shut(r)
      ELSE Look([r EXCEPT !.buf = Append(@, c)])

\* pfd_receive: the exchange takes what it needs; the rest is kept, or passed on.
RECURSIVE PfdReceive(_, _)
PfdReceive(r, data) ==
    IF data = <<>> \/ ~r.open THEN r
    ELSE IF r.dynamic # Plain THEN PfdReceive(Byte(r, Head(data)), Tail(data))
    ELSE IF r.ready THEN [r EXCEPT !.passed = @ \o data]
    ELSE IF req.kind = "dynamic" THEN [r EXCEPT !.buffer = data]
    ELSE r

Arrive ==
    /\ toCome # <<>> /\ pr.open /\ ~pr.frozen
    /\ \E n \in Pieces :
           /\ n <= Len(toCome) \/ n = Max(Pieces)
           /\ pr' = PfdReceive(pr, SubSeq(toCome, 1, Min({n, Len(toCome)})))
           /\ toCome' = SubSeq(toCome, Min({n, Len(toCome)}) + 1, Len(toCome))
    /\ UNCHANGED req

\* pfd_confirm: the server has opened the channel.
Confirm ==
    /\ pr.open /\ pr.asked # <<>> /\ ~pr.ready
    /\ pr' = [pr EXCEPT !.ready = TRUE, !.frozen = FALSE, !.passed = @ \o pr.buffer, !.buffer = <<>>]
    /\ UNCHANGED <<req, toCome>>

\* pfd_newconnect, pfd_addforward with pfd_accepting: a new socket is frozen when it comes from
\* a listener, until its channel is confirmed or for a SOCKS exchange.
Fresh(kind) ==
    [dynamic |-> IF kind = "dynamic" THEN Start ELSE Plain, ready |-> kind = "server",
     frozen |-> kind = "fixed", open |-> TRUE, buf |-> <<>>, buffer |-> <<>>, said |-> <<>>,
     asked |-> IF kind = "fixed" THEN req.asks ELSE <<>>, passed |-> <<>>]

SInit == req \in Requests /\ toCome = req.bytes \o req.rest /\ pr = Fresh(req.kind)
SNext == Arrive \/ Confirm
SSpec == SInit /\ [][SNext]_svars

-----------------------------------------------------------------------------
STypeOK ==
    /\ pr.dynamic \in States /\ Len(pr.buf) <= BufSize
    /\ pr.buffer # <<>> => ~pr.ready /\ pr.dynamic = Plain

\* However the stream is cut, a client gets the answers and the connection it has asked for or
\* is turned away, not one byte of the request reaches the other end, and what comes after it
\* does, in order, none lost while the channel is being opened.
ClientServed ==
    /\ IsPrefix(pr.said, req.says)
    /\ pr.asked \in {<<>>, req.asks}
    /\ IsPrefix(pr.passed, req.rest)
    /\ pr.open => IsSuffix(pr.buffer \o toCome, req.bytes \o req.rest)
    /\ (toCome = <<>> /\ pr.open) =>
          /\ pr.said = req.says /\ pr.asked = req.asks
          /\ pr.passed \o pr.buffer = req.rest
    /\ ~pr.open => req.asks = <<>> /\ pr.said = req.says
=============================================================================
