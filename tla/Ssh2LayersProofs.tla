-------------------------- MODULE Ssh2LayersProofs --------------------------
(***************************************************************************)
(* Proofs about the layers of an SSH-2 connection: the receive window      *)
(* (Ssh2Window), for channels whose socket is empty at first; then the     *)
(* transport (Ssh2Transport), authentication (Ssh2Auth) and the set-up     *)
(* (Ssh2Setup), as Ssh2MC runs them side by side; each has an inductive    *)
(* invariant - TransInv, AuthInv, SetupInv - kept by its steps and, since  *)
(* it speaks of its own variables only, by those of the others; together   *)
(* they give LayersTypeOK and LayersSound for every list of ciphers, every *)
(* server, every configuration, and any bound on exchanges, keys, prompts, *)
(* banners, forwardings and packets.                                       *)
(***************************************************************************)
EXTENDS Ssh2MC, TLAPS, FiniteSetTheorems

-----------------------------------------------------------------------------
(* The receive window, for every window size and word size.  WindowsAgree  *)
(* and BacklogPaidFor are inductive together with the types: each needs    *)
(* the other, because a wrapped locwindow or a wrapped                     *)
(* OUR_V2_WINSIZE - bufsize would break both.                              *)

IInv == TypeOK /\ WindowsAgree /\ BacklogPaidFor /\ WindowPresented

\* sk_tcp_write never invents bytes.
LEMMA SkWriteEffect ==
    ASSUME TypeOK, NEW n \in Nat, SkWrite(n)
    PROVE  /\ writable' \in BOOLEAN
           /\ \E b \in Nat : backlog' = b /\ b <= backlog + n
  <1>1. PICK sent \in 0 .. backlog + n : backlog' = backlog + n - sent
    BY DEF SkWrite
  <1>2. backlog + n - sent \in Nat /\ backlog + n - sent <= backlog + n
    BY DEF TypeOK
  <1>3. writable' \in BOOLEAN
    BY DEF SkWrite
  <1> QED BY <1>1, <1>2, <1>3

\* What one call of ssh2_set_window does to the counts, when it is asked for
\* no more than OUR_V2_WINSIZE: the credit it sends is what it adds to the
\* window.
LEMMA SetWindowEffect ==
    ASSUME TypeOK, NEW window \in 0 .. WinSize, NEW newwin \in 0 .. WinSize,
           SetWindow(window, newwin)
    PROVE  \E w \in {window, newwin} :
              /\ locwindow' = w /\ w >= window
              /\ adjFlight' = adjFlight + (w - window)
  <1> USE ConstAssumption
  <1>1. CASE closes = 0 /\ newwin > window
    BY <1>1 DEF SetWindow
  <1>2. CASE ~(closes = 0 /\ newwin > window)
    <2>1. adjFlight + (window - window) = adjFlight
      BY DEF TypeOK
    <2> QED BY <1>2, <2>1 DEF SetWindow
  <1> QED BY <1>1, <1>2

\* The invariant is kept when the window moves to w, backlog to b and the
\* data on the wire to d, if the credit on the wire moves with the window.
LEMMA CountsKeepIInv ==
    ASSUME IInv, closes' = closes, srvWin' = srvWin, srvDone' = srvDone,
           writable' \in BOOLEAN,
           NEW b \in Nat, backlog' = b,
           NEW n \in Nat, n <= dataFlight, dataFlight' = dataFlight - n,
           NEW w \in Nat, locwindow' = w, w >= locwindow - n,
           adjFlight' = adjFlight + (w - (locwindow - n)),
           w <= WinSize,
           closes = 0 => b + w <= WinSize
    PROVE  IInv'
  <1> USE ConstAssumption
  <1>1. /\ dataFlight \in Nat /\ adjFlight \in Nat /\ locwindow \in Nat /\ srvWin \in Nat
        /\ srvWin + dataFlight + adjFlight = locwindow
    BY DEF IInv, TypeOK, WindowsAgree
  <1>2. dataFlight - n \in Nat /\ adjFlight + (w - (locwindow - n)) \in Nat
    BY <1>1
  <1>3. TypeOK'
    BY <1>1, <1>2 DEF IInv, TypeOK
  <1>4. WindowsAgree'
    BY <1>1 DEF WindowsAgree
  <1> QED BY <1>3, <1>4 DEF IInv, BacklogPaidFor, WindowPresented

LEMMA ReceiveDataIInv ==
    ASSUME Preload = 0, IInv, NEW n \in 1 .. WinSize, ReceiveData(n)
    PROVE  IInv'
  <1> USE ConstAssumption
  <1>1. /\ n \in Nat /\ n <= dataFlight /\ dataFlight' = dataFlight - n
        /\ closes' = closes /\ srvWin' = srvWin /\ srvDone' = srvDone
    BY DEF ReceiveData
  <1>2. /\ TypeOK /\ closes \in {0, 1}
        /\ locwindow \in Nat /\ adjFlight \in Nat /\ backlog \in Nat
        /\ locwindow <= WinSize
        /\ closes = 0 => backlog + locwindow <= WinSize
    BY DEF IInv, TypeOK, WindowPresented, BacklogPaidFor
  <1>3. /\ USub(locwindow, n) = locwindow - n
        /\ locwindow - n \in 0 .. WinSize
        /\ adjFlight + ((locwindow - n) - (locwindow - n)) = adjFlight
    BY <1>1, <1>2 DEF IInv, TypeOK, WindowsAgree, USub
  <1>4. PICK b \in Nat : /\ backlog' = b
                         /\ closes = 0 => b <= backlog + n
    <2>1. CASE closes = 0
      BY <1>1, <1>2, <2>1, SkWriteEffect DEF ReceiveData
    <2>2. CASE closes = 1
      BY <1>2, <2>2 DEF ReceiveData
    <2> QED BY <1>2, <2>1, <2>2
  <1>5. writable' \in BOOLEAN
    <2>1. CASE closes = 0
      BY <1>1, <1>2, <2>1, SkWriteEffect DEF ReceiveData
    <2>2. CASE closes = 1
      BY <1>2, <2>2 DEF ReceiveData, TypeOK
    <2> QED BY <1>2, <2>1, <2>2
  <1>6. closes = 0 => b + (locwindow - n) <= WinSize
    BY <1>1, <1>2, <1>4
  <1>7. CASE b < WinSize /\ closes = 0
    <2>1. SetWindow(locwindow - n, WinSize - b) /\ WinSize - b \in 0 .. WinSize
      BY <1>3, <1>4, <1>7 DEF ReceiveData
    <2>2. PICK w \in {locwindow - n, WinSize - b} :
             /\ locwindow' = w /\ w >= locwindow - n
             /\ adjFlight' = adjFlight + (w - (locwindow - n))
      BY <1>2, <1>3, <2>1, SetWindowEffect
    <2>3. w \in Nat /\ w <= WinSize /\ b + w <= WinSize
      BY <1>3, <1>6, <1>7, <2>1, <2>2
    <2> QED BY <1>1, <1>4, <1>5, <2>2, <2>3, CountsKeepIInv
  <1>8. CASE ~(b < WinSize /\ closes = 0)
    <2>1. /\ locwindow' = locwindow - n
          /\ adjFlight' = adjFlight + ((locwindow - n) - (locwindow - n))
      BY <1>3, <1>4, <1>8 DEF ReceiveData, SetWindow
    <2>2. locwindow - n \in Nat /\ locwindow - n <= WinSize /\ locwindow - n >= locwindow - n
      BY <1>3
    <2> QED BY <1>1, <1>4, <1>5, <1>6, <2>1, <2>2, CountsKeepIInv
  <1> QED BY <1>7, <1>8

LEMMA SocketWritableIInv ==
    ASSUME Preload = 0, IInv, NEW sent \in 0 .. backlog, SocketWritable(sent)
    PROVE  IInv'
  <1> USE ConstAssumption
  <1>1. /\ TypeOK /\ backlog + locwindow <= WinSize /\ closes = 0
        /\ locwindow \in Nat /\ backlog \in Nat /\ adjFlight \in Nat /\ dataFlight \in Nat
    BY DEF SocketWritable, IInv, TypeOK, BacklogPaidFor
  <1>2. backlog - sent \in Nat /\ backlog - sent <= backlog
    BY <1>1
  <1>3. /\ closes' = closes /\ srvWin' = srvWin /\ srvDone' = srvDone
        /\ backlog' = backlog - sent
    BY DEF SocketWritable
  <1>4. writable' \in BOOLEAN
    BY DEF SocketWritable
  <1>5. dataFlight' = dataFlight - 0 /\ 0 <= dataFlight /\ 0 \in Nat
        /\ locwindow - 0 = locwindow
    BY <1>1 DEF SocketWritable
  <1>6. CASE sent > 0
    <2>1. /\ USub(WinSize, backlog') = WinSize - (backlog - sent)
          /\ WinSize - (backlog - sent) \in 0 .. WinSize /\ locwindow \in 0 .. WinSize
      BY <1>1, <1>2, <1>3 DEF USub
    <2>2. SetWindow(locwindow, WinSize - (backlog - sent))
      BY <1>6, <2>1 DEF SocketWritable
    <2>3. PICK w \in {locwindow, WinSize - (backlog - sent)} :
             /\ locwindow' = w /\ w >= locwindow
             /\ adjFlight' = adjFlight + (w - locwindow)
      BY <1>1, <2>1, <2>2, SetWindowEffect
    <2>4. w \in Nat /\ w <= WinSize /\ (backlog - sent) + w <= WinSize
      BY <1>1, <1>2, <2>1, <2>3
    <2> QED BY <1>2, <1>3, <1>4, <1>5, <2>3, <2>4, CountsKeepIInv
  <1>7. CASE sent = 0
    <2>1. /\ locwindow' = locwindow /\ locwindow >= locwindow
          /\ adjFlight' = adjFlight + (locwindow - locwindow)
          /\ locwindow <= WinSize /\ (backlog - sent) + locwindow <= WinSize
      BY <1>1, <1>7 DEF SocketWritable
    <2> QED BY <1>1, <1>2, <1>3, <1>4, <1>5, <2>1, CountsKeepIInv
  <1> QED BY <1>1, <1>6, <1>7

LEMMA StepIInv == Preload = 0 /\ IInv /\ [Next]_vars => IInv'
  <1> SUFFICES ASSUME Preload = 0, IInv, [Next]_vars PROVE IInv'
    OBVIOUS
  <1> USE ConstAssumption
  <1>1. CASE \E n \in 1 .. WinSize : ReceiveData(n)
    BY <1>1, ReceiveDataIInv
  <1>2. CASE \E n \in 1 .. WinSize : ServerSend(n)
    BY <1>2 DEF ServerSend, IInv, TypeOK, WindowsAgree, BacklogPaidFor, WindowPresented
  <1>3. CASE \E n \in 1 .. adjFlight : ServerAdjust(n)
    BY <1>3 DEF ServerAdjust, IInv, TypeOK, WindowsAgree, BacklogPaidFor, WindowPresented
  <1>4. CASE \E sent \in 0 .. backlog : SocketWritable(sent)
    BY <1>4, SocketWritableIInv
  <1>5. CASE LocalClosing \/ ReceiveEof
    <2>1. CloseChannel
      BY <1>5 DEF LocalClosing, ReceiveEof
    <2>2. writable' \in BOOLEAN /\ srvDone' \in BOOLEAN
      BY <2>1 DEF CloseChannel, IInv, TypeOK
    <2> QED
      BY <2>1, <2>2 DEF CloseChannel, IInv, TypeOK, WindowsAgree, BacklogPaidFor, WindowPresented
  <1>6. CASE ServerEof
    BY <1>6 DEF ServerEof, IInv, TypeOK, WindowsAgree, BacklogPaidFor, WindowPresented
  <1>7. CASE UNCHANGED vars
    BY <1>7 DEF vars, IInv, TypeOK, WindowsAgree, BacklogPaidFor, WindowPresented
  <1> QED BY <1>1, <1>2, <1>3, <1>4, <1>5, <1>6, <1>7 DEF Next

LEMMA InitIInv == Preload = 0 /\ Init => IInv
  <1> SUFFICES ASSUME Preload = 0, Init PROVE IInv
    OBVIOUS
  <1>1. writable \in BOOLEAN /\ srvDone \in BOOLEAN
    BY DEF Init
  <1> QED
    BY <1>1, ConstAssumption
       DEF Init, IInv, TypeOK, WindowsAgree, BacklogPaidFor, WindowPresented

LEMMA SpecIInv == ASSUME Preload = 0 PROVE Spec => []IInv
  BY InitIInv, StepIInv, PTL DEF Spec

\* The counts of a channel stay in range, so none of the unsigned
\* subtractions of ssh.c wraps (channels whose socket buffer starts empty).
THEOREM Ssh2WindowTypeOK == ASSUME Preload = 0 PROVE Spec => []TypeOK
  BY SpecIInv, PTL DEF IInv

\* Server and client always agree on the window, up to what is on the wire
\* (ssh2_set_window and the CHANNEL_DATA handler of ssh.c).
THEOREM Ssh2WindowsAgree == ASSUME Preload = 0 PROVE Spec => []WindowsAgree
  BY SpecIInv, PTL DEF IInv

\* No channel whose socket buffer starts empty is ever granted more than
\* OUR_V2_WINSIZE (ssh.c:351): the positive side of the finding about
\* WindowPresented.
THEOREM Ssh2WindowPresented == ASSUME Preload = 0 PROVE Spec => []WindowPresented
  BY SpecIInv, PTL DEF IInv

\* Socket backlog and open window together stay within OUR_V2_WINSIZE.
THEOREM Ssh2BacklogPaidFor == ASSUME Preload = 0 PROVE Spec => []BacklogPaidFor
  BY SpecIInv, PTL DEF IInv

-----------------------------------------------------------------------------
(* Queues.                                                                 *)

CountOf(q, p) == Cardinality({i \in DOMAIN q : q[i] = p})

\* What is in a queue when something has been appended.
LEMMA Appended ==
    ASSUME NEW S, NEW q \in Seq(S), NEW m \in S
    PROVE  /\ Append(q, m) \in Seq(S) /\ Len(q) \in Nat /\ DOMAIN q = 1 .. Len(q)
           /\ Len(Append(q, m)) = Len(q) + 1 /\ Append(q, m)[Len(q) + 1] = m
           /\ DOMAIN Append(q, m) = 1 .. Len(q) + 1
           /\ \A i \in 1 .. Len(q) : Append(q, m)[i] = q[i] /\ q[i] \in S
  OBVIOUS

\* What is left of a queue when its head is taken.
LEMMA Shortened ==
    ASSUME NEW S, NEW q \in Seq(S), q # <<>>
    PROVE  /\ Tail(q) \in Seq(S) /\ Len(q) \in Nat \ {0} /\ Len(Tail(q)) = Len(q) - 1
           /\ DOMAIN q = 1 .. Len(q) /\ DOMAIN Tail(q) = 1 .. Len(q) - 1
           /\ Head(q) = q[1] /\ Head(q) \in S
           /\ \A i \in 1 .. Len(q) - 1 : Tail(q)[i] = q[i + 1] /\ q[i + 1] \in S
  OBVIOUS

\* The number of times something stands in a queue is a number.
LEMMA Counted ==
    ASSUME NEW S, NEW q \in Seq(S), NEW p
    PROVE  CountOf(q, p) \in Nat /\ IsFiniteSet({i \in DOMAIN q : q[i] = p})
  <1>1. DOMAIN q = 1 .. Len(q) /\ Len(q) \in Nat
    OBVIOUS
  <1>2. IsFiniteSet(1 .. Len(q))
    BY <1>1, FS_Interval
  <1>3. {i \in DOMAIN q : q[i] = p} \in SUBSET (1 .. Len(q))
    BY <1>1
  <1>4. IsFiniteSet({i \in DOMAIN q : q[i] = p})
    BY <1>2, <1>3, FS_Subset
  <1> QED BY <1>4, FS_CardinalityType DEF CountOf

\* It grows with what is appended.
LEMMA CountAppended ==
    ASSUME NEW S, NEW q \in Seq(S), NEW m \in S, NEW p
    PROVE  CountOf(Append(q, m), p) = IF m = p THEN CountOf(q, p) + 1 ELSE CountOf(q, p)
  <1> DEFINE A == {i \in DOMAIN q : q[i] = p}
             r == Append(q, m)
             B == {i \in DOMAIN r : r[i] = p}
  <1>1. /\ Len(q) \in Nat /\ DOMAIN q = 1 .. Len(q) /\ DOMAIN r = 1 .. Len(q) + 1 /\ r[Len(q) + 1] = m
        /\ \A i \in 1 .. Len(q) : r[i] = q[i]
    BY Appended
  <1> HIDE DEF r
  <1>2. B = (IF m = p THEN A \cup {Len(q) + 1} ELSE A) /\ Len(q) + 1 \notin A
    BY <1>1
  <1>3. IsFiniteSet(A)
    BY Counted
  <1>4. CountOf(r, p) = Cardinality(B) /\ CountOf(q, p) = Cardinality(A)
    BY DEF CountOf
  <1> HIDE DEF A, B
  <1>5. Cardinality(A \cup {Len(q) + 1}) = Cardinality(A) + 1
    BY <1>2, <1>3, FS_AddElement
  <1>6. CountOf(r, p) = IF m = p THEN CountOf(q, p) + 1 ELSE CountOf(q, p)
    BY <1>2, <1>4, <1>5
  <1> QED BY <1>6 DEF r

\* It shrinks with what is taken.
LEMMA CountShortened ==
    ASSUME NEW S, NEW q \in Seq(S), q # <<>>, NEW p
    PROVE  CountOf(q, p) = IF Head(q) = p THEN CountOf(Tail(q), p) + 1 ELSE CountOf(Tail(q), p)
  <1> DEFINE r == Tail(q)
             A == {i \in DOMAIN q : q[i] = p}
             B == {i \in DOMAIN r : r[i] = p}
             C == A \ {1}
             f == [i \in C |-> i - 1]
  <1>1. /\ Len(q) \in Nat \ {0} /\ DOMAIN q = 1 .. Len(q) /\ DOMAIN r = 1 .. Len(q) - 1 /\ q[1] = Head(q)
        /\ \A i \in 1 .. Len(q) - 1 : r[i] = q[i + 1]
    BY Shortened
  <1>2. IsFiniteSet(A)
    BY Counted
  <1>3. CountOf(r, p) = Cardinality(B) /\ CountOf(q, p) = Cardinality(A)
    BY DEF CountOf
  <1> HIDE DEF r
  <1>4. A = (IF Head(q) = p THEN C \cup {1} ELSE C) /\ 1 \notin C
    BY <1>1
  <1>5. IsFiniteSet(C)
    BY <1>2, FS_RemoveElement
  <1>6. ExistsBijection(C, B)
    <2>1. f \in [C -> B]
      <3>1. ASSUME NEW i \in C PROVE i - 1 \in B
        <4>1. i \in 2 .. Len(q) /\ q[i] = p
          BY <1>1
        <4>2. i - 1 \in 1 .. Len(q) - 1 /\ r[i - 1] = q[(i - 1) + 1] /\ (i - 1) + 1 = i
          BY <1>1, <4>1
        <4> QED BY <1>1, <4>1, <4>2
      <3> QED BY <3>1
    <2>2. \A i, j \in C : f[i] = f[j] => i = j
      <3>1. C \subseteq Nat
        BY <1>1
      <3> QED BY <3>1
    <2>3. \A k \in B : \E i \in C : f[i] = k
      <3>1. ASSUME NEW k \in B PROVE k + 1 \in C /\ f[k + 1] = k
        <4>1. k \in 1 .. Len(q) - 1 /\ r[k] = p
          BY <1>1
        <4>2. k + 1 \in C
          BY <1>1, <4>1
        <4> QED BY <4>1, <4>2
      <3> QED BY <3>1
    <2> HIDE DEF f
    <2>4. f \in Bijection(C, B)
      BY <2>1, <2>2, <2>3 DEF Bijection, Injection, Surjection, IsInjective
    <2> QED BY <2>4 DEF ExistsBijection
  <1>7. Cardinality(B) = Cardinality(C)
    <2> HIDE DEF B, C, f
    <2> QED BY <1>5, <1>6, FS_Bijection
  <1>8. Cardinality(C \cup {1}) = Cardinality(C) + 1
    <2> HIDE DEF C
    <2> QED BY <1>4, <1>5, FS_AddElement
  <1>9. CountOf(q, p) = IF Head(q) = p THEN CountOf(r, p) + 1 ELSE CountOf(r, p)
    <2> HIDE DEF A, B, C
    <2> QED BY <1>3, <1>4, <1>7, <1>8
  <1> QED BY <1>9 DEF r

-----------------------------------------------------------------------------
(* The transport layer.                                                    *)

ClientKex == {"kexinit", "gexrequest", "kexdhinit", "gexinit", "newkeys"}
ServerKex == {"kexinit", "group", "reply", "newkeys"}
ToServer == [type: ClientKex \cup {"ignore", "data", "unimplemented"}, key: Nat, gap: BOOLEAN]
ToClient == [type: ServerKex \cup {"ignore", "data", "unknown", "disconnect"}, key: Nat]
InGap == {m \in ToServer : m.gap}

Types(q) == {q[i].type : i \in DOMAIN q}
Told == Types(toSrv) \cap ClientKex
Said == Types(toCli) \cap ServerKex

\* What is sent once in an exchange is in a queue once.
Once(q, K) == \A i, j \in DOMAIN q : q[i].type = q[j].type /\ q[i].type \in K => i = j

\* Packets before NEWKEYS have the old key, those behind it the new one, but for what is lost.
Keyed(q, new, old, lost) ==
    \A i \in DOMAIN q :
        q[i] \in lost \/ q[i].key = IF \E j \in DOMAIN q : j < i /\ q[j].type = "newkeys" THEN new ELSE old

\* KEXINIT comes before the request that follows it.
InOrder(q) ==
    \A i, j \in DOMAIN q : q[i].type = "kexinit" /\ q[j].type \in {"gexrequest", "kexdhinit"} => i < j

TransTyped ==
    /\ kpc \in {"start", "kexinit", "group", "reply", "newkeys", "run"} /\ kstate \in {"open", "closed"}
    /\ exch \in 0 .. MaxExchange /\ firstKex \in BOOLEAN /\ session \in 0 .. 1 /\ session <= exch
    /\ csKey \in 0 .. exch /\ scKey = csKey /\ peer \in Offers
    /\ srvpc \in {"start", "kexinit", "init", "newkeys", "run", "gone"}
    /\ srvIn \in Nat /\ srvOut \in Nat /\ srvSession \in 0 .. 1
    /\ toSrv \in Seq(ToServer) /\ toCli \in Seq(ToClient)
    /\ garbled \subseteq {[by |-> "server", gap |-> TRUE]}

\* The ciphers in use are those that were chosen.
Common == Transport!FirstCommon(peer.cs) > 0 /\ Transport!FirstCommon(peer.sc) > 0
Chosen ==
    /\ Common
    /\ tobe = [cs |-> Preference[Transport!FirstCommon(peer.cs)], sc |-> Preference[Transport!FirstCommon(peer.sc)]]
    /\ asked = Transport!Warned(Transport!FirstCommon(peer.cs), Transport!FirstCommon(peer.sc))
Choice ==
    /\ Chosen \/ (tobe = Transport!NoChoice /\ asked = {})
    /\ kpc \in {"group", "reply", "newkeys", "run"} => Chosen

\* The session id comes from the first exchange.
Sessions ==
    /\ kpc = "start" => exch = 0 /\ firstKex
    /\ kpc # "start" => exch > 0
    /\ IF firstKex THEN exch <= 1 /\ session = 0 ELSE session = 1
    /\ kpc = "run" => ~firstKex /\ srvSession = 1
    /\ srvSession = 0 => exch <= 1

\* What the server has said fits what the client waits for.
Fits ==
    /\ kpc \in {"start", "run", "kexinit"} => Said \subseteq {"kexinit"}
    /\ kpc = "group" => Said \subseteq {"group"}
    /\ kpc = "reply" => Said \subseteq {"reply", "newkeys"}
    /\ kpc = "newkeys" => Said \subseteq {"newkeys", "kexinit"}

\* The keys on the way to the client.
Wire ==
    /\ Keyed(toCli, srvOut, scKey, {}) /\ Once(toCli, ServerKex)
    /\ IF "newkeys" \in Said THEN srvOut = exch /\ srvSession = 1 ELSE srvOut = scKey
    /\ "kexinit" \in Said /\ kpc # "kexinit" => exch < MaxExchange
    /\ "disconnect" \in Types(toCli) => srvpc = "gone"

\* Where the two ends stand in an exchange, and what is on its way between them.
Answering == IF peer.gex THEN "group" ELSE "reply"
Stand ==
    \/ kpc = srvpc /\ kpc \in {"start", "run"} /\ Said = {} /\ Told = {}
    \/ kpc \in {"start", "run"} /\ srvpc = "kexinit" /\ Said = {"kexinit"} /\ Told = {}
    \/ kpc = "kexinit" /\ srvpc = "start" /\ Said = {} /\ Told = {"kexinit"}
    \/ kpc = "kexinit" /\ srvpc = "kexinit" /\ Said = {"kexinit"} /\ Told = {"kexinit"}
    \/ kpc = "kexinit" /\ srvpc = "init" /\ Said = {"kexinit"} /\ Told = {} /\ Common
    \/ kpc = Answering /\ srvpc = "kexinit" /\ Said = {} /\ Told = {"kexinit", Transport!KexInit}
    \/ kpc = Answering /\ srvpc = "init" /\ Said = {} /\ Told = {Transport!KexInit}
    \/ kpc = "group" /\ srvpc = "init" /\ Said = {"group"} /\ Told = {}
    \/ kpc = "reply" /\ srvpc = "init" /\ Said = {} /\ Told = {"gexinit"}
    \/ kpc = "reply" /\ srvpc = "newkeys" /\ Said = {"reply", "newkeys"} /\ Told = {}
    \/ kpc = "newkeys" /\ srvpc = "newkeys" /\ Said = {"newkeys"} /\ Told = {"newkeys"}
    \/ kpc = "newkeys" /\ srvpc = "run" /\ Said = {"newkeys"} /\ Told = {}
    \/ kpc = "newkeys" /\ srvpc = "kexinit" /\ Said = {"newkeys", "kexinit"} /\ Told = {}
    \/ kpc = "run" /\ srvpc = "newkeys" /\ Said = {} /\ Told = {"newkeys"}

\* What is on its way to the server.
Queue(q, new, old) ==
    /\ Keyed(q, new, old, InGap) /\ Once(q, ClientKex) /\ InOrder(q)
    /\ \A i \in DOMAIN q : q[i].gap => q[i].type \notin ClientKex

\* The keys on the way to the server, and the joint state.
Joint ==
    /\ Queue(toSrv, exch, srvIn)
    /\ kpc # "newkeys" => csKey = IF "newkeys" \in Told THEN exch ELSE srvIn
    /\ kpc = "newkeys" /\ "newkeys" \notin Told => srvIn = exch
    /\ Stand

TransInv ==
    /\ TransTyped /\ Choice /\ Transport!KeysAgree
    /\ kstate = "open" => Sessions /\ Fits /\ Wire /\ (srvpc # "gone" => Joint)

-----------------------------------------------------------------------------
(* Queues of packets.                                                      *)

\* A packet that is appended adds its type, is once there if it was not, and keeps the keys and
\* the order if it has the key and the place it should have.
LEMMA PacketAppended ==
    ASSUME NEW S, NEW q \in Seq(S), NEW m \in S, NEW K, NEW new, NEW old, NEW lost
    PROVE  /\ Append(q, m) \in Seq(S)
           /\ Types(Append(q, m)) = Types(q) \cup {m.type}
           /\ Once(q, K) /\ m.type \notin K \cap Types(q) => Once(Append(q, m), K)
           /\ Keyed(q, new, old, lost) /\ (m \in lost \/ m.key = IF "newkeys" \in Types(q) THEN new ELSE old)
                => Keyed(Append(q, m), new, old, lost)
           /\ InOrder(q) /\ (m.type = "kexinit" => Types(q) \cap {"gexrequest", "kexdhinit"} = {})
                => InOrder(Append(q, m))
  <1> DEFINE r == Append(q, m)
             n == Len(q) + 1
  <1>1. /\ r \in Seq(S) /\ Len(q) \in Nat /\ DOMAIN q = 1 .. Len(q) /\ n = Len(q) + 1 /\ DOMAIN r = 1 .. n
        /\ r[n] = m /\ \A i \in 1 .. Len(q) : r[i] = q[i]
    BY Appended
  <1> HIDE DEF r, n
  <1>2. Types(r) = Types(q) \cup {m.type}
    <2>1. ASSUME NEW t \in Types(r) PROVE t \in Types(q) \cup {m.type}
      <3>1. PICK i \in DOMAIN r : t = r[i].type
        BY DEF Types
      <3>2. CASE i = n
        BY <1>1, <3>1, <3>2
      <3>3. CASE i \in 1 .. Len(q)
        <4>1. t = q[i].type /\ i \in DOMAIN q
          BY <1>1, <3>1, <3>3
        <4> QED BY <4>1 DEF Types
      <3> QED BY <1>1, <3>2, <3>3
    <2>2. ASSUME NEW t \in Types(q) \cup {m.type} PROVE t \in Types(r)
      <3>1. CASE t = m.type
        <4>1. n \in DOMAIN r /\ t = r[n].type
          BY <1>1, <3>1
        <4> QED BY <4>1 DEF Types
      <3>2. CASE t \in Types(q)
        <4>1. PICK i \in DOMAIN q : t = q[i].type
          BY <3>2 DEF Types
        <4>2. i \in DOMAIN r /\ t = r[i].type
          BY <1>1, <4>1
        <4> QED BY <4>2 DEF Types
      <3> QED BY <3>1, <3>2
    <2> QED BY <2>1, <2>2
  <1>3. ASSUME Once(q, K), m.type \notin K \cap Types(q) PROVE Once(r, K)
    <2>1. ASSUME NEW i \in DOMAIN q, q[i].type = m.type, m.type \in K PROVE FALSE
      BY <1>3, <2>1 DEF Types
    <2>2. ASSUME NEW i \in DOMAIN r, NEW j \in DOMAIN r, r[i].type = r[j].type, r[i].type \in K PROVE i = j
      <3>1. CASE i = n /\ j = n
        BY <3>1
      <3>2. CASE i = n /\ j \in 1 .. Len(q)
        BY <1>1, <2>1, <2>2, <3>2
      <3>3. CASE i \in 1 .. Len(q) /\ j = n
        BY <1>1, <2>1, <2>2, <3>3
      <3>4. CASE i \in 1 .. Len(q) /\ j \in 1 .. Len(q)
        BY <1>1, <1>3, <2>2, <3>4 DEF Once
      <3> QED BY <1>1, <3>1, <3>2, <3>3, <3>4
    <2> QED BY <2>2 DEF Once
  <1>4. ASSUME Keyed(q, new, old, lost), m \in lost \/ m.key = IF "newkeys" \in Types(q) THEN new ELSE old
        PROVE  Keyed(r, new, old, lost)
    <2>1. ASSUME NEW i \in DOMAIN r
          PROVE  r[i] \in lost \/ r[i].key = IF \E j \in DOMAIN r : j < i /\ r[j].type = "newkeys" THEN new ELSE old
      <3>1. CASE i = n
        <4>1. (\E j \in DOMAIN r : j < i /\ r[j].type = "newkeys") <=> "newkeys" \in Types(q)
          <5>1. ASSUME NEW j \in DOMAIN r, j < i, r[j].type = "newkeys" PROVE "newkeys" \in Types(q)
            <6>1. j \in DOMAIN q /\ q[j].type = "newkeys"
              BY <1>1, <3>1, <5>1
            <6> QED BY <6>1 DEF Types
          <5>2. ASSUME "newkeys" \in Types(q) PROVE \E j \in DOMAIN r : j < i /\ r[j].type = "newkeys"
            <6>1. PICK j \in DOMAIN q : q[j].type = "newkeys"
              BY <5>2 DEF Types
            <6> QED BY <1>1, <3>1, <6>1
          <5> QED BY <5>1, <5>2
        <4> QED BY <1>1, <1>4, <3>1, <4>1
      <3>2. CASE i \in 1 .. Len(q)
        <4>1. (\E j \in DOMAIN r : j < i /\ r[j].type = "newkeys") <=> (\E j \in DOMAIN q : j < i /\ q[j].type = "newkeys")
          BY <1>1, <3>2
        <4>2. q[i] \in lost \/ q[i].key = IF \E j \in DOMAIN q : j < i /\ q[j].type = "newkeys" THEN new ELSE old
          BY <1>1, <1>4, <3>2 DEF Keyed
        <4> QED BY <1>1, <3>2, <4>1, <4>2
      <3> QED BY <1>1, <3>1, <3>2
    <2> QED BY <2>1 DEF Keyed
  <1>5. ASSUME InOrder(q), m.type = "kexinit" => Types(q) \cap {"gexrequest", "kexdhinit"} = {} PROVE InOrder(r)
    <2>1. ASSUME NEW i \in DOMAIN r, NEW j \in DOMAIN r, r[i].type = "kexinit", r[j].type \in {"gexrequest", "kexdhinit"}
          PROVE  i < j
      <3>1. CASE i = n
        <4>1. j \in DOMAIN q /\ q[j].type \in {"gexrequest", "kexdhinit"}
          BY <1>1, <2>1, <3>1
        <4>2. q[j].type \in Types(q)
          BY <4>1 DEF Types
        <4> QED BY <1>1, <1>5, <2>1, <3>1, <4>1, <4>2
      <3>2. CASE i \in 1 .. Len(q) /\ j = n
        BY <1>1, <3>2
      <3>3. CASE i \in 1 .. Len(q) /\ j \in 1 .. Len(q)
        BY <1>1, <1>5, <2>1, <3>3 DEF InOrder
      <3> QED BY <1>1, <3>1, <3>2, <3>3
    <2> QED BY <2>1 DEF InOrder
  <1> QED BY <1>1, <1>2, <1>3, <1>4, <1>5 DEF r

\* The head of a queue takes its type with it, if that is there once, and has the old key; when
\* it is NEWKEYS, what is left has the new one.
LEMMA PacketTaken ==
    ASSUME NEW S, NEW q \in Seq(S), q # <<>>, NEW K, NEW new, NEW old, NEW lost
    PROVE  /\ Tail(q) \in Seq(S) /\ Head(q) \in S
           /\ Types(q) = Types(Tail(q)) \cup {Head(q).type}
           /\ Once(q, K) => /\ Once(Tail(q), K)
                            /\ Types(Tail(q)) \cap K = (Types(q) \cap K) \ {Head(q).type}
           /\ Keyed(q, new, old, lost) => Head(q) \in lost \/ Head(q).key = old
           /\ Keyed(q, new, old, lost) /\ Head(q).type # "newkeys" => Keyed(Tail(q), new, old, lost)
           /\ Keyed(q, new, old, lost) /\ Head(q).type = "newkeys" => Keyed(Tail(q), new, new, lost)
           /\ InOrder(q) => /\ InOrder(Tail(q))
                            /\ Head(q).type \in {"gexrequest", "kexdhinit"} => "kexinit" \notin Types(q)
  <1> DEFINE r == Tail(q)
             p == Head(q)
  <1>1. /\ r \in Seq(S) /\ Len(q) \in Nat \ {0} /\ DOMAIN q = 1 .. Len(q) /\ DOMAIN r = 1 .. Len(q) - 1
        /\ p = q[1] /\ p \in S /\ \A i \in 1 .. Len(q) - 1 : r[i] = q[i + 1]
    BY Shortened
  <1> HIDE DEF r, p
  <1>2. \A i \in DOMAIN r : i + 1 \in DOMAIN q /\ r[i] = q[i + 1]
    BY <1>1
  <1>3. \A i \in DOMAIN q : i = 1 \/ (i - 1 \in DOMAIN r /\ r[i - 1] = q[i])
    <2>1. ASSUME NEW i \in DOMAIN q, i # 1 PROVE i - 1 \in DOMAIN r /\ r[i - 1] = q[i]
      <3>1. i - 1 \in 1 .. Len(q) - 1 /\ (i - 1) + 1 = i
        BY <1>1, <2>1
      <3> QED BY <1>1, <3>1
    <2> QED BY <2>1
  <1>4. Types(q) = Types(r) \cup {p.type}
    <2>1. ASSUME NEW t \in Types(q) PROVE t \in Types(r) \cup {p.type}
      <3>1. PICK i \in DOMAIN q : t = q[i].type
        BY DEF Types
      <3> QED BY <1>1, <1>3, <3>1 DEF Types
    <2>2. p.type \in Types(q)
      BY <1>1 DEF Types
    <2>3. ASSUME NEW t \in Types(r) PROVE t \in Types(q)
      <3>1. PICK i \in DOMAIN r : t = r[i].type
        BY DEF Types
      <3> QED BY <1>2, <3>1 DEF Types
    <2> QED BY <2>1, <2>2, <2>3
  <1>5. ASSUME Once(q, K) PROVE Once(r, K) /\ Types(r) \cap K = (Types(q) \cap K) \ {p.type}
    <2>1. ASSUME NEW i \in DOMAIN r, NEW j \in DOMAIN r, r[i].type = r[j].type, r[i].type \in K PROVE i = j
      <3>1. i + 1 = j + 1
        BY <1>2, <1>5, <2>1 DEF Once
      <3> QED BY <1>1, <3>1
    <2>2. ASSUME p.type \in K PROVE p.type \notin Types(r)
      <3>1. ASSUME NEW i \in DOMAIN r, r[i].type = p.type PROVE FALSE
        <4>1. i + 1 = 1
          BY <1>1, <1>2, <1>5, <2>2, <3>1 DEF Once
        <4> QED BY <1>1, <4>1
      <3> QED BY <3>1 DEF Types
    <2>3. Types(r) \cap K = (Types(q) \cap K) \ {p.type}
      BY <1>4, <2>2
    <2>4. Once(r, K)
      BY <2>1 DEF Once
    <2> QED BY <2>3, <2>4
  <1>6. ASSUME Keyed(q, new, old, lost) PROVE p \in lost \/ p.key = old
    <2>1. ~\E j \in DOMAIN q : j < 1 /\ q[j].type = "newkeys"
      BY <1>1
    <2>2. 1 \in DOMAIN q
      BY <1>1
    <2> QED BY <1>1, <1>6, <2>1, <2>2 DEF Keyed
  <1>7. ASSUME Keyed(q, new, old, lost), NEW i \in DOMAIN r
        PROVE  r[i] \in lost \/ r[i].key = IF \E j \in DOMAIN q : j < i + 1 /\ q[j].type = "newkeys" THEN new ELSE old
    BY <1>2, <1>7 DEF Keyed
  <1>8. ASSUME Keyed(q, new, old, lost), p.type # "newkeys" PROVE Keyed(r, new, old, lost)
    <2>1. ASSUME NEW i \in DOMAIN r
          PROVE  (\E j \in DOMAIN q : j < i + 1 /\ q[j].type = "newkeys") <=> (\E j \in DOMAIN r : j < i /\ r[j].type = "newkeys")
      <3>1. ASSUME NEW j \in DOMAIN q, j < i + 1, q[j].type = "newkeys" PROVE \E k \in DOMAIN r : k < i /\ r[k].type = "newkeys"
        <4>1. j # 1
          BY <1>1, <1>8, <3>1
        <4>2. j - 1 \in DOMAIN r /\ r[j - 1].type = "newkeys" /\ j - 1 < i
          BY <1>1, <1>3, <3>1, <4>1
        <4> QED BY <4>2
      <3>2. ASSUME NEW j \in DOMAIN r, j < i, r[j].type = "newkeys" PROVE \E k \in DOMAIN q : k < i + 1 /\ q[k].type = "newkeys"
        <4>1. j + 1 \in DOMAIN q /\ q[j + 1].type = "newkeys" /\ j + 1 < i + 1
          BY <1>1, <1>2, <3>2
        <4> QED BY <4>1
      <3> QED BY <3>1, <3>2
    <2>2. ASSUME NEW i \in DOMAIN r
          PROVE  r[i] \in lost \/ r[i].key = IF \E j \in DOMAIN r : j < i /\ r[j].type = "newkeys" THEN new ELSE old
      BY <1>7, <1>8, <2>1
    <2> QED BY <2>2 DEF Keyed
  <1>9. ASSUME Keyed(q, new, old, lost), p.type = "newkeys" PROVE Keyed(r, new, new, lost)
    <2>1. ASSUME NEW i \in DOMAIN r PROVE \E j \in DOMAIN q : j < i + 1 /\ q[j].type = "newkeys"
      <3>1. 1 \in DOMAIN q /\ 1 < i + 1 /\ q[1].type = "newkeys"
        BY <1>1, <1>9
      <3> QED BY <3>1
    <2>2. ASSUME NEW i \in DOMAIN r
          PROVE  r[i] \in lost \/ r[i].key = IF \E j \in DOMAIN r : j < i /\ r[j].type = "newkeys" THEN new ELSE new
      BY <1>7, <1>9, <2>1
    <2> QED BY <2>2 DEF Keyed
  <1>10. ASSUME InOrder(q) PROVE InOrder(r) /\ (p.type \in {"gexrequest", "kexdhinit"} => "kexinit" \notin Types(q))
    <2>1. ASSUME NEW i \in DOMAIN r, NEW j \in DOMAIN r, r[i].type = "kexinit", r[j].type \in {"gexrequest", "kexdhinit"}
          PROVE  i < j
      <3>1. i + 1 < j + 1
        BY <1>2, <1>10, <2>1 DEF InOrder
      <3> QED BY <1>1, <3>1
    <2>2. ASSUME p.type \in {"gexrequest", "kexdhinit"}, NEW i \in DOMAIN q, q[i].type = "kexinit" PROVE FALSE
      <3>1. i < 1
        BY <1>1, <1>10, <2>2 DEF InOrder
      <3> QED BY <1>1, <3>1
    <2> QED BY <2>1, <2>2 DEF InOrder, Types
  <1> QED BY <1>1, <1>4, <1>5, <1>6, <1>8, <1>9, <1>10 DEF r, p

\* Without NEWKEYS in the queue the new key does not matter.
LEMMA KeyedByOne ==
    ASSUME NEW q, NEW new, NEW next, NEW old, NEW lost, "newkeys" \notin Types(q), Keyed(q, new, old, lost)
    PROVE  Keyed(q, next, old, lost)
  <1>1. ASSUME NEW j \in DOMAIN q, q[j].type = "newkeys" PROVE FALSE
    BY <1>1 DEF Types
  <1> QED BY <1>1 DEF Keyed

\* Two lists, joined.
LEMMA TwoPackets == ASSUME NEW x, NEW y PROVE <<x>> \o <<y>> = <<x, y>> /\ <<x>> \o <<>> = <<x>>
  <1>1. PICK S : S = {x, y}
    OBVIOUS
  <1>2. PICK e : e = <<>>
    OBVIOUS
  <1>3. PICK z : z = <<x>>
    OBVIOUS
  <1>4. e \in Seq(S)
    BY <1>2
  <1>5. z \in Seq(S)
    BY <1>1, <1>3
  <1>6. e \o <<x, y>> = Append(Append(e, x), y) /\ z \o <<>> = z /\ z \o <<y>> = Append(z, y)
    BY <1>1, <1>4, <1>5
  <1>7. e \o <<x, y>> = <<x, y>> /\ Append(e, x) = z
    BY <1>2, <1>3
  <1> QED BY <1>3, <1>6, <1>7

\* What the client puts into the queue.
LEMMA PutIs ==
    ASSUME NEW a, NEW b, toSrv \in Seq(ToServer)
    PROVE  /\ Transport!Put(<<>>) => toSrv' = toSrv
           /\ Transport!Put(<<a>>) => toSrv' = Append(toSrv, Transport!Sealed(a))
           /\ Transport!Put(<<a, b>>) => toSrv' = Append(Append(toSrv, Transport!Sealed(a)), Transport!Sealed(b))
  <1>1. PICK q \in Seq(ToServer) : q = toSrv
    OBVIOUS
  <1>2. PICK x : x = Transport!Sealed(a)
    OBVIOUS
  <1>3. PICK y : y = Transport!Sealed(b)
    OBVIOUS
  <1>4. ASSUME Transport!Put(<<>>) PROVE toSrv' = toSrv
    <2>1. toSrv' = q \o [i \in DOMAIN <<>> |-> Transport!Sealed(<<>>[i])]
      BY <1>1, <1>4 DEF Transport!Put
    <2>2. [i \in DOMAIN <<>> |-> Transport!Sealed(<<>>[i])] = <<>>
      OBVIOUS
    <2> QED BY <1>1, <2>1, <2>2
  <1>5. ASSUME Transport!Put(<<a>>) PROVE toSrv' = Append(toSrv, Transport!Sealed(a))
    <2>1. toSrv' = q \o [i \in DOMAIN <<a>> |-> Transport!Sealed(<<a>>[i])]
      BY <1>1, <1>5 DEF Transport!Put
    <2>2. [i \in DOMAIN <<a>> |-> Transport!Sealed(<<a>>[i])] = <<Transport!Sealed(a)>>
      OBVIOUS
    <2>3. q \o <<x>> = Append(q, x)
      OBVIOUS
    <2> QED BY <1>1, <1>2, <2>1, <2>2, <2>3
  <1>6. ASSUME Transport!Put(<<a, b>>)
        PROVE  toSrv' = Append(Append(toSrv, Transport!Sealed(a)), Transport!Sealed(b))
    <2>1. toSrv' = q \o [i \in DOMAIN <<a, b>> |-> Transport!Sealed(<<a, b>>[i])]
      BY <1>1, <1>6 DEF Transport!Put
    <2>2. [i \in DOMAIN <<a, b>> |-> Transport!Sealed(<<a, b>>[i])] = <<Transport!Sealed(a), Transport!Sealed(b)>>
      OBVIOUS
    <2>3. q \o <<x, y>> = Append(Append(q, x), y)
      OBVIOUS
    <2> QED BY <1>1, <1>2, <1>3, <2>1, <2>2, <2>3
  <1> QED BY <1>4, <1>5, <1>6

\* What the server puts into the queue.
LEMMA ReplyIs ==
    ASSUME NEW a, NEW b, toCli \in Seq(ToClient)
    PROVE  /\ Transport!Reply(<<a>>) => toCli' = Append(toCli, [type |-> a, key |-> srvOut])
           /\ Transport!Reply(<<a, b>>) =>
                toCli' = Append(Append(toCli, [type |-> a, key |-> srvOut]), [type |-> b, key |-> srvOut])
  <1>1. PICK q \in Seq(ToClient) : q = toCli
    OBVIOUS
  <1>2. PICK x : x = [type |-> a, key |-> srvOut]
    OBVIOUS
  <1>3. PICK y : y = [type |-> b, key |-> srvOut]
    OBVIOUS
  <1>5. ASSUME Transport!Reply(<<a>>) PROVE toCli' = Append(toCli, [type |-> a, key |-> srvOut])
    <2>1. toCli' = q \o [i \in DOMAIN <<a>> |-> [type |-> <<a>>[i], key |-> srvOut]]
      BY <1>1, <1>5 DEF Transport!Reply
    <2>2. [i \in DOMAIN <<a>> |-> [type |-> <<a>>[i], key |-> srvOut]] = <<[type |-> a, key |-> srvOut]>>
      OBVIOUS
    <2>3. q \o <<x>> = Append(q, x)
      OBVIOUS
    <2> QED BY <1>1, <1>2, <2>1, <2>2, <2>3
  <1>6. ASSUME Transport!Reply(<<a, b>>)
        PROVE  toCli' = Append(Append(toCli, [type |-> a, key |-> srvOut]), [type |-> b, key |-> srvOut])
    <2>1. toCli' = q \o [i \in DOMAIN <<a, b>> |-> [type |-> <<a, b>>[i], key |-> srvOut]]
      BY <1>1, <1>6 DEF Transport!Reply
    <2>2. [i \in DOMAIN <<a, b>> |-> [type |-> <<a, b>>[i], key |-> srvOut]]
            = <<[type |-> a, key |-> srvOut], [type |-> b, key |-> srvOut]>>
      OBVIOUS
    <2>3. q \o <<x, y>> = Append(Append(q, x), y)
      OBVIOUS
    <2> QED BY <1>1, <1>2, <1>3, <2>1, <2>2, <2>3
  <1> QED BY <1>5, <1>6

-----------------------------------------------------------------------------
(* The choice of ciphers.                                                  *)

\* The place found is that of the first cipher the other side has.
LEMMA FirstCommonIs ==
    ASSUME NEW offer
    PROVE  LET c == Transport!FirstCommon(offer)
           IN  c = 0 \/ (/\ c \in DOMAIN Preference /\ c \in Nat \ {0} /\ Preference[c] \in offer
                         /\ \A j \in 1 .. (c - 1) : Preference[j] \notin offer)
  <1> DEFINE best == {i \in DOMAIN Preference : /\ Preference[i] \in offer
                                                /\ \A j \in 1..(i - 1) : Preference[j] \notin offer}
  <1>1. Transport!FirstCommon(offer) = IF best = {} THEN 0 ELSE CHOOSE i \in best : TRUE
    BY DEF Transport!FirstCommon
  <1>2. best # {} => (CHOOSE i \in best : TRUE) \in best
    OBVIOUS
  <1>3. \A i \in best : /\ i \in DOMAIN Preference /\ i \in Nat \ {0} /\ Preference[i] \in offer
                        /\ \A j \in 1 .. (i - 1) : Preference[j] \notin offer
    BY MCAssumption
  <1> HIDE DEF best
  <1> QED BY <1>1, <1>2, <1>3

\* The ciphers chosen are the best, and those below the line were asked for.
LEMMA ChosenAreBest ==
    ASSUME Chosen, peer \in Offers, NEW d \in {"cs", "sc"}
    PROVE  /\ tobe[d] \in peer[d] /\ tobe[d] \in Transport!Ciphers
           /\ LET pos == CHOOSE i \in DOMAIN Preference : Preference[i] = tobe[d]
                  line == CHOOSE i \in DOMAIN Preference : Preference[i] = "warn"
              IN /\ \A i \in 1..(pos - 1) : Preference[i] \notin peer[d]
                 /\ pos > line <=> d \in asked
  <1> DEFINE pos == CHOOSE i \in DOMAIN Preference : Preference[i] = tobe[d]
             line == CHOOSE i \in DOMAIN Preference : Preference[i] = "warn"
  <1>1. PICK c : c = Transport!FirstCommon(peer[d])
    OBVIOUS
  <1>2. c > 0 /\ tobe[d] = Preference[c] /\ (d \in asked <=> \E i \in 1 .. c : Preference[i] = "warn")
    <2>1. CASE d = "cs"
      <3>1. c = Transport!FirstCommon(peer.cs)
        BY <1>1, <2>1
      <3> QED BY <2>1, <3>1 DEF Chosen, Common, Transport!Warned
    <2>2. CASE d = "sc"
      <3>1. c = Transport!FirstCommon(peer.sc)
        BY <1>1, <2>2
      <3> QED BY <2>2, <3>1 DEF Chosen, Common, Transport!Warned
    <2> QED BY <2>1, <2>2
  <1>3. /\ c \in DOMAIN Preference /\ c \in Nat \ {0} /\ Preference[c] \in peer[d]
        /\ \A j \in 1 .. (c - 1) : Preference[j] \notin peer[d]
    BY <1>1, <1>2, FirstCommonIs
  <1>4. pos = c
    <2>1. \E i \in DOMAIN Preference : Preference[i] = tobe[d]
      BY <1>2, <1>3
    <2>2. pos \in DOMAIN Preference /\ Preference[pos] = tobe[d]
      BY <2>1
    <2> HIDE DEF pos
    <2> QED BY <1>2, <1>3, <2>2, MCAssumption
  <1>5. line \in DOMAIN Preference /\ Preference[line] = "warn"
    BY MCAssumption
  <1>6. "warn" \notin peer[d]
    BY MCAssumption
  <1> HIDE DEF pos, line
  <1>7. DOMAIN Preference \subseteq Nat \ {0}
    BY MCAssumption
  <1>8. c # line
    BY <1>3, <1>5, <1>6
  <1>9. c > line <=> d \in asked
    <2>1. ASSUME c > line PROVE d \in asked
      BY <1>2, <1>3, <1>5, <1>7, <2>1
    <2>2. ASSUME d \in asked PROVE c > line
      <3>1. PICK i \in 1 .. c : Preference[i] = "warn"
        BY <1>2, <2>2
      <3>2. i = line
        BY <1>3, <1>5, <3>1, MCAssumption
      <3> QED BY <1>3, <1>5, <1>7, <1>8, <3>1, <3>2
    <2> QED BY <2>1, <2>2
  <1>10. tobe[d] \in Transport!Ciphers
    BY <1>2, <1>3, <1>6 DEF Transport!Ciphers
  <1> QED BY <1>2, <1>3, <1>4, <1>9, <1>10 DEF pos, line

-----------------------------------------------------------------------------
(* The steps of the transport layer.                                       *)

ClientTypes == ClientKex \cup {"ignore", "data", "unimplemented"}
ServerTypes == ServerKex \cup {"ignore", "data", "unknown", "disconnect"}

\* A packet joins the queue to the server with the key it should have.
LEMMA Queued ==
    ASSUME NEW q \in Seq(ToServer), NEW m \in ToServer, NEW new, NEW old,
           Queue(q, new, old), m.gap => m.type \notin ClientKex, m.type \notin ClientKex \cap Types(q),
           m.gap \/ m.key = IF "newkeys" \in Types(q) THEN new ELSE old,
           m.type = "kexinit" => Types(q) \cap {"gexrequest", "kexdhinit"} = {}
    PROVE  Queue(Append(q, m), new, old)
  <1>1. Keyed(Append(q, m), new, old, InGap)
    BY PacketAppended DEF Queue, InGap
  <1>2. Once(Append(q, m), ClientKex) /\ InOrder(Append(q, m))
    BY PacketAppended DEF Queue
  <1>3. \A i \in DOMAIN Append(q, m) : Append(q, m)[i].gap => Append(q, m)[i].type \notin ClientKex
    BY Appended DEF Queue
  <1> QED BY <1>1, <1>2, <1>3 DEF Queue

\* The invariant of an open connection.
LEMMA OpenKeeps ==
    ASSUME TransTyped', Choice', Sessions', Fits', Wire', srvpc' # "gone" => Joint'
    PROVE  TransInv'
  <1>1. Transport!KeysAgree'
    <2>1. ASSUME kpc' = "run", srvpc' = "run", toSrv' = <<>>, toCli' = <<>>
          PROVE  csKey' = srvIn' /\ scKey' = srvOut' /\ csKey' = scKey' /\ session' = srvSession' /\ session' = 1
      <3>1. Types(toSrv') = {} /\ Types(toCli') = {}
        BY <2>1 DEF Types
      <3>2. Told' = {} /\ Said' = {}
        BY <3>1 DEF Told, Said
      <3>3. csKey' = srvIn'
        BY <2>1, <3>2 DEF Joint
      <3>4. scKey' = srvOut'
        BY <3>2 DEF Wire
      <3>5. session' = 1 /\ srvSession' = 1
        BY <2>1 DEF Sessions
      <3> QED BY <3>3, <3>4, <3>5 DEF TransTyped
    <2> QED BY <2>1 DEF Transport!KeysAgree
  <1> QED BY <1>1 DEF TransInv

\* What an open connection has.
LEMMA OpenHas ==
    ASSUME TransInv, kstate = "open"
    PROVE  TransTyped /\ Choice /\ Sessions /\ Fits /\ Wire /\ (srvpc # "gone" => Joint)
  BY DEF TransInv

\* A packet of the client's is one.
LEMMA SealedIs ==
    ASSUME TransTyped, NEW t \in ClientTypes
    PROVE  /\ Transport!Sealed(t) \in ToServer /\ Transport!Sealed(t).type = t
           /\ Transport!Sealed(t).key = csKey /\ (Transport!Sealed(t).gap <=> kpc = "newkeys")
  <1>1. csKey \in Nat /\ (kpc = "newkeys") \in BOOLEAN
    BY MCAssumption DEF TransTyped
  <1> QED BY <1>1 DEF Transport!Sealed, ToServer, ClientTypes

\* What is true of the queue to the server after one packet from the client.
LEMMA ClientSends ==
    ASSUME TransInv, kstate = "open", NEW t \in ClientTypes, toSrv' = Append(toSrv, Transport!Sealed(t))
    PROVE  /\ toSrv' \in Seq(ToServer) /\ toSrv' # <<>>
           /\ Told' = Told \cup ({t} \cap ClientKex)
           /\ /\ srvpc # "gone" /\ t \notin Told /\ (t \in ClientKex => kpc # "newkeys")
              /\ t = "kexinit" => Told \cap {"gexrequest", "kexdhinit"} = {}
              => Queue(toSrv', exch, srvIn)
  <1>1. TransTyped /\ (srvpc # "gone" => Joint)
    BY OpenHas
  <1>2. PICK q \in Seq(ToServer) : q = toSrv
    BY <1>1 DEF TransTyped
  <1>3. PICK m \in ToServer : m = Transport!Sealed(t)
    BY <1>1, SealedIs
  <1>4. m.type = t /\ m.key = csKey /\ (m.gap <=> kpc = "newkeys")
    BY <1>1, <1>3, SealedIs
  <1>5. toSrv' = Append(q, m)
    BY <1>2, <1>3
  <1>6. Append(q, m) \in Seq(ToServer) /\ Types(Append(q, m)) = Types(q) \cup {t} /\ Append(q, m) # <<>>
    BY <1>4, PacketAppended
  <1>7. Told' = Told \cup ({t} \cap ClientKex)
    BY <1>2, <1>5, <1>6 DEF Told
  <1>8. ASSUME srvpc # "gone", t \notin Told, t \in ClientKex => kpc # "newkeys",
               t = "kexinit" => Told \cap {"gexrequest", "kexdhinit"} = {}
        PROVE  Queue(toSrv', exch, srvIn)
    <2>1. /\ Queue(q, exch, srvIn)
          /\ kpc # "newkeys" => csKey = IF "newkeys" \in Told THEN exch ELSE srvIn
      BY <1>1, <1>2, <1>8 DEF Joint
    <2>2. Told = Types(q) \cap ClientKex
      BY <1>2 DEF Told
    <2>3. "newkeys" \in Told <=> "newkeys" \in Types(q)
      BY <2>2 DEF ClientKex
    <2>4. t = "kexinit" => Types(q) \cap {"gexrequest", "kexdhinit"} = {}
      BY <1>8, <2>2 DEF ClientKex
    <2>5. m.gap \/ m.key = IF "newkeys" \in Types(q) THEN exch ELSE srvIn
      BY <1>4, <2>1, <2>3
    <2>6. t \notin ClientKex \cap Types(q) /\ (m.gap => m.type \notin ClientKex)
      BY <1>4, <1>8, <2>2
    <2>7. PICK e : e = exch
      OBVIOUS
    <2>8. PICK d : d = srvIn
      OBVIOUS
    <2>9. Queue(Append(q, m), e, d)
      BY <1>4, <2>1, <2>4, <2>5, <2>6, <2>7, <2>8, Queued
    <2> QED BY <1>5, <2>7, <2>8, <2>9
  <1> QED BY <1>5, <1>6, <1>7, <1>8

\* The first call.
LEMMA TypedFirstStep == ASSUME TransInv, Transport!TypedFirst PROVE TransInv'
  <1>1. /\ kstate = "open" /\ kpc = "start" /\ kpc' = "kexinit" /\ exch' = exch + 1 /\ Transport!Put(<<"kexinit">>)
        /\ UNCHANGED <<kstate, firstKex, csKey, scKey, session, peer, tobe, asked, toCli, srvpc, srvIn, srvOut, srvSession,
                       garbled>>
    BY DEF Transport!TypedFirst, Transport!serverVars
  <1>2. TransTyped /\ Choice /\ Sessions /\ Fits /\ Wire /\ (srvpc # "gone" => Joint)
    BY <1>1, OpenHas
  <1>3. toSrv' = Append(toSrv, Transport!Sealed("kexinit"))
    BY <1>1, <1>2, PutIs DEF TransTyped
  <1>4. /\ toSrv' \in Seq(ToServer) /\ Told' = Told \cup {"kexinit"}
        /\ srvpc # "gone" /\ Told = {} => Queue(toSrv', exch, srvIn)
    BY <1>1, <1>3, ClientSends DEF ClientTypes, ClientKex
  <1>5. exch = 0 /\ firstKex /\ session = 0 /\ exch' = 1
    BY <1>1, <1>2 DEF Sessions
  <1>6. Said' = Said /\ Types(toCli)' = Types(toCli) /\ Said \subseteq {"kexinit"}
    BY <1>1, <1>2 DEF Said, Fits
  <1>7. TransTyped'
    <2>1. exch' \in 0 .. MaxExchange /\ session' \in 0 .. 1 /\ session' <= exch' /\ csKey' \in 0 .. exch'
      BY <1>1, <1>2, <1>5, MCAssumption DEF TransTyped
    <2> QED BY <1>1, <1>2, <1>4, <2>1 DEF TransTyped
  <1>8. Choice'
    BY <1>1, <1>2 DEF Choice, Chosen, Common
  <1>9. Sessions' /\ Fits'
    BY <1>1, <1>2, <1>5, <1>6 DEF Sessions, Fits
  <1>10. Wire'
    BY <1>1, <1>2, <1>6 DEF Wire
  <1>11. ASSUME srvpc' # "gone" PROVE Joint'
    <2>1. Joint /\ Told = {}
      BY <1>1, <1>2, <1>11 DEF Joint, Stand, Answering
    <2>2. PICK q : q = toSrv'
      OBVIOUS
    <2>3. Queue(q, exch, srvIn) /\ "newkeys" \notin Types(q)
      <3>1. Types(toSrv') \cap ClientKex = {"kexinit"}
        BY <1>4, <2>1 DEF Told
      <3> QED BY <1>1, <1>4, <1>11, <2>1, <2>2, <3>1 DEF ClientKex
    <2>4. Queue(toSrv', exch', srvIn')
      BY <1>1, <2>2, <2>3, KeyedByOne DEF Queue
    <2>5. Stand'
      BY <1>1, <1>4, <1>6, <2>1 DEF Joint, Stand, Answering, Transport!KexInit
    <2> QED BY <1>1, <1>4, <2>1, <2>4, <2>5 DEF Joint
  <1> QED BY <1>7, <1>8, <1>9, <1>10, <1>11, OpenKeeps

\* A keepalive or data is sent.
LEMMA SendAnywayStep == ASSUME TransInv, Transport!SendAnyway PROVE TransInv'
  <1>1. /\ kstate = "open" /\ kpc # "start" /\ (Transport!Put(<<"ignore">>) \/ Transport!Put(<<"data">>))
        /\ UNCHANGED <<kpc, kstate, exch, firstKex, csKey, scKey, session, peer, tobe, asked, toCli,
                       srvpc, srvIn, srvOut, srvSession, garbled>>
    BY DEF Transport!SendAnyway, Transport!clientVars, Transport!serverVars
  <1>2. TransTyped /\ Choice /\ Sessions /\ Fits /\ Wire /\ (srvpc # "gone" => Joint)
    BY <1>1, OpenHas
  <1>3. PICK t \in {"ignore", "data"} : toSrv' = Append(toSrv, Transport!Sealed(t))
    BY <1>1, <1>2, PutIs DEF TransTyped
  <1>4. t \in ClientTypes /\ t \notin ClientKex
    BY DEF ClientTypes, ClientKex
  <1>5. toSrv' \in Seq(ToServer) /\ Told' = Told /\ (srvpc # "gone" => Queue(toSrv', exch, srvIn))
    BY <1>1, <1>3, <1>4, ClientSends DEF Told
  <1>6. TransTyped'
    BY <1>1, <1>2, <1>5 DEF TransTyped
  <1>7. Choice' /\ Sessions'
    BY <1>1, <1>2 DEF Choice, Chosen, Common, Sessions
  <1>8. Said' = Said /\ Types(toCli)' = Types(toCli)
    BY <1>1 DEF Said
  <1>9. Fits' /\ Wire'
    BY <1>1, <1>2, <1>8 DEF Fits, Wire
  <1>10. ASSUME srvpc' # "gone" PROVE Joint'
    <2>1. Joint
      BY <1>1, <1>2, <1>10
    <2>2. Queue(toSrv', exch', srvIn')
      BY <1>1, <1>5, <1>10
    <2>3. /\ kpc' # "newkeys" => csKey' = IF "newkeys" \in Told' THEN exch' ELSE srvIn'
          /\ kpc' = "newkeys" /\ "newkeys" \notin Told' => srvIn' = exch'
      BY <1>1, <1>5, <2>1 DEF Joint
    <2>4. Stand'
      BY <1>1, <1>5, <1>8, <2>1 DEF Joint, Stand, Answering, Transport!KexInit, Common
    <2> QED BY <2>2, <2>3, <2>4 DEF Joint
  <1> QED BY <1>6, <1>7, <1>9, <1>10, OpenKeeps

\* The client takes a packet.
Reads(p) ==
    /\ kstate = "open" /\ toCli # <<>> /\ p = Head(toCli) /\ toCli' = Tail(toCli)
    /\ UNCHANGED <<srvpc, srvIn, srvOut, srvSession, peer>>

\* It can read it, and it is gone from what the server has said.
LEMMA ReadIs ==
    ASSUME TransInv, NEW p, Reads(p)
    PROVE  /\ p \in ToClient /\ p.key = scKey /\ toCli' \in Seq(ToClient)
           /\ Said' = Said \ {p.type} /\ (p.type \in ServerKex => p.type \in Said)
           /\ Once(toCli', ServerKex)
           /\ Keyed(toCli', srvOut, IF p.type = "newkeys" THEN srvOut ELSE scKey, {})
           /\ p.type = "disconnect" \/ "disconnect" \in Types(toCli') => srvpc = "gone"
  <1>1. TransTyped /\ Wire
    BY OpenHas DEF Reads
  <1>2. PICK q \in Seq(ToClient) : q = toCli
    BY <1>1 DEF TransTyped
  <1>3. PICK n : n = srvOut
    OBVIOUS
  <1>4. PICK k : k = scKey
    OBVIOUS
  <1>5. q # <<>> /\ p = Head(q) /\ toCli' = Tail(q)
    BY <1>2 DEF Reads
  <1>6. Keyed(q, n, k, {}) /\ Once(q, ServerKex) /\ ("disconnect" \in Types(q) => srvpc = "gone")
    BY <1>1, <1>2, <1>3, <1>4 DEF Wire
  <1>7. /\ Tail(q) \in Seq(ToClient) /\ p \in ToClient /\ Types(q) = Types(Tail(q)) \cup {p.type}
        /\ Once(Tail(q), ServerKex) /\ Types(Tail(q)) \cap ServerKex = (Types(q) \cap ServerKex) \ {p.type}
        /\ p.key = k
        /\ p.type # "newkeys" => Keyed(Tail(q), n, k, {})
        /\ p.type = "newkeys" => Keyed(Tail(q), n, n, {})
    BY <1>5, <1>6, PacketTaken
  <1>8. Said = Types(q) \cap ServerKex /\ Said' = Types(Tail(q)) \cap ServerKex
    BY <1>2, <1>5 DEF Said
  <1>9. Said' = Said \ {p.type} /\ (p.type \in ServerKex => p.type \in Said)
    BY <1>7, <1>8
  <1>10. Keyed(toCli', srvOut, IF p.type = "newkeys" THEN srvOut ELSE scKey, {})
    BY <1>3, <1>4, <1>5, <1>7
  <1> QED BY <1>4, <1>5, <1>6, <1>7, <1>9, <1>10

\* A packet of the exchange joins the queue to the server.
LEMMA KexQueued ==
    ASSUME TransTyped, NEW q \in Seq(ToServer), NEW e, NEW t \in ClientKex, Queue(q, e, srvIn),
           kpc # "newkeys", csKey = srvIn, t \notin Types(q), "newkeys" \notin Types(q),
           t = "kexinit" => Types(q) \cap {"gexrequest", "kexdhinit"} = {}
    PROVE  Queue(Append(q, Transport!Sealed(t)), e, srvIn)
  <1>1. t \in ClientTypes
    BY DEF ClientTypes
  <1>2. PICK m \in ToServer : m = Transport!Sealed(t)
    BY <1>1, SealedIs
  <1>3. m.type = t /\ m.key = csKey /\ ~m.gap
    BY <1>1, <1>2, SealedIs
  <1>4. PICK d : d = srvIn
    OBVIOUS
  <1>5. Queue(Append(q, m), e, d)
    BY <1>3, <1>4, Queued
  <1> QED BY <1>2, <1>4, <1>5

\* What KEXINIT makes the client send.
KexPut ==
    Transport!Put((IF kpc \in {"start", "run"} THEN <<"kexinit">> ELSE <<>>)
                    \o (IF Common THEN <<Transport!KexInit>> ELSE <<>>))

\* It stands in the queue with the key it should have.
LEMMA KexPutIs ==
    ASSUME TransInv, kstate = "open", kpc \in {"start", "run", "kexinit"}, KexPut
    PROVE  /\ toSrv' \in Seq(ToServer) /\ (kpc # "kexinit" => toSrv' # <<>>)
           /\ Common => Told' = Told \cup {Transport!KexInit} \cup (IF kpc = "kexinit" THEN {} ELSE {"kexinit"})
           /\ /\ Common /\ srvpc # "gone" /\ Told \subseteq {"kexinit"} /\ (kpc # "kexinit" => Told = {})
              => Queue(toSrv', IF kpc = "kexinit" THEN exch ELSE exch + 1, srvIn)
  <1>1. TransTyped /\ (srvpc # "gone" => Joint)
    BY OpenHas
  <1>2. PICK q \in Seq(ToServer) : q = toSrv
    BY <1>1 DEF TransTyped
  <1>3. PICK a \in ToServer : a = Transport!Sealed("kexinit")
    BY <1>1, SealedIs DEF ClientTypes, ClientKex
  <1>4. PICK k \in {"gexrequest", "kexdhinit"} : k = Transport!KexInit
    BY DEF Transport!KexInit
  <1>5. PICK b \in ToServer : b = Transport!Sealed(k)
    BY <1>1, SealedIs DEF ClientTypes, ClientKex
  <1>6. a.type = "kexinit" /\ b.type = k
    BY <1>1, <1>3, <1>5, SealedIs DEF ClientTypes, ClientKex
  <1>7. PICK h \in Seq(ToServer) : h = IF kpc = "kexinit" THEN q ELSE Append(q, a)
    BY Appended
  <1>8. Types(h) = Types(q) \cup (IF kpc = "kexinit" THEN {} ELSE {"kexinit"}) /\ (kpc # "kexinit" => h # <<>>)
    <2>1. Types(Append(q, a)) = Types(q) \cup {a.type}
      BY PacketAppended
    <2>2. Append(q, a) # <<>>
      OBVIOUS
    <2> QED BY <1>6, <1>7, <2>1, <2>2
  <1>9. toSrv' = IF Common THEN Append(h, b) ELSE h
    <2>1. CASE kpc = "kexinit"
      <3>1. <<>> \o <<k>> = <<k>> /\ <<>> \o <<>> = <<>>
        OBVIOUS
      <3>2. Transport!Put(IF Common THEN <<k>> ELSE <<>>)
        BY <1>4, <2>1, <3>1 DEF KexPut
      <3> QED BY <1>2, <1>5, <1>7, <2>1, <3>2, PutIs
    <2>2. CASE kpc # "kexinit"
      <3>1. <<"kexinit">> \o <<k>> = <<"kexinit", k>> /\ <<"kexinit">> \o <<>> = <<"kexinit">>
        <4>1. PICK x : x = "kexinit"
          OBVIOUS
        <4> QED BY <4>1, TwoPackets
      <3>2. Transport!Put(IF Common THEN <<"kexinit", k>> ELSE <<"kexinit">>)
        BY <1>4, <2>2, <3>1 DEF KexPut
      <3> QED BY <1>2, <1>3, <1>5, <1>7, <2>2, <3>2, PutIs
    <2> QED BY <2>1, <2>2
  <1>10. Append(h, b) \in Seq(ToServer) /\ Types(Append(h, b)) = Types(h) \cup {k} /\ Append(h, b) # <<>>
    <2>1. Append(h, b) \in Seq(ToServer) /\ Types(Append(h, b)) = Types(h) \cup {b.type}
      BY PacketAppended
    <2>2. Append(h, b) # <<>>
      OBVIOUS
    <2> QED BY <1>6, <2>1, <2>2
  <1>11. ASSUME Common PROVE Told' = Told \cup {k} \cup (IF kpc = "kexinit" THEN {} ELSE {"kexinit"})
    <2>1. Told' = (Types(h) \cup {k}) \cap ClientKex /\ Told = Types(q) \cap ClientKex
      BY <1>2, <1>9, <1>10, <1>11 DEF Told
    <2> QED BY <1>8, <2>1 DEF ClientKex
  <1>12. ASSUME Common, srvpc # "gone", Told \subseteq {"kexinit"}, kpc # "kexinit" => Told = {}
         PROVE  Queue(toSrv', IF kpc = "kexinit" THEN exch ELSE exch + 1, srvIn)
    <2>1. Joint /\ "newkeys" \notin Told
      BY <1>1, <1>12
    <2>2. csKey = srvIn
      BY <2>1 DEF Joint
    <2>3. Told = Types(q) \cap ClientKex
      BY <1>2 DEF Told
    <2>4. /\ "newkeys" \notin Types(q) /\ Types(q) \cap {"gexrequest", "kexdhinit"} = {}
          /\ kpc # "kexinit" => "kexinit" \notin Types(q)
      BY <1>12, <2>3 DEF ClientKex
    <2>5. PICK e : e = IF kpc = "kexinit" THEN exch ELSE exch + 1
      OBVIOUS
    <2>6. Queue(q, e, srvIn)
      <3>1. Queue(q, exch, srvIn)
        BY <1>2, <2>1 DEF Joint
      <3>2. Keyed(q, e, srvIn, InGap)
        BY <2>4, <3>1, KeyedByOne DEF Queue
      <3> QED BY <3>1, <3>2 DEF Queue
    <2>7. Queue(h, e, srvIn)
      <3>1. ASSUME kpc # "kexinit" PROVE Queue(Append(q, Transport!Sealed("kexinit")), e, srvIn)
        BY <1>1, <2>2, <2>4, <2>6, <3>1, KexQueued DEF ClientKex
      <3> QED BY <1>3, <1>7, <2>6, <3>1
    <2>8. "newkeys" \notin Types(h) /\ k \notin Types(h)
      BY <1>8, <2>4
    <2>9. Queue(Append(h, Transport!Sealed(k)), e, srvIn)
      BY <1>1, <2>2, <2>7, <2>8, KexQueued DEF ClientKex
    <2> QED BY <1>5, <1>9, <1>12, <2>5, <2>9
  <1> QED BY <1>4, <1>7, <1>8, <1>9, <1>10, <1>11, <1>12

\* The invariant of a closed connection.
LEMMA ClosedKeeps ==
    ASSUME kstate' = "closed", TransTyped', Choice', Transport!KeysAgree'
    PROVE  TransInv'
  BY DEF TransInv

\* The server's KEXINIT.
LEMMA OnKexInitStep ==
    ASSUME TransInv, NEW p, Reads(p), Transport!OnKexInit(p), UNCHANGED garbled
    PROVE  TransInv'
  <1>1. /\ kpc \in {"start", "run", "kexinit"} /\ p.type = "kexinit" /\ kstate = "open" /\ KexPut
        /\ exch' = (IF kpc \in {"start", "run"} THEN exch + 1 ELSE exch)
        /\ UNCHANGED <<firstKex, csKey, scKey, session, peer, srvpc, srvIn, srvOut, srvSession, garbled>>
    BY DEF Transport!OnKexInit, Reads, KexPut, Common
  <1>2. \/ Common /\ Chosen' /\ kpc' = Answering /\ kstate' = "open"
        \/ kstate' = "closed" /\ kpc' = kpc /\ (IF Common THEN Chosen' ELSE tobe' = Transport!NoChoice /\ asked' = {})
    <2>1. CASE Common
      <3>1. /\ tobe' = [cs |-> Preference[Transport!FirstCommon(peer.cs)], sc |-> Preference[Transport!FirstCommon(peer.sc)]]
            /\ asked' = Transport!Warned(Transport!FirstCommon(peer.cs), Transport!FirstCommon(peer.sc))
            /\ \/ kpc' = (IF peer.gex THEN "group" ELSE "reply") /\ kstate' = kstate
               \/ kstate' = "closed" /\ kpc' = kpc
        BY <2>1 DEF Transport!OnKexInit, Transport!Close, Common
      <3>2. Chosen'
        BY <1>1, <2>1, <3>1 DEF Chosen, Common
      <3> QED BY <1>1, <2>1, <3>1, <3>2 DEF Answering
    <2>2. CASE ~Common
      BY <2>2 DEF Transport!OnKexInit, Transport!Close, Common
    <2> QED BY <2>1, <2>2
  <1>3. TransTyped /\ Choice /\ Sessions /\ Fits /\ Wire /\ (srvpc # "gone" => Joint)
    BY <1>1, OpenHas
  <1>4. /\ toCli' \in Seq(ToClient) /\ Said' = Said \ {"kexinit"} /\ "kexinit" \in Said /\ Once(toCli', ServerKex)
        /\ Keyed(toCli', srvOut, scKey, {}) /\ ("disconnect" \in Types(toCli') => srvpc = "gone")
    BY <1>1, ReadIs DEF ServerKex
  <1>5. /\ toSrv' \in Seq(ToServer) /\ (kpc # "kexinit" => toSrv' # <<>>)
        /\ Common => Told' = Told \cup {Transport!KexInit} \cup (IF kpc = "kexinit" THEN {} ELSE {"kexinit"})
        /\ /\ Common /\ srvpc # "gone" /\ Told \subseteq {"kexinit"} /\ (kpc # "kexinit" => Told = {})
           => Queue(toSrv', IF kpc = "kexinit" THEN exch ELSE exch + 1, srvIn)
    BY <1>1, KexPutIs
  <1>6. exch \in Nat /\ exch' \in 0 .. MaxExchange /\ exch <= exch'
    BY <1>1, <1>3, <1>4, MCAssumption DEF TransTyped, Wire
  <1>7. kpc' \in {"start", "kexinit", "group", "reply", "newkeys", "run"} /\ kstate' \in {"open", "closed"}
    BY <1>1, <1>2 DEF Answering
  <1>8. TransTyped'
    <2>1. session' \in 0 .. 1 /\ session' <= exch' /\ csKey' \in 0 .. exch'
      BY <1>1, <1>3, <1>6, MCAssumption DEF TransTyped
    <2> QED BY <1>1, <1>3, <1>4, <1>5, <1>6, <1>7, <2>1 DEF TransTyped
  <1>9. CASE kstate' = "closed"
    <2>1. Choice'
      <3>1. kpc = "run" => Common
        BY <1>3 DEF Choice, Chosen
      <3> QED BY <1>1, <1>2, <1>9, <3>1 DEF Choice
    <2>2. Transport!KeysAgree'
      BY <1>2, <1>5, <1>9 DEF Transport!KeysAgree
    <2> QED BY <1>8, <1>9, <2>1, <2>2, ClosedKeeps
  <1>10. CASE kstate' # "closed"
    <2>1. Common /\ Chosen' /\ kpc' = Answering /\ kpc' \in {"group", "reply"}
      BY <1>2, <1>10 DEF Answering
    <2>2. Choice'
      BY <2>1 DEF Choice
    <2>3. Sessions'
      <3>1. /\ kpc = "start" => exch = 0 /\ firstKex
            /\ kpc # "start" => exch > 0
            /\ IF firstKex THEN exch <= 1 /\ session = 0 ELSE session = 1
            /\ kpc = "run" => ~firstKex /\ srvSession = 1
            /\ srvSession = 0 => exch <= 1
        BY <1>3 DEF Sessions
      <3>2. exch' > 0
        BY <1>1, <1>6, <3>1
      <3>3. firstKex \/ srvSession = 0 => exch' <= 1
        BY <1>1, <1>6, <3>1
      <3> QED BY <1>1, <2>1, <3>1, <3>2, <3>3 DEF Sessions
    <2>5. Said' = {}
      BY <1>1, <1>3, <1>4 DEF Fits
    <2>6. Fits'
      BY <2>5 DEF Fits
    <2>7. Wire'
      <3>1. srvOut = scKey
        BY <1>1, <1>3, <1>4, <2>5 DEF Wire, Fits
      <3> QED BY <1>1, <1>4, <2>5, <3>1 DEF Wire
    <2>8. ASSUME srvpc' # "gone" PROVE Joint'
      <3>1. Joint /\ srvpc # "gone"
        BY <1>1, <1>3, <2>8
      <3>2. Stand
        BY <3>1 DEF Joint
      <3>3. \/ kpc # "kexinit" /\ srvpc = "kexinit" /\ Told = {}
            \/ kpc = "kexinit" /\ srvpc = "kexinit" /\ Told = {"kexinit"}
            \/ kpc = "kexinit" /\ srvpc = "init" /\ Told = {}
        BY <1>1, <1>4, <3>2 DEF Stand, Answering
      <3>4. Told \subseteq {"kexinit"} /\ (kpc # "kexinit" => Told = {})
        BY <3>3
      <3>5. Queue(toSrv', IF kpc = "kexinit" THEN exch ELSE exch + 1, srvIn)
        BY <1>5, <2>1, <3>1, <3>4
      <3>6. exch' = IF kpc = "kexinit" THEN exch ELSE exch + 1
        BY <1>1
      <3>7. Queue(toSrv', exch', srvIn')
        BY <1>1, <3>5, <3>6
      <3>8. Told' = Told \cup {Transport!KexInit} \cup (IF kpc = "kexinit" THEN {} ELSE {"kexinit"})
        BY <1>5, <2>1
      <3>9. Transport!KexInit' = Transport!KexInit /\ Transport!KexInit \in {"gexrequest", "kexdhinit"} /\ Answering' = Answering
        BY <1>1 DEF Transport!KexInit, Answering
      <3>10. csKey' = IF "newkeys" \in Told' THEN exch' ELSE srvIn'
        <4>1. "newkeys" \notin Told /\ "newkeys" \notin Told'
          BY <3>4, <3>8, <3>9
        <4>2. csKey = srvIn
          BY <1>1, <3>1, <4>1 DEF Joint
        <4> QED BY <1>1, <4>1, <4>2
      <3>11. Stand'
        <4>1. \/ srvpc = "kexinit" /\ Told' = {"kexinit", Transport!KexInit}
              \/ srvpc = "init" /\ Told' = {Transport!KexInit}
          BY <3>3, <3>8
        <4> QED BY <1>1, <2>1, <2>5, <3>9, <4>1 DEF Stand
      <3> QED BY <2>1, <3>7, <3>10, <3>11 DEF Joint
    <2> QED BY <1>8, <2>2, <2>3, <2>6, <2>7, <2>8, OpenKeeps
  <1> QED BY <1>9, <1>10

\* The group the server proposes.
LEMMA OnGroupStep ==
    ASSUME TransInv, NEW p, Reads(p), Transport!OnGroup(p), UNCHANGED garbled
    PROVE  TransInv'
  <1>1. /\ kpc = "group" /\ p.type = "group" /\ kstate = "open" /\ kpc' = "reply" /\ Transport!Put(<<"gexinit">>)
        /\ UNCHANGED <<kstate, exch, firstKex, csKey, scKey, session, peer, tobe, asked, srvpc, srvIn, srvOut, srvSession,
                       garbled>>
    BY DEF Transport!OnGroup, Reads
  <1>2. TransTyped /\ Choice /\ Sessions /\ Fits /\ Wire /\ (srvpc # "gone" => Joint)
    BY <1>1, OpenHas
  <1>3. /\ toCli' \in Seq(ToClient) /\ Said' = Said \ {"group"} /\ "group" \in Said /\ Once(toCli', ServerKex)
        /\ Keyed(toCli', srvOut, scKey, {}) /\ ("disconnect" \in Types(toCli') => srvpc = "gone")
    BY <1>1, ReadIs DEF ServerKex
  <1>4. toSrv' = Append(toSrv, Transport!Sealed("gexinit"))
    BY <1>1, <1>2, PutIs DEF TransTyped
  <1>5. /\ toSrv' \in Seq(ToServer) /\ Told' = Told \cup {"gexinit"}
        /\ srvpc # "gone" /\ Told = {} => Queue(toSrv', exch, srvIn)
    BY <1>1, <1>4, ClientSends DEF ClientTypes, ClientKex
  <1>6. TransTyped'
    BY <1>1, <1>2, <1>3, <1>5 DEF TransTyped
  <1>7. Choice' /\ Sessions'
    BY <1>1, <1>2 DEF Choice, Chosen, Common, Sessions
  <1>8. Said' = {} /\ "newkeys" \notin Said
    BY <1>1, <1>2, <1>3 DEF Fits
  <1>9. Fits'
    BY <1>8 DEF Fits
  <1>10. Wire'
    BY <1>1, <1>2, <1>3, <1>8 DEF Wire
  <1>11. ASSUME srvpc' # "gone" PROVE Joint'
    <2>1. Joint
      BY <1>1, <1>2, <1>11
    <2>2. Told = {} /\ srvpc = "init" /\ csKey = srvIn
      BY <1>1, <1>3, <2>1 DEF Joint, Stand, Answering
    <2>3. Queue(toSrv', exch', srvIn')
      BY <1>1, <1>5, <1>11, <2>2
    <2>4. Told' = {"gexinit"}
      BY <1>5, <2>2
    <2>5. Stand'
      BY <1>1, <1>8, <2>2, <2>4 DEF Stand
    <2> QED BY <1>1, <2>2, <2>3, <2>4, <2>5 DEF Joint
  <1> QED BY <1>6, <1>7, <1>9, <1>10, <1>11, OpenKeeps

\* The server's answer, which the user may refuse.
LEMMA OnReplyStep ==
    ASSUME TransInv, NEW p, Reads(p), Transport!OnReply(p), UNCHANGED garbled
    PROVE  TransInv'
  <1>1. /\ kpc = "reply" /\ p.type = "reply" /\ kstate = "open"
        /\ \/ Transport!Put(<<"newkeys">>) /\ kpc' = "newkeys" /\ kstate' = kstate
           \/ kstate' = "closed" /\ kpc' = kpc /\ toSrv' = toSrv
        /\ UNCHANGED <<exch, firstKex, csKey, scKey, session, peer, tobe, asked, srvpc, srvIn, srvOut, srvSession, garbled>>
    BY DEF Transport!OnReply, Transport!Close, Reads
  <1>2. TransTyped /\ Choice /\ Sessions /\ Fits /\ Wire /\ (srvpc # "gone" => Joint)
    BY <1>1, OpenHas
  <1>3. /\ toCli' \in Seq(ToClient) /\ Said' = Said \ {"reply"} /\ "reply" \in Said /\ Once(toCli', ServerKex)
        /\ Keyed(toCli', srvOut, scKey, {}) /\ ("disconnect" \in Types(toCli') => srvpc = "gone")
    BY <1>1, ReadIs DEF ServerKex
  <1>4. CASE kstate' = "closed"
    <2>1. kpc' = kpc /\ toSrv' = toSrv
      BY <1>1, <1>4
    <2>2. TransTyped' /\ Choice'
      BY <1>1, <1>2, <1>3, <1>4, <2>1 DEF TransTyped, Choice, Chosen, Common
    <2>3. Transport!KeysAgree'
      BY <1>1, <2>1 DEF Transport!KeysAgree
    <2> QED BY <1>4, <2>2, <2>3, ClosedKeeps
  <1>5. CASE kstate' # "closed"
    <2>1. Transport!Put(<<"newkeys">>) /\ kpc' = "newkeys" /\ kstate' = kstate
      BY <1>1, <1>5
    <2>2. toSrv' = Append(toSrv, Transport!Sealed("newkeys"))
      BY <1>2, <2>1, PutIs DEF TransTyped
    <2>3. /\ toSrv' \in Seq(ToServer) /\ Told' = Told \cup {"newkeys"}
          /\ srvpc # "gone" /\ Told = {} => Queue(toSrv', exch, srvIn)
      BY <1>1, <2>2, ClientSends DEF ClientTypes, ClientKex
    <2>4. TransTyped'
      BY <1>1, <1>2, <1>3, <2>1, <2>3 DEF TransTyped
    <2>5. Choice' /\ Sessions'
      BY <1>1, <1>2, <2>1 DEF Choice, Chosen, Common, Sessions
    <2>6. Said \subseteq {"reply", "newkeys"}
      BY <1>1, <1>2 DEF Fits
    <2>7. Said' \subseteq {"newkeys"} /\ ("newkeys" \in Said' <=> "newkeys" \in Said)
      BY <1>3, <2>6
    <2>8. Fits'
      BY <2>1, <2>7 DEF Fits
    <2>9. Wire'
      BY <1>1, <1>2, <1>3, <2>1, <2>7 DEF Wire
    <2>10. ASSUME srvpc' # "gone" PROVE Joint'
      <3>1. Joint
        BY <1>1, <1>2, <2>10
      <3>2. Told = {} /\ srvpc = "newkeys" /\ Said = {"reply", "newkeys"}
        BY <1>1, <1>3, <3>1 DEF Joint, Stand, Answering
      <3>3. Queue(toSrv', exch', srvIn')
        BY <1>1, <2>3, <2>10, <3>2
      <3>4. Told' = {"newkeys"} /\ Said' = {"newkeys"}
        BY <1>3, <2>3, <3>2
      <3>5. Stand'
        BY <1>1, <2>1, <3>2, <3>4 DEF Stand
      <3> QED BY <2>1, <3>3, <3>4, <3>5 DEF Joint
    <2> QED BY <2>4, <2>5, <2>8, <2>9, <2>10, OpenKeeps
  <1> QED BY <1>4, <1>5

\* The server's NEWKEYS, which changes the keys of both directions.
LEMMA OnNewKeysStep ==
    ASSUME TransInv, NEW p, Reads(p), Transport!OnNewKeys(p), UNCHANGED garbled
    PROVE  TransInv'
  <1>1. /\ kpc = "newkeys" /\ p.type = "newkeys" /\ kstate = "open" /\ kpc' = "run"
        /\ scKey' = exch /\ csKey' = exch /\ firstKex' = FALSE /\ session' = (IF firstKex THEN exch ELSE session)
        /\ UNCHANGED <<kstate, exch, peer, tobe, asked, toSrv, srvpc, srvIn, srvOut, srvSession, garbled>>
    BY DEF Transport!OnNewKeys, Transport!NewKeys, Transport!SessionId, Reads
  <1>2. TransTyped /\ Choice /\ Sessions /\ Fits /\ Wire /\ (srvpc # "gone" => Joint)
    BY <1>1, OpenHas
  <1>3. /\ toCli' \in Seq(ToClient) /\ Said' = Said \ {"newkeys"} /\ "newkeys" \in Said /\ Once(toCli', ServerKex)
        /\ Keyed(toCli', srvOut, srvOut, {}) /\ ("disconnect" \in Types(toCli') => srvpc = "gone")
    BY <1>1, ReadIs DEF ServerKex
  <1>4. srvOut = exch /\ srvSession = 1
    BY <1>2, <1>3 DEF Wire
  <1>5. exch \in Nat /\ exch > 0 /\ session' = 1
    <2>1. exch \in Nat
      BY <1>2, MCAssumption DEF TransTyped
    <2>2. exch > 0 /\ IF firstKex THEN exch <= 1 /\ session = 0 ELSE session = 1
      BY <1>1, <1>2 DEF Sessions
    <2> QED BY <1>1, <2>1, <2>2
  <1>6. TransTyped'
    <2>1. csKey' \in 0 .. exch' /\ session' \in 0 .. 1 /\ session' <= exch'
      BY <1>1, <1>5
    <2> QED BY <1>1, <1>2, <1>3, <2>1 DEF TransTyped
  <1>7. Choice'
    BY <1>1, <1>2 DEF Choice, Chosen, Common
  <1>8. Sessions'
    BY <1>1, <1>2, <1>4, <1>5 DEF Sessions
  <1>9. Said \subseteq {"newkeys", "kexinit"}
    BY <1>1, <1>2 DEF Fits
  <1>10. Said' \subseteq {"kexinit"} /\ ("kexinit" \in Said' => exch < MaxExchange)
    BY <1>1, <1>2, <1>3, <1>9 DEF Wire
  <1>11. Fits'
    BY <1>1, <1>10 DEF Fits
  <1>12. Wire'
    <2>1. Keyed(toCli', srvOut', scKey', {})
      BY <1>1, <1>3, <1>4
    <2> QED BY <1>1, <1>3, <1>4, <1>10, <2>1 DEF Wire
  <1>13. ASSUME srvpc' # "gone" PROVE Joint'
    <2>1. Joint /\ Told' = Told
      BY <1>1, <1>2, <1>13 DEF Told
    <2>2. Queue(toSrv', exch', srvIn')
      BY <1>1, <2>1 DEF Joint
    <2>3. "newkeys" \notin Told => srvIn = exch
      BY <1>1, <2>1 DEF Joint
    <2>4. Stand'
      <3>1. Stand
        BY <2>1 DEF Joint
      <3>2. \/ srvpc = "newkeys" /\ Said = {"newkeys"} /\ Told = {"newkeys"}
            \/ srvpc = "run" /\ Said = {"newkeys"} /\ Told = {}
            \/ srvpc = "kexinit" /\ Said = {"newkeys", "kexinit"} /\ Told = {}
        BY <1>1, <3>1 DEF Stand, Answering
      <3> QED BY <1>1, <1>3, <2>1, <3>2 DEF Stand
    <2> QED BY <1>1, <2>1, <2>2, <2>3, <2>4 DEF Joint
  <1> QED BY <1>6, <1>7, <1>8, <1>11, <1>12, <1>13, OpenKeeps

\* A packet that has nothing to do with the exchange, which may be answered with UNIMPLEMENTED.
LEMMA ReadAside ==
    ASSUME TransInv, NEW p, Reads(p), p.type \notin ServerKex \cup {"disconnect"},
           toSrv' = toSrv \/ toSrv' = Append(toSrv, Transport!Sealed("unimplemented")),
           UNCHANGED <<kpc, kstate, exch, firstKex, csKey, scKey, session, peer, tobe, asked, garbled>>
    PROVE  TransInv'
  <1>1. kstate = "open" /\ UNCHANGED <<srvpc, srvIn, srvOut, srvSession>>
    BY DEF Reads
  <1>2. TransTyped /\ Choice /\ Sessions /\ Fits /\ Wire /\ (srvpc # "gone" => Joint)
    BY <1>1, OpenHas
  <1>3. /\ toCli' \in Seq(ToClient) /\ Said' = Said /\ Once(toCli', ServerKex)
        /\ Keyed(toCli', srvOut, scKey, {}) /\ ("disconnect" \in Types(toCli') => srvpc = "gone")
    <2>1. Said \ {p.type} = Said /\ p.type # "newkeys"
      BY DEF Said, ServerKex
    <2> QED BY <2>1, ReadIs
  <1>4. toSrv' \in Seq(ToServer) /\ Told' = Told /\ (srvpc # "gone" => Queue(toSrv', exch, srvIn))
    <2>1. CASE toSrv' = toSrv
      BY <1>2, <2>1 DEF TransTyped, Told, Joint
    <2>2. CASE toSrv' = Append(toSrv, Transport!Sealed("unimplemented"))
      <3>1. "unimplemented" \in ClientTypes /\ "unimplemented" \notin ClientKex
        BY DEF ClientTypes, ClientKex
      <3> QED BY <1>1, <2>2, <3>1, ClientSends DEF Told
    <2> QED BY <2>1, <2>2
  <1>5. TransTyped'
    BY <1>1, <1>2, <1>3, <1>4 DEF TransTyped
  <1>6. Choice' /\ Sessions' /\ Fits'
    BY <1>1, <1>2, <1>3 DEF Choice, Chosen, Common, Sessions, Fits
  <1>7. Wire'
    BY <1>1, <1>2, <1>3 DEF Wire
  <1>8. ASSUME srvpc' # "gone" PROVE Joint'
    <2>1. Joint /\ Queue(toSrv', exch', srvIn')
      BY <1>1, <1>2, <1>4, <1>8
    <2>2. Stand'
      BY <1>1, <1>3, <1>4, <2>1 DEF Joint, Stand, Answering, Transport!KexInit, Common
    <2>3. /\ kpc' # "newkeys" => csKey' = IF "newkeys" \in Told' THEN exch' ELSE srvIn'
          /\ kpc' = "newkeys" /\ "newkeys" \notin Told' => srvIn' = exch'
      BY <1>1, <1>4, <2>1 DEF Joint
    <2> QED BY <2>1, <2>2, <2>3 DEF Joint
  <1> QED BY <1>5, <1>6, <1>7, <1>8, OpenKeeps

\* Anything that ends the connection and has nothing to do with the exchange.
LEMMA ReadCloses ==
    ASSUME TransInv, NEW p, Reads(p), kstate' = "closed", kpc # "run" \/ srvpc = "gone",
           toSrv' = toSrv \/ toSrv' = Append(toSrv, Transport!Sealed("unimplemented")),
           UNCHANGED <<kpc, exch, firstKex, csKey, scKey, session, peer, tobe, asked, garbled>>
    PROVE  TransInv'
  <1>1. kstate = "open" /\ UNCHANGED <<srvpc, srvIn, srvOut, srvSession>>
    BY DEF Reads
  <1>2. TransTyped /\ Choice
    BY <1>1, OpenHas
  <1>3. toCli' \in Seq(ToClient)
    BY ReadIs
  <1>4. toSrv' \in Seq(ToServer)
    <2>1. CASE toSrv' = toSrv
      BY <1>2, <2>1 DEF TransTyped
    <2>2. CASE toSrv' = Append(toSrv, Transport!Sealed("unimplemented"))
      BY <1>1, <2>2, ClientSends DEF ClientTypes
    <2> QED BY <2>1, <2>2
  <1>5. TransTyped'
    BY <1>1, <1>2, <1>3, <1>4 DEF TransTyped
  <1>6. Choice'
    BY <1>1, <1>2 DEF Choice, Chosen, Common
  <1>7. Transport!KeysAgree'
    BY <1>1 DEF Transport!KeysAgree
  <1> QED BY <1>5, <1>6, <1>7, ClosedKeeps

\* The client reads.
LEMMA ReceiveStep == ASSUME TransInv, Transport!Receive PROVE TransInv'
  <1>1. /\ kstate = "open" /\ toCli # <<>> /\ toCli' = Tail(toCli)
        /\ UNCHANGED <<srvpc, srvIn, srvOut, srvSession>>
    BY DEF Transport!Receive, Transport!serverVars
  <1>2. PICK p : p = Head(toCli)
    OBVIOUS
  <1>3. p.key = scKey /\ UNCHANGED peer
    <2>1. UNCHANGED peer
      BY DEF Transport!Receive, Transport!clientVars, Transport!OnKexInit, Transport!OnGroup, Transport!OnReply,
             Transport!OnNewKeys, Transport!OnOther
    <2> QED BY <1>1, <1>2, <2>1, ReadIs DEF Reads
  <1>4. Reads(p)
    BY <1>1, <1>2, <1>3 DEF Reads
  <1>5. p \in ToClient /\ (p.type \in ServerKex => p.type \in Said) /\ (p.type = "disconnect" => srvpc = "gone")
    BY <1>4, ReadIs
  <1>6. /\ UNCHANGED garbled
        /\ \/ /\ p.type = "disconnect" /\ Transport!Close
              /\ UNCHANGED <<kpc, exch, firstKex, csKey, scKey, session, peer, tobe, asked, toSrv>>
           \/ p.type = "ignore" /\ UNCHANGED <<Transport!clientVars, toSrv>>
           \/ Transport!OnKexInit(p) \/ Transport!OnGroup(p) \/ Transport!OnReply(p) \/ Transport!OnNewKeys(p)
           \/ p.type \notin {"disconnect", "ignore"} /\ ~Transport!Expected(p) /\ Transport!OnOther(p)
    BY <1>2, <1>3 DEF Transport!Receive
  <1>7. CASE p.type = "disconnect" /\ Transport!Close
             /\ UNCHANGED <<kpc, exch, firstKex, csKey, scKey, session, peer, tobe, asked, toSrv>>
    BY <1>4, <1>5, <1>6, <1>7, ReadCloses DEF Transport!Close
  <1>8. CASE p.type = "ignore" /\ UNCHANGED <<Transport!clientVars, toSrv>>
    BY <1>4, <1>6, <1>8, ReadAside DEF Transport!clientVars, ServerKex
  <1>9. CASE Transport!OnKexInit(p) \/ Transport!OnGroup(p) \/ Transport!OnReply(p) \/ Transport!OnNewKeys(p)
    BY <1>4, <1>6, <1>9, OnKexInitStep, OnGroupStep, OnReplyStep, OnNewKeysStep
  <1>10. CASE p.type \notin {"disconnect", "ignore"} /\ ~Transport!Expected(p) /\ Transport!OnOther(p)
    <2>1. /\ kstate' = IF kpc = "run" THEN kstate ELSE "closed"
          /\ Transport!Put(<<"unimplemented">>) \/ toSrv' = toSrv
          /\ UNCHANGED <<kpc, exch, firstKex, csKey, scKey, session, peer, tobe, asked>>
      BY <1>10 DEF Transport!OnOther, Transport!Close
    <2>2. toSrv' = toSrv \/ toSrv' = Append(toSrv, Transport!Sealed("unimplemented"))
      <3>1. toSrv \in Seq(ToServer)
        BY <1>1, OpenHas DEF TransTyped
      <3> QED BY <2>1, <3>1, PutIs
    <2>3. CASE kpc = "run"
      <3>1. Said \subseteq {"kexinit"}
        BY <1>1, <2>3, OpenHas DEF Fits
      <3>2. p.type \notin ServerKex
        BY <1>5, <1>10, <2>3, <3>1 DEF Transport!Expected
      <3> QED BY <1>4, <1>6, <1>10, <2>1, <2>2, <2>3, <3>2, ReadAside
    <2>4. CASE kpc # "run"
      BY <1>4, <1>6, <2>1, <2>2, <2>4, ReadCloses
    <2> QED BY <2>3, <2>4
  <1> QED BY <1>6, <1>7, <1>8, <1>9, <1>10

\* A packet joins the queue to the client with the key it should have.
LEMMA RepliedWith ==
    ASSUME NEW q \in Seq(ToClient), NEW m \in ToClient, NEW new, NEW old, Keyed(q, new, old, {}), Once(q, ServerKex),
           m.key = (IF "newkeys" \in Types(q) THEN new ELSE old), m.type \notin ServerKex \cap Types(q)
    PROVE  /\ Append(q, m) \in Seq(ToClient) /\ Types(Append(q, m)) = Types(q) \cup {m.type}
           /\ Keyed(Append(q, m), new, old, {}) /\ Once(Append(q, m), ServerKex)
  BY PacketAppended

\* What is true of the queue to the client after one packet from the server.
LEMMA ServerSends ==
    ASSUME TransInv, kstate = "open", NEW t \in ServerTypes, t \notin Said,
           toCli' = Append(toCli, [type |-> t, key |-> srvOut])
    PROVE  /\ toCli' \in Seq(ToClient) /\ Types(toCli') = Types(toCli) \cup {t} /\ Said' = Said \cup ({t} \cap ServerKex)
           /\ Keyed(toCli', srvOut, scKey, {}) /\ Once(toCli', ServerKex)
  <1>1. TransTyped /\ Wire
    BY OpenHas
  <1>2. PICK q \in Seq(ToClient) : q = toCli
    BY <1>1 DEF TransTyped
  <1>3. PICK n \in Nat : n = srvOut
    BY <1>1 DEF TransTyped
  <1>4. PICK k : k = scKey
    OBVIOUS
  <1>5. PICK m : m = [type |-> t, key |-> n]
    OBVIOUS
  <1>6. m \in ToClient /\ m.type = t /\ m.key = n
    BY <1>5 DEF ToClient, ServerTypes
  <1>7. Said = Types(q) \cap ServerKex
    BY <1>2 DEF Said
  <1>8. Keyed(q, n, k, {}) /\ Once(q, ServerKex) /\ ("newkeys" \notin Types(q) => n = k)
    BY <1>1, <1>2, <1>3, <1>4, <1>7 DEF Wire, ServerKex
  <1>9. t \notin ServerKex \cap Types(q)
    BY <1>7
  <1>10. /\ Append(q, m) \in Seq(ToClient) /\ Types(Append(q, m)) = Types(q) \cup {t}
         /\ Keyed(Append(q, m), n, k, {}) /\ Once(Append(q, m), ServerKex)
    BY <1>6, <1>8, <1>9, RepliedWith
  <1>11. toCli' = Append(q, m)
    BY <1>2, <1>3, <1>5
  <1>12. Said' = Said \cup ({t} \cap ServerKex)
    BY <1>7, <1>10, <1>11 DEF Said
  <1> QED BY <1>2, <1>3, <1>4, <1>10, <1>11, <1>12

\* The server begins an exchange.
LEMMA SrvBeginStep == ASSUME TransInv, Transport!SrvBegin PROVE TransInv'
  <1>1. /\ kstate = "open" /\ srvpc \in {"start", "run"} /\ exch < MaxExchange /\ srvpc' = "kexinit"
        /\ Transport!Reply(<<"kexinit">>)
        /\ UNCHANGED <<kpc, kstate, exch, firstKex, csKey, scKey, session, peer, tobe, asked, toSrv,
                       srvIn, srvOut, srvSession, garbled>>
    BY DEF Transport!SrvBegin, Transport!clientVars
  <1>2. TransTyped /\ Choice /\ Sessions /\ Fits /\ Wire /\ Joint
    BY <1>1, OpenHas
  <1>3. toCli' = Append(toCli, [type |-> "kexinit", key |-> srvOut])
    BY <1>1, <1>2, ReplyIs DEF TransTyped
  <1>4. \/ kpc \in {"start", "run"} /\ Said = {} /\ Told = {}
        \/ kpc = "kexinit" /\ srvpc = "start" /\ Said = {} /\ Told = {"kexinit"}
        \/ kpc = "newkeys" /\ srvpc = "run" /\ Said = {"newkeys"} /\ Told = {}
    BY <1>1, <1>2 DEF Joint, Stand
  <1>5. "kexinit" \notin Said
    BY <1>4
  <1>6. /\ toCli' \in Seq(ToClient) /\ Types(toCli') = Types(toCli) \cup {"kexinit"} /\ Said' = Said \cup {"kexinit"}
        /\ Keyed(toCli', srvOut, scKey, {}) /\ Once(toCli', ServerKex)
    BY <1>1, <1>3, <1>5, ServerSends DEF ServerTypes, ServerKex
  <1>7. TransTyped'
    BY <1>1, <1>2, <1>6 DEF TransTyped
  <1>8. Choice' /\ Sessions'
    BY <1>1, <1>2 DEF Choice, Chosen, Common, Sessions
  <1>9. Fits'
    BY <1>1, <1>4, <1>6 DEF Fits
  <1>10. Wire'
    <2>1. "disconnect" \notin Types(toCli')
      BY <1>1, <1>2, <1>6 DEF Wire
    <2> QED BY <1>1, <1>2, <1>6, <2>1 DEF Wire
  <1>11. Joint'
    <2>1. Told' = Told
      BY <1>1 DEF Told
    <2>2. Queue(toSrv', exch', srvIn')
      BY <1>1, <1>2 DEF Joint
    <2>3. /\ kpc' # "newkeys" => csKey' = IF "newkeys" \in Told' THEN exch' ELSE srvIn'
          /\ kpc' = "newkeys" /\ "newkeys" \notin Told' => srvIn' = exch'
      BY <1>1, <1>2, <2>1 DEF Joint
    <2>4. Stand'
      BY <1>1, <1>4, <1>6, <2>1 DEF Stand
    <2> QED BY <2>2, <2>3, <2>4 DEF Joint
  <1> QED BY <1>7, <1>8, <1>9, <1>10, <1>11, OpenKeeps

\* The server sends data, or what the client does not know.
LEMMA SrvSendStep == ASSUME TransInv, Transport!SrvSend PROVE TransInv'
  <1>1. /\ kstate = "open" /\ srvpc \notin {"start", "gone"}
        /\ \E t \in {"ignore", "data", "unknown"} : Transport!Reply(<<t>>)
        /\ UNCHANGED <<kpc, kstate, exch, firstKex, csKey, scKey, session, peer, tobe, asked, toSrv,
                       srvpc, srvIn, srvOut, srvSession, garbled>>
    BY DEF Transport!SrvSend, Transport!clientVars, Transport!serverVars
  <1>2. TransTyped /\ Choice /\ Sessions /\ Fits /\ Wire /\ Joint
    BY <1>1, OpenHas
  <1>3. PICK t \in {"ignore", "data", "unknown"} : Transport!Reply(<<t>>)
    BY <1>1
  <1>4. toCli' = Append(toCli, [type |-> t, key |-> srvOut])
    BY <1>2, <1>3, ReplyIs DEF TransTyped
  <1>5. t \in ServerTypes /\ t \notin ServerKex /\ t \notin Said /\ t # "disconnect"
    BY DEF ServerTypes, ServerKex, Said
  <1>6. /\ toCli' \in Seq(ToClient) /\ Types(toCli') = Types(toCli) \cup {t} /\ Said' = Said
        /\ Keyed(toCli', srvOut, scKey, {}) /\ Once(toCli', ServerKex)
    <2>1. Said' = Said \cup ({t} \cap ServerKex)
      BY <1>1, <1>4, <1>5, ServerSends
    <2>2. Said' = Said
      BY <1>5, <2>1
    <2> QED BY <1>1, <1>4, <1>5, <2>2, ServerSends
  <1>7. TransTyped'
    BY <1>1, <1>2, <1>6 DEF TransTyped
  <1>8. Choice' /\ Sessions' /\ Fits'
    BY <1>1, <1>2, <1>6 DEF Choice, Chosen, Common, Sessions, Fits
  <1>9. Wire'
    <2>1. "disconnect" \in Types(toCli') => srvpc' = "gone"
      BY <1>1, <1>2, <1>5, <1>6 DEF Wire
    <2> QED BY <1>1, <1>2, <1>6, <2>1 DEF Wire
  <1>10. Joint'
    <2>1. Told' = Told
      BY <1>1 DEF Told
    <2>2. Queue(toSrv', exch', srvIn')
      BY <1>1, <1>2 DEF Joint
    <2>3. /\ kpc' # "newkeys" => csKey' = IF "newkeys" \in Told' THEN exch' ELSE srvIn'
          /\ kpc' = "newkeys" /\ "newkeys" \notin Told' => srvIn' = exch'
      BY <1>1, <1>2, <2>1 DEF Joint
    <2>4. Stand'
      BY <1>1, <1>2, <1>6, <2>1 DEF Joint, Stand, Answering, Transport!KexInit, Common
    <2> QED BY <2>2, <2>3, <2>4 DEF Joint
  <1> QED BY <1>7, <1>8, <1>9, <1>10, OpenKeeps

\* The server takes a packet.
SrvTakes(p) ==
    /\ kstate = "open" /\ srvpc \notin {"start", "gone"} /\ toSrv # <<>> /\ p = Head(toSrv) /\ toSrv' = Tail(toSrv)
    /\ UNCHANGED <<kpc, kstate, exch, firstKex, csKey, scKey, session, peer, tobe, asked>>

\* It can read it, unless it was sent between the two NEWKEYS.
LEMMA SrvReadIs ==
    ASSUME TransInv, NEW p, SrvTakes(p)
    PROVE  /\ p \in ToServer /\ toSrv' \in Seq(ToServer) /\ Told' = Told \ {p.type}
           /\ (p.type \in ClientKex => p.type \in Told) /\ (p.gap \/ p.key = srvIn)
           /\ Queue(toSrv', exch, IF p.type = "newkeys" THEN exch ELSE srvIn)
           /\ p.type \in {"gexrequest", "kexdhinit"} => "kexinit" \notin Told
  <1>1. TransTyped /\ Joint
    BY OpenHas DEF SrvTakes
  <1>2. PICK q \in Seq(ToServer) : q = toSrv
    BY <1>1 DEF TransTyped
  <1>3. PICK e : e = exch
    OBVIOUS
  <1>4. PICK d : d = srvIn
    OBVIOUS
  <1>5. q # <<>> /\ p = Head(q) /\ toSrv' = Tail(q)
    BY <1>2 DEF SrvTakes
  <1>6. Queue(q, e, d)
    BY <1>1, <1>2, <1>3, <1>4 DEF Joint
  <1>7. /\ Tail(q) \in Seq(ToServer) /\ p \in ToServer /\ Types(q) = Types(Tail(q)) \cup {p.type}
        /\ Once(Tail(q), ClientKex) /\ Types(Tail(q)) \cap ClientKex = (Types(q) \cap ClientKex) \ {p.type}
        /\ p \in InGap \/ p.key = d
        /\ p.type # "newkeys" => Keyed(Tail(q), e, d, InGap)
        /\ p.type = "newkeys" => Keyed(Tail(q), e, e, InGap)
        /\ InOrder(Tail(q)) /\ (p.type \in {"gexrequest", "kexdhinit"} => "kexinit" \notin Types(q))
    BY <1>5, <1>6, PacketTaken DEF Queue
  <1>8. Told = Types(q) \cap ClientKex /\ Told' = Types(Tail(q)) \cap ClientKex
    BY <1>2, <1>5 DEF Told
  <1>9. Told' = Told \ {p.type} /\ (p.type \in ClientKex => p.type \in Told)
    BY <1>7, <1>8
  <1>10. \A i \in DOMAIN Tail(q) : Tail(q)[i].gap => Tail(q)[i].type \notin ClientKex
    <2>1. \A i \in DOMAIN Tail(q) : i + 1 \in DOMAIN q /\ Tail(q)[i] = q[i + 1]
      BY <1>5, Shortened
    <2> QED BY <1>6, <2>1 DEF Queue
  <1>11. Queue(Tail(q), e, IF p.type = "newkeys" THEN e ELSE d)
    BY <1>7, <1>10 DEF Queue
  <1> QED BY <1>3, <1>4, <1>5, <1>7, <1>8, <1>9, <1>11 DEF InGap

\* The server leaves.
LEMMA SrvLeaves ==
    ASSUME TransInv, NEW p, SrvTakes(p), srvpc' = "gone", Transport!Reply(<<"disconnect">>),
           garbled' \subseteq {[by |-> "server", gap |-> TRUE]}, UNCHANGED <<srvIn, srvOut, srvSession>>
    PROVE  TransInv'
  <1>1. /\ kstate = "open"
        /\ UNCHANGED <<kpc, kstate, exch, firstKex, csKey, scKey, session, peer, tobe, asked, srvIn, srvOut, srvSession>>
    BY DEF SrvTakes
  <1>2. TransTyped /\ Choice /\ Sessions /\ Fits /\ Wire
    BY <1>1, OpenHas
  <1>3. toSrv' \in Seq(ToServer)
    BY SrvReadIs
  <1>4. toCli' = Append(toCli, [type |-> "disconnect", key |-> srvOut])
    BY <1>2, ReplyIs DEF TransTyped
  <1>5. "disconnect" \in ServerTypes /\ "disconnect" \notin ServerKex /\ "disconnect" \notin Said
    BY DEF ServerTypes, ServerKex, Said
  <1>6. /\ toCli' \in Seq(ToClient) /\ Said' = Said \cup ({"disconnect"} \cap ServerKex)
        /\ Keyed(toCli', srvOut, scKey, {}) /\ Once(toCli', ServerKex)
    BY <1>1, <1>4, <1>5, ServerSends
  <1>7. Said' = Said
    BY <1>5, <1>6
  <1>8. TransTyped'
    BY <1>1, <1>2, <1>3, <1>6 DEF TransTyped
  <1>9. Choice' /\ Sessions' /\ Fits' /\ Wire'
    BY <1>1, <1>2, <1>6, <1>7 DEF Choice, Chosen, Common, Sessions, Fits, Wire
  <1> QED BY <1>8, <1>9, OpenKeeps

\* The server reads and says nothing: KEXINIT, NEWKEYS, or what has nothing to do with the exchange.
LEMMA SrvReadsOn ==
    ASSUME TransInv, NEW p, SrvTakes(p), p.key = srvIn, UNCHANGED <<toCli, srvOut, srvSession, garbled>>,
           \/ p.type = "kexinit" /\ Common /\ srvpc' = "init" /\ srvIn' = srvIn
           \/ p.type = "newkeys" /\ srvpc' = "run" /\ srvIn' = exch
           \/ p.type \notin ClientKex /\ srvpc' = srvpc /\ srvIn' = srvIn
    PROVE  TransInv'
  <1>1. /\ kstate = "open" /\ srvpc \notin {"start", "gone"}
        /\ UNCHANGED <<kpc, kstate, exch, firstKex, csKey, scKey, session, peer, tobe, asked>>
    BY DEF SrvTakes
  <1>2. TransTyped /\ Choice /\ Sessions /\ Fits /\ Wire /\ Joint
    BY <1>1, OpenHas
  <1>3. /\ toSrv' \in Seq(ToServer) /\ Told' = Told \ {p.type} /\ (p.type \in ClientKex => p.type \in Told)
        /\ Queue(toSrv', exch, IF p.type = "newkeys" THEN exch ELSE srvIn)
    BY SrvReadIs
  <1>4. exch \in Nat
    BY <1>2, MCAssumption DEF TransTyped
  <1>5. TransTyped'
    <2>1. srvIn' \in Nat /\ srvpc' \in {"start", "kexinit", "init", "newkeys", "run", "gone"}
      BY <1>2, <1>4 DEF TransTyped
    <2> QED BY <1>1, <1>2, <1>3, <2>1 DEF TransTyped
  <1>6. Said' = Said /\ Types(toCli)' = Types(toCli)
    BY DEF Said
  <1>7. Choice' /\ Sessions' /\ Fits'
    BY <1>1, <1>2, <1>6 DEF Choice, Chosen, Common, Sessions, Fits
  <1>8. Wire'
    <2>1. "disconnect" \notin Types(toCli')
      BY <1>1, <1>2, <1>6 DEF Wire
    <2> QED BY <1>1, <1>2, <1>6, <2>1 DEF Wire
  <1>9. Stand
    BY <1>2 DEF Joint
  <1>10. Queue(toSrv', exch', srvIn')
    <2>1. p.type \notin ClientKex => p.type # "newkeys"
      BY DEF ClientKex
    <2> QED BY <1>1, <1>3, <2>1
  <1>11. /\ kpc # "newkeys" => csKey = IF "newkeys" \in Told THEN exch ELSE srvIn
         /\ kpc = "newkeys" /\ "newkeys" \notin Told => srvIn = exch
    BY <1>2 DEF Joint
  <1>12. CASE p.type = "kexinit"
    <2>1. /\ Common /\ srvpc' = "init" /\ srvIn' = srvIn /\ "kexinit" \in Told /\ Told' = Told \ {"kexinit"}
      BY <1>3, <1>12 DEF ClientKex
    <2>2. \/ kpc = "kexinit" /\ Said = {"kexinit"} /\ Told' = {}
          \/ kpc = Answering /\ Said = {} /\ Told' = {Transport!KexInit}
      BY <1>1, <1>9, <2>1 DEF Stand, Transport!KexInit
    <2>3. Stand'
      BY <1>1, <1>6, <2>1, <2>2 DEF Stand, Common, Answering, Transport!KexInit
    <2>4. /\ kpc' # "newkeys" => csKey' = IF "newkeys" \in Told' THEN exch' ELSE srvIn'
          /\ kpc' = "newkeys" /\ "newkeys" \notin Told' => srvIn' = exch'
      BY <1>1, <1>11, <2>1
    <2>5. Joint'
      BY <1>10, <2>3, <2>4 DEF Joint
    <2> QED BY <1>5, <1>7, <1>8, <2>5, OpenKeeps
  <1>13. CASE p.type = "newkeys"
    <2>1. srvpc' = "run" /\ srvIn' = exch /\ "newkeys" \in Told /\ Told' = Told \ {"newkeys"}
      BY <1>3, <1>13 DEF ClientKex
    <2>2. \/ kpc = "newkeys" /\ Said = {"newkeys"} /\ Told' = {}
          \/ kpc = "run" /\ Said = {} /\ Told' = {}
      BY <1>1, <1>9, <2>1 DEF Stand, Transport!KexInit
    <2>3. Stand'
      BY <1>1, <1>6, <2>1, <2>2 DEF Stand
    <2>4. /\ kpc' # "newkeys" => csKey' = IF "newkeys" \in Told' THEN exch' ELSE srvIn'
          /\ kpc' = "newkeys" /\ "newkeys" \notin Told' => srvIn' = exch'
      BY <1>1, <1>11, <2>1
    <2>5. Joint'
      BY <1>10, <2>3, <2>4 DEF Joint
    <2> QED BY <1>5, <1>7, <1>8, <2>5, OpenKeeps
  <1>14. CASE p.type \notin {"kexinit", "newkeys"}
    <2>1. srvpc' = srvpc /\ srvIn' = srvIn /\ Told' = Told
      BY <1>3, <1>14 DEF Told
    <2>2. Stand'
      BY <1>1, <1>6, <1>9, <2>1 DEF Stand, Common, Answering, Transport!KexInit
    <2>3. /\ kpc' # "newkeys" => csKey' = IF "newkeys" \in Told' THEN exch' ELSE srvIn'
          /\ kpc' = "newkeys" /\ "newkeys" \notin Told' => srvIn' = exch'
      BY <1>1, <1>11, <2>1
    <2>4. Joint'
      BY <1>10, <2>2, <2>3 DEF Joint
    <2> QED BY <1>5, <1>7, <1>8, <2>4, OpenKeeps
  <1> QED BY <1>12, <1>13, <1>14

\* The server answers a request for a group.
LEMMA SrvGroup ==
    ASSUME TransInv, NEW p, SrvTakes(p), p.key = srvIn, p.type = "gexrequest", Transport!Reply(<<"group">>),
           UNCHANGED <<srvpc, srvIn, srvOut, srvSession, garbled>>
    PROVE  TransInv'
  <1>1. /\ kstate = "open" /\ srvpc \notin {"start", "gone"}
        /\ UNCHANGED <<kpc, kstate, exch, firstKex, csKey, scKey, session, peer, tobe, asked>>
    BY DEF SrvTakes
  <1>2. TransTyped /\ Choice /\ Sessions /\ Fits /\ Wire /\ Joint
    BY <1>1, OpenHas
  <1>3. /\ toSrv' \in Seq(ToServer) /\ Told' = Told \ {"gexrequest"} /\ "gexrequest" \in Told /\ "kexinit" \notin Told
        /\ Queue(toSrv', exch, srvIn)
    BY SrvReadIs DEF ClientKex
  <1>4. Stand
    BY <1>2 DEF Joint
  <1>5. kpc = "group" /\ srvpc = "init" /\ Said = {} /\ Told' = {}
    BY <1>3, <1>4 DEF Stand, Answering, Transport!KexInit
  <1>6. toCli' = Append(toCli, [type |-> "group", key |-> srvOut])
    BY <1>2, ReplyIs DEF TransTyped
  <1>7. /\ toCli' \in Seq(ToClient) /\ Types(toCli') = Types(toCli) \cup {"group"} /\ Said' = Said \cup {"group"}
        /\ Keyed(toCli', srvOut, scKey, {}) /\ Once(toCli', ServerKex)
    BY <1>1, <1>5, <1>6, ServerSends DEF ServerTypes, ServerKex
  <1>8. TransTyped'
    BY <1>1, <1>2, <1>3, <1>7 DEF TransTyped
  <1>9. Choice' /\ Sessions' /\ Fits'
    BY <1>1, <1>2, <1>5, <1>7 DEF Choice, Chosen, Common, Sessions, Fits
  <1>10. Wire'
    <2>1. "disconnect" \notin Types(toCli')
      BY <1>1, <1>2, <1>7 DEF Wire
    <2> QED BY <1>1, <1>2, <1>5, <1>7, <2>1 DEF Wire
  <1>11. Joint'
    <2>1. csKey = srvIn
      <3>1. "newkeys" \notin Told
        BY <1>3, <1>5
      <3> QED BY <1>2, <1>5, <3>1 DEF Joint
    <2>2. Stand'
      BY <1>1, <1>5, <1>7 DEF Stand
    <2> QED BY <1>1, <1>3, <1>5, <2>1, <2>2 DEF Joint
  <1> QED BY <1>8, <1>9, <1>10, <1>11, OpenKeeps

\* The server answers the client's number, and changes its key.
LEMMA SrvAnswers ==
    ASSUME TransInv, NEW p, SrvTakes(p), p.key = srvIn, p.type \in {"kexdhinit", "gexinit"},
           Transport!Reply(<<"reply", "newkeys">>), srvOut' = exch, srvpc' = "newkeys",
           srvSession' = (IF srvSession = 0 THEN exch ELSE srvSession), UNCHANGED <<srvIn, garbled>>
    PROVE  TransInv'
  <1>1. /\ kstate = "open" /\ srvpc \notin {"start", "gone"}
        /\ UNCHANGED <<kpc, kstate, exch, firstKex, csKey, scKey, session, peer, tobe, asked>>
    BY DEF SrvTakes
  <1>2. TransTyped /\ Choice /\ Sessions /\ Fits /\ Wire /\ Joint
    BY <1>1, OpenHas
  <1>3. /\ toSrv' \in Seq(ToServer) /\ Told' = Told \ {p.type} /\ p.type \in Told
        /\ Queue(toSrv', exch, srvIn) /\ (p.type = "kexdhinit" => "kexinit" \notin Told)
    BY SrvReadIs DEF ClientKex
  <1>4. Stand
    BY <1>2 DEF Joint
  <1>5. kpc = "reply" /\ srvpc = "init" /\ Said = {} /\ Told' = {} /\ "newkeys" \notin Told
    BY <1>3, <1>4 DEF Stand, Answering, Transport!KexInit
  <1>6. exch \in Nat /\ srvSession' = 1
    <2>1. exch \in Nat /\ srvSession \in 0 .. 1
      BY <1>2, MCAssumption DEF TransTyped
    <2>2. exch > 0 /\ (srvSession = 0 => exch <= 1)
      BY <1>2, <1>5 DEF Sessions
    <2> QED BY <2>1, <2>2
  <1>7. PICK q \in Seq(ToClient) : q = toCli
    BY <1>2 DEF TransTyped
  <1>8. PICK n \in Nat : n = srvOut
    BY <1>2 DEF TransTyped
  <1>9. PICK e : e = exch
    OBVIOUS
  <1>10. PICK a : a = [type |-> "reply", key |-> n]
    OBVIOUS
  <1>11. PICK b : b = [type |-> "newkeys", key |-> n]
    OBVIOUS
  <1>12. a \in ToClient /\ a.type = "reply" /\ a.key = n /\ b \in ToClient /\ b.type = "newkeys" /\ b.key = n
    BY <1>10, <1>11 DEF ToClient, ServerKex
  <1>13. toCli' = Append(Append(q, a), b)
    BY <1>7, <1>8, <1>10, <1>11, ReplyIs
  <1>14. Types(q) \cap ServerKex = {}
    BY <1>5, <1>7 DEF Said
  <1>15. scKey = n /\ Keyed(q, e, n, {}) /\ Once(q, ServerKex) /\ "disconnect" \notin Types(q)
    <2>1. scKey = n
      BY <1>2, <1>5, <1>8 DEF Wire
    <2>2. Keyed(q, n, n, {}) /\ Once(q, ServerKex) /\ "disconnect" \notin Types(q)
      BY <1>1, <1>2, <1>7, <1>8, <2>1 DEF Wire
    <2>3. "newkeys" \notin Types(q)
      BY <1>14 DEF ServerKex
    <2> QED BY <2>1, <2>2, <2>3, KeyedByOne
  <1>16. PICK r : r = Append(q, a)
    OBVIOUS
  <1>17. r \in Seq(ToClient) /\ Types(r) = Types(q) \cup {"reply"} /\ Keyed(r, e, n, {}) /\ Once(r, ServerKex)
    <2>1. "newkeys" \notin Types(q) /\ a.type \notin ServerKex \cap Types(q)
      BY <1>14 DEF ServerKex
    <2>2. a.key = IF "newkeys" \in Types(q) THEN e ELSE n
      BY <1>12, <2>1
    <2> QED BY <1>12, <1>15, <1>16, <2>1, <2>2, RepliedWith
  <1>18. /\ Append(r, b) \in Seq(ToClient) /\ Types(Append(r, b)) = Types(q) \cup {"reply", "newkeys"}
         /\ Keyed(Append(r, b), e, n, {}) /\ Once(Append(r, b), ServerKex)
    <2>1. "newkeys" \notin Types(r)
      BY <1>14, <1>17 DEF ServerKex
    <2>2. b.key = (IF "newkeys" \in Types(r) THEN e ELSE n) /\ b.type \notin ServerKex \cap Types(r)
      BY <1>12, <2>1
    <2>3. /\ Append(r, b) \in Seq(ToClient) /\ Types(Append(r, b)) = Types(r) \cup {b.type}
          /\ Keyed(Append(r, b), e, n, {}) /\ Once(Append(r, b), ServerKex)
      BY <1>12, <1>17, <2>2, RepliedWith
    <2>4. Types(Append(r, b)) = Types(q) \cup {"reply", "newkeys"}
      BY <1>12, <1>17, <2>3
    <2> QED BY <2>3, <2>4
  <1>19. /\ toCli' \in Seq(ToClient) /\ Types(toCli') = Types(q) \cup {"reply", "newkeys"}
         /\ Keyed(toCli', srvOut', scKey', {}) /\ Once(toCli', ServerKex)
    BY <1>1, <1>9, <1>13, <1>15, <1>16, <1>18
  <1>20. Said' = {"reply", "newkeys"}
    BY <1>14, <1>19 DEF Said, ServerKex
  <1>21. TransTyped'
    BY <1>1, <1>2, <1>3, <1>6, <1>19 DEF TransTyped
  <1>22. Choice' /\ Sessions' /\ Fits'
    BY <1>1, <1>2, <1>5, <1>6, <1>20 DEF Choice, Chosen, Common, Sessions, Fits
  <1>23. Wire'
    <2>1. "disconnect" \notin Types(toCli')
      BY <1>15, <1>19
    <2> QED BY <1>1, <1>6, <1>19, <1>20, <2>1 DEF Wire
  <1>24. Joint'
    <2>1. csKey = srvIn
      BY <1>2, <1>5 DEF Joint
    <2>2. Stand'
      BY <1>1, <1>5, <1>20 DEF Stand
    <2> QED BY <1>1, <1>3, <1>5, <2>1, <2>2 DEF Joint
  <1> QED BY <1>21, <1>22, <1>23, <1>24, OpenKeeps

\* The server reads.
LEMMA SrvReceiveStep == ASSUME TransInv, Transport!SrvReceive PROVE TransInv'
  <1>1. PICK p : p = Head(toSrv)
    OBVIOUS
  <1>2. SrvTakes(p)
    BY <1>1 DEF Transport!SrvReceive, SrvTakes, Transport!clientVars
  <1>3. p \in ToServer /\ (p.gap \/ p.key = srvIn) /\ p.gap \in BOOLEAN
    BY <1>2, SrvReadIs DEF ToServer
  <1>4. garbled \subseteq {[by |-> "server", gap |-> TRUE]}
    BY DEF TransInv, TransTyped
  <1>5. CASE p.key # srvIn
    <2>1. /\ garbled' = garbled \cup {[by |-> "server", gap |-> p.gap]} /\ srvpc' = "gone"
          /\ Transport!Reply(<<"disconnect">>) /\ UNCHANGED <<srvIn, srvOut, srvSession>>
      BY <1>1, <1>5 DEF Transport!SrvReceive
    <2>2. p.gap = TRUE
      BY <1>3, <1>5
    <2>3. garbled' \subseteq {[by |-> "server", gap |-> TRUE]}
      BY <1>4, <2>1, <2>2
    <2> QED BY <1>2, <2>1, <2>3, SrvLeaves
  <1>6. CASE p.key = srvIn
    <2>1. Transport!SrvRead(p) /\ UNCHANGED garbled
      BY <1>1, <1>6 DEF Transport!SrvReceive
    <2>2. CASE p.type = "kexinit" /\ Transport!NothingCommon
      <3>1. srvpc' = "gone" /\ Transport!Reply(<<"disconnect">>) /\ UNCHANGED <<srvIn, srvOut, srvSession>>
        BY <2>1, <2>2 DEF Transport!SrvRead
      <3>2. garbled' \subseteq {[by |-> "server", gap |-> TRUE]}
        BY <1>4, <2>1
      <3> QED BY <1>2, <3>1, <3>2, SrvLeaves
    <2>3. CASE p.type = "kexinit" /\ ~Transport!NothingCommon
      <3>1. srvpc' = "init" /\ UNCHANGED <<toCli, srvIn, srvOut, srvSession>>
        BY <2>1, <2>3 DEF Transport!SrvRead
      <3>2. Common
        BY <2>3, FirstCommonIs DEF Common, Transport!NothingCommon
      <3> QED BY <1>2, <1>6, <2>1, <2>3, <3>1, <3>2, SrvReadsOn
    <2>4. CASE p.type = "gexrequest"
      <3>1. Transport!Reply(<<"group">>) /\ UNCHANGED <<srvpc, srvIn, srvOut, srvSession>>
        BY <2>1, <2>4 DEF Transport!SrvRead, Transport!serverVars
      <3> QED BY <1>2, <1>6, <2>1, <2>4, <3>1, SrvGroup
    <2>5. CASE p.type \in {"kexdhinit", "gexinit"}
      <3>1. /\ Transport!Reply(<<"reply", "newkeys">>) /\ srvOut' = exch /\ srvpc' = "newkeys"
            /\ srvSession' = (IF srvSession = 0 THEN exch ELSE srvSession) /\ UNCHANGED srvIn
        BY <2>1, <2>5 DEF Transport!SrvRead
      <3> QED BY <1>2, <1>6, <2>1, <2>5, <3>1, SrvAnswers
    <2>6. CASE p.type = "newkeys"
      <3>1. srvIn' = exch /\ srvpc' = "run" /\ UNCHANGED <<toCli, srvOut, srvSession>>
        BY <2>1, <2>6 DEF Transport!SrvRead
      <3> QED BY <1>2, <1>6, <2>1, <2>6, <3>1, SrvReadsOn
    <2>7. CASE p.type \notin ClientKex
      <3>1. UNCHANGED <<toCli, srvpc, srvIn, srvOut, srvSession>>
        BY <2>1, <2>7 DEF Transport!SrvRead, Transport!serverVars, ClientKex
      <3> QED BY <1>2, <1>6, <2>1, <2>7, <3>1, SrvReadsOn
    <2> QED BY <2>2, <2>3, <2>4, <2>5, <2>6, <2>7 DEF ClientKex
  <1> QED BY <1>5, <1>6

\* The invariant holds at first.
LEMMA TransBegins == ASSUME Transport!Init PROVE TransInv
  <1>1. /\ kpc = "start" /\ kstate = "open" /\ exch = 0 /\ firstKex = TRUE
        /\ csKey = 0 /\ scKey = 0 /\ session = 0 /\ peer \in Offers
        /\ tobe = Transport!NoChoice /\ asked = {}
        /\ toSrv = <<>> /\ toCli = <<>> /\ garbled = {}
        /\ srvpc = "start" /\ srvIn = 0 /\ srvOut = 0 /\ srvSession = 0
    BY DEF Transport!Init
  <1>2. Types(toSrv) = {} /\ Types(toCli) = {}
    BY <1>1 DEF Types
  <1>3. Told = {} /\ Said = {}
    BY <1>2 DEF Told, Said
  <1>4. TransTyped
    <2>1. 0 \in 0 .. MaxExchange /\ 0 \in 0 .. 0 /\ 0 \in 0 .. 1
      BY MCAssumption
    <2>2. toSrv \in Seq(ToServer) /\ toCli \in Seq(ToClient)
      BY <1>1
    <2> QED BY <1>1, <2>1, <2>2 DEF TransTyped
  <1>5. Choice /\ Transport!KeysAgree
    BY <1>1 DEF Choice, Transport!KeysAgree
  <1>6. Sessions /\ Fits
    BY <1>1, <1>3 DEF Sessions, Fits
  <1>7. Wire
    <2>1. Keyed(toCli, srvOut, scKey, {}) /\ Once(toCli, ServerKex)
      BY <1>1 DEF Keyed, Once
    <2> QED BY <1>1, <1>2, <1>3, <2>1 DEF Wire
  <1>8. Joint
    <2>1. Queue(toSrv, exch, srvIn)
      BY <1>1 DEF Queue, Keyed, Once, InOrder
    <2> QED BY <1>1, <1>3, <2>1 DEF Joint, Stand
  <1> QED BY <1>4, <1>5, <1>6, <1>7, <1>8 DEF TransInv

\* It is about the variables of the transport only.
LEMMA TransStutters == ASSUME TransInv, UNCHANGED transportVars PROVE TransInv'
  <1>1. UNCHANGED <<kpc, kstate, exch, firstKex, csKey, scKey, session, peer, tobe, asked,
                    toSrv, toCli, srvpc, srvIn, srvOut, srvSession, garbled>>
    BY DEF transportVars
  <1>2. Told' = Told /\ Said' = Said
    BY <1>1 DEF Told, Said
  <1>3. TransTyped' /\ Choice' /\ Transport!KeysAgree'
    BY <1>1 DEF TransInv, TransTyped, Choice, Chosen, Common, Transport!KeysAgree
  <1>4. CASE kstate # "open"
    BY <1>1, <1>3, <1>4 DEF TransInv
  <1>5. CASE kstate = "open"
    <2>1. Sessions' /\ Fits' /\ Wire'
      BY <1>1, <1>2, <1>5 DEF TransInv, Sessions, Fits, Wire
    <2>2. ASSUME srvpc' # "gone" PROVE Joint'
      <3>1. Joint
        BY <1>1, <1>5, <2>2 DEF TransInv
      <3>2. Stand'
        BY <1>1, <1>2, <3>1 DEF Joint, Stand, Answering, Transport!KexInit, Common
      <3> QED BY <1>1, <1>2, <3>1, <3>2 DEF Joint
    <2> QED BY <1>3, <2>1, <2>2, OpenKeeps
  <1> QED BY <1>4, <1>5

\* Every step of the transport keeps the invariant.
LEMMA TransSteps == ASSUME TransInv, Transport!Next PROVE TransInv'
  BY TypedFirstStep, ReceiveStep, SendAnywayStep, SrvBeginStep, SrvReceiveStep, SrvSendStep DEF Transport!Next

\* What the run checks follows from it.
LEMMA TransImplies == ASSUME TransInv PROVE Transport!TypeOK /\ ExchangeSound
  <1>1. TransTyped /\ Choice /\ Transport!KeysAgree
    BY DEF TransInv
  <1>2. peer \in Offers
    BY <1>1 DEF TransTyped
  <1>3. ASSUME Chosen, NEW d \in {"cs", "sc"}
        PROVE  /\ tobe[d] \in peer[d] /\ tobe[d] \in Transport!Ciphers
               /\ LET pos == CHOOSE i \in DOMAIN Preference : Preference[i] = tobe[d]
                      line == CHOOSE i \in DOMAIN Preference : Preference[i] = "warn"
                  IN /\ \A i \in 1..(pos - 1) : Preference[i] \notin peer[d]
                     /\ pos > line <=> d \in asked
    BY <1>2, <1>3, ChosenAreBest
  <1>4. Transport!NegotiatedBest
    BY <1>1, <1>3 DEF Transport!NegotiatedBest, Choice
  <1>5. {tobe.cs, tobe.sc} \subseteq Transport!Ciphers \cup {"unset"}
    <2>1. CASE Chosen
      <3>1. tobe["cs"] \in Transport!Ciphers /\ tobe["sc"] \in Transport!Ciphers
        BY <1>3, <2>1
      <3> QED BY <3>1
    <2>2. CASE tobe = Transport!NoChoice
      BY <2>2 DEF Transport!NoChoice
    <2> QED BY <1>1, <2>1, <2>2 DEF Choice
  <1>6. asked \subseteq {"cs", "sc"}
    BY <1>1 DEF Choice, Chosen, Transport!Warned
  <1>7. {csKey, scKey, session} \subseteq 0 .. exch
    BY <1>1, MCAssumption DEF TransTyped
  <1>8. Transport!TypeOK
    BY <1>1, <1>5, <1>6, <1>7 DEF TransTyped, Transport!TypeOK
  <1>9. Transport!ClientReads /\ Transport!GarbledOnlyInGap
    BY <1>1 DEF TransTyped, Transport!ClientReads, Transport!GarbledOnlyInGap
  <1> QED BY <1>1, <1>4, <1>8, <1>9 DEF ExchangeSound

-----------------------------------------------------------------------------
(* Authentication.                                                         *)

AuthPlaces == {"start", "service", "user", "wait", "loop", "identities", "sign", "offeragent", "offerfile",
               "kistart", "prompt", "in", "closed"}
AuthAsks == {"service", "none", "offer", "ki", "response", "signature", "password", "garbage", "disconnect"}
PacketType == [type: {"unset", "accept", "success", "failure", "pkok", "info", "disconnect", "banner"},
               of: AuthAsks \cup {"unset", "banner"}, partial: BOOLEAN, methods: SUBSET Auth!Methods,
               num: 0 .. MaxPrompts]
PktoutType == [kind: {"unset", "response", "signature", "ping"}, answers: Nat]

CoroutineTyped ==
    /\ apc \in AuthPlaces /\ s \in Auth!StateType /\ pktout \in PktoutType
    /\ asks \in Seq(AuthAsks) /\ damaged \subseteq {"response", "signature"}

\* A packet of success was sent when access was granted.
PacketsTyped ==
    /\ acfg \in Auth!Config /\ granted \in BOOLEAN /\ bannered \in 0 .. Banners
    /\ pktin \in PacketType /\ toAuth \in Seq(PacketType)
    /\ pktin.type = "success" => granted
    /\ \A i \in DOMAIN toAuth : toAuth[i].type = "success" => granted
    /\ apc = "in" => granted

\* The keys that could be tried have been.
KeysSpent(t) ==
    /\ "publickey" \in t.can /\ acfg.agent => "agent" \in t.tried
    /\ "publickey" \in t.can /\ acfg.key # "none" => "config" \in t.tried

\* The answers so far are in pktout, unless a keepalive was built over them.
Building(t) == pktout.kind = "ping" \/ pktout = [kind |-> "response", answers |-> t.curr]

\* What holds of s where the coroutine waits.
Waits ==
    /\ apc \in {"identities", "offeragent", "sign", "offerfile"} => s.method = "none" /\ ~s.kbd /\ ~s.gotit
    /\ apc \in {"identities", "offeragent", "sign"} => "agent" \in s.tried
    /\ apc \in {"offeragent", "sign"} => s.keyi < AgentKeys
    /\ apc = "kistart" => s.method = "ki" /\ ~s.kbd /\ ~s.gotit /\ KeysSpent(s) /\ "ki" \in s.tried
    /\ apc = "prompt" => s.needPw /\ ~s.gotit /\ (s.method = "ki" <=> s.kbd)
    /\ apc = "prompt" /\ s.method = "ki" => s.curr < s.num /\ (s.curr > 0 => Building(s))
    /\ Auth!IdlePromptIsLast
    /\ s.kbd => KeysSpent(s) /\ "ki" \in s.tried
    /\ apc \in {"loop", "wait"} /\ s.gotit /\ s.kbd => Building(s)

\* The request k is on its way, or an answer to it is.
Outstanding(k) ==
    \/ asks = <<k>> /\ toAuth = <<>>
    \/ asks = <<>> /\ \E p \in Auth!Answers(k) : toAuth = <<p>>

\* Whose turn it is, when no banner comes.
Owing == \E k \in AuthAsks :
            /\ Outstanding(k) /\ (apc = "kistart" => k = "ki")
            /\ apc = "wait" /\ s.type = "password" => k \in {"password", "signature", "garbage"}
Turn ==
    /\ apc \in {"start", "user", "prompt", "identities", "sign", "loop", "in"} => asks = <<>> /\ toAuth = <<>>
    /\ apc \in {"service", "wait", "offeragent", "offerfile", "kistart"} => Owing
    /\ apc = "loop" /\ pktin.type = "failure" /\ s.type = "password" => pktin.of \in {"password", "signature"}

AuthInv ==
    /\ CoroutineTyped /\ PacketsTyped /\ Waits
    /\ bannered = 0 => Turn /\ pktin.type # "banner" /\ sentBack \in {"unset", "password", "signature"}

\* What may be asked for, or answered, in state t.
Askable(t) ==
    /\ t \in Auth!StateType /\ ~t.gotit /\ (t.method = "ki" <=> t.kbd)
    /\ t.kbd => KeysSpent(t) /\ "ki" \in t.tried /\ (t.curr > 0 => Building(t))
    /\ t.method = "ki" => (t.needPw <=> t.curr < t.num)

\* No method of the server is left.
Exhausted(t) ==
    /\ "password" \notin t.can /\ ("keyboard-interactive" \in t.can => "ki" \in t.tried) /\ KeysSpent(t)

\* The coroutine acts: it owes the server a request, and the server owes it nothing.
Acting == /\ CoroutineTyped /\ PacketsTyped /\ acfg' = acfg /\ bannered' = bannered
          /\ bannered = 0 => asks = <<>> /\ toAuth' = <<>>
\* What it leaves behind.
Acted == CoroutineTyped' /\ Waits' /\ apc' # "in" /\ (bannered = 0 => Turn')

\* A request is sent.
LEMMA Sent ==
    ASSUME Acting, NEW k \in AuthAsks, Auth!Send(k)
    PROVE  /\ asks' \in Seq(AuthAsks) /\ pktout' \in PktoutType /\ (bannered = 0 => asks' = <<k>> /\ toAuth' = <<>>)
           /\ pktout' = [kind |-> "unset", answers |-> 0]
  <1>1. asks \in Seq(AuthAsks) /\ asks' = Append(asks, k) /\ pktout' = [kind |-> "unset", answers |-> 0]
    BY DEF Acting, CoroutineTyped, Auth!Send, Auth!Nothing
  <1>2. asks' \in Seq(AuthAsks)
    BY <1>1
  <1>3. bannered = 0 => asks' = <<k>> /\ toAuth' = <<>>
    BY <1>1 DEF Acting
  <1>4. pktout' \in PktoutType
    BY <1>1 DEF PktoutType
  <1> QED BY <1>1, <1>2, <1>3, <1>4

\* After a request the coroutine waits: what it waits with is enough.
LEMMA SentAndWaits ==
    ASSUME Acting, NEW k \in AuthAsks, Auth!Send(k), NEW u \in Auth!StateType, s' = u, apc' = "wait",
           damaged' \subseteq {"response", "signature"}, ~u.gotit, u.kbd => KeysSpent(u) /\ "ki" \in u.tried,
           u.type = "password" => k \in {"password", "signature", "garbage"}
    PROVE  Acted
  <1>1. /\ asks' \in Seq(AuthAsks) /\ pktout' \in PktoutType /\ (bannered = 0 => asks' = <<k>> /\ toAuth' = <<>>)
    BY Sent
  <1>2. CoroutineTyped'
    BY <1>1 DEF CoroutineTyped, AuthPlaces
  <1>3. Waits'
    BY DEF Waits, Auth!IdlePromptIsLast, Acting, KeysSpent
  <1>4. ASSUME bannered = 0 PROVE Turn'
    <2>1. Outstanding(k)'
      BY <1>1, <1>4 DEF Outstanding
    <2>2. Owing'
      BY <2>1 DEF Owing
    <2> QED BY <2>2 DEF Turn
  <1> QED BY <1>2, <1>3, <1>4 DEF Acted

\* A password, or an answer to a prompt, or none, is sent.
LEMMA AnswerGiven == ASSUME Acting, NEW t, Askable(t), Auth!Answer(t) PROVE Acted
  <1>1. t \in Auth!StateType /\ ~t.gotit /\ (t.method = "ki" <=> t.kbd) /\ damaged \subseteq {"response", "signature"}
    BY DEF Askable, Acting, CoroutineTyped
  <1>2. CASE t.method = "file"
    <2>1. \/ /\ Auth!Send("signature") /\ apc' = "wait" /\ s' = [t EXCEPT !.type = "publickey"] /\ UNCHANGED damaged
          \/ /\ Auth!Send("none") /\ apc' = "wait" /\ UNCHANGED damaged
             /\ \/ t.needPw /\ s' = [t EXCEPT !.type = "none", !.tried = @ \ {"config"}]
                \/ s' = [t EXCEPT !.type = "none"]
      BY <1>2 DEF Auth!Answer
    <2>2. CASE Auth!Send("signature") /\ apc' = "wait" /\ s' = [t EXCEPT !.type = "publickey"] /\ UNCHANGED damaged
      <3>1. PICK u : u = [t EXCEPT !.type = "publickey"]
        OBVIOUS
      <3>2. u \in Auth!StateType /\ ~u.gotit /\ ~u.kbd /\ u.type # "password"
        BY <1>1, <1>2, <3>1 DEF Auth!StateType
      <3> QED BY <1>1, <2>2, <3>1, <3>2, SentAndWaits DEF AuthAsks
    <2>3. CASE Auth!Send("none") /\ apc' = "wait" /\ UNCHANGED damaged /\ s' = [t EXCEPT !.type = "none", !.tried = @ \ {"config"}]
      <3>1. PICK u : u = [t EXCEPT !.type = "none", !.tried = @ \ {"config"}]
        OBVIOUS
      <3>2. u \in Auth!StateType /\ ~u.gotit /\ ~u.kbd /\ u.type # "password"
        BY <1>1, <1>2, <3>1 DEF Auth!StateType
      <3> QED BY <1>1, <2>3, <3>1, <3>2, SentAndWaits DEF AuthAsks
    <2>4. CASE Auth!Send("none") /\ apc' = "wait" /\ UNCHANGED damaged /\ s' = [t EXCEPT !.type = "none"]
      <3>1. PICK u : u = [t EXCEPT !.type = "none"]
        OBVIOUS
      <3>2. u \in Auth!StateType /\ ~u.gotit /\ ~u.kbd /\ u.type # "password"
        BY <1>1, <1>2, <3>1 DEF Auth!StateType
      <3> QED BY <1>1, <2>4, <3>1, <3>2, SentAndWaits DEF AuthAsks
    <2> QED BY <2>1, <2>2, <2>3, <2>4
  <1>3. CASE t.method = "password"
    <2>1. Auth!Send("password") /\ apc' = "wait" /\ s' = [t EXCEPT !.type = "password"] /\ UNCHANGED damaged
      BY <1>3 DEF Auth!Answer
    <2>2. PICK u : u = [t EXCEPT !.type = "password"]
      OBVIOUS
    <2>3. u \in Auth!StateType /\ ~u.gotit /\ ~u.kbd
      BY <1>1, <1>3, <2>2 DEF Auth!StateType
    <2> QED BY <1>1, <2>1, <2>2, <2>3, SentAndWaits DEF AuthAsks
  <1>4. CASE t.method = "ki"
    <2> DEFINE built == Auth!Begun(t)
               curr == IF t.needPw THEN t.curr + 1 ELSE t.curr
    <2>1. /\ KeysSpent(t) /\ "ki" \in t.tried /\ (t.curr > 0 => Building(t)) /\ t.kbd
          /\ t.needPw => t.curr < t.num
      BY <1>1, <1>4 DEF Askable
    <2>2. curr \in 0 .. MaxPrompts /\ t.num \in 0 .. MaxPrompts /\ t.curr \in 0 .. MaxPrompts
      BY <1>1, <2>1, MCAssumption DEF Auth!StateType
    <2>3. CASE curr >= t.num
      <3>1. PICK k \in {"response", "garbage"} : asks' = Append(asks, k)
        <4>1. asks' = Append(asks, IF Auth!Damage(t, built) = {} THEN "response" ELSE "garbage")
          BY <1>4, <2>3 DEF Auth!Answer
        <4> QED BY <4>1
      <3>2. /\ pktout' = Auth!Nothing /\ apc' = "wait" /\ s' = [t EXCEPT !.type = "ki", !.curr = curr]
            /\ damaged' = damaged \union Auth!Damage(t, built)
        BY <1>4, <2>3 DEF Auth!Answer
      <3>3. damaged' \subseteq {"response", "signature"}
        <4>1. Auth!Damage(t, built) \subseteq {"response"}
          BY DEF Auth!Damage
        <4> QED BY <1>1, <3>2, <4>1
      <3>4. PICK u : u = [t EXCEPT !.type = "ki", !.curr = curr]
        OBVIOUS
      <3> HIDE DEF curr
      <3>5. u \in Auth!StateType /\ ~u.gotit /\ u.type # "password" /\ u.can = t.can /\ u.tried = t.tried
        BY <1>1, <2>2, <3>4 DEF Auth!StateType
      <3>6. KeysSpent(u) /\ "ki" \in u.tried
        BY <2>1, <3>5 DEF KeysSpent
      <3>7. Auth!Send(k) /\ k \in AuthAsks
        BY <3>1, <3>2 DEF Auth!Send, AuthAsks
      <3> QED BY <3>2, <3>3, <3>4, <3>5, <3>6, <3>7, SentAndWaits
    <2>4. CASE ~(curr >= t.num)
      <3>1. /\ pktout' = built /\ apc' = "loop" /\ UNCHANGED <<asks, damaged>>
            /\ s' = [t EXCEPT !.type = "ki", !.curr = curr, !.gotit = TRUE]
        BY <1>4, <2>4 DEF Auth!Answer
      <3>2. PICK u : u = [t EXCEPT !.type = "ki", !.curr = curr, !.gotit = TRUE]
        OBVIOUS
      <3>3. pktout \in PktoutType
        BY DEF Acting, CoroutineTyped
      <3>4. t.needPw
        <4>1. t.curr \in Nat /\ t.num \in Nat
          BY <2>2
        <4>2. ASSUME ~t.needPw PROVE FALSE
          <5>1. t.curr < t.num
            BY <2>2, <2>4, <4>2
          <5> QED BY <1>4, <4>2, <5>1 DEF Askable
        <4> QED BY <4>2
      <3>5. /\ built = [kind |-> built.kind, answers |-> built.answers]
            /\ \/ t.curr = 0 /\ built = [kind |-> "response", answers |-> 1]
               \/ t.curr > 0 /\ built = [pktout EXCEPT !.answers = @ + 1]
        BY <2>2, <3>3, <3>4 DEF Auth!Begun, PktoutType
      <3>6. built \in PktoutType /\ (built.kind = "ping" \/ built = [kind |-> "response", answers |-> t.curr + 1])
        <4>1. CASE t.curr = 0
          BY <3>5, <4>1 DEF PktoutType
        <4>2. CASE t.curr > 0
          <5>1. pktout.kind = "ping" \/ pktout = [kind |-> "response", answers |-> t.curr]
            BY <2>1, <4>2 DEF Building
          <5>2. built = [pktout EXCEPT !.answers = @ + 1]
            BY <2>2, <3>5, <4>2
          <5> HIDE DEF built
          <5> QED BY <3>3, <5>1, <5>2 DEF PktoutType
        <4> QED BY <2>2, <4>1, <4>2
      <3>7. u \in Auth!StateType /\ u.kbd /\ u.can = t.can /\ u.tried = t.tried /\ u.curr = t.curr + 1 /\ u.type = "ki"
        <4>1. curr = t.curr + 1
          BY <3>4
        <4> HIDE DEF curr
        <4> QED BY <1>1, <2>1, <2>2, <3>2, <4>1 DEF Auth!StateType
      <3>8. PICK b : b = built
        OBVIOUS
      <3>9. s' = u /\ pktout' = b /\ apc' = "loop" /\ asks' = asks /\ damaged' = damaged /\ acfg' = acfg
        BY <3>1, <3>2, <3>8 DEF Acting
      <3>10. CoroutineTyped'
        BY <1>1, <3>6, <3>7, <3>8, <3>9 DEF CoroutineTyped, AuthPlaces, Acting
      <3>11. KeysSpent(u) /\ "ki" \in u.tried
        BY <2>1, <3>7 DEF KeysSpent
      <3>12. Building(s)'
        BY <3>6, <3>7, <3>8, <3>9 DEF Building
      <3>13. Waits'
        BY <3>9, <3>11, <3>12 DEF Waits, Auth!IdlePromptIsLast, KeysSpent
      <3>14. bannered = 0 => Turn'
        BY <3>7, <3>9 DEF Turn, Acting
      <3> QED BY <3>9, <3>10, <3>13, <3>14 DEF Acted
    <2> QED BY <2>3, <2>4
  <1>5. CASE t.method = "none"
    <2>1. Auth!Send("disconnect") /\ apc' = "closed" /\ s' = t /\ UNCHANGED damaged
      BY <1>5 DEF Auth!Answer
    <2>2. /\ asks' \in Seq(AuthAsks) /\ pktout' \in PktoutType
      BY <2>1, Sent DEF AuthAsks
    <2>3. CoroutineTyped'
      BY <1>1, <2>1, <2>2 DEF CoroutineTyped, AuthPlaces
    <2>4. Waits'
      BY <1>1, <1>5, <2>1 DEF Waits, Auth!IdlePromptIsLast
    <2>5. Turn'
      BY <2>1 DEF Turn
    <2> QED BY <2>1, <2>3, <2>4, <2>5 DEF Acted
  <1> QED BY <1>1, <1>2, <1>3, <1>4, <1>5 DEF Auth!StateType

\* The user is asked, or an answer that needs none is sent.
LEMMA AskedOrAnswered ==
    ASSUME Acting, NEW t, Askable(t), t.method = "none" /\ t.needPw => Exhausted(t), Auth!AskOrAnswer(t)
    PROVE  Acted
  <1>1. CASE t.needPw
    <2>1. apc' = "prompt" /\ s' = t /\ UNCHANGED <<asks, pktout, damaged>> /\ acfg' = acfg
      BY <1>1 DEF Auth!AskOrAnswer, Auth!Silent, Acting
    <2>2. CoroutineTyped'
      BY <2>1 DEF Acting, Askable, CoroutineTyped, AuthPlaces
    <2>3. Auth!IdlePromptIsLast'
      BY <1>1, <2>1 DEF Auth!IdlePromptIsLast, Exhausted, KeysSpent
    <2>4. Waits'
      BY <1>1, <2>1, <2>3 DEF Waits, Askable, KeysSpent, Building
    <2>5. bannered = 0 => Turn'
      BY <2>1 DEF Turn, Acting
    <2> QED BY <2>1, <2>2, <2>4, <2>5 DEF Acted
  <1>2. CASE ~t.needPw
    BY <1>2, AnswerGiven DEF Auth!AskOrAnswer
  <1> QED BY <1>1, <1>2

\* Prompts of a running method, a password, or what is left of an old question.
LEMMA Prompted ==
    ASSUME Acting, NEW t \in Auth!StateType, NEW p \in PacketType, ~t.gotit, Auth!Prompts(t, p),
           t.kbd => KeysSpent(t) /\ (t.curr > 0 => Building(t)),
           ~t.kbd => \/ t.method = "file"
                     \/ t.method = "none" /\ KeysSpent(t) /\ ("keyboard-interactive" \in t.can => "ki" \in t.tried)
    PROVE  Acted
  <1>1. CASE t.kbd
    <2> DEFINE num == IF t.curr = 0 THEN p.num ELSE t.num
    <2>1. PICK u : u = [t EXCEPT !.method = "ki", !.type = "ki", !.tried = @ \union {"ki"}, !.num = num,
                               !.needPw = t.curr < num]
      OBVIOUS
    <2>2. num \in 0 .. MaxPrompts /\ t.curr \in 0 .. MaxPrompts
      BY DEF PacketType, Auth!StateType
    <2>3. (t.curr < num) \in BOOLEAN
      OBVIOUS
    <2>4. Auth!AskOrAnswer(u)
      BY <1>1, <2>1 DEF Auth!Prompts
    <2> HIDE DEF num
    <2>5. /\ u \in Auth!StateType /\ ~u.gotit /\ u.method = "ki" /\ u.kbd /\ (u.needPw <=> u.curr < u.num)
          /\ u.can = t.can /\ u.tried = t.tried \cup {"ki"} /\ u.curr = t.curr
      BY <1>1, <2>1, <2>2, <2>3 DEF Auth!StateType
    <2>6. Askable(u)
      BY <1>1, <2>5 DEF Askable, KeysSpent, Building
    <2> QED BY <2>4, <2>5, <2>6, AskedOrAnswered
  <1>2. CASE ~t.kbd /\ t.method = "none" /\ "password" \in t.can
    <2>1. PICK u : u = [t EXCEPT !.method = "password", !.needPw = TRUE]
      OBVIOUS
    <2>2. Auth!AskOrAnswer(u)
      BY <1>2, <2>1 DEF Auth!Prompts
    <2>3. u \in Auth!StateType /\ ~u.gotit /\ u.method = "password" /\ ~u.kbd
      BY <1>2, <2>1 DEF Auth!StateType
    <2> QED BY <2>2, <2>3, AskedOrAnswered DEF Askable
  <1>3. CASE ~t.kbd /\ ~(t.method = "none" /\ "password" \in t.can)
    <2>1. Auth!AskOrAnswer(t)
      BY <1>3 DEF Auth!Prompts
    <2>2. Askable(t) /\ (t.method = "none" => Exhausted(t))
      BY <1>3 DEF Askable, Exhausted
    <2> QED BY <2>1, <2>2, AskedOrAnswered
  <1> QED BY <1>1, <1>2, <1>3

\* After an offer, or the beginning of keyboard-interactive, the coroutine waits for the answer to it.
LEMMA SentAndStays ==
    ASSUME Acting, NEW k \in {"offer", "ki"}, Auth!Send(k), NEW u \in Auth!StateType, s' = u,
           apc' \in {"offeragent", "offerfile", "kistart"}, apc' = "kistart" => k = "ki",
           UNCHANGED damaged, Waits'
    PROVE  Acted
  <1>1. /\ asks' \in Seq(AuthAsks) /\ pktout' \in PktoutType /\ (bannered = 0 => asks' = <<k>> /\ toAuth' = <<>>)
    BY Sent DEF AuthAsks
  <1>2. CoroutineTyped'
    BY <1>1 DEF CoroutineTyped, AuthPlaces, Acting
  <1>3. ASSUME bannered = 0 PROVE Turn'
    <2>1. Outstanding(k)'
      BY <1>1, <1>3 DEF Outstanding
    <2>2. k \in AuthAsks
      BY DEF AuthAsks
    <2>3. Owing'
      BY <2>1, <2>2 DEF Owing
    <2> QED BY <2>3 DEF Turn
  <1> QED BY <1>2, <1>3 DEF Acted

\* Keyboard-interactive is tried once, when the keys are spent.
LEMMA KiTried ==
    ASSUME Acting, NEW t \in Auth!StateType, NEW p \in PacketType, ~t.gotit, KeysSpent(t),
           t.kbd => "ki" \in t.tried /\ (t.curr > 0 => Building(t)), ~t.kbd => t.method = "none",
           Auth!KeyboardInteractive(t, p)
    PROVE  Acted
  <1>1. CASE "keyboard-interactive" \in t.can /\ "ki" \notin t.tried
    <2>1. PICK u : u = [t EXCEPT !.method = "ki", !.type = "ki", !.tried = t.tried \union {"ki"}]
      OBVIOUS
    <2>2. Auth!Send("ki") /\ apc' = "kistart" /\ UNCHANGED damaged /\ s' = u
      BY <1>1, <2>1 DEF Auth!KeyboardInteractive, Auth!TriedKi
    <2>3. /\ u \in Auth!StateType /\ ~u.gotit /\ u.method = "ki" /\ ~u.kbd /\ u.can = t.can /\ u.tried = t.tried \cup {"ki"}
      BY <1>1, <2>1 DEF Auth!StateType
    <2>4. KeysSpent(u) /\ acfg' = acfg
      BY <2>3 DEF KeysSpent, Acting
    <2>5. Waits'
      BY <2>2, <2>3, <2>4 DEF Waits, Auth!IdlePromptIsLast, KeysSpent
    <2> QED BY <2>2, <2>3, <2>5, SentAndStays
  <1>2. CASE ~("keyboard-interactive" \in t.can /\ "ki" \notin t.tried)
    <2>1. Auth!Prompts(t, p)
      BY <1>2 DEF Auth!KeyboardInteractive
    <2> QED BY <1>2, <2>1, Prompted
  <1> QED BY <1>1, <1>2

\* The configured key is offered once, when the agent has been asked.
LEMMA KeyTried ==
    ASSUME Acting, NEW t \in Auth!StateType, NEW p \in PacketType, ~t.gotit,
           "publickey" \in t.can /\ acfg.agent => "agent" \in t.tried,
           t.kbd => KeysSpent(t) /\ "ki" \in t.tried /\ (t.curr > 0 => Building(t)), ~t.kbd => t.method = "none",
           Auth!ConfiguredKey(t, p)
    PROVE  Acted
  <1>1. CASE "publickey" \in t.can /\ acfg.key # "none" /\ "config" \notin t.tried
    <2>1. PICK u : u = [t EXCEPT !.tried = @ \union {"config"}]
      OBVIOUS
    <2>2. Auth!Send("offer") /\ apc' = "offerfile" /\ UNCHANGED damaged /\ s' = u
      BY <1>1, <2>1 DEF Auth!ConfiguredKey
    <2>3. ~t.kbd
      BY <1>1 DEF KeysSpent
    <2>4. u \in Auth!StateType /\ ~u.gotit /\ u.method = "none" /\ ~u.kbd
      BY <2>1, <2>3 DEF Auth!StateType
    <2>5. Waits'
      BY <2>2, <2>4 DEF Waits, Auth!IdlePromptIsLast
    <2> QED BY <2>2, <2>4, <2>5, SentAndStays
  <1>2. CASE ~("publickey" \in t.can /\ acfg.key # "none" /\ "config" \notin t.tried)
    <2>1. Auth!KeyboardInteractive(t, p)
      BY <1>2 DEF Auth!ConfiguredKey
    <2>2. KeysSpent(t)
      BY <1>2 DEF KeysSpent
    <2> QED BY <2>1, <2>2, KiTried
  <1> QED BY <1>1, <1>2

\* The agent is asked for its keys once.
LEMMA AgentTried ==
    ASSUME Acting, NEW t \in Auth!StateType, NEW p \in PacketType, ~t.gotit,
           t.kbd => KeysSpent(t) /\ "ki" \in t.tried /\ (t.curr > 0 => Building(t)), ~t.kbd => t.method = "none",
           Auth!Agent(t, p)
    PROVE  Acted
  <1>1. CASE "publickey" \in t.can /\ acfg.agent /\ "agent" \notin t.tried
    <2>1. PICK u : u = [t EXCEPT !.tried = @ \union {"agent"}]
      OBVIOUS
    <2>2. apc' = "identities" /\ UNCHANGED <<asks, pktout, damaged>> /\ s' = u
      BY <1>1, <2>1 DEF Auth!Agent, Auth!Silent
    <2>3. ~t.kbd
      BY <1>1 DEF KeysSpent
    <2>4. u \in Auth!StateType /\ ~u.gotit /\ u.method = "none" /\ ~u.kbd /\ "agent" \in u.tried
      BY <2>1, <2>3 DEF Auth!StateType
    <2>5. CoroutineTyped'
      BY <2>2, <2>4 DEF Acting, CoroutineTyped, AuthPlaces
    <2>6. Waits'
      BY <2>2, <2>4 DEF Waits, Auth!IdlePromptIsLast
    <2>7. bannered = 0 => Turn'
      BY <2>2 DEF Turn, Acting
    <2> QED BY <2>2, <2>5, <2>6, <2>7 DEF Acted
  <1>2. CASE ~("publickey" \in t.can /\ acfg.agent /\ "agent" \notin t.tried)
    <2>1. Auth!ConfiguredKey(t, p)
      BY <1>2 DEF Auth!Agent
    <2> QED BY <1>2, <2>1, KeyTried
  <1> QED BY <1>1, <1>2

\* The keys of the agent are offered one by one.
LEMMA KeyOffered ==
    ASSUME Acting, NEW t \in Auth!StateType, NEW p \in PacketType, ~t.gotit, "agent" \in t.tried, ~t.kbd,
           t.method = "none", Auth!OfferKey(t, p)
    PROVE  Acted
  <1>1. CASE t.keyi < AgentKeys
    <2>1. PICK u : u = [t EXCEPT !.tried = IF t.keyi = 0 /\ acfg.key = "agent_too" THEN @ \union {"config"} ELSE @]
      OBVIOUS
    <2>2. Auth!Send("offer") /\ apc' = "offeragent" /\ UNCHANGED damaged /\ s' = u
      BY <1>1, <2>1 DEF Auth!OfferKey, Auth!MoreKeys
    <2>3. u \in Auth!StateType /\ ~u.gotit /\ u.method = "none" /\ ~u.kbd /\ "agent" \in u.tried /\ u.keyi = t.keyi
      BY <2>1 DEF Auth!StateType
    <2>4. Waits'
      BY <1>1, <2>2, <2>3 DEF Waits, Auth!IdlePromptIsLast
    <2> QED BY <2>2, <2>3, <2>4, SentAndStays
  <1>2. CASE ~(t.keyi < AgentKeys)
    <2>1. Auth!ConfiguredKey(t, p)
      BY <1>2 DEF Auth!OfferKey, Auth!MoreKeys, Auth!NoKeyLeft
    <2> QED BY <2>1, KeyTried
  <1> QED BY <1>1, <1>2

\* The user name is asked for, or sent.
LEMMA UserNamed ==
    ASSUME Acting, NEW t \in Auth!StateType, t.kbd => KeysSpent(t) /\ "ki" \in t.tried, UNCHANGED damaged,
           Auth!Username(t) \/ Auth!SendNone(t)
    PROVE  Acted
  <1>1. CASE Auth!SendNone(t)
    <2>1. PICK u : u = [t EXCEPT !.gotUser = TRUE, !.type = "none", !.gotit = FALSE, !.tried = {}, !.kbd = FALSE]
      OBVIOUS
    <2>2. Auth!Send("none") /\ apc' = "wait" /\ s' = u
      BY <1>1, <2>1 DEF Auth!SendNone
    <2>3. u \in Auth!StateType /\ ~u.gotit /\ ~u.kbd /\ u.type = "none"
      BY <2>1 DEF Auth!StateType
    <2>4. damaged' \subseteq {"response", "signature"}
      BY DEF Acting, CoroutineTyped
    <2> QED BY <2>2, <2>3, <2>4, SentAndWaits DEF AuthAsks
  <1>2. CASE apc' = "user" /\ s' = t /\ Auth!Silent
    <2>1. UNCHANGED <<asks, pktout>>
      BY <1>2 DEF Auth!Silent
    <2>2. CoroutineTyped'
      BY <1>2, <2>1 DEF Acting, CoroutineTyped, AuthPlaces
    <2>3. Waits'
      BY <1>2 DEF Waits, Auth!IdlePromptIsLast, KeysSpent, Acting
    <2>4. bannered = 0 => Turn'
      BY <1>2, <2>1 DEF Turn, Acting
    <2> QED BY <1>2, <2>2, <2>3, <2>4 DEF Acted
  <1> QED BY <1>1, <1>2 DEF Auth!Username

-----------------------------------------------------------------------------
(* The events of authentication.                                           *)

\* What a server may answer.
LEMMA AnswersTyped ==
    ASSUME NEW k \in AuthAsks, NEW p \in Auth!Answers(k)
    PROVE  /\ p \in PacketType /\ p.of = k /\ p.type # "banner"
           /\ k = "ki" => p.type \in {"failure", "info"}
           /\ k = "garbage" => p.type = "disconnect"
  <1> DEFINE P(type) == [type |-> type, of |-> k, partial |-> FALSE, methods |-> {}, num |-> 0]
  <1>1. ASSUME NEW type PROVE Auth!Packet(type, k) = P(type)
    <2>1. PICK q : q = Auth!NoPacket
      OBVIOUS
    <2>2. Auth!Packet(type, k) = [q EXCEPT !.type = type, !.of = k]
      BY <2>1 DEF Auth!Packet
    <2>3. q = [type |-> "unset", of |-> "unset", partial |-> FALSE, methods |-> {}, num |-> 0]
      BY <2>1 DEF Auth!NoPacket
    <2> QED BY <2>2, <2>3
  <1>2. ASSUME NEW r \in Auth!Refusals(k) PROVE r \in PacketType /\ r.of = k /\ r.type = "failure"
    <2>2. PICK b \in BOOLEAN, m \in MethodSets : r = Auth!Refusal(k, b, m)
      BY DEF Auth!Refusals
    <2>3. m \in SUBSET Auth!Methods
      BY AuthAssumption
    <2>4. PICK q : q = Auth!Packet("failure", k)
      OBVIOUS
    <2>5. q = [type |-> "failure", of |-> k, partial |-> FALSE, methods |-> {}, num |-> 0]
      BY <1>1, <2>4
    <2>6. r = [q EXCEPT !.partial = b, !.methods = m]
      BY <2>2, <2>4 DEF Auth!Refusal
    <2>7. r = [type |-> "failure", of |-> k, partial |-> b, methods |-> m, num |-> 0]
      BY <2>5, <2>6
    <2> QED BY <2>3, <2>7, MCAssumption DEF PacketType
  <1>3. \A r \in Auth!FullRefusals(k) : r \in Auth!Refusals(k)
    BY DEF Auth!FullRefusals
  <1>4. ASSUME NEW r \in Auth!InfoRequests(k) PROVE r \in PacketType /\ r.of = k /\ r.type = "info"
    <2>1. PICK n \in 0 .. MaxPrompts : r = [Auth!Packet("info", k) EXCEPT !.num = n]
      BY DEF Auth!InfoRequests
    <2>2. PICK q : q = Auth!Packet("info", k)
      OBVIOUS
    <2>3. q = [type |-> "info", of |-> k, partial |-> FALSE, methods |-> {}, num |-> 0]
      BY <1>1, <2>2
    <2>4. r = [q EXCEPT !.num = n]
      BY <2>1, <2>2
    <2>5. r = [type |-> "info", of |-> k, partial |-> FALSE, methods |-> {}, num |-> n]
      BY <2>3, <2>4
    <2> QED BY <2>5, MCAssumption DEF PacketType
  <1>5. ASSUME NEW type \in {"accept", "success", "pkok", "disconnect"}
        PROVE  Auth!Packet(type, k) \in PacketType /\ Auth!Packet(type, k).of = k /\ Auth!Packet(type, k).type = type
    <2>1. P(type) \in PacketType /\ P(type).of = k /\ P(type).type = type
      BY MCAssumption DEF PacketType
    <2> QED BY <1>1, <2>1
  <1> HIDE DEF P
  <1>6. CASE k = "service"
    <2>1. p = Auth!Packet("accept", k)
      BY <1>6 DEF Auth!Answers
    <2> QED BY <1>5, <1>6, <2>1
  <1>7. CASE k = "none"
    <2>1. p \in Auth!FullRefusals(k) \/ p = Auth!Packet("success", k)
      BY <1>7 DEF Auth!Answers
    <2> QED BY <1>2, <1>3, <1>5, <1>7, <2>1
  <1>8. CASE k = "offer"
    <2>1. p \in Auth!FullRefusals(k) \/ p = Auth!Packet("pkok", k)
      BY <1>8 DEF Auth!Answers
    <2> QED BY <1>2, <1>3, <1>5, <1>8, <2>1
  <1>9. CASE k = "ki"
    <2>1. p \in Auth!FullRefusals(k) \/ p \in Auth!InfoRequests(k)
      BY <1>9 DEF Auth!Answers
    <2> QED BY <1>2, <1>3, <1>4, <1>9, <2>1
  <1>10. CASE k = "response"
    <2>1. p \in Auth!Refusals(k) \/ p \in Auth!InfoRequests(k) \/ p = Auth!Packet("success", k)
      BY <1>10 DEF Auth!Answers
    <2> QED BY <1>2, <1>4, <1>5, <1>10, <2>1
  <1>11. CASE k \in {"signature", "password"}
    <2>1. p \in Auth!Refusals(k) \/ p = Auth!Packet("success", k)
      BY <1>11 DEF Auth!Answers
    <2> QED BY <1>2, <1>5, <1>11, <2>1
  <1>12. CASE k \in {"garbage", "disconnect"}
    <2>1. p = Auth!Packet("disconnect", k)
      BY <1>12 DEF Auth!Answers
    <2> QED BY <1>5, <1>12, <2>1
  <1> QED BY <1>6, <1>7, <1>8, <1>9, <1>10, <1>11, <1>12 DEF AuthAsks

\* The invariant follows from what the coroutine did and what became of the packets.
LEMMA ActedKeeps ==
    ASSUME Acted, PacketsTyped', bannered' = bannered,
           bannered = 0 => pktin'.type # "banner" /\ sentBack' \in {"unset", "password", "signature"}
    PROVE  AuthInv'
  BY DEF AuthInv, Acted

\* What the coroutine leaves alone stays typed.
LEMMA PacketsStay ==
    ASSUME PacketsTyped, UNCHANGED <<pktin, acfg, toAuth, granted, bannered>>, apc' = "in" => granted
    PROVE  PacketsTyped'
  BY DEF PacketsTyped

\* The service is asked for; the user types the user name, or an answer.
LEMMA BeginAuthStep == ASSUME AuthInv, Auth!Begin PROVE AuthInv'
  <1>1. /\ apc = "start" /\ apc' = "service" /\ Auth!Send("service")
        /\ UNCHANGED <<s, pktin, acfg, toAuth, granted, bannered, sentBack, damaged>>
    BY DEF Auth!Begin, Auth!world
  <1>2. Acting
    BY <1>1 DEF Acting, AuthInv, Turn
  <1>3. /\ asks' \in Seq(AuthAsks) /\ pktout' \in PktoutType /\ (bannered = 0 => asks' = <<"service">> /\ toAuth' = <<>>)
    BY <1>1, <1>2, Sent DEF AuthAsks
  <1>4. CoroutineTyped'
    BY <1>1, <1>3 DEF AuthInv, CoroutineTyped, AuthPlaces
  <1>5. Waits'
    BY <1>1 DEF AuthInv, Waits, Auth!IdlePromptIsLast, KeysSpent
  <1>6. ASSUME bannered = 0 PROVE Turn'
    <2>1. Outstanding("service")' /\ "service" \in AuthAsks
      BY <1>3, <1>6 DEF Outstanding, AuthAsks
    <2>2. Owing'
      BY <1>1, <2>1 DEF Owing
    <2> QED BY <1>1, <2>2 DEF Turn
  <1>7. Acted
    BY <1>1, <1>4, <1>5, <1>6 DEF Acted
  <1>8. PacketsTyped'
    BY <1>1, PacketsStay DEF AuthInv
  <1> QED BY <1>1, <1>7, <1>8, ActedKeeps DEF AuthInv

\* The user name is typed.
LEMMA TypeUserStep == ASSUME AuthInv, Auth!TypeUser PROVE AuthInv'
  <1>1. /\ apc = "user" /\ Auth!SendNone(s) /\ UNCHANGED <<pktin, acfg, toAuth, granted, bannered, sentBack, damaged>>
    BY DEF Auth!TypeUser, Auth!world
  <1>2. Acting /\ s \in Auth!StateType /\ (s.kbd => KeysSpent(s) /\ "ki" \in s.tried)
    BY <1>1 DEF Acting, AuthInv, Turn, Waits, CoroutineTyped
  <1>3. PICK t \in Auth!StateType : t = s
    BY <1>2
  <1>4. Auth!SendNone(t) /\ (t.kbd => KeysSpent(t) /\ "ki" \in t.tried)
    BY <1>1, <1>2, <1>3 DEF Auth!SendNone, KeysSpent
  <1>5. Acted
    BY <1>1, <1>2, <1>4, UserNamed
  <1>6. PacketsTyped'
    BY <1>1, <1>5, PacketsStay DEF AuthInv, Acted
  <1> QED BY <1>1, <1>5, <1>6, ActedKeeps DEF AuthInv

\* An answer to a prompt is typed, or the last one.
LEMMA TypeAnswerStep == ASSUME AuthInv, Auth!TypeAnswer PROVE AuthInv'
  <1>1. /\ apc = "prompt" /\ Auth!Answer(s) /\ UNCHANGED <<pktin, acfg, toAuth, granted, bannered, sentBack>>
    BY DEF Auth!TypeAnswer, Auth!world
  <1>2. Acting /\ Askable(s)
    BY <1>1 DEF Acting, AuthInv, Turn, Waits, CoroutineTyped, Askable
  <1>3. PICK t : t = s
    OBVIOUS
  <1>4. Auth!Answer(t) /\ Askable(t)
    BY <1>1, <1>2, <1>3 DEF Auth!Answer, Askable, KeysSpent, Building, Auth!Begun
  <1>5. Acted
    BY <1>2, <1>4, AnswerGiven
  <1>6. PacketsTyped'
    BY <1>1, <1>5, PacketsStay DEF AuthInv, Acted
  <1> QED BY <1>1, <1>5, <1>6, ActedKeeps DEF AuthInv

\* The top of the loop.
LEMMA LoopStep == ASSUME AuthInv, Auth!Loop PROVE AuthInv'
  <1>1. apc = "loop" /\ UNCHANGED <<pktin, acfg, toAuth, granted, bannered>>
    BY DEF Auth!Loop, Auth!world
  <1>2. Acting /\ CoroutineTyped /\ PacketsTyped /\ Waits
    BY <1>1 DEF AuthInv, Acting, Turn
  <1>3. PICK p \in PacketType : p = pktin
    BY <1>2 DEF PacketsTyped
  <1>4. PICK z \in Auth!StateType : z = s
    BY <1>2 DEF CoroutineTyped
  <1>5. /\ z.kbd => KeysSpent(z) /\ "ki" \in z.tried
        /\ z.kbd /\ z.gotit => Building(z)
        /\ p.type = "success" => granted
        /\ bannered = 0 => p.type # "banner" /\ sentBack \in {"unset", "password", "signature"}
        /\ bannered = 0 /\ p.type = "failure" /\ z.type = "password" => p.of \in {"password", "signature"}
    BY <1>1, <1>2, <1>3, <1>4 DEF AuthInv, Waits, Turn, PacketsTyped
  <1>6. ASSUME Acted, sentBack' = sentBack \/ (sentBack' = p.of /\ p.type = "failure" /\ z.type = "password")
        PROVE  AuthInv'
    <2>1. PacketsTyped'
      BY <1>1, <1>2, <1>6, PacketsStay DEF Acted
    <2>2. bannered = 0 => pktin'.type # "banner" /\ sentBack' \in {"unset", "password", "signature"}
      BY <1>1, <1>3, <1>5, <1>6
    <2> QED BY <1>1, <1>6, <2>1, <2>2, ActedKeeps
  <1>7. ASSUME s' = s, Auth!Silent, UNCHANGED <<sentBack, damaged>>,
               (apc' = "wait" /\ p.type = "banner") \/ (apc' = "in" /\ p.type = "success") \/ apc' = "closed"
        PROVE  AuthInv'
    <2>1. UNCHANGED <<asks, pktout>> /\ apc' \in {"wait", "in", "closed"}
      BY <1>7 DEF Auth!Silent
    <2>2. CoroutineTyped'
      BY <1>2, <1>7, <2>1 DEF CoroutineTyped, AuthPlaces
    <2>3. PacketsTyped'
      BY <1>1, <1>2, <1>5, <1>7 DEF PacketsTyped
    <2>4. Waits'
      BY <1>1, <1>2, <1>7, <2>1 DEF Waits, Auth!IdlePromptIsLast, KeysSpent, Building
    <2>5. ASSUME bannered' = 0 PROVE Turn' /\ pktin'.type # "banner" /\ sentBack' \in {"unset", "password", "signature"}
      <3>1. apc' \in {"in", "closed"} /\ bannered = 0
        BY <1>1, <1>5, <1>7, <2>5
      <3>2. asks' = <<>> /\ toAuth' = <<>>
        BY <1>1, <1>2, <2>1, <3>1 DEF Acting
      <3>3. Turn'
        BY <3>1, <3>2 DEF Turn
      <3> QED BY <1>1, <1>3, <1>5, <1>7, <3>1, <3>3
    <2> QED BY <2>2, <2>3, <2>4, <2>5 DEF AuthInv
  <1>8. ASSUME z.kbd, Auth!Agent([[s EXCEPT !.gotit = FALSE, !.method = "none"] EXCEPT !.curr = IF s.gotit THEN @ ELSE 0], pktin),
               UNCHANGED sentBack
        PROVE  AuthInv'
    <2>1. PICK u : u = [[s EXCEPT !.gotit = FALSE, !.method = "none"] EXCEPT !.curr = IF s.gotit THEN @ ELSE 0]
      OBVIOUS
    <2>2. Auth!Agent(u, p)
      BY <1>3, <1>8, <2>1
    <2>3. u = [z EXCEPT !.gotit = FALSE, !.method = "none", !.curr = IF z.gotit THEN z.curr ELSE 0]
      BY <1>4, <2>1 DEF Auth!StateType
    <2>4. /\ u \in Auth!StateType /\ ~u.gotit /\ u.kbd /\ u.can = z.can /\ u.tried = z.tried
          /\ u.curr > 0 => z.gotit /\ u.curr = z.curr
      <3>1. PICK c : c = IF z.gotit THEN z.curr ELSE 0
        OBVIOUS
      <3>2. c \in 0 .. MaxPrompts /\ (c > 0 => z.gotit /\ c = z.curr)
        BY <3>1, MCAssumption DEF Auth!StateType
      <3>3. u = [z EXCEPT !.gotit = FALSE, !.method = "none", !.curr = c]
        BY <2>3, <3>1
      <3> QED BY <1>8, <3>2, <3>3 DEF Auth!StateType
    <2>5. KeysSpent(u) /\ "ki" \in u.tried /\ (u.curr > 0 => Building(u))
      BY <1>5, <1>8, <2>4 DEF KeysSpent, Building
    <2>6. Acted
      BY <1>2, <2>2, <2>4, <2>5, AgentTried
    <2> QED BY <1>6, <1>8, <2>6
  <1>9. ASSUME p.type = "failure", z.type = "password", Auth!Username([s EXCEPT !.gotit = FALSE, !.kbd = FALSE]),
               sentBack' = pktin.of, UNCHANGED damaged
        PROVE  AuthInv'
    <2>1. PICK u : u = [s EXCEPT !.gotit = FALSE, !.kbd = FALSE]
      OBVIOUS
    <2>2. Auth!Username(u)
      BY <1>9, <2>1
    <2>3. u \in Auth!StateType /\ ~u.kbd
      BY <1>4, <2>1 DEF Auth!StateType
    <2>4. Acted
      BY <1>2, <1>9, <2>2, <2>3, UserNamed
    <2> QED BY <1>3, <1>6, <1>9, <2>4
  <1>10. ASSUME Auth!Agent([[s EXCEPT !.gotit = FALSE, !.method = "none"] EXCEPT !.kbd = FALSE, !.can = pktin.methods], pktin),
                UNCHANGED sentBack
         PROVE  AuthInv'
    <2>1. PICK u : u = [[s EXCEPT !.gotit = FALSE, !.method = "none"] EXCEPT !.kbd = FALSE, !.can = pktin.methods]
      OBVIOUS
    <2>2. Auth!Agent(u, p)
      BY <1>3, <1>10, <2>1
    <2>3. u = [z EXCEPT !.gotit = FALSE, !.method = "none", !.kbd = FALSE, !.can = p.methods]
      BY <1>3, <1>4, <2>1 DEF Auth!StateType
    <2>4. u \in Auth!StateType /\ ~u.gotit /\ ~u.kbd /\ u.method = "none"
      BY <2>3 DEF Auth!StateType, PacketType
    <2>5. Acted
      BY <1>2, <2>2, <2>4, AgentTried
    <2> QED BY <1>6, <1>10, <2>5
  <1>11. CASE p.type = "banner"
    <2>1. apc' = "wait" /\ s' = s /\ Auth!Silent /\ UNCHANGED <<sentBack, damaged>>
      BY <1>3, <1>11 DEF Auth!Loop, Auth!Accepted
    <2> QED BY <1>7, <1>11, <2>1
  <1>12. CASE p.type = "success"
    <2>1. apc' = "in" /\ s' = s /\ Auth!Silent /\ UNCHANGED <<sentBack, damaged>>
      BY <1>3, <1>12 DEF Auth!Loop, Auth!Accepted
    <2> QED BY <1>7, <1>12, <2>1
  <1>13. CASE p.type = "info" /\ z.kbd
    <2>1. /\ Auth!Agent([[s EXCEPT !.gotit = FALSE, !.method = "none"] EXCEPT !.curr = IF s.gotit THEN @ ELSE 0], pktin)
          /\ UNCHANGED sentBack
      BY <1>3, <1>4, <1>13 DEF Auth!Loop, Auth!Accepted
    <2> QED BY <1>8, <1>13, <2>1
  <1>14. CASE p.type = "failure" /\ Auth!Refused(p) /\ z.type = "password"
    <2>1. Auth!Username([s EXCEPT !.gotit = FALSE, !.kbd = FALSE]) /\ sentBack' = pktin.of /\ UNCHANGED damaged
      BY <1>3, <1>4, <1>14 DEF Auth!Loop, Auth!Accepted, Auth!Refused
    <2> QED BY <1>9, <1>14, <2>1
  <1>15. CASE p.type = "failure" /\ ~(Auth!Refused(p) /\ z.type = "password")
    <2>1. /\ Auth!Agent([[s EXCEPT !.gotit = FALSE, !.method = "none"] EXCEPT !.kbd = FALSE, !.can = pktin.methods], pktin)
          /\ UNCHANGED sentBack
      BY <1>3, <1>4, <1>15 DEF Auth!Loop, Auth!Accepted, Auth!Refused
    <2> QED BY <1>10, <2>1
  <1>16. CASE ~(p.type \in {"banner", "success", "failure"}) /\ ~(p.type = "info" /\ z.kbd)
    <2>1. apc' = "closed" /\ s' = s /\ Auth!Silent /\ UNCHANGED <<sentBack, damaged>>
      BY <1>3, <1>4, <1>16 DEF Auth!Loop, Auth!Accepted, Auth!Refused
    <2> QED BY <1>7, <2>1
  <1> QED BY <1>11, <1>12, <1>13, <1>14, <1>15, <1>16

\* A packet comes.
LEMMA ReceiveAuthStep == ASSUME AuthInv, Auth!Receive PROVE AuthInv'
  <1>1. /\ apc \notin {"start", "loop", "in", "closed"} /\ toAuth # <<>> /\ toAuth' = Tail(toAuth) /\ pktin' = Head(toAuth)
        /\ Auth!OnPacket(Head(toAuth)) /\ UNCHANGED <<acfg, granted, bannered>>
    BY DEF Auth!Receive
  <1>2. CoroutineTyped /\ PacketsTyped /\ Waits /\ acfg \in Auth!Config
    BY DEF AuthInv, PacketsTyped
  <1>3. PICK p \in PacketType : p = Head(toAuth)
    BY <1>1, <1>2, Shortened DEF PacketsTyped
  <1>4. PICK z \in Auth!StateType : z = s
    BY <1>2 DEF CoroutineTyped
  <1>5. Auth!OnPacket(p)
    BY <1>1, <1>3
  <1>6. toAuth' \in Seq(PacketType) /\ (p.type = "success" => granted)
        /\ \A i \in DOMAIN toAuth' : toAuth'[i].type = "success" => granted
    <2>1. toAuth \in Seq(PacketType) /\ \A i \in DOMAIN toAuth : toAuth[i].type = "success" => granted
      BY <1>2 DEF PacketsTyped
    <2>2. /\ Tail(toAuth) \in Seq(PacketType) /\ Len(toAuth) \in Nat \ {0} /\ DOMAIN toAuth = 1 .. Len(toAuth)
          /\ DOMAIN Tail(toAuth) = 1 .. Len(toAuth) - 1 /\ Head(toAuth) = toAuth[1]
          /\ \A i \in 1 .. Len(toAuth) - 1 : Tail(toAuth)[i] = toAuth[i + 1]
      BY <1>1, <2>1, Shortened
    <2> QED BY <1>1, <1>3, <2>1, <2>2
  <1>7. ASSUME bannered = 0
        PROVE  /\ apc \in {"service", "wait", "offeragent", "offerfile", "kistart"}
               /\ asks = <<>> /\ toAuth' = <<>> /\ p.type # "banner"
               /\ apc = "kistart" => p.type \in {"failure", "info"}
               /\ apc = "wait" /\ z.type = "password" => p.of \in {"password", "signature"} \/ p.type = "disconnect"
    <2>1. apc \in {"service", "wait", "offeragent", "offerfile", "kistart"}
      BY <1>1, <1>2, <1>7 DEF AuthInv, Turn, CoroutineTyped, AuthPlaces
    <2>2. PICK k \in AuthAsks :
            /\ Outstanding(k) /\ (apc = "kistart" => k = "ki")
            /\ apc = "wait" /\ z.type = "password" => k \in {"password", "signature", "garbage"}
      BY <1>4, <1>7, <2>1 DEF AuthInv, Turn, Owing
    <2>3. PICK q \in Auth!Answers(k) : asks = <<>> /\ toAuth = <<q>>
      <3>1. Outstanding(k) /\ toAuth # <<>>
        BY <1>1, <2>2
      <3>2. asks = <<>> /\ \E q \in Auth!Answers(k) : toAuth = <<q>>
        BY Zenon, <3>1 DEF Outstanding
      <3> QED BY <3>2
    <2>4. p = q /\ toAuth' = <<>>
      BY <1>1, <1>3, <2>3
    <2>5. /\ p.of = k /\ p.type # "banner" /\ (k = "ki" => p.type \in {"failure", "info"})
          /\ k = "garbage" => p.type = "disconnect"
      BY <2>4, AnswersTyped
    <2>6. apc = "wait" /\ z.type = "password" => p.of \in {"password", "signature"} \/ p.type = "disconnect"
      BY <2>2, <2>5
    <2> QED BY <2>1, <2>2, <2>3, <2>4, <2>5, <2>6
  <1>8. Acting
    BY <1>1, <1>2, <1>7 DEF Acting
  <1>9. /\ apc \in {"offeragent", "sign", "offerfile"} => z.method = "none" /\ ~z.kbd /\ ~z.gotit
        /\ apc = "offeragent" => "agent" \in z.tried /\ z.keyi < AgentKeys
        /\ apc = "kistart" => z.method = "ki" /\ ~z.kbd /\ ~z.gotit /\ KeysSpent(z) /\ "ki" \in z.tried
        /\ z.kbd => KeysSpent(z) /\ "ki" \in z.tried
    BY <1>2, <1>4 DEF Waits, KeysSpent
  <1>10. ASSUME Acted, UNCHANGED sentBack PROVE AuthInv'
    <2>1. PacketsTyped'
      BY <1>1, <1>2, <1>3, <1>6, <1>10 DEF PacketsTyped, Acted
    <2>2. bannered = 0 => pktin'.type # "banner" /\ sentBack' \in {"unset", "password", "signature"}
      BY <1>1, <1>3, <1>7, <1>10 DEF AuthInv
    <2> QED BY <1>1, <1>10, <2>1, <2>2, ActedKeeps
  \* The packet is lost, or left for the top of the loop, or it is the end.
  <1>11. ASSUME Auth!Silent, UNCHANGED <<s, sentBack, damaged>>,
                \/ apc' = apc /\ apc \in {"user", "prompt"}
                \/ apc = "wait" /\ apc' = "loop"
                \/ apc' = "closed"
         PROVE  AuthInv'
    <2>1. UNCHANGED <<asks, pktout>> /\ apc' \in {"user", "prompt", "loop", "closed"}
      BY <1>11 DEF Auth!Silent
    <2>2. CoroutineTyped'
      BY <1>2, <1>11, <2>1 DEF CoroutineTyped, AuthPlaces
    <2>3. Waits'
      BY <1>1, <1>2, <1>11, <2>1 DEF Waits, Auth!IdlePromptIsLast, KeysSpent, Building
    <2>4. ASSUME bannered = 0 PROVE Turn'
      <3>1. (apc = "wait" /\ apc' = "loop") \/ apc' = "closed"
        BY <1>7, <1>11, <2>4
      <3>2. apc' = "loop" /\ pktin'.type = "failure" /\ s'.type = "password" => pktin'.of \in {"password", "signature"}
        BY <1>1, <1>3, <1>4, <1>7, <1>11, <2>4, <3>1
      <3>3. asks' = <<>> /\ toAuth' = <<>>
        BY <1>7, <2>1, <2>4
      <3> QED BY <2>1, <3>1, <3>2, <3>3 DEF Turn
    <2> QED BY <1>10, <1>11, <2>1, <2>2, <2>3, <2>4 DEF Acted
  <1>12. CASE apc \in {"user", "prompt"}
    <2>1. UNCHANGED <<apc, s, sentBack, damaged>> /\ Auth!Silent
      BY <1>5, <1>12 DEF Auth!OnPacket, Auth!Dropped
    <2> QED BY <1>11, <1>12, <2>1
  <1>13. CASE apc = "service"
    <2>1. /\ IF p.type = "accept" THEN Auth!Username(s) ELSE apc' = "closed" /\ Auth!Silent /\ UNCHANGED s
          /\ UNCHANGED <<sentBack, damaged>>
      BY <1>5, <1>13 DEF Auth!OnPacket, Auth!Dropped
    <2>2. CASE p.type = "accept"
      <3>1. Auth!Username(z)
        BY <1>4, <2>1, <2>2
      <3>2. Acted
        BY <1>8, <1>9, <2>1, <3>1, UserNamed
      <3> QED BY <1>10, <2>1, <3>2
    <2>3. CASE p.type # "accept"
      <3>1. apc' = "closed" /\ Auth!Silent /\ UNCHANGED s
        BY <2>1, <2>3
      <3> QED BY <1>11, <2>1, <3>1
    <2> QED BY <2>2, <2>3
  <1>14. CASE apc = "wait"
    <2>1. apc' = "loop" /\ UNCHANGED <<s, sentBack, damaged>> /\ Auth!Silent
      BY <1>5, <1>14 DEF Auth!OnPacket, Auth!Dropped
    <2> QED BY <1>11, <1>14, <2>1
  <1>15. CASE apc \in {"identities", "sign"}
    <2>1. apc' = "closed" /\ UNCHANGED <<s, sentBack, damaged>> /\ Auth!Silent
      BY <1>5, <1>15 DEF Auth!OnPacket, Auth!Dropped
    <2> QED BY <1>11, <2>1
  <1>16. CASE apc = "offeragent" /\ p.type # "pkok"
    <2>1. PICK u : u = [s EXCEPT !.keyi = @ + 1]
      OBVIOUS
    <2>2. Auth!OfferKey([s EXCEPT !.keyi = @ + 1], p) /\ UNCHANGED sentBack
      BY <1>5, <1>16 DEF Auth!OnPacket, Auth!Dropped
    <2>3. Auth!OfferKey(u, p)
      BY <2>1, <2>2
    <2>4. u \in Auth!StateType /\ ~u.gotit /\ "agent" \in u.tried /\ ~u.kbd /\ u.method = "none"
      <3>1. z.keyi + 1 \in 0 .. AgentKeys
        BY <1>9, <1>16, MCAssumption DEF Auth!StateType
      <3>2. u = [z EXCEPT !.keyi = z.keyi + 1]
        BY <1>4, <2>1
      <3> QED BY <1>9, <1>16, <3>1, <3>2 DEF Auth!StateType
    <2>5. Acted
      BY <1>8, <2>3, <2>4, KeyOffered
    <2> QED BY <1>10, <2>2, <2>5
  <1>17. CASE apc = "offeragent" /\ p.type = "pkok"
    <2>1. /\ pktout' = [kind |-> "signature", answers |-> 0] /\ apc' = "sign"
          /\ UNCHANGED <<s, asks, sentBack, damaged>>
      BY <1>5, <1>17 DEF Auth!OnPacket, Auth!Dropped
    <2>2. CoroutineTyped'
      BY <1>2, <2>1 DEF CoroutineTyped, AuthPlaces, PktoutType
    <2>3. Waits'
      BY <1>1, <1>2, <1>17, <2>1 DEF Waits, Auth!IdlePromptIsLast, KeysSpent
    <2>4. bannered = 0 => Turn'
      BY <1>7, <2>1 DEF Turn
    <2> QED BY <1>10, <2>1, <2>2, <2>3, <2>4 DEF Acted
  <1>18. CASE apc = "offerfile" /\ p.type # "pkok"
    <2>1. apc' = "loop" /\ s' = [s EXCEPT !.gotit = TRUE, !.type = "offer"] /\ Auth!Silent /\ UNCHANGED <<sentBack, damaged>>
      BY <1>5, <1>18 DEF Auth!OnPacket, Auth!Dropped, Auth!OfferRefused
    <2>2. PICK u : u = [s EXCEPT !.gotit = TRUE, !.type = "offer"]
      OBVIOUS
    <2>3. u \in Auth!StateType /\ ~u.kbd /\ u.type = "offer"
      BY <1>4, <1>9, <1>18, <2>2 DEF Auth!StateType
    <2>4. UNCHANGED <<asks, pktout>> /\ s' = u
      BY <2>1, <2>2 DEF Auth!Silent
    <2>5. CoroutineTyped'
      BY <1>2, <2>1, <2>3, <2>4 DEF CoroutineTyped, AuthPlaces
    <2>6. Waits'
      BY <2>1, <2>3, <2>4 DEF Waits, Auth!IdlePromptIsLast
    <2>7. bannered = 0 => Turn'
      BY <1>7, <2>1, <2>3, <2>4 DEF Turn
    <2> QED BY <1>10, <2>1, <2>5, <2>6, <2>7 DEF Acted
  <1>19. CASE apc = "offerfile" /\ p.type = "pkok"
    <2>1. PICK u : u = [s EXCEPT !.method = "file", !.needPw = acfg.encrypted]
      OBVIOUS
    <2>2. Auth!Prompts([s EXCEPT !.method = "file", !.needPw = acfg.encrypted], p) /\ UNCHANGED sentBack
      BY <1>5, <1>19 DEF Auth!OnPacket, Auth!Dropped
    <2>3. Auth!Prompts(u, p)
      BY <2>1, <2>2
    <2>4. PICK e \in BOOLEAN : e = acfg.encrypted
      BY <1>2 DEF Auth!Config
    <2>5. u = [z EXCEPT !.method = "file", !.needPw = e]
      BY <1>4, <2>1, <2>4
    <2>6. u \in Auth!StateType /\ ~u.gotit /\ ~u.kbd /\ u.method = "file"
      BY <1>9, <1>19, <2>5 DEF Auth!StateType
    <2>7. Acted
      BY <1>8, <2>3, <2>6, Prompted
    <2> QED BY <1>10, <2>2, <2>7
  <1>20. CASE apc = "kistart" /\ p.type # "info"
    <2>1. /\ s' = [s EXCEPT !.type = "kiquiet", !.gotit = (p.type = "failure")]
          /\ apc' = (IF p.type = "failure" THEN "loop" ELSE "wait") /\ Auth!Silent /\ UNCHANGED <<sentBack, damaged>>
      BY <1>5, <1>20 DEF Auth!OnPacket, Auth!Dropped, Auth!KiRefusal
    <2>2. PICK u : u = [s EXCEPT !.type = "kiquiet", !.gotit = (p.type = "failure")]
      OBVIOUS
    <2>3. u \in Auth!StateType /\ ~u.kbd /\ u.type = "kiquiet"
      BY <1>4, <1>9, <1>20, <2>2 DEF Auth!StateType
    <2>4. UNCHANGED <<asks, pktout>> /\ s' = u /\ apc' \in {"loop", "wait"} /\ (bannered = 0 => apc' = "loop")
      BY <1>7, <1>20, <2>1, <2>2 DEF Auth!Silent
    <2>5. CoroutineTyped'
      BY <1>2, <2>1, <2>3, <2>4 DEF CoroutineTyped, AuthPlaces
    <2>6. Waits'
      BY <2>3, <2>4 DEF Waits, Auth!IdlePromptIsLast
    <2>7. bannered = 0 => Turn'
      BY <1>7, <2>3, <2>4 DEF Turn
    <2> QED BY <1>10, <2>1, <2>4, <2>5, <2>6, <2>7 DEF Acted
  <1>21. CASE apc = "kistart" /\ p.type = "info"
    <2>1. PICK u : u = [s EXCEPT !.kbd = TRUE, !.curr = 0]
      OBVIOUS
    <2>2. Auth!Prompts([s EXCEPT !.kbd = TRUE, !.curr = 0], p) /\ UNCHANGED sentBack
      BY <1>5, <1>21 DEF Auth!OnPacket, Auth!Dropped
    <2>3. Auth!Prompts(u, p)
      BY <2>1, <2>2
    <2>4. u \in Auth!StateType /\ ~u.gotit /\ u.kbd /\ u.can = z.can /\ u.tried = z.tried /\ u.curr = 0
      <3>1. 0 \in 0 .. MaxPrompts /\ u = [z EXCEPT !.kbd = TRUE, !.curr = 0]
        BY <1>4, <2>1, MCAssumption
      <3> QED BY <1>9, <1>21, <3>1 DEF Auth!StateType
    <2>5. KeysSpent(u)
      BY <1>9, <1>21, <2>4 DEF KeysSpent
    <2>6. Acted
      BY <1>8, <2>3, <2>4, <2>5, Prompted
    <2> QED BY <1>10, <2>2, <2>6
  <1>22. apc \in {"user", "prompt", "service", "wait", "identities", "sign", "offeragent", "offerfile", "kistart"}
    BY <1>1, <1>2 DEF CoroutineTyped, AuthPlaces
  <1> QED BY <1>12, <1>13, <1>14, <1>15, <1>16, <1>17, <1>18, <1>19, <1>20, <1>21, <1>22

\* The agent's thread posts its answer.
LEMMA AgentAnswersStep == ASSUME AuthInv, Auth!AgentAnswers PROVE AuthInv'
  <1>1. apc \in {"identities", "sign"} /\ UNCHANGED <<pktin, acfg, toAuth, granted, bannered, sentBack>>
    BY DEF Auth!AgentAnswers, Auth!world
  <1>2. Acting /\ CoroutineTyped /\ PacketsTyped /\ Waits
    BY <1>1 DEF AuthInv, Acting, Turn
  <1>3. PICK p \in PacketType : p = pktin
    BY <1>2 DEF PacketsTyped
  <1>4. PICK z \in Auth!StateType : z = s
    BY <1>2 DEF CoroutineTyped
  <1>5. z.method = "none" /\ ~z.kbd /\ ~z.gotit /\ "agent" \in z.tried /\ (apc = "sign" => z.keyi < AgentKeys)
    BY <1>1, <1>2, <1>4 DEF Waits
  <1>6. ASSUME Acted PROVE AuthInv'
    <2>1. PacketsTyped'
      BY <1>1, <1>2, <1>6, PacketsStay DEF Acted
    <2> QED BY <1>1, <1>6, <2>1, ActedKeeps DEF AuthInv
  <1>7. ASSUME NEW n \in 0 .. AgentKeys, Auth!OfferKey([s EXCEPT !.keyi = n], pktin) PROVE AuthInv'
    <2>1. PICK u : u = [s EXCEPT !.keyi = n]
      OBVIOUS
    <2>2. Auth!OfferKey(u, p)
      BY <1>3, <1>7, <2>1
    <2>3. u \in Auth!StateType /\ ~u.gotit /\ "agent" \in u.tried /\ ~u.kbd /\ u.method = "none"
      BY <1>4, <1>5, <2>1 DEF Auth!StateType
    <2> QED BY <1>2, <1>6, <2>2, <2>3, KeyOffered
  <1>8. CASE apc = "identities" /\ Auth!OfferKey([s EXCEPT !.keyi = 0], pktin)
    <2>1. 0 \in 0 .. AgentKeys
      BY MCAssumption
    <2> QED BY <1>7, <1>8, <2>1
  <1>9. CASE apc = "identities" /\ Auth!ConfiguredKey(s, pktin)
    <2>1. Auth!ConfiguredKey(z, p)
      BY <1>3, <1>4, <1>9
    <2> QED BY <1>2, <1>5, <1>6, <2>1, KeyTried
  <1>10. CASE apc = "sign" /\ Auth!OfferKey([s EXCEPT !.keyi = @ + 1], pktin)
    <2>1. PICK n : n = z.keyi + 1
      OBVIOUS
    <2>2. n \in 0 .. AgentKeys
      BY <1>5, <1>10, <2>1, MCAssumption DEF Auth!StateType
    <2>3. [s EXCEPT !.keyi = @ + 1] = [s EXCEPT !.keyi = n]
      BY <1>4, <2>1 DEF Auth!StateType
    <2> QED BY <1>7, <1>10, <2>2, <2>3
  <1>11. CASE /\ apc = "sign" /\ asks' = Append(asks, IF pktout.kind = "signature" THEN "signature" ELSE "garbage")
              /\ damaged' = damaged \union (IF pktout.kind = "signature" THEN {} ELSE {"signature"})
              /\ pktout' = Auth!Nothing /\ apc' = "wait" /\ s' = s
    <2>1. PICK k \in {"signature", "garbage"} : asks' = Append(asks, k)
      BY <1>11
    <2>2. Auth!Send(k) /\ k \in AuthAsks
      BY <1>11, <2>1 DEF Auth!Send, AuthAsks
    <2>3. damaged' \subseteq {"response", "signature"}
      BY <1>2, <1>11 DEF CoroutineTyped
    <2>4. Acted
      BY <1>2, <1>4, <1>5, <1>11, <2>1, <2>2, <2>3, SentAndWaits
    <2> QED BY <1>6, <2>4
  <1> QED BY <1>8, <1>9, <1>10, <1>11 DEF Auth!AgentAnswers

\* The keepalive timer fires.
LEMMA KeepaliveStep == ASSUME AuthInv, Auth!Keepalive PROVE AuthInv'
  <1>1. /\ apc \in {"prompt", "sign"} /\ pktout' = [kind |-> "ping", answers |-> 0]
        /\ UNCHANGED <<apc, s, pktin, acfg, toAuth, granted, bannered, asks, sentBack, damaged>>
    BY DEF Auth!Keepalive, Auth!world
  <1>2. CoroutineTyped /\ PacketsTyped /\ Waits
    BY DEF AuthInv
  <1>3. CoroutineTyped' /\ PacketsTyped'
    BY <1>1, <1>2 DEF CoroutineTyped, PacketsTyped, PktoutType
  <1>4. Waits'
    BY <1>1, <1>2 DEF Waits, Building, KeysSpent, Auth!IdlePromptIsLast
  <1>5. bannered = 0 => Turn'
    BY <1>1 DEF AuthInv, Turn
  <1> QED BY <1>1, <1>3, <1>4, <1>5 DEF AuthInv

\* The server answers, or sends a banner.
LEMMA SrvAuthAnswerStep == ASSUME AuthInv, Auth!SrvAnswer PROVE AuthInv'
  <1>1. /\ asks # <<>> /\ asks' = Tail(asks)
        /\ UNCHANGED <<apc, s, pktin, pktout, acfg, bannered, sentBack, damaged>>
    BY DEF Auth!SrvAnswer
  <1>2. CoroutineTyped /\ PacketsTyped /\ Waits
    BY DEF AuthInv
  <1>3. PICK k \in AuthAsks : k = Head(asks) /\ asks' \in Seq(AuthAsks)
    BY <1>1, <1>2, Shortened DEF CoroutineTyped
  <1>4. PICK p \in Auth!Answers(k) : toAuth' = Append(toAuth, p) /\ granted' = (granted \/ p.type = "success")
    BY <1>3 DEF Auth!SrvAnswer
  <1>5. p \in PacketType
    BY AnswersTyped
  <1>6. CoroutineTyped'
    BY <1>1, <1>2, <1>3 DEF CoroutineTyped
  <1>7. PacketsTyped'
    <2>1. /\ toAuth' \in Seq(PacketType) /\ Len(toAuth) \in Nat /\ DOMAIN toAuth = 1 .. Len(toAuth)
          /\ DOMAIN toAuth' = 1 .. Len(toAuth) + 1 /\ toAuth'[Len(toAuth) + 1] = p
          /\ \A i \in 1 .. Len(toAuth) : toAuth'[i] = toAuth[i]
      BY <1>2, <1>4, <1>5, Appended DEF PacketsTyped
    <2>2. (granted => granted') /\ (p.type = "success" => granted') /\ granted' \in BOOLEAN
      BY <1>2, <1>4 DEF PacketsTyped
    <2>3. ASSUME NEW i \in DOMAIN toAuth', toAuth'[i].type = "success" PROVE granted'
      <3>1. CASE i = Len(toAuth) + 1
        BY <2>1, <2>2, <2>3, <3>1
      <3>2. CASE i \in 1 .. Len(toAuth)
        BY <1>2, <2>1, <2>2, <2>3, <3>2 DEF PacketsTyped
      <3> QED BY <2>1, <3>1, <3>2
    <2>4. apc' = "in" => granted'
      BY <1>1, <1>2, <2>2 DEF PacketsTyped
    <2>5. pktin'.type = "success" => granted'
      BY <1>1, <1>2, <2>2 DEF PacketsTyped
    <2> QED BY <1>1, <1>2, <2>1, <2>2, <2>3, <2>4, <2>5 DEF PacketsTyped
  <1>8. Waits'
    BY <1>1, <1>2 DEF Waits, Building, KeysSpent, Auth!IdlePromptIsLast
  <1>9. ASSUME bannered = 0 PROVE Turn'
    <2>1. Turn
      BY <1>9 DEF AuthInv
    <2>2. apc \in {"service", "wait", "offeragent", "offerfile", "kistart"} => Owing'
      <3>1. ASSUME apc \in {"service", "wait", "offeragent", "offerfile", "kistart"} PROVE Owing'
        <4>1. PICK j \in AuthAsks :
                /\ Outstanding(j) /\ (apc = "kistart" => j = "ki")
                /\ apc = "wait" /\ s.type = "password" => j \in {"password", "signature", "garbage"}
          BY <2>1, <3>1 DEF Turn, Owing
        <4>2. asks = <<j>> /\ toAuth = <<>>
          BY <1>1, <4>1 DEF Outstanding
        <4>3. j = k /\ asks' = <<>> /\ toAuth' = <<p>>
          BY <1>1, <1>3, <1>4, <4>2
        <4>4. Outstanding(j)'
          BY <4>3 DEF Outstanding
        <4> QED BY <1>1, <4>1, <4>4 DEF Owing
      <3> QED BY <3>1
    <2> QED BY <1>1, <2>1, <2>2 DEF Turn
  <1> QED BY <1>1, <1>6, <1>7, <1>8, <1>9 DEF AuthInv

\* The server sends a banner.
LEMMA SrvBannerStep == ASSUME AuthInv, Auth!SrvBanner PROVE AuthInv'
  <1>1. /\ bannered < Banners /\ bannered' = bannered + 1
        /\ toAuth' = Append(toAuth, Auth!Packet("banner", "banner"))
        /\ UNCHANGED <<apc, s, pktin, pktout, acfg, asks, granted, sentBack, damaged>>
    BY DEF Auth!SrvBanner
  <1>2. CoroutineTyped /\ PacketsTyped /\ Waits
    BY DEF AuthInv
  <1>3. PICK p : p = Auth!Packet("banner", "banner")
    OBVIOUS
  <1>4. p \in PacketType /\ p.type = "banner"
    <2>1. PICK q : q = Auth!NoPacket
      OBVIOUS
    <2>2. q = [type |-> "unset", of |-> "unset", partial |-> FALSE, methods |-> {}, num |-> 0]
      BY <2>1 DEF Auth!NoPacket
    <2>3. p = [q EXCEPT !.type = "banner", !.of = "banner"]
      BY <1>3, <2>1 DEF Auth!Packet
    <2>4. p = [type |-> "banner", of |-> "banner", partial |-> FALSE, methods |-> {}, num |-> 0]
      BY <2>2, <2>3
    <2> QED BY <2>4, MCAssumption DEF PacketType
  <1>5. CoroutineTyped'
    BY <1>1, <1>2 DEF CoroutineTyped
  <1>6. bannered' \in 0 .. Banners /\ bannered' # 0
    BY <1>1, <1>2, MCAssumption DEF PacketsTyped
  <1>7. PacketsTyped'
    <2>1. /\ toAuth' \in Seq(PacketType) /\ Len(toAuth) \in Nat /\ DOMAIN toAuth = 1 .. Len(toAuth)
          /\ DOMAIN toAuth' = 1 .. Len(toAuth) + 1 /\ toAuth'[Len(toAuth) + 1] = p
          /\ \A i \in 1 .. Len(toAuth) : toAuth'[i] = toAuth[i]
      BY <1>1, <1>2, <1>3, <1>4, Appended DEF PacketsTyped
    <2>2. \A i \in DOMAIN toAuth' : toAuth'[i].type = "success" => granted'
      BY <1>1, <1>2, <1>4, <2>1 DEF PacketsTyped
    <2> QED BY <1>1, <1>2, <1>6, <2>1, <2>2 DEF PacketsTyped
  <1>8. Waits'
    BY <1>1, <1>2 DEF Waits, Building, KeysSpent, Auth!IdlePromptIsLast
  <1> QED BY <1>5, <1>6, <1>7, <1>8 DEF AuthInv

\* Authentication begins with its invariant.
LEMMA AuthBegins == ASSUME Auth!Init PROVE AuthInv
  <1>1. /\ apc = "start" /\ pktin = Auth!NoPacket /\ pktout = Auth!Nothing /\ acfg \in Configs
        /\ toAuth = <<>> /\ asks = <<>> /\ granted = FALSE /\ bannered = 0 /\ sentBack = "unset" /\ damaged = {}
    BY DEF Auth!Init
  <1>2. PICK pw \in BOOLEAN :
          s = [type |-> "none", method |-> "none", gotit |-> FALSE, needPw |-> pw, can |-> {}, tried |-> {},
               kbd |-> FALSE, num |-> 0, curr |-> 0, keyi |-> 0, gotUser |-> FALSE]
    BY DEF Auth!Init
  <1>3. 0 \in 0 .. MaxPrompts /\ 0 \in 0 .. AgentKeys /\ 0 \in 0 .. Banners
    BY MCAssumption
  <1>4. s \in Auth!StateType
    BY <1>2, <1>3 DEF Auth!StateType
  <1>5. pktout \in PktoutType /\ asks \in Seq(AuthAsks) /\ toAuth \in Seq(PacketType)
    BY <1>1 DEF Auth!Nothing, PktoutType
  <1>6. CoroutineTyped
    BY <1>1, <1>4, <1>5 DEF CoroutineTyped, AuthPlaces
  <1>7. pktin \in PacketType /\ pktin.type = "unset"
    BY <1>1, <1>3 DEF Auth!NoPacket, PacketType
  <1>8. PacketsTyped
    <2>1. acfg \in Auth!Config
      BY <1>1, AuthAssumption
    <2>2. DOMAIN toAuth = {}
      BY <1>1
    <2> QED BY <1>1, <1>3, <1>5, <1>7, <2>1, <2>2 DEF PacketsTyped
  <1>9. Waits /\ Turn
    BY <1>1, <1>2 DEF Waits, Turn, Auth!IdlePromptIsLast
  <1> QED BY <1>1, <1>6, <1>7, <1>8, <1>9 DEF AuthInv

\* It is about the variables of authentication only.
LEMMA AuthStutters == ASSUME AuthInv, UNCHANGED authVars PROVE AuthInv'
  <1>1. CoroutineTyped' /\ PacketsTyped'
    BY DEF AuthInv, authVars, CoroutineTyped, PacketsTyped
  <1>2. Waits'
    BY DEF AuthInv, authVars, Waits, Building, KeysSpent, Auth!IdlePromptIsLast
  <1>3. bannered = 0 => Turn'
    BY DEF AuthInv, authVars, Turn, Owing, Outstanding
  <1> QED BY <1>1, <1>2, <1>3 DEF AuthInv, authVars

\* Every step of authentication keeps the invariant.
LEMMA AuthSteps == ASSUME AuthInv, Auth!Next PROVE AuthInv'
  BY BeginAuthStep, TypeUserStep, TypeAnswerStep, LoopStep, ReceiveAuthStep, AgentAnswersStep, KeepaliveStep,
     SrvAuthAnswerStep, SrvBannerStep DEF Auth!Next

\* The invariant is more than the properties.
LEMMA AuthImplies == ASSUME AuthInv PROVE Auth!TypeOK /\ AccessEarned /\ AnswersMatch
  <1>1. CoroutineTyped /\ PacketsTyped /\ Waits
    BY DEF AuthInv
  <1>2. Auth!TypeOK
    BY <1>1 DEF CoroutineTyped, PacketsTyped, Auth!TypeOK, AuthPlaces
  <1>3. Auth!InWhenGranted /\ Auth!BackForPassword /\ Auth!IdlePromptIsLast
    BY <1>1 DEF AuthInv, PacketsTyped, Waits, Auth!InWhenGranted, Auth!BackForPassword
  <1>4. Auth!AnsweredOnce
    BY <1>1 DEF CoroutineTyped, Waits, Building, Auth!AnsweredOnce
  <1>5. Auth!AnswerOwed
    <2>1. ASSUME bannered = 0, asks = <<>>, toAuth = <<>>, Owing PROVE FALSE
      BY <2>1 DEF Owing, Outstanding
    <2> QED BY <2>1 DEF AuthInv, Turn, Auth!AnswerOwed
  <1> QED BY <1>2, <1>3, <1>4, <1>5 DEF AccessEarned, AnswersMatch

-----------------------------------------------------------------------------
(* The set-up.                                                             *)

Requests == {"open", "x11", "remote", "agent", "pty", "command"}
Replies == {"success", "failure", "confirmation", "adjust"}

\* How far the set-up has come.
Place(r) ==
    CASE r = "start" -> 0 [] r = "open" -> 1 [] r = "x11" -> 2 [] r = "remote" -> 3
      [] r = "agent" -> 4 [] r = "pty" -> 5 [] r = "command" -> 6 [] OTHER -> 7

SetupTyped ==
    /\ step \in Requests \cup {"start", "session", "closed"}
    /\ ssh2state \in {"before", "intermed", "session", "closed"}
    /\ on \subseteq {"x11", "agent"} /\ forwards \in 0 .. MaxForward /\ remwin \in Nat /\ credit \in 0 .. MaxWindow
    /\ term \in 0 .. 2 /\ pty \in -1 .. 2 /\ eof \in {"no", "needed", "sent"} /\ resized \in BOOLEAN
    /\ second \in BOOLEAN /\ fallback \in BOOLEAN /\ opened \in Nat
    /\ toSetup \in Seq(Replies) /\ reqs \in Seq(Requests \cup {"channel"})

\* ssh->state follows the conversation: from the pty request on a size is kept for later.
Stands ==
    /\ step = "session" <=> ssh2state = "session"
    /\ step = "closed" <=> ssh2state = "closed"
    /\ "pty" \in wanted /\ step \in {"pty", "command"} => ssh2state = "intermed"
    /\ step \in {"start", "open", "x11"} => forwards = 0

SizeRemembered ==
    /\ ssh2state = "intermed" => pty = term \/ resized
    /\ Setup!SizeReaches /\ Setup!EofReaches

\* What the server has granted of the window is there or on its way; only a connection made
\* too early, or the end, takes an adjustment for something else.
CreditSafe ==
    /\ remwin + Setup!InFlight("adjust") <= credit
    /\ Setup!CreditKept

\* The request is under way, or its answer is: one of them.
Awaited ==
    /\ reqs = <<step>> /\ \A i \in DOMAIN toSetup : toSetup[i] = "adjust"
    /\ step = "open" => toSetup = <<>>
    /\ step # "remote" => step \notin allowed
Answered ==
    /\ reqs = <<>>
    /\ \E i \in DOMAIN toSetup :
         /\ toSetup[i] \in {"success", "failure"}
         /\ \A j \in DOMAIN toSetup : j # i => toSetup[j] = "adjust"
         /\ step # "remote" => (step \in allowed <=> toSetup[i] = "success")
         /\ step = "open" => i = 1

\* What is not asked for yet is not granted, and what was granted is on.
Granting ==
    /\ \A r \in Requests \ {"remote"} : Place(r) > Place(step) => r \notin allowed
    /\ "agent" \in on => Place(step) > 4
    /\ Place(step) > 4 /\ step # "closed" => ("agent" \in on <=> "agent" \in allowed)
    /\ Place(step) > 2 /\ step # "closed" /\ "x11" \in allowed => "x11" \in on

Conversation ==
    /\ step \in Requests => Awaited \/ Answered
    /\ step \notin Requests => reqs = <<>>
    /\ step = "start" => toSetup = <<>>
    /\ Granting

SetupInv ==
    /\ SetupTyped /\ Stands /\ SizeRemembered /\ CreditSafe
    /\ opened = 0 => Conversation /\ Setup!GivesUpForAReason

\* What is in flight is counted where the properties say.
LEMMA InFlightCounts ==
    ASSUME NEW p
    PROVE  Setup!InFlight(p) = CountOf(toSetup, p) /\ Setup!InFlight(p)' = CountOf(toSetup', p)
  <1>1. \A S : Setup!Cardinality(S) = Cardinality(S)
    BY DEF Setup!Cardinality, Cardinality
  <1> QED BY <1>1 DEF Setup!InFlight, CountOf

\* What comes first in the order comes first.
LEMMA Positions ==
    /\ Setup!Pos("open") = 1 /\ Setup!Pos("x11") = 2 /\ Setup!Pos("remote") = 3
    /\ Setup!Pos("agent") = 4 /\ Setup!Pos("pty") = 5 /\ Setup!Pos("command") = 6
  BY DEF Setup!Pos, Setup!Order

\* The request after r is further on, or one more remote forwarding; none that is wanted is
\* left out, the pty least of all.
LEMMA NextRequest ==
    ASSUME NEW r \in Requests \ {"command"}
    PROVE  /\ Setup!After(r) \in Requests \ {"open"}
           /\ \/ Place(Setup!After(r)) > Place(r)
              \/ r = "remote" /\ Setup!After(r) = "remote" /\ forwards < MaxForward
           /\ Setup!After(r) = "command" => r = "pty" \/ "pty" \notin wanted
  <1> DEFINE W == {i \in 1 .. 6 : Setup!Asked(Setup!Order[i])}
             P(j) == Setup!Asked(Setup!Order[j]) /\ \A k \in (Setup!Pos(r) + 1) .. (j - 1) : ~Setup!Asked(Setup!Order[k])
             i == CHOOSE j \in (Setup!Pos(r) + 1) .. Len(Setup!Order) : P(j)
  <1>1. /\ Setup!Order = <<"open", "x11", "remote", "agent", "pty", "command">> /\ Len(Setup!Order) = 6
        /\ Setup!Order[1] = "open" /\ Setup!Order[2] = "x11" /\ Setup!Order[3] = "remote"
        /\ Setup!Order[4] = "agent" /\ Setup!Order[5] = "pty" /\ Setup!Order[6] = "command"
    BY DEF Setup!Order
  <1>2. CASE r = "remote" /\ forwards < MaxForward
    BY <1>2 DEF Setup!After, Requests
  <1>3. CASE ~(r = "remote" /\ forwards < MaxForward)
    <2>1. Setup!Pos(r) = Place(r) /\ Place(r) \in 1 .. 5
      BY Positions DEF Requests, Place
    <2>2. \E j \in (Setup!Pos(r) + 1) .. 6 : P(j)
      <3>2. ASSUME NEW j \in (Setup!Pos(r) + 1) .. 6, Setup!Asked(Setup!Order[j]),
                   j <= Setup!Pos(r) + 1 \/ \A k \in (Setup!Pos(r) + 1) .. (j - 1) : ~Setup!Asked(Setup!Order[k])
            PROVE  \E l \in (Setup!Pos(r) + 1) .. 6 : P(l)
        BY <2>1, <3>2
      <3>3. Setup!Asked(Setup!Order[6])
        BY <1>1 DEF Setup!Asked
      <3> DEFINE A(k) == k > Setup!Pos(r) /\ Setup!Asked(Setup!Order[k])
      <3>4. CASE A(2)
        BY <2>1, <3>2, <3>4
      <3>5. CASE ~A(2) /\ A(3)
        BY <2>1, <3>2, <3>5
      <3>6. CASE ~A(2) /\ ~A(3) /\ A(4)
        BY <2>1, <3>2, <3>6
      <3>7. CASE ~A(2) /\ ~A(3) /\ ~A(4) /\ A(5)
        BY <2>1, <3>2, <3>7
      <3>8. CASE ~A(2) /\ ~A(3) /\ ~A(4) /\ ~A(5)
        BY <2>1, <3>2, <3>3, <3>8
      <3> QED BY <3>4, <3>5, <3>6, <3>7, <3>8
    <2>3. i \in (Setup!Pos(r) + 1) .. 6 /\ P(i)
      <3> HIDE DEF P
      <3> QED BY <1>1, <2>2
    <2>4. Setup!After(r) = Setup!Order[i]
      BY <1>3 DEF Setup!After
    <2> HIDE DEF i
    <2>5. Place(Setup!Order[i]) = i /\ Setup!Order[i] \in Requests \ {"open"}
      BY <1>1, <2>1, <2>3 DEF Requests, Place
    <2>6. ASSUME Setup!Order[i] = "command" PROVE r = "pty" \/ "pty" \notin wanted
      <3>1. i = 6
        BY <1>1, <2>1, <2>3, <2>6
      <3>2. Place(r) < 5 => ~Setup!Asked("pty")
        BY <1>1, <2>1, <2>3, <3>1
      <3>3. Place(r) = 5 => r = "pty"
        BY DEF Place, Requests
      <3> QED BY <2>1, <3>2, <3>3 DEF Setup!Asked
    <2> QED BY <2>1, <2>3, <2>4, <2>5, <2>6
  <1> QED BY <1>2, <1>3

\* The answer to a request is at the head of the queue when something else than an adjustment
\* is, and always while the main channel is being opened.
LEMMA AnswerComes ==
    ASSUME SetupInv, opened = 0, step \in Requests, toSetup # <<>>, Head(toSetup) # "adjust" \/ step = "open"
    PROVE  /\ Head(toSetup) \in {"success", "failure"} /\ reqs = <<>>
           /\ \A i \in DOMAIN Tail(toSetup) : Tail(toSetup)[i] = "adjust"
           /\ step # "remote" => (step \in allowed <=> Head(toSetup) = "success")
  <1>1. /\ toSetup \in Seq(Replies) /\ (Awaited \/ Answered)
    BY DEF SetupInv, SetupTyped, Conversation
  <1>2. /\ Len(toSetup) \in Nat \ {0} /\ DOMAIN toSetup = 1 .. Len(toSetup) /\ Head(toSetup) = toSetup[1]
        /\ DOMAIN Tail(toSetup) = 1 .. Len(toSetup) - 1
        /\ \A i \in 1 .. Len(toSetup) - 1 : Tail(toSetup)[i] = toSetup[i + 1]
    BY <1>1, Shortened
  <1>3. Answered
    BY <1>1, <1>2 DEF Awaited
  <1>4. PICK i \in DOMAIN toSetup :
          /\ toSetup[i] \in {"success", "failure"}
          /\ \A j \in DOMAIN toSetup : j # i => toSetup[j] = "adjust"
          /\ step # "remote" => (step \in allowed <=> toSetup[i] = "success")
          /\ step = "open" => i = 1
    BY <1>3 DEF Answered
  <1>5. i = 1
    BY <1>2, <1>4
  <1>6. \A j \in DOMAIN Tail(toSetup) : Tail(toSetup)[j] = "adjust"
    BY <1>2, <1>4, <1>5
  <1> QED BY <1>2, <1>3, <1>4, <1>5, <1>6 DEF Answered

\* A request is sent: what must be known by then, and what is known after.
LEMMA Requested ==
    ASSUME SetupInv, NEW r \in Requests, Setup!Request(r), step \in Requests \cup {"start"},
           on' \subseteq {"x11", "agent"}, second' \in BOOLEAN, toSetup' \in Seq(Replies), remwin' \in Nat,
           UNCHANGED <<wanted, fallback, allowed, credit, opened>>,
           r = "remote" => forwards < MaxForward,
           r = "command" => step \in {"pty", "command"} \/ "pty" \notin wanted,
           Place(r) >= Place(step), r \in {"open", "x11"} => forwards = 0
    PROVE  SetupTyped' /\ Stands' /\ SizeRemembered' /\ step' = r /\ reqs' = Append(reqs, r)
  <1> USE DEF Requests
  <1>1. SetupTyped /\ Stands /\ SizeRemembered
    BY DEF SetupInv
  <1>2. /\ step' = r /\ reqs' = Append(reqs, r) /\ term' = term /\ resized' = resized /\ eof' = eof
        /\ ssh2state' = (IF r = "pty" THEN "intermed" ELSE ssh2state) /\ pty' = (IF r = "pty" THEN term ELSE pty)
        /\ forwards' = (IF r = "remote" THEN forwards + 1 ELSE forwards)
    BY DEF Setup!Request, Setup!Intermed
  <1>3. SetupTyped'
    <2>1. reqs' \in Seq(Requests \cup {"channel"})
      BY <1>1, <1>2 DEF SetupTyped
    <2>2. forwards' \in 0 .. MaxForward
      BY <1>1, <1>2, MCAssumption DEF SetupTyped
    <2> QED BY <1>1, <1>2, <2>1, <2>2 DEF SetupTyped
  <1>4. Stands'
    <2>1. ssh2state # "session" /\ ssh2state # "closed"
      BY <1>1 DEF Stands
    <2>2. "pty" \in wanted' /\ step' \in {"pty", "command"} => ssh2state' = "intermed"
      BY <1>1, <1>2 DEF Stands
    <2>3. step' \in {"start", "open", "x11"} => forwards' = 0
      BY <1>2
    <2> QED BY <1>2, <2>1, <2>2, <2>3 DEF Stands
  <1>5. SizeRemembered'
    BY <1>1, <1>2 DEF SizeRemembered, Setup!SizeReaches, Setup!EofReaches
  <1> QED BY <1>2, <1>3, <1>4, <1>5

\* The set-up begins.
LEMMA BeginStep == ASSUME SetupInv, Setup!Begin PROVE SetupInv'
  <1>1. /\ step = "start" /\ Setup!Request("open")
        /\ UNCHANGED <<wanted, fallback, second, on, remwin, toSetup, allowed, credit, opened>>
    BY DEF Setup!Begin, Setup!config
  <1>2. SetupTyped /\ Stands /\ CreditSafe /\ (opened = 0 => Conversation)
    BY DEF SetupInv
  <1>3. SetupTyped' /\ Stands' /\ SizeRemembered' /\ step' = "open" /\ reqs' = Append(reqs, "open")
    BY <1>1, <1>2, Requested DEF Requests, Place, SetupTyped, Stands
  <1>4. CreditSafe'
    BY <1>1, <1>2, <1>3, InFlightCounts DEF CreditSafe, Setup!CreditKept
  <1>5. ASSUME opened = 0 PROVE Conversation' /\ Setup!GivesUpForAReason'
    <2>1. reqs = <<>> /\ toSetup = <<>> /\ Granting
      BY <1>1, <1>2, <1>5 DEF Conversation, Requests
    <2>2. "open" \notin allowed
      BY <1>1, <2>1 DEF Granting, Place, Requests
    <2>3. Awaited'
      BY <1>1, <1>3, <2>1, <2>2 DEF Awaited
    <2>4. Granting'
      BY <1>1, <1>3, <2>1 DEF Granting, Place, Requests
    <2> QED BY <1>3, <2>3, <2>4 DEF Conversation, Setup!GivesUpForAReason, Requests
  <1> QED BY <1>1, <1>3, <1>4, <1>5 DEF SetupInv

\* A window adjustment between two requests is counted.
LEMMA AdjustmentStep ==
    ASSUME SetupInv, Setup!Receive, Head(toSetup) = "adjust", step # "open"
    PROVE  SetupInv'
  <1>1. /\ step \notin {"start", "session", "closed"} /\ toSetup # <<>> /\ toSetup' = Tail(toSetup) /\ remwin' = remwin + 1
        /\ UNCHANGED <<step, ssh2state, second, forwards, listens, on, reqs, term, pty, resized, eof,
                      wanted, fallback, allowed, credit, opened>>
    BY DEF Setup!Receive, Setup!Adjusted, Setup!sizes, Setup!config
  <1>2. SetupTyped /\ Stands /\ SizeRemembered /\ CreditSafe /\ (opened = 0 => Conversation)
    BY DEF SetupInv
  <1>3. /\ Len(toSetup) \in Nat \ {0} /\ DOMAIN toSetup = 1 .. Len(toSetup) /\ Head(toSetup) = toSetup[1]
        /\ DOMAIN toSetup' = 1 .. Len(toSetup) - 1 /\ toSetup' \in Seq(Replies)
        /\ \A i \in 1 .. Len(toSetup) - 1 : toSetup'[i] = toSetup[i + 1]
    BY <1>1, <1>2, Shortened DEF SetupTyped
  <1>4. /\ CountOf(toSetup, "adjust") = CountOf(toSetup', "adjust") + 1
        /\ CountOf(toSetup, "adjust") \in Nat /\ CountOf(toSetup', "adjust") \in Nat
    BY <1>1, <1>2, <1>3, CountShortened, Counted DEF SetupTyped
  <1>5. SetupTyped' /\ Stands' /\ SizeRemembered'
    BY <1>1, <1>2, <1>3 DEF SetupTyped, Stands, SizeRemembered, Setup!SizeReaches, Setup!EofReaches
  <1>6. CreditSafe'
    BY <1>1, <1>2, <1>4, InFlightCounts DEF CreditSafe, Setup!CreditKept, SetupTyped
  <1>7. ASSUME opened = 0 PROVE Conversation' /\ Setup!GivesUpForAReason'
    <2>1. step \in Requests /\ (Awaited \/ Answered) /\ Granting
      BY <1>1, <1>2, <1>7 DEF Conversation, SetupTyped
    <2>2. CASE Awaited
      <3>1. Awaited'
        BY <1>1, <1>3, <2>2 DEF Awaited
      <3> QED BY <1>1, <2>1, <3>1 DEF Conversation, Granting, Setup!GivesUpForAReason, Requests
    <2>3. CASE Answered
      <3>1. PICK i \in DOMAIN toSetup :
              /\ toSetup[i] \in {"success", "failure"}
              /\ \A j \in DOMAIN toSetup : j # i => toSetup[j] = "adjust"
              /\ step # "remote" => (step \in allowed <=> toSetup[i] = "success")
        BY <2>3 DEF Answered
      <3>2. i # 1 /\ i - 1 \in DOMAIN toSetup' /\ toSetup'[i - 1] = toSetup[i]
        BY <1>3, <3>1
      <3>3. ASSUME NEW j \in DOMAIN toSetup', j # i - 1 PROVE toSetup'[j] = "adjust"
        <4>1. j \in 1 .. Len(toSetup) - 1 /\ j + 1 \in DOMAIN toSetup /\ j + 1 # i
          BY <1>3, <3>1, <3>3
        <4> QED BY <1>3, <3>1, <4>1
      <3>4. Answered'
        BY <1>1, <2>3, <3>1, <3>2, <3>3 DEF Answered
      <3> QED BY <1>1, <2>1, <3>4 DEF Conversation, Granting, Setup!GivesUpForAReason, Requests
    <2> QED BY <2>1, <2>2, <2>3
  <1> QED BY <1>1, <1>5, <1>6, <1>7 DEF SetupInv

\* Something else than an adjustment leaves the credit as it is.
LEMMA CreditStep ==
    ASSUME SetupInv, toSetup # <<>>, toSetup' = Tail(toSetup), UNCHANGED <<remwin, credit, opened>>,
           step # "closed",
           opened = 0 => Head(toSetup) # "adjust"
    PROVE  CreditSafe' /\ toSetup' \in Seq(Replies)
  <1>1. SetupTyped /\ CreditSafe
    BY DEF SetupInv
  <1>2. toSetup' \in Seq(Replies)
    BY <1>1, Shortened DEF SetupTyped
  <1>3. /\ CountOf(toSetup, "adjust") = IF Head(toSetup) = "adjust" THEN CountOf(toSetup', "adjust") + 1
                                        ELSE CountOf(toSetup', "adjust")
        /\ CountOf(toSetup, "adjust") \in Nat /\ CountOf(toSetup', "adjust") \in Nat
    BY <1>1, <1>2, CountShortened, Counted DEF SetupTyped
  <1> QED BY <1>1, <1>2, <1>3, InFlightCounts DEF CreditSafe, Setup!CreditKept, SetupTyped

\* An answer, or what is taken for one, comes.
LEMMA AnswerStep ==
    ASSUME SetupInv, Setup!Receive, ~(Head(toSetup) = "adjust" /\ step # "open")
    PROVE  SetupInv'
  <1>0. PICK p \in Replies : p = Head(toSetup)
    BY Shortened DEF SetupInv, SetupTyped, Setup!Receive
  <1>1. /\ step \notin {"start", "session", "closed"} /\ toSetup # <<>> /\ toSetup' = Tail(toSetup)
        /\ Setup!OnAnswer(p)
        /\ UNCHANGED <<remwin, wanted, fallback, allowed, credit, opened>>
    BY <1>0 DEF Setup!Receive, Setup!config
  <1>2. SetupTyped /\ Stands /\ SizeRemembered /\ CreditSafe /\ (opened = 0 => Conversation)
    BY DEF SetupInv
  <1>3. step \in Requests
    BY <1>1, <1>2 DEF SetupTyped
  <1>4. ASSUME opened = 0
        PROVE  /\ p \in {"success", "failure"} /\ reqs = <<>> /\ Granting
               /\ \A i \in DOMAIN toSetup' : toSetup'[i] = "adjust"
               /\ step # "remote" => (step \in allowed <=> p = "success")
    BY <1>0, <1>1, <1>2, <1>3, <1>4, AnswerComes DEF Conversation
  <1>5. CreditSafe' /\ toSetup' \in Seq(Replies)
    BY <1>0, <1>1, <1>3, <1>4, CreditStep DEF Requests
  <1>6. CASE Setup!Close /\ UNCHANGED <<on, second>> /\ (p \in {"success", "failure"} => p = "failure" /\
                (step = "open" \/ (step = "command" /\ ~Setup!HasFallback)))
    <2>1. /\ step' = "closed" /\ ssh2state' = "closed"
          /\ UNCHANGED <<on, second, reqs, forwards, listens, term, pty, resized, eof>>
      BY <1>6 DEF Setup!Close, Setup!sizes
    <2>2. SetupTyped' /\ Stands' /\ SizeRemembered'
      BY <1>1, <1>2, <1>5, <2>1 DEF SetupTyped, Stands, SizeRemembered, Setup!SizeReaches, Setup!EofReaches
    <2>3. ASSUME opened = 0 PROVE Conversation' /\ Setup!GivesUpForAReason'
      <3>1. /\ p = "failure" /\ step \notin allowed
            /\ step = "open" \/ (step = "command" /\ (fallback => second))
        BY <1>4, <1>6, <2>3, <1>2 DEF Setup!HasFallback, SetupTyped
      <3>2. Setup!GivesUpForAReason'
        BY <1>1, <2>1, <3>1 DEF Setup!GivesUpForAReason
      <3>3. Granting'
        BY <2>1 DEF Granting, Place, Requests
      <3> QED BY <1>4, <2>1, <2>3, <3>2, <3>3 DEF Conversation, Requests
    <2> QED BY <1>1, <1>5, <2>2, <2>3 DEF SetupInv
  <1>7. CASE step = "command" /\ p = "success" /\ Setup!Session /\ UNCHANGED <<on, second>>
    <2>1. /\ step' = "session" /\ ssh2state' = "session" /\ eof' = (IF eof = "needed" THEN "sent" ELSE eof)
          /\ pty' = (IF resized /\ "pty" \in wanted THEN term ELSE pty)
          /\ UNCHANGED <<on, second, reqs, forwards, listens, term, resized>>
      BY <1>7 DEF Setup!Session, Setup!Replayed
    <2>2. SetupTyped' /\ Stands'
      BY <1>1, <1>2, <1>5, <2>1 DEF SetupTyped, Stands
    <2>3. SizeRemembered'
      BY <1>1, <1>2, <1>7, <2>1 DEF Stands, SizeRemembered, Setup!SizeReaches, Setup!EofReaches
    <2>4. ASSUME opened = 0 PROVE Conversation' /\ Setup!GivesUpForAReason'
      <3>1. Granting'
        BY <1>1, <1>4, <1>7, <2>1, <2>4 DEF Granting, Place, Requests
      <3> QED BY <1>4, <2>1, <2>4, <3>1 DEF Conversation, Requests, Setup!GivesUpForAReason
    <2> QED BY <1>1, <1>5, <2>2, <2>3, <2>4 DEF SetupInv
  <1>8. CASE step = "command" /\ p = "failure" /\ UNCHANGED on /\ second' = TRUE /\ Setup!Request("command")
    <2>1. SetupTyped' /\ Stands' /\ SizeRemembered' /\ step' = "command" /\ reqs' = Append(reqs, "command")
      BY <1>1, <1>2, <1>5, <1>8, Requested DEF Requests, Place, SetupTyped
    <2>2. ASSUME opened = 0 PROVE Conversation' /\ Setup!GivesUpForAReason'
      <3>1. Awaited'
        BY <1>1, <1>4, <1>8, <2>1, <2>2 DEF Awaited
      <3>2. Granting'
        BY <1>1, <1>4, <1>8, <2>1, <2>2 DEF Granting, Place, Requests
      <3> QED BY <2>1, <3>1, <3>2 DEF Conversation, Requests, Setup!GivesUpForAReason
    <2> QED BY <1>1, <1>5, <2>1, <2>2 DEF SetupInv
  <1>9. CASE /\ step # "command" /\ p \in {"success", "failure"}
             /\ on' = Setup!Enabled(step, p) /\ Setup!Request(Setup!After(step)) /\ UNCHANGED second
    <2>1. PICK r \in Requests \ {"open"} : r = Setup!After(step)
      <3>1. step \in Requests \ {"command"}
        BY <1>3, <1>9
      <3>2. Setup!After(step) \in Requests \ {"open"}
        BY <3>1, NextRequest
      <3> QED BY <3>2
    <2>2. /\ Place(r) > Place(step) \/ (step = "remote" /\ r = "remote" /\ forwards < MaxForward)
          /\ r = "command" => step = "pty" \/ "pty" \notin wanted
      <3>1. PICK a \in Requests \ {"command"} : a = step
        BY <1>3, <1>9
      <3>2. /\ \/ Place(Setup!After(a)) > Place(a)
               \/ a = "remote" /\ Setup!After(a) = "remote" /\ forwards < MaxForward
            /\ Setup!After(a) = "command" => a = "pty" \/ "pty" \notin wanted
        BY NextRequest
      <3>3. r = Setup!After(a)
        BY <2>1, <3>1
      <3> QED BY <3>1, <3>2, <3>3
    <2>3. /\ r = "remote" => forwards < MaxForward
          /\ r = "x11" => forwards = 0
          /\ Place(r) >= Place(step)
      BY <1>2, <1>3, <2>1, <2>2, MCAssumption DEF Stands, Place, Requests
    <2>4. /\ on' \subseteq {"x11", "agent"}
          /\ \A x \in {"x11", "agent"} : x \in on' <=> (x \in on \/ (step = x /\ p = "success"))
      <3>1. on' = IF step \in {"x11", "agent"} /\ p = "success" THEN on \cup {step} ELSE on
        BY <1>9 DEF Setup!Enabled
      <3>2. on \subseteq {"x11", "agent"}
        BY <1>2 DEF SetupTyped
      <3>3. on' \subseteq {"x11", "agent"}
        BY <3>1, <3>2
      <3>4. ASSUME NEW x \in {"x11", "agent"} PROVE x \in on' <=> (x \in on \/ (step = x /\ p = "success"))
        <4>1. CASE step \in {"x11", "agent"} /\ p = "success"
          <5>1. on' = on \cup {step}
            BY <3>1, <4>1
          <5>2. x \in on' <=> (x \in on \/ x = step)
            BY <5>1
          <5> QED BY <4>1, <5>2
        <4>2. CASE ~(step \in {"x11", "agent"} /\ p = "success")
          BY <3>1, <4>2
        <4> QED BY <4>1, <4>2
      <3> QED BY <3>3, <3>4
    <2>5. SetupTyped' /\ Stands' /\ SizeRemembered' /\ step' = r /\ reqs' = Append(reqs, r)
      BY <1>1, <1>2, <1>3, <1>5, <1>9, <2>1, <2>2, <2>3, <2>4, Requested DEF SetupTyped
    <2>6. ASSUME opened = 0 PROVE Conversation' /\ Setup!GivesUpForAReason'
      <3>1. r # "remote" => r \notin allowed
        BY <1>4, <2>1, <2>2, <2>6 DEF Granting
      <3>2. Awaited'
        BY <1>1, <1>4, <2>1, <2>5, <2>6, <3>1 DEF Awaited
      <3>3. \A q \in Requests \ {"remote"} : Place(q) > Place(step') => q \notin allowed'
        BY <1>1, <1>3, <1>4, <2>2, <2>5, <2>6 DEF Granting, Place, Requests
      <3>4. "agent" \in on' => Place(step') > 4
        BY <1>1, <1>3, <1>4, <2>1, <2>2, <2>4, <2>5, <2>6 DEF Granting, Place, Requests
      <3>5. Place(step') > 4 => ("agent" \in on' <=> "agent" \in allowed')
        <4>1. CASE step = "agent"
          BY <1>1, <1>4, <1>9, <2>4, <2>5, <2>6, <4>1 DEF Granting, Place, Requests
        <4>2. CASE Place(step) > 4
          <5>1. step # "agent" /\ step # "closed"
            BY <1>3, <4>2 DEF Place, Requests
          <5>2. "agent" \in on <=> "agent" \in allowed
            BY <1>4, <2>6, <4>2, <5>1 DEF Granting
          <5>3. ("agent" \in on' <=> "agent" \in on) /\ allowed' = allowed
            BY <1>1, <2>4, <5>1
          <5> QED BY <5>2, <5>3
        <4>3. CASE Place(step) < 4
          <5>1. "agent" \notin allowed
            BY <1>4, <2>6, <4>3 DEF Granting, Place, Requests
          <5>2. "agent" \notin on /\ step # "agent"
            BY <1>3, <1>4, <2>6, <4>3 DEF Granting, Place, Requests
          <5>3. "agent" \notin on' /\ allowed' = allowed
            BY <1>1, <2>4, <5>2
          <5> QED BY <5>1, <5>3
        <4> QED BY <1>3, <4>1, <4>2, <4>3 DEF Place, Requests
      <3>6. Place(step') > 2 /\ "x11" \in allowed' => "x11" \in on'
        <4>1. CASE step = "x11"
          BY <1>1, <1>4, <1>9, <2>4, <2>6, <4>1
        <4>2. CASE Place(step) > 2
          <5>1. step # "x11" /\ step # "closed"
            BY <1>3, <4>2 DEF Place, Requests
          <5>2. "x11" \in allowed => "x11" \in on
            BY <1>4, <2>6, <4>2, <5>1 DEF Granting
          <5>3. ("x11" \in on => "x11" \in on') /\ allowed' = allowed
            BY <1>1, <2>4, <5>1
          <5> QED BY <5>2, <5>3
        <4>3. CASE Place(step) < 2
          <5>1. "x11" \notin allowed
            BY <1>4, <2>6, <4>3 DEF Granting, Place, Requests
          <5> QED BY <1>1, <5>1
        <4> QED BY <1>3, <4>1, <4>2, <4>3 DEF Place, Requests
      <3> QED BY <2>1, <2>5, <3>2, <3>3, <3>4, <3>5, <3>6 DEF Conversation, Granting, Requests, Setup!GivesUpForAReason
    <2> QED BY <1>1, <1>5, <2>5, <2>6 DEF SetupInv
  <1>10. CASE p \notin {"success", "failure"}
    BY <1>1, <1>6, <1>10 DEF Setup!OnAnswer
  <1>11. CASE p \in {"success", "failure"} /\ step = "open" /\ p = "failure"
    <2>1. Setup!Close /\ UNCHANGED <<on, second>>
      BY <1>1, <1>11 DEF Setup!OnAnswer
    <2>2. p = "failure" /\ step = "open"
      BY <1>11
    <2> QED BY <1>6, <2>1, <2>2
  <1>12. CASE p = "success" /\ step = "command"
    BY <1>1, <1>7, <1>12 DEF Setup!OnAnswer
  <1>13. CASE p = "failure" /\ step = "command"
    <2>1. UNCHANGED on /\ (IF Setup!HasFallback THEN second' = TRUE /\ Setup!Request("command") ELSE Setup!Close /\ UNCHANGED second)
      BY <1>1, <1>13 DEF Setup!OnAnswer
    <2> QED BY <1>6, <1>8, <1>13, <2>1
  <1>14. CASE p \in {"success", "failure"} /\ step # "command" /\ ~(step = "open" /\ p = "failure")
    BY <1>1, <1>9, <1>14 DEF Setup!OnAnswer
  <1> QED BY <1>10, <1>11, <1>12, <1>13, <1>14

\* The window is resized.
LEMMA ResizeStep == ASSUME SetupInv, Setup!Resize PROVE SetupInv'
  <1>1. /\ step # "closed" /\ term < 2 /\ term' = term + 1 /\ resized' = (resized \/ ssh2state = "intermed")
        /\ pty' = (IF ssh2state = "session" /\ "pty" \in wanted THEN term + 1 ELSE pty)
        /\ UNCHANGED <<step, ssh2state, wanted, fallback, second, forwards, listens, on, remwin, toSetup, reqs, allowed,
                      credit, opened, eof>>
    BY DEF Setup!Resize, Setup!config
  <1>2. SetupTyped /\ Stands /\ SizeRemembered /\ CreditSafe /\ (opened = 0 => Conversation /\ Setup!GivesUpForAReason)
    BY DEF SetupInv
  <1>3. resized' \in BOOLEAN
    BY <1>1, <1>2 DEF SetupTyped
  <1>4. SetupTyped' /\ Stands'
    BY <1>1, <1>2, <1>3 DEF SetupTyped, Stands
  <1>5. SizeRemembered'
    BY <1>1, <1>2 DEF SizeRemembered, Stands, Setup!SizeReaches, Setup!EofReaches
  <1>6. CreditSafe' /\ (opened = 0 => Conversation' /\ Setup!GivesUpForAReason')
    BY <1>1, <1>2, InFlightCounts
       DEF CreditSafe, Setup!CreditKept, Conversation, Granting, Awaited, Answered, Setup!GivesUpForAReason
  <1> QED BY <1>1, <1>4, <1>5, <1>6 DEF SetupInv

\* The input ends.
LEMMA EndOfInputStep == ASSUME SetupInv, Setup!EndOfInput PROVE SetupInv'
  <1>1. /\ eof' = (IF ssh2state = "session" THEN "sent" ELSE "needed")
        /\ UNCHANGED <<step, ssh2state, wanted, fallback, second, forwards, listens, on, remwin, toSetup, reqs, allowed,
                      credit, opened, term, pty, resized>>
    BY DEF Setup!EndOfInput, Setup!config, Setup!sizes
  <1>2. SetupTyped /\ Stands /\ SizeRemembered /\ CreditSafe /\ (opened = 0 => Conversation /\ Setup!GivesUpForAReason)
    BY DEF SetupInv
  <1>3. SetupTyped' /\ Stands' /\ SizeRemembered'
    BY <1>1, <1>2 DEF SetupTyped, Stands, SizeRemembered, Setup!SizeReaches, Setup!EofReaches
  <1>4. CreditSafe' /\ (opened = 0 => Conversation' /\ Setup!GivesUpForAReason')
    BY <1>1, <1>2, InFlightCounts
       DEF CreditSafe, Setup!CreditKept, Conversation, Granting, Awaited, Answered, Setup!GivesUpForAReason
  <1> QED BY <1>1, <1>3, <1>4 DEF SetupInv

\* A listener accepts a connection.
LEMMA AcceptStep == ASSUME SetupInv, Setup!Accept PROVE SetupInv'
  <1>1. /\ step \notin {"session", "closed"} /\ opened' = opened + 1 /\ reqs' = Append(reqs, "channel")
        /\ UNCHANGED <<step, ssh2state, wanted, fallback, second, forwards, listens, on, remwin, toSetup, allowed,
                      credit, eof, term, pty, resized>>
    BY DEF Setup!Accept, Setup!config, Setup!sizes
  <1>2. SetupTyped /\ Stands /\ SizeRemembered /\ CreditSafe
    BY DEF SetupInv
  <1>3. opened' \in Nat /\ opened' # 0 /\ reqs' \in Seq(Requests \cup {"channel"})
    BY <1>1, <1>2 DEF SetupTyped
  <1>4. SetupTyped' /\ Stands' /\ SizeRemembered'
    BY <1>1, <1>2, <1>3 DEF SetupTyped, Stands, SizeRemembered, Setup!SizeReaches, Setup!EofReaches
  <1>5. CreditSafe'
    BY <1>1, <1>2, <1>3, InFlightCounts DEF CreditSafe, Setup!CreditKept
  <1> QED BY <1>3, <1>4, <1>5 DEF SetupInv

\* The server answers the next request.
LEMMA SrvAnswerStep == ASSUME SetupInv, Setup!SrvAnswer PROVE SetupInv'
  <1>1. /\ reqs # <<>> /\ reqs' = Tail(reqs)
        /\ UNCHANGED <<step, ssh2state, wanted, fallback, second, forwards, listens, on, remwin,
                      credit, opened, eof, term, pty, resized>>
    BY DEF Setup!SrvAnswer, Setup!config, Setup!sizes
  <1>2. SetupTyped /\ Stands /\ SizeRemembered /\ CreditSafe /\ (opened = 0 => Conversation /\ Setup!GivesUpForAReason)
    BY DEF SetupInv
  <1>3. PICK m \in {"confirmation", "success", "failure"} :
          /\ toSetup' = Append(toSetup, m)
          /\ m = "confirmation" <=> Head(reqs) = "channel"
          /\ allowed' = IF m = "success" THEN allowed \cup {Head(reqs)} ELSE allowed
    BY DEF Setup!SrvAnswer
  <1>4. /\ toSetup' \in Seq(Replies) /\ Len(toSetup) \in Nat /\ DOMAIN toSetup = 1 .. Len(toSetup)
        /\ DOMAIN toSetup' = 1 .. Len(toSetup) + 1 /\ toSetup'[Len(toSetup) + 1] = m
        /\ \A i \in 1 .. Len(toSetup) : toSetup'[i] = toSetup[i]
    BY <1>2, <1>3, Appended DEF SetupTyped, Replies
  <1>5. reqs' \in Seq(Requests \cup {"channel"})
    BY <1>1, <1>2, Shortened DEF SetupTyped
  <1>6. SetupTyped' /\ Stands' /\ SizeRemembered'
    BY <1>1, <1>2, <1>4, <1>5 DEF SetupTyped, Stands, SizeRemembered, Setup!SizeReaches, Setup!EofReaches
  <1>7. CountOf(toSetup', "adjust") = CountOf(toSetup, "adjust")
    BY <1>2, <1>3, CountAppended DEF SetupTyped, Replies
  <1>8. CreditSafe'
    BY <1>1, <1>2, <1>7, InFlightCounts DEF CreditSafe, Setup!CreditKept
  <1>9. ASSUME opened = 0 PROVE Conversation' /\ Setup!GivesUpForAReason'
    <2>1. step \in Requests /\ reqs = <<step>> /\ Granting /\ Awaited
      BY <1>1, <1>2, <1>9 DEF Conversation, Answered, Awaited
    <2>2. Head(reqs) = step /\ reqs' = <<>> /\ m # "confirmation"
      BY <1>1, <1>3, <2>1 DEF Requests
    <2>3. toSetup' # <<>>
      BY <1>4
    <2>4. Answered'
      <3>1. Len(toSetup) + 1 \in DOMAIN toSetup'
        BY <1>4
      <3>2. \A j \in DOMAIN toSetup' : j # Len(toSetup) + 1 => toSetup'[j] = "adjust"
        BY <1>4, <2>1 DEF Awaited
      <3>3. step = "open" => Len(toSetup) + 1 = 1
        BY <2>1 DEF Awaited
      <3>4. step # "remote" => (step \in allowed' <=> m = "success")
        BY <1>3, <2>1, <2>2 DEF Awaited
      <3> QED BY <1>1, <1>3, <1>4, <2>2, <3>1, <3>2, <3>3, <3>4 DEF Answered
    <2>5. Granting'
      <3>1. \A r : r # step => (r \in allowed' <=> r \in allowed)
        BY <1>3, <2>2
      <3>2. Place("agent") = 4 /\ Place("x11") = 2
        BY DEF Place
      <3>3. \A r \in Requests \ {"remote"} : Place(r) > Place(step') => r \notin allowed'
        <4>1. ASSUME NEW r \in Requests \ {"remote"}, Place(r) > Place(step) PROVE r \notin allowed'
          <5>1. r # step
            BY <2>1, <4>1 DEF Place, Requests
          <5> QED BY <2>1, <3>1, <4>1, <5>1 DEF Granting
        <4> QED BY <1>1, <4>1
      <3>4. "agent" \in on' => Place(step') > 4
        BY <1>1, <2>1 DEF Granting
      <3>5. Place(step') > 4 => ("agent" \in on' <=> "agent" \in allowed')
        <4>1. ASSUME Place(step) > 4 PROVE step # "agent" /\ step # "closed"
          BY <2>1, <3>2, <4>1 DEF Requests
        <4> QED BY <1>1, <2>1, <3>1, <4>1 DEF Granting
      <3>6. Place(step') > 2 /\ "x11" \in allowed' => "x11" \in on'
        <4>1. ASSUME Place(step) > 2 PROVE step # "x11" /\ step # "closed"
          BY <2>1, <3>2, <4>1 DEF Requests
        <4> QED BY <1>1, <2>1, <3>1, <4>1 DEF Granting
      <3> QED BY <3>3, <3>4, <3>5, <3>6 DEF Granting
    <2> QED BY <1>1, <2>1, <2>4, <2>5 DEF Conversation, Setup!GivesUpForAReason, Requests
  <1> QED BY <1>1, <1>6, <1>8, <1>9 DEF SetupInv

\* The server grants more window.
LEMMA SrvAdjustStep == ASSUME SetupInv, Setup!SrvAdjust PROVE SetupInv'
  <1>1. /\ "open" \in allowed /\ credit < MaxWindow /\ step \notin {"session", "closed"}
        /\ credit' = credit + 1 /\ toSetup' = Append(toSetup, "adjust")
        /\ UNCHANGED <<step, ssh2state, wanted, fallback, second, forwards, listens, on, remwin, reqs, allowed,
                      opened, eof, term, pty, resized>>
    BY DEF Setup!SrvAdjust, Setup!config, Setup!sizes
  <1>2. SetupTyped /\ Stands /\ SizeRemembered /\ CreditSafe /\ (opened = 0 => Conversation /\ Setup!GivesUpForAReason)
    BY DEF SetupInv
  <1>3. /\ toSetup' \in Seq(Replies) /\ Len(toSetup) \in Nat /\ DOMAIN toSetup = 1 .. Len(toSetup)
        /\ DOMAIN toSetup' = 1 .. Len(toSetup) + 1 /\ toSetup'[Len(toSetup) + 1] = "adjust"
        /\ \A i \in 1 .. Len(toSetup) : toSetup'[i] = toSetup[i]
    BY <1>1, <1>2, Appended DEF SetupTyped, Replies
  <1>4. credit' \in 0 .. MaxWindow
    BY <1>1, <1>2, MCAssumption DEF SetupTyped
  <1>5. SetupTyped' /\ Stands' /\ SizeRemembered'
    BY <1>1, <1>2, <1>3, <1>4 DEF SetupTyped, Stands, SizeRemembered, Setup!SizeReaches, Setup!EofReaches
  <1>6. CountOf(toSetup', "adjust") = CountOf(toSetup, "adjust") + 1 /\ CountOf(toSetup, "adjust") \in Nat
    <2>1. toSetup \in Seq(Replies) /\ "adjust" \in Replies
      BY <1>2 DEF SetupTyped, Replies
    <2>2. CountOf(Append(toSetup, "adjust"), "adjust") = CountOf(toSetup, "adjust") + 1
      BY <2>1, CountAppended
    <2> QED BY <1>1, <2>1, <2>2, Counted
  <1>7. CreditSafe'
    <2>1. /\ remwin \in Nat /\ credit \in Nat /\ remwin + CountOf(toSetup, "adjust") <= credit
          /\ opened = 0 /\ step # "closed" => remwin + CountOf(toSetup, "adjust") = credit
      BY <1>2, InFlightCounts, MCAssumption DEF CreditSafe, Setup!CreditKept, SetupTyped
    <2>2. remwin + CountOf(toSetup', "adjust") = (remwin + CountOf(toSetup, "adjust")) + 1
      BY <1>6, <2>1
    <2>3. /\ remwin' + CountOf(toSetup', "adjust") <= credit'
          /\ opened' = 0 /\ step' # "closed" => remwin' + CountOf(toSetup', "adjust") = credit'
      BY <1>1, <1>6, <2>1, <2>2
    <2> QED BY <2>3, InFlightCounts DEF CreditSafe, Setup!CreditKept
  <1>8. ASSUME opened = 0 PROVE Conversation' /\ Setup!GivesUpForAReason'
    <2>1. Granting /\ step # "start"
      <3>1. Place("open") = 1 /\ Place("start") = 0
        BY DEF Place
      <3> QED BY <1>1, <1>2, <1>8, <3>1 DEF Conversation, Granting, Requests
    <2>2. CASE step \in Requests /\ Awaited
      <3>1. step # "open"
        BY <1>1, <2>2 DEF Awaited
      <3>2. Awaited'
        BY <1>1, <1>3, <2>2, <3>1 DEF Awaited
      <3> QED BY <1>1, <2>1, <2>2, <3>2 DEF Conversation, Granting, Setup!GivesUpForAReason
    <2>3. CASE step \in Requests /\ Answered
      <3>1. PICK i \in DOMAIN toSetup :
              /\ toSetup[i] \in {"success", "failure"}
              /\ \A j \in DOMAIN toSetup : j # i => toSetup[j] = "adjust"
              /\ step # "remote" => (step \in allowed <=> toSetup[i] = "success")
              /\ step = "open" => i = 1
        BY <2>3 DEF Answered
      <3>2. i \in DOMAIN toSetup' /\ toSetup'[i] = toSetup[i] /\ \A j \in DOMAIN toSetup' : j # i => toSetup'[j] = "adjust"
        BY <1>3, <3>1
      <3>3. Answered'
        BY <1>1, <2>3, <3>1, <3>2 DEF Answered
      <3> QED BY <1>1, <2>1, <2>3, <3>3 DEF Conversation, Granting, Setup!GivesUpForAReason
    <2>4. CASE step \notin Requests
      BY <1>1, <1>2, <1>8, <2>1, <2>4 DEF Conversation, Granting, Setup!GivesUpForAReason
    <2> QED BY <1>2, <1>8, <2>2, <2>3, <2>4 DEF Conversation
  <1> QED BY <1>1, <1>5, <1>7, <1>8 DEF SetupInv

\* The set-up starts with its invariant.
LEMMA SetupBegins == ASSUME Setup!Init PROVE SetupInv
  <1>1. /\ step = "start" /\ ssh2state = "before" /\ wanted \in Wanted /\ fallback \in BOOLEAN
        /\ second = FALSE /\ forwards = 0 /\ on \in {{}, {"x11"}}
        /\ remwin = 0 /\ toSetup = <<>> /\ reqs = <<>> /\ allowed = {} /\ credit = 0 /\ opened = 0
        /\ term = 0 /\ pty = -1 /\ resized = FALSE /\ eof = "no"
    BY DEF Setup!Init
  <1>2. SetupTyped /\ Stands /\ SizeRemembered
    <2>1. toSetup \in Seq(Replies) /\ reqs \in Seq(Requests \cup {"channel"})
      BY <1>1
    <2>2. on \subseteq {"x11", "agent"} /\ fallback \in BOOLEAN
      BY <1>1
    <2>3. SetupTyped
      <3>1. forwards \in 0 .. MaxForward /\ remwin \in Nat /\ credit \in 0 .. MaxWindow /\ opened \in Nat
        BY <1>1, MCAssumption
      <3>2. term \in 0 .. 2 /\ pty \in -1 .. 2
        BY <1>1
      <3> QED BY <1>1, <2>1, <2>2, <3>1, <3>2 DEF SetupTyped
    <2> QED BY <1>1, <2>3 DEF Stands, SizeRemembered, Setup!SizeReaches, Setup!EofReaches
  <1>3. CountOf(toSetup, "adjust") = 0
    <2>1. {i \in DOMAIN toSetup : toSetup[i] = "adjust"} = {}
      BY <1>1
    <2> QED BY <2>1, FS_EmptySet DEF CountOf
  <1>4. CreditSafe
    BY <1>1, <1>3, InFlightCounts DEF CreditSafe, Setup!CreditKept
  <1>5. Conversation /\ Setup!GivesUpForAReason
    BY <1>1 DEF Conversation, Granting, Place, Requests, Setup!GivesUpForAReason
  <1> QED BY <1>2, <1>4, <1>5 DEF SetupInv

\* It is about the variables of the set-up only.
LEMMA SetupStutters == ASSUME SetupInv, UNCHANGED setupVars PROVE SetupInv'
  <1>1. SetupTyped' /\ Stands' /\ SizeRemembered'
    BY DEF SetupInv, setupVars, SetupTyped, Stands, SizeRemembered, Setup!SizeReaches, Setup!EofReaches
  <1>2. CreditSafe'
    BY InFlightCounts DEF SetupInv, setupVars, CreditSafe, Setup!CreditKept
  <1>3. opened = 0 => Conversation' /\ Setup!GivesUpForAReason'
    BY DEF SetupInv, setupVars, Conversation, Granting, Awaited, Answered, Setup!GivesUpForAReason
  <1> QED BY <1>1, <1>2, <1>3 DEF SetupInv, setupVars

\* Every step of the set-up keeps the invariant.
LEMMA SetupSteps == ASSUME SetupInv, Setup!Next PROVE SetupInv'
  <1>1. CASE Setup!Receive
    BY <1>1, AdjustmentStep, AnswerStep
  <1> QED BY <1>1, BeginStep, ResizeStep, EndOfInputStep, AcceptStep, SrvAnswerStep, SrvAdjustStep DEF Setup!Next

\* The invariant is more than the properties.
LEMMA SetupImplies == ASSUME SetupInv PROVE Setup!TypeOK /\ SetupSound
  <1>1. SetupTyped /\ Stands /\ SizeRemembered /\ CreditSafe /\ (opened = 0 => Conversation /\ Setup!GivesUpForAReason)
    BY DEF SetupInv
  <1>2. remwin \in 0 .. MaxWindow
    <2>1. CountOf(toSetup, "adjust") \in Nat /\ remwin + CountOf(toSetup, "adjust") <= credit
      BY <1>1, Counted, InFlightCounts DEF SetupTyped, CreditSafe
    <2> QED BY <1>1, <2>1, MCAssumption DEF SetupTyped
  <1>3. Setup!TypeOK
    BY <1>1, <1>2 DEF SetupTyped, Setup!TypeOK, Requests
  <1>4. Setup!GivesUpForAReason
    BY <1>1 DEF SetupTyped, Setup!GivesUpForAReason
  <1>5. Setup!OnWhenGranted
    <2>1. Place("session") = 7
      BY DEF Place
    <2> QED BY <1>1, <2>1 DEF Conversation, Granting, Setup!OnWhenGranted
  <1> QED BY <1>1, <1>3, <1>4, <1>5 DEF SetupSound, CreditSafe, SizeRemembered

-----------------------------------------------------------------------------
(* The layers together.                                                    *)

LayersInv == TransInv /\ AuthInv /\ SetupInv

\* The invariants hold at first, and every step of a layer keeps them all.
LEMMA LayersHold == MCSpec => []LayersInv
  <1>1. ASSUME MCInit PROVE LayersInv
    BY <1>1, TransBegins, AuthBegins, SetupBegins DEF MCInit, LayersInv
  <1>2. ASSUME LayersInv, [MCNext]_allVars PROVE LayersInv'
    <2>1. CASE UNCHANGED allVars
      <3>1. UNCHANGED transportVars /\ UNCHANGED authVars /\ UNCHANGED setupVars
        BY <2>1 DEF allVars
      <3> QED BY <1>2, <3>1, TransStutters, AuthStutters, SetupStutters DEF LayersInv
    <2>2. CASE live = "window" /\ Next /\ UNCHANGED <<live, transportVars, authVars, setupVars>>
      <3>1. UNCHANGED transportVars /\ UNCHANGED authVars /\ UNCHANGED setupVars
        BY <2>2
      <3> QED BY <1>2, <3>1, TransStutters, AuthStutters, SetupStutters DEF LayersInv
    <2>3. CASE live = "transport" /\ Transport!Next /\ UNCHANGED <<live, vars, authVars, setupVars>>
      <3>1. Transport!Next /\ UNCHANGED authVars /\ UNCHANGED setupVars
        BY <2>3
      <3> QED BY <1>2, <3>1, TransSteps, AuthStutters, SetupStutters DEF LayersInv
    <2>4. CASE live = "auth" /\ Auth!Next /\ UNCHANGED <<live, vars, transportVars, setupVars>>
      <3>1. Auth!Next /\ UNCHANGED transportVars /\ UNCHANGED setupVars
        BY <2>4
      <3> QED BY <1>2, <3>1, TransStutters, AuthSteps, SetupStutters DEF LayersInv
    <2>5. CASE live = "setup" /\ Setup!Next /\ UNCHANGED <<live, vars, transportVars, authVars>>
      <3>1. Setup!Next /\ UNCHANGED transportVars /\ UNCHANGED authVars
        BY <2>5
      <3> QED BY <1>2, <3>1, TransStutters, AuthStutters, SetupSteps DEF LayersInv
    <2> QED BY <1>2, <2>1, <2>2, <2>3, <2>4, <2>5 DEF MCNext
  <1> QED BY <1>1, <1>2, PTL DEF MCSpec

\* Every variable of the three layers stays in its range.
THEOREM LayersTypeCorrect == MCSpec => []LayersTypeOK
  <1>1. LayersInv => LayersTypeOK
    BY TransImplies, AuthImplies, SetupImplies DEF LayersInv, LayersTypeOK
  <1> QED BY <1>1, LayersHold, PTL

\* Whatever comes in between: both ends change keys together and can read each other but for what
\* is sent between the two NEWKEYS, the ciphers are the best common ones and consented to below the
\* warning line; the session opens only for a login that was granted, no refusal is taken for the
\* answer to another request; and the set-up gives up only for a reason and loses nothing.
THEOREM LayersAreSound == MCSpec => []LayersSound
  <1>1. LayersInv => LayersSound
    BY TransImplies, AuthImplies, SetupImplies DEF LayersInv, LayersSound
  <1> QED BY <1>1, LayersHold, PTL
=============================================================================
