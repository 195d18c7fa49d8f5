------------------------------ MODULE NetProofs ------------------------------
(***************************************************************************)
(* First-fit allocation of channel numbers (ChannelId), proved for every   *)
(* word size, offset and number of channels that ConstAssumption allows;   *)
(* and what ConnectionSound says of a socket and of a connection through a *)
(* proxy, proved for every bound of the models.                            *)
(***************************************************************************)
EXTENDS NetMC, Integers, Sequences, SequenceTheorems, TLAPS

-----------------------------------------------------------------------------
(* The numbers of channels.                                                  *)

\* low as the C programmer reads it: -1 before the first matching probe.
Low == IF low = Word - 1 THEN -1 ELSE low

\* The tree is strictly increasing, stated as the distance between any two
\* elements so that it needs no induction over the tree.
Spread ==
    /\ \A i, j \in 0 .. count - 1 : i < j => channels[j] - channels[i] >= j - i
    /\ \A i \in 0 .. count - 1 : channels[i] >= Offset + i

\* The loop invariant: indices up to low hold the initial contiguous
\* sequence, the one at high is past it.
SearchInv ==
    pc = "search" =>
        /\ count < MaxChannels
        /\ Low \in -1 .. count - 1 /\ high \in 0 .. count /\ Low < high
        /\ \A i \in 0 .. Low : channels[i] = Offset + i
        /\ \A i \in high .. count - 1 : channels[i] > Offset + i

IInv == TypeOK /\ Spread /\ SearchInv

-----------------------------------------------------------------------------
\* Halving a natural number, as the probe does.
LEMMA Halving ==
    ASSUME NEW x \in Nat
    PROVE  /\ x \div 2 \in Nat
           /\ 2 * (x \div 2) <= x
           /\ x < 2 * (x \div 2) + 2
  OBVIOUS

\* The probe is strictly between low and high, hence inside the tree.
LEMMA ProbeBetween ==
    ASSUME IInv, Probing
    PROVE  LET mid == UAdd(high, low) \div 2
           IN  /\ mid \in 0 .. count - 1 /\ Low < mid /\ mid < high
               /\ UAdd(mid, Offset) = Offset + mid
  <1> DEFINE mid == UAdd(high, low) \div 2
  <1> USE ConstAssumption DEF IInv, TypeOK, SearchInv, Probing, Low
  <1>1. UAdd(high, low) \in Nat /\ UAdd(high, low) = high + Low
    BY DEF UAdd, USub
  <1>2. high - Low > 1
    BY DEF USub
  <1>3. mid \in Nat /\ 2 * mid <= high + Low /\ high + Low < 2 * mid + 2
    BY <1>1, Halving
  <1> HIDE DEF mid
  <1>4. Low \in -1 .. count - 1 /\ high \in 0 .. count /\ count \in 0 .. MaxChannels
    OBVIOUS
  <1>5. mid \in 0 .. count - 1 /\ Low < mid /\ mid < high
    BY <1>2, <1>3, <1>4
  <1>6. UAdd(mid, Offset) = Offset + mid
    BY <1>4, <1>5 DEF UAdd
  <1> QED BY <1>5, <1>6 DEF mid

\* At loop exit the two bounds meet, and the number returned is the first
\* one after the initial sequence.
LEMMA ExitValue ==
    ASSUME IInv, pc = "search", ~Probing
    PROVE  high = Low + 1 /\ NewId = Offset + high
  <1> USE ConstAssumption DEF IInv, TypeOK, SearchInv, Probing, Low
  <1>1. high = Low + 1
    BY DEF USub
  <1>2. UAdd(low, 1) = high
    BY <1>1 DEF UAdd
  <1> QED BY <1>1, <1>2 DEF UAdd, NewId

LEMMA ExitUnused ==
    ASSUME IInv, pc = "search", ~Probing
    PROVE  /\ NewId \notin Ids
           /\ \A id \in Offset .. NewId - 1 : id \in Ids
  <1> USE ConstAssumption DEF IInv, TypeOK, SearchInv
  <1>1. high = Low + 1 /\ NewId = Offset + high
    BY ExitValue
  <1>2. \A i \in 0 .. count - 1 : channels[i] # NewId
    <2> TAKE i \in 0 .. count - 1
    <2>1. channels[i] \in Int /\ count \in Nat /\ high \in 0 .. count /\ Low \in Int
      OBVIOUS
    <2>2. CASE i \in 0 .. Low
      BY <1>1, <2>1, <2>2
    <2>3. CASE i \in high .. count - 1
      BY <1>1, <2>1, <2>3
    <2> QED BY <1>1, <2>1, <2>2, <2>3
  <1>3. ASSUME NEW id \in Offset .. NewId - 1
        PROVE  id \in Ids
    <2>1. id - Offset \in 0 .. Low /\ id - Offset \in 0 .. count - 1
      BY <1>1
    <2>2. channels[id - Offset] = id
      BY <2>1
    <2> QED BY <2>1, <2>2 DEF Ids
  <1> QED BY <1>2, <1>3 DEF Ids

\* The probe invariant and first fit follow from the loop invariant.
LEMMA IInvImplies == IInv => TypeOK /\ ProbeInTree /\ FirstFit
  <1>1. ASSUME IInv PROVE ProbeInTree
    BY <1>1, ProbeBetween DEF ProbeInTree
  <1>2. ASSUME IInv PROVE FirstFit
    BY <1>2, ExitUnused DEF FirstFit
  <1> QED BY <1>1, <1>2 DEF IInv

-----------------------------------------------------------------------------
LEMMA InitIInv == Init => IInv
  BY ConstAssumption DEF Init, IInv, TypeOK, Spread, SearchInv, Low

LEMMA ProbeIInv == IInv /\ Probe => IInv'
  <1> SUFFICES ASSUME IInv, Probe PROVE IInv'
    OBVIOUS
  <1> DEFINE mid == UAdd(high, low) \div 2
  <1> USE ConstAssumption
  <1>0. Probing
    BY DEF Probe
  <1>1. /\ mid \in 0 .. count - 1 /\ Low < mid /\ mid < high
        /\ UAdd(mid, Offset) = Offset + mid
    BY <1>0, ProbeBetween
  <1>2. UNCHANGED <<count, channels, pc>>
    BY DEF Probe
  <1>3. Spread'
    BY <1>2 DEF IInv, Spread
  <1>4. CASE channels[mid] = Offset + mid
    <2>1. low' = mid /\ high' = high
      BY <1>1, <1>4 DEF Probe
    <2>2. Low' = mid
      BY <1>1, <2>1 DEF Low, IInv, TypeOK
    <2>3. \A i \in 0 .. mid : channels[i] = Offset + i
      <3> TAKE i \in 0 .. mid
      <3>1. channels[i] >= Offset + i /\ channels[i] \in Int /\ channels[mid] \in Int
        BY <1>1 DEF IInv, Spread, TypeOK
      <3>2. i < mid => channels[mid] - channels[i] >= mid - i
        <4>1. i \in 0 .. count - 1 /\ mid \in 0 .. count - 1
          BY <1>1 DEF IInv, TypeOK
        <4> HIDE DEF mid
        <4> QED BY <4>1 DEF IInv, Spread
      <3> QED BY <1>1, <1>4, <3>1, <3>2
    <2> QED BY <1>1, <1>2, <1>3, <2>1, <2>2, <2>3 DEF IInv, TypeOK, SearchInv
  <1>5. CASE channels[mid] # Offset + mid
    <2>1. low' = low /\ high' = mid
      BY <1>1, <1>5 DEF Probe
    <2>2. Low' = Low
      BY <2>1 DEF Low
    <2>3. \A i \in mid .. count - 1 : channels[i] > Offset + i
      <3> TAKE i \in mid .. count - 1
      <3>1. channels[mid] >= Offset + mid /\ channels[i] \in Int /\ channels[mid] \in Int
        BY <1>1 DEF IInv, Spread, TypeOK
      <3>2. mid < i => channels[i] - channels[mid] >= i - mid
        BY <1>1 DEF IInv, Spread
      <3> QED BY <1>1, <1>5, <3>1, <3>2
    <2> QED BY <1>1, <1>2, <1>3, <2>1, <2>2, <2>3 DEF IInv, TypeOK, SearchInv
  <1> QED BY <1>4, <1>5

LEMMA EndAllocIInv == IInv /\ EndAlloc => IInv'
  <1> SUFFICES ASSUME IInv, EndAlloc PROVE IInv'
    OBVIOUS
  <1> USE ConstAssumption
  <1>1. high = Low + 1 /\ NewId = Offset + high /\ NewId \notin Ids
    BY ExitValue, ExitUnused DEF EndAlloc
  <1>2. PICK p \in 0 .. count :
           /\ SortedPosition(NewId, p)
           /\ channels' = [i \in 0 .. count |-> IF i < p THEN channels[i]
                                                ELSE IF i = p THEN NewId
                                                ELSE channels[i - 1]]
           /\ count' = count + 1
    BY <1>1 DEF EndAlloc, Insert
  <1>3. count < MaxChannels /\ high \in 0 .. count /\ count \in Nat
    BY DEF EndAlloc, IInv, SearchInv, TypeOK
  <1>4. NewId \in Offset .. Offset + MaxChannels - 1
    BY <1>1, <1>3
  <1>5. \A i \in 0 .. count - 1 : channels[i] \in Offset .. Offset + MaxChannels - 1
    BY DEF IInv, TypeOK
  <1>6. TypeOK'
    BY <1>2, <1>3, <1>4, <1>5 DEF TypeOK, EndAlloc
  <1>7. Spread'
    <2>1. \A i \in 0 .. p - 1 : NewId - channels[i] >= p - i
      <3> TAKE i \in 0 .. p - 1
      <3>1. channels[p - 1] < NewId /\ p - 1 \in 0 .. count - 1
        BY <1>2, <1>3 DEF SortedPosition
      <3>2. i < p - 1 => channels[p - 1] - channels[i] >= p - 1 - i
        BY <1>3, <3>1 DEF IInv, Spread
      <3>3. /\ channels[i] \in Int /\ channels[p - 1] \in Int /\ NewId \in Int
            /\ i \in Int /\ p \in Int
        BY <1>3, <1>4, <1>5, <3>1
      <3>4. CASE i = p - 1
        BY <3>1, <3>3, <3>4
      <3>5. CASE i < p - 1
        BY <3>1, <3>2, <3>3, <3>5
      <3> QED BY <3>3, <3>4, <3>5
    <2>2. \A i \in p .. count - 1 : channels[i] - NewId >= i + 1 - p
      <3> TAKE i \in p .. count - 1
      <3>1. NewId < channels[p] /\ p \in 0 .. count - 1
        BY <1>2, <1>3 DEF SortedPosition
      <3>2. p < i => channels[i] - channels[p] >= i - p
        BY <1>3, <3>1 DEF IInv, Spread
      <3> QED BY <1>4, <1>5, <3>1, <3>2
    <2>3. p <= high
      <3> SUFFICES ASSUME high < p PROVE FALSE
        BY <1>2, <1>3
      <3>1. high \in 0 .. p - 1 /\ high \in high .. count - 1 /\ high \in 0 .. count - 1
        BY <1>2, <1>3
      <3>2. channels[high] < NewId
        BY <1>2, <3>1 DEF SortedPosition
      <3>3. channels[high] > Offset + high
        BY <3>1 DEF IInv, SearchInv, EndAlloc
      <3> QED BY <1>1, <1>4, <1>5, <3>1, <3>2, <3>3
    <2>4. \A i \in p .. count - 1 : channels[i] >= Offset + i + 1
      <3> TAKE i \in p .. count - 1
      <3>1. i < high => channels[i] = Offset + i /\ NewId < channels[i]
        BY <1>1, <1>2, <1>3 DEF SortedPosition, IInv, SearchInv, EndAlloc
      <3>2. i >= high => channels[i] > Offset + i
        BY <1>3 DEF IInv, SearchInv, EndAlloc
      <3> QED BY <1>1, <1>3, <1>5, <3>1, <3>2
    <2>5. \A i \in 0 .. count : channels'[i] >= Offset + i
      BY <1>1, <1>2, <1>3, <2>3, <2>4 DEF IInv, Spread
    <2>6. \A i, j \in 0 .. count : i < j => channels'[j] - channels'[i] >= j - i
      <3> TAKE i, j \in 0 .. count
      <3> HAVE i < j
      <3>1. CASE j < p
        BY <1>2, <1>3, <3>1 DEF IInv, Spread
      <3>2. CASE j = p
        BY <1>2, <1>3, <2>1, <3>2
      <3>3. CASE j > p /\ i = p
        BY <1>2, <1>3, <2>2, <3>3
      <3>4. CASE j > p /\ i < p
        <4>1. channels'[j] = channels[j - 1] /\ channels'[i] = channels[i]
          BY <1>2, <1>3, <3>4
        <4>2. channels[j - 1] - NewId >= j - p /\ NewId - channels[i] >= p - i
          BY <1>2, <1>3, <2>1, <2>2, <3>4
        <4> QED BY <1>3, <1>4, <1>5, <3>4, <4>1, <4>2
      <3>5. CASE j > p /\ i > p
        BY <1>2, <1>3, <3>5 DEF IInv, Spread
      <3> QED BY <1>2, <1>3, <3>1, <3>2, <3>3, <3>4, <3>5
    <2> QED BY <1>2, <1>3, <2>5, <2>6 DEF Spread
  <1>8. SearchInv'
    BY DEF SearchInv, EndAlloc
  <1> QED BY <1>6, <1>7, <1>8 DEF IInv

LEMMA FreeIInv ==
    ASSUME NEW k \in 0 .. MaxChannels - 1, IInv, FreeChannel(k)
    PROVE  IInv'
  <1> USE ConstAssumption
  <1>1. count \in Nat /\ k \in 0 .. count - 1 /\ count' = count - 1 /\ count \in 0 .. MaxChannels
    BY DEF FreeChannel, IInv, TypeOK
  <1>2. \A i \in 0 .. count - 1 : channels[i] \in Offset .. Offset + MaxChannels - 1
    BY DEF IInv, TypeOK
  <1>3. channels' = [i \in 0 .. count - 2 |-> IF i < k THEN channels[i]
                                              ELSE channels[i + 1]]
    BY DEF FreeChannel
  <1>4. TypeOK'
    BY <1>1, <1>2, <1>3 DEF TypeOK, IInv, FreeChannel
  <1>5. Spread'
    <2>1. \A i, j \in 0 .. count - 2 : i < j => channels'[j] - channels'[i] >= j - i
      <3> TAKE i, j \in 0 .. count - 2
      <3> HAVE i < j
      <3> DEFINE ii == IF i < k THEN i ELSE i + 1
                 jj == IF j < k THEN j ELSE j + 1
      <3>1. /\ ii \in 0 .. count - 1 /\ jj \in 0 .. count - 1
            /\ ii < jj /\ jj - ii >= j - i
        BY <1>1
      <3>2. channels'[i] = channels[ii] /\ channels'[j] = channels[jj]
        BY <1>1, <1>3
      <3>3. channels[jj] - channels[ii] >= jj - ii
        BY <3>1 DEF IInv, Spread
      <3> HIDE DEF ii, jj
      <3> QED BY <1>1, <1>2, <3>1, <3>2, <3>3
    <2>2. \A i \in 0 .. count - 2 : channels'[i] >= Offset + i
      <3> TAKE i \in 0 .. count - 2
      <3>1. channels[i] >= Offset + i /\ channels[i + 1] >= Offset + i + 1
        BY <1>1 DEF IInv, Spread
      <3> QED BY <1>1, <1>2, <1>3, <3>1
    <2> QED BY <1>1, <2>1, <2>2 DEF Spread
  <1>6. SearchInv'
    BY DEF SearchInv, FreeChannel
  <1> QED BY <1>4, <1>5, <1>6 DEF IInv

LEMMA StepIInv == IInv /\ [Next]_vars => IInv'
  <1> SUFFICES ASSUME IInv, [Next]_vars PROVE IInv'
    OBVIOUS
  <1>1. CASE BeginAlloc
    BY <1>1, ConstAssumption DEF BeginAlloc, IInv, TypeOK, Spread, SearchInv, Low
  <1>2. CASE Probe
    BY <1>2, ProbeIInv
  <1>3. CASE EndAlloc
    BY <1>3, EndAllocIInv
  <1>4. CASE \E k \in 0 .. MaxChannels - 1 : FreeChannel(k)
    BY <1>4, FreeIInv
  <1>5. CASE UNCHANGED vars
    BY <1>5 DEF vars, IInv, TypeOK, Spread, SearchInv, Low
  <1> QED BY <1>1, <1>2, <1>3, <1>4, <1>5 DEF Next

LEMMA SpecIInv == Spec => []IInv
  BY InitIInv, StepIInv, PTL DEF Spec

\* alloc_channel_id keeps every variable in its range: in particular the sum
\* high + low never leaves the word and the numbers handed out stay below
\* Offset + MaxChannels (ssh.c:759-795).
THEOREM ChannelIdTypeOK == Spec => []TypeOK
  BY SpecIInv, IInvImplies, PTL

\* The binary search only dereferences elements of the tree (ssh.c:780).
THEOREM ChannelIdProbeInTree == Spec => []ProbeInTree
  BY SpecIInv, IInvImplies, PTL

\* The number returned is unused and is the least such number (ssh.c:767-795).
THEOREM ChannelIdFirstFit == Spec => []FirstFit
  BY SpecIInv, IInvImplies, PTL

-----------------------------------------------------------------------------
(* Sequences.                                                                *)

\* What is cut into two pieces is whole.
LEMMA CutIsWhole ==
    ASSUME NEW S, NEW q \in Seq(S), NEW k \in 0 .. Len(q)
    PROVE  /\ SubSeq(q, 1, k) \in Seq(S) /\ SubSeq(q, k + 1, Len(q)) \in Seq(S)
           /\ Len(SubSeq(q, 1, k)) = k /\ Len(SubSeq(q, k + 1, Len(q))) = Len(q) - k
           /\ SubSeq(q, 1, k) \o SubSeq(q, k + 1, Len(q)) = q
  <1>1. Len(q) \in Nat /\ \A i \in 1 .. Len(q) : q[i] \in S
    BY LenProperties, ElementOfSeq
  <1>2. SubSeq(q, 1, k) \in Seq(S) /\ Len(SubSeq(q, 1, k)) = k
    <2>1. \A i \in 1 .. k : q[i] \in S
      BY <1>1
    <2> QED BY <1>1, <2>1, SubSeqProperties
  <1>3. SubSeq(q, k + 1, Len(q)) \in Seq(S) /\ Len(SubSeq(q, k + 1, Len(q))) = Len(q) - k
    <2>1. \A i \in k + 1 .. Len(q) : q[i] \in S
      BY <1>1
    <2>2. k + 1 \in Int /\ Len(q) \in Int
      BY <1>1
    <2>3. /\ SubSeq(q, k + 1, Len(q)) \in Seq(S)
          /\ Len(SubSeq(q, k + 1, Len(q))) = IF k + 1 <= Len(q) THEN Len(q) - (k + 1) + 1 ELSE 0
      BY <2>1, <2>2, SubSeqProperties
    <2> QED BY <1>1, <2>3
  <1>4. SubSeq(q, 1, k) \o SubSeq(q, k + 1, Len(q)) = SubSeq(q, 1, Len(q))
    <2>1. 1 \in 1 .. Len(q) + 1 /\ k \in 1 - 1 .. Len(q) /\ Len(q) \in k .. Len(q)
      BY <1>1
    <2> QED BY <2>1, ConcatAdjacentSubSeq
  <1> QED BY <1>2, <1>3, <1>4, SubSeqFull

-----------------------------------------------------------------------------
(* The socket.  What the plug has received and what Winsock still holds is    *)
(* what arrived; what Winsock took and what waits to be sent ascends; and     *)
(* each of the two streams has something that will wake it.                   *)

EventNames == {"CONNECT", "READ", "WRITE", "CLOSE"}
SocketRecord ==
    [writable : BOOLEAN, frozen : BOOLEAN, frozenReadable : BOOLEAN, pendingError : BOOLEAN,
     oob : Seq(Nat), out : Seq(Nat), connected : BOOLEAN]

Ascending(q, w) ==
    /\ q \in Seq(Nat) /\ \A i \in 1 .. Len(q) : q[i] <= w
    /\ \A i, j \in 1 .. Len(q) : i < j => q[i] < q[j]
Counted(q, n) == q \in Seq(Nat) /\ Len(q) = n /\ \A i \in 1 .. n : q[i] = i
Among(e, q) == \E i \in 1 .. Len(q) : q[i] = e

SocketTyped ==
    /\ sk \in SocketRecord /\ events \in Seq(EventNames) /\ readOn \in BOOLEAN /\ writeOn \in BOOLEAN
    /\ inbox \in Seq(Nat) /\ ended \in {"no", "yes", "reset"} /\ outbox \in 0 .. Room
    /\ arrived \in Nat /\ wrote \in 0 .. MaxOut /\ toPlug \in Seq(Nat) /\ toPeer \in Seq(Nat)
    /\ sentTo \in 0 .. MaxOut + 1 /\ outcome \in {"fine", "closed", "freed"}

Sends ==
    /\ Len(sk.oob) <= 1 /\ Len(sk.oob) + Len(sk.out) <= wrote
    /\ Ascending(toPeer \o (sk.oob \o sk.out), wrote)
Receives ==
    /\ Counted(toPlug, Len(toPlug))
    /\ outcome = "fine" => Counted(toPlug \o inbox, arrived)

\* FD_READ is enabled again by the recv that leaves nothing; until then it is posted, or the thaw
\* is going to look.
ReadWakes ==
    outcome = "fine" => /\ readOn => inbox = <<>>
                        /\ ~readOn => sk.frozenReadable \/ Among("READ", events)
                        /\ sk.frozenReadable => sk.frozen
\* FD_WRITE is awaited as long as something waits, or the socket cannot be written to.
WriteWakes ==
    outcome = "fine" /\ (~sk.writable \/ Len(sk.oob) + Len(sk.out) > 0)
      => sk.pendingError \/ writeOn \/ ended # "no" \/ Among("WRITE", events)

SocketInv == SocketTyped /\ Sends /\ Receives /\ ReadWakes /\ WriteWakes

\* An event that is posted stays posted until it is the first and is handled.
LEMMA PostedStays ==
    ASSUME NEW q \in Seq(EventNames), NEW e \in EventNames
    PROVE  /\ \A x \in EventNames : /\ Append(q, x) \in Seq(EventNames)
                                    /\ Among(x, Append(q, x))
                                    /\ Among(e, q) => Among(e, Append(q, x))
           /\ q # <<>> => /\ Tail(q) \in Seq(EventNames)
                          /\ Among(e, q) /\ Head(q) # e => Among(e, Tail(q))
  <1>1. ASSUME NEW x \in EventNames
        PROVE  /\ Append(q, x) \in Seq(EventNames) /\ Among(x, Append(q, x))
               /\ Among(e, q) => Among(e, Append(q, x))
    <2>1. /\ Append(q, x) \in Seq(EventNames) /\ Len(Append(q, x)) = Len(q) + 1
          /\ Append(q, x)[Len(q) + 1] = x /\ \A i \in 1 .. Len(q) : Append(q, x)[i] = q[i]
      OBVIOUS
    <2>2. Len(q) + 1 \in 1 .. Len(q) + 1 /\ 1 .. Len(q) \subseteq 1 .. Len(q) + 1
      BY LenProperties
    <2> QED BY <2>1, <2>2 DEF Among
  <1>2. ASSUME q # <<>>
        PROVE  /\ Tail(q) \in Seq(EventNames)
               /\ Among(e, q) /\ Head(q) # e => Among(e, Tail(q))
    <2>1. /\ Tail(q) \in Seq(EventNames) /\ Len(Tail(q)) = Len(q) - 1 /\ Len(q) \in Nat
          /\ Head(q) = q[1] /\ \A i \in 1 .. Len(q) - 1 : Tail(q)[i] = q[i + 1]
      BY <1>2
    <2>2. ASSUME NEW i \in 1 .. Len(q), q[i] = e, Head(q) # e PROVE Among(e, Tail(q))
      <3>1. i # 1 /\ i - 1 \in 1 .. Len(q) - 1
        BY <2>1, <2>2
      <3>2. Tail(q)[i - 1] = e
        BY <2>1, <2>2, <3>1
      <3> QED BY <2>1, <3>1, <3>2 DEF Among
    <2> QED BY <2>1, <2>2 DEF Among
  <1> QED BY <1>1, <1>2

\* A number above all of an ascending sequence goes to its end.
LEMMA AscendingAppend ==
    ASSUME NEW w \in Nat, NEW q, Ascending(q, w)
    PROVE  Ascending(Append(q, w + 1), w + 1)
  <1>1. /\ Append(q, w + 1) \in Seq(Nat) /\ Len(Append(q, w + 1)) = Len(q) + 1 /\ Len(q) \in Nat
        /\ Append(q, w + 1)[Len(q) + 1] = w + 1
        /\ \A i \in 1 .. Len(q) : Append(q, w + 1)[i] = q[i] /\ q[i] \in Nat
    BY DEF Ascending
  <1>2. ASSUME NEW i \in 1 .. Len(q) + 1 PROVE Append(q, w + 1)[i] <= w + 1
    BY <1>1 DEF Ascending
  <1>3. ASSUME NEW i \in 1 .. Len(q) + 1, NEW j \in 1 .. Len(q) + 1, i < j
        PROVE  Append(q, w + 1)[i] < Append(q, w + 1)[j]
    BY <1>1, <1>3 DEF Ascending
  <1> QED BY <1>1, <1>2, <1>3 DEF Ascending

\* What comes first in an ascending sequence ascends.
LEMMA AscendingFirst ==
    ASSUME NEW w \in Nat, NEW p \in Seq(Nat), NEW q \in Seq(Nat), Ascending(p \o q, w)
    PROVE  Ascending(p, w)
  <1>1. /\ Len(p) \in Nat /\ Len(q) \in Nat /\ Len(p \o q) = Len(p) + Len(q)
        /\ \A i \in 1 .. Len(p) : (p \o q)[i] = p[i] /\ i \in 1 .. Len(p \o q)
    BY ConcatProperties, LenProperties
  <1> QED BY <1>1 DEF Ascending

\* The length of what has been counted, and the next number.
LEMMA CountedAppend ==
    ASSUME NEW n \in Nat, NEW q, Counted(q, n) PROVE Counted(Append(q, n + 1), n + 1)
  BY DEF Counted

\* A beginning of what is counted is counted.
LEMMA CountedFirst ==
    ASSUME NEW p \in Seq(Nat), NEW q \in Seq(Nat), NEW n \in Nat, Counted(p \o q, n)
    PROVE  Counted(p, Len(p))
  <1>1. /\ Len(p) \in Nat /\ Len(q) \in Nat /\ Len(p \o q) = Len(p) + Len(q)
        /\ \A i \in 1 .. Len(p) : (p \o q)[i] = p[i] /\ i \in 1 .. Len(p \o q)
    BY ConcatProperties, LenProperties
  <1> QED BY <1>1 DEF Counted

\* Three sequences of numbers, one after the other.
LEMMA Regroup == \A p, q, r \in Seq(Nat) : (p \o q) \o r = p \o (q \o r)
  OBVIOUS

\* What goes to the end of the last goes to the end of all.
LEMMA AppendLast ==
    \A p, q, r \in Seq(Nat), x \in Nat : p \o (q \o Append(r, x)) = Append(p \o (q \o r), x)
  <1> SUFFICES ASSUME NEW p \in Seq(Nat), NEW q \in Seq(Nat), NEW r \in Seq(Nat), NEW x \in Nat
               PROVE  p \o (q \o Append(r, x)) = Append(p \o (q \o r), x)
    OBVIOUS
  <1>1. /\ Append(r, x) = r \o <<x>> /\ <<x>> \in Seq(Nat) /\ q \o r \in Seq(Nat)
        /\ p \o (q \o r) \in Seq(Nat)
    BY AppendIsConcat, ConcatProperties
  <1>2. Append(p \o (q \o r), x) = (p \o (q \o r)) \o <<x>>
    BY <1>1, AppendIsConcat
  <1>3. (p \o (q \o r)) \o <<x>> = p \o ((q \o r) \o <<x>>)
    BY <1>1, Regroup
  <1>4. (q \o r) \o <<x>> = q \o (r \o <<x>>)
    BY <1>1, Regroup
  <1> QED BY <1>1, <1>2, <1>3, <1>4

\* The constants are numbers.
LEMMA Numbers ==
    /\ MaxData \in Nat /\ MaxWrites \in Nat /\ Room \in Nat /\ MaxIn \in Nat /\ MaxOut \in Nat
  BY MCAssumption

\* try_send on a structure that believes it can write: what Winsock takes and what is left is what
\* was there, and if anything is left, FD_WRITE is awaited or the error is remembered.
LEMMA TrySendEffect ==
    ASSUME SocketTyped, NEW st \in SocketRecord, st.writable, Len(st.oob) <= 1, Tcp!TrySend(st)
    PROVE  /\ sk' \in SocketRecord /\ toPeer' \in Seq(Nat) /\ outbox' \in 0 .. Room
           /\ writeOn' \in BOOLEAN
           /\ sk'.frozen = st.frozen /\ sk'.frozenReadable = st.frozenReadable
           /\ Len(sk'.oob) <= 1 /\ Len(sk'.oob) + Len(sk'.out) <= Len(st.oob) + Len(st.out)
           /\ toPeer' \o (sk'.oob \o sk'.out) = toPeer \o (st.oob \o st.out)
           /\ ~sk'.writable \/ Len(sk'.oob) + Len(sk'.out) > 0 => sk'.pendingError \/ writeOn'
  <1>1. PICK urgent, rest, both, here, there :
          /\ urgent = st.oob /\ rest = st.out /\ both = urgent \o rest
          /\ here = outbox /\ there = toPeer
    OBVIOUS
  <1>2. /\ urgent \in Seq(Nat) /\ rest \in Seq(Nat)
        /\ there \in Seq(Nat) /\ here \in 0 .. Room /\ writeOn \in BOOLEAN
    BY <1>1 DEF SocketTyped, SocketRecord
  <1>3. PICK a \in Nat, b \in Nat, n \in Nat :
          a = Len(urgent) /\ a <= 1 /\ b = Len(rest) /\ n = a + b
    <2>1. Len(urgent) \in Nat /\ Len(rest) \in Nat /\ Len(urgent) <= 1
      BY <1>1, <1>2
    <2> QED BY <2>1
  <1>4. both \in Seq(Nat) /\ Len(both) = n
    BY <1>1, <1>2, <1>3, ConcatProperties
  <1>5. CASE both = <<>>
    <2>1. sk' = st /\ toPeer' = there /\ outbox' = here /\ writeOn' = writeOn
      BY <1>1, <1>5 DEF Tcp!TrySend
    <2>2. n = 0
      BY <1>4, <1>5
    <2>3. a + b <= a + b /\ ~(a + b > 0)
      BY <1>3, <2>2
    <2> QED BY <1>1, <1>2, <1>3, <2>1, <2>3
  <1>6. CASE both # <<>> /\ ended = "reset"
    <2>1. /\ sk' = [st EXCEPT !.pendingError = TRUE] /\ toPeer' = there
          /\ outbox' = here /\ writeOn' = writeOn
      BY <1>1, <1>6 DEF Tcp!TrySend
    <2>2. /\ sk' \in SocketRecord /\ sk'.oob = st.oob /\ sk'.out = st.out /\ sk'.pendingError
          /\ sk'.frozen = st.frozen /\ sk'.frozenReadable = st.frozenReadable
      BY <2>1 DEF SocketRecord
    <2>3. a + b <= a + b
      BY <1>3
    <2> QED BY <1>1, <1>2, <1>3, <2>1, <2>2, <2>3
  <1>7. CASE both # <<>> /\ ended # "reset"
    <2>1. PICK k : k = IF n <= Room - here THEN n ELSE Room - here
      OBVIOUS
    <2>2. k \in 0 .. n /\ k <= Room - here
      BY <1>2, <1>3, <2>1, Numbers
    <2>3. PICK oob, out :
            /\ oob = IF k < a THEN SubSeq(urgent, k + 1, a) ELSE <<>>
            /\ out = IF k < a THEN rest ELSE SubSeq(both, k + 1, n)
      OBVIOUS
    <2>4. /\ sk' = [st EXCEPT !.oob = oob, !.out = out, !.writable = k = n]
          /\ toPeer' = there \o SubSeq(both, 1, k) /\ outbox' = here + k
          /\ writeOn' = (writeOn \/ ~sk'.writable)
      BY <1>1, <1>3, <1>7, <2>1, <2>3 DEF Tcp!TrySend, Tcp!Take
    <2>5. /\ oob \in Seq(Nat) /\ out \in Seq(Nat) /\ Len(oob) <= 1 /\ Len(oob) + Len(out) = n - k
          /\ SubSeq(both, 1, k) \in Seq(Nat)
          /\ SubSeq(both, 1, k) \o (oob \o out) = both
      <3>1. both \in Seq(Nat) /\ Len(both) = n
        BY <1>4
      <3>2. k \in 0 .. Len(both)
        BY <1>4, <2>2
      <3>3. /\ SubSeq(both, 1, k) \in Seq(Nat) /\ SubSeq(both, k + 1, n) \in Seq(Nat)
            /\ Len(SubSeq(both, k + 1, n)) = n - k
            /\ SubSeq(both, 1, k) \o SubSeq(both, k + 1, n) = both
        <4>1. /\ SubSeq(both, 1, k) \in Seq(Nat) /\ SubSeq(both, k + 1, Len(both)) \in Seq(Nat)
              /\ Len(SubSeq(both, k + 1, Len(both))) = Len(both) - k
              /\ SubSeq(both, 1, k) \o SubSeq(both, k + 1, Len(both)) = both
          BY <3>1, <3>2, CutIsWhole
        <4> QED BY <3>1, <4>1
      <3>4. CASE k < a
        <4>1. k = 0 /\ a = 1
          BY <1>3, <2>2, <3>4
        <4>2. oob = urgent /\ out = rest
          <5>1. SubSeq(urgent, 1, Len(urgent)) = urgent
            BY <1>2, SubSeqFull
          <5>2. k + 1 = 1
            BY <4>1
          <5> QED BY <1>3, <2>3, <3>4, <5>1, <5>2
        <4>3. SubSeq(both, 1, k) = <<>>
          BY <4>1, SubSeqEmpty
        <4>4. <<>> \o both = both
          BY <3>1, ConcatEmptySeq
        <4>5. a + b = n - k
          BY <1>3, <4>1
        <4> QED BY <1>1, <1>2, <1>3, <3>3, <4>1, <4>2, <4>3, <4>4, <4>5
      <3>5. CASE ~(k < a)
        <4>1. oob = <<>> /\ out = SubSeq(both, k + 1, n)
          BY <2>3, <3>5
        <4>2. oob \o out = out
          BY <3>3, <4>1, ConcatEmptySeq
        <4>3. oob \in Seq(Nat) /\ Len(oob) = 0
          BY <4>1, EmptySeq
        <4>4. Len(oob) <= 1 /\ Len(oob) + Len(out) = n - k
          BY <1>3, <2>2, <3>3, <4>1, <4>3
        <4> QED BY <3>3, <4>1, <4>2, <4>3, <4>4
      <3> QED BY <3>4, <3>5
    <2>6. /\ sk' \in SocketRecord /\ sk'.oob = oob /\ sk'.out = out /\ sk'.writable = (k = n)
          /\ sk'.frozen = st.frozen /\ sk'.frozenReadable = st.frozenReadable
      BY <2>4, <2>5 DEF SocketRecord
    <2>7. PICK gone, left :
            /\ gone = SubSeq(both, 1, k) /\ gone \in Seq(Nat)
            /\ left = oob \o out /\ left \in Seq(Nat) /\ gone \o left = both
      BY <2>5, ConcatProperties
    <2>8. toPeer' \in Seq(Nat) /\ toPeer' \o (oob \o out) = there \o both
      <3>1. there \in Seq(Nat) /\ gone \in Seq(Nat) /\ left \in Seq(Nat)
        BY <1>2, <2>7
      <3>2. (there \o gone) \o left = there \o (gone \o left)
        BY <3>1, Regroup
      <3> QED BY <2>4, <2>7, <3>1, <3>2, ConcatProperties
    <2>9. outbox' \in 0 .. Room
      <3>1. outbox' = here + k /\ k <= Room - here /\ k \in Nat
        BY <1>3, <2>2, <2>4
      <3>2. Room \in Nat /\ here \in 0 .. Room
        BY <1>2, Numbers
      <3> QED BY <3>1, <3>2
    <2>10. writeOn' \in BOOLEAN
      BY <1>2, <2>4, <2>6
    <2>11. Len(oob) + Len(out) <= a + b /\ (Len(oob) + Len(out) > 0 => k # n)
      BY <1>3, <2>2, <2>5
    <2>12. ~sk'.writable \/ Len(sk'.oob) + Len(sk'.out) > 0 => sk'.pendingError \/ writeOn'
      BY <2>4, <2>6, <2>11
    <2> QED BY <1>1, <1>3, <2>5, <2>6, <2>8, <2>9, <2>10, <2>11, <2>12
  <1> QED BY <1>5, <1>6, <1>7

\* Sending, by whatever call: what is written comes at the end, and the wait for FD_WRITE is kept.
LEMMA Sent ==
    ASSUME SocketInv, outcome = "fine", NEW w \in wrote .. MaxOut, wrote' = w,
           NEW st \in SocketRecord, Len(st.oob) <= 1, Len(st.oob) + Len(st.out) <= w,
           Ascending(toPeer \o (st.oob \o st.out), w),
           st.frozen = sk.frozen, st.frozenReadable = sk.frozenReadable,
           \/ st.writable /\ Tcp!TrySend(st)
           \/ /\ ~st.writable /\ ~sk.writable /\ st.pendingError = sk.pendingError /\ events' = events
              /\ sk' = st /\ UNCHANGED <<toPeer, outbox, writeOn>>,
           events' \in Seq(EventNames), Among("READ", events) => Among("READ", events'),
           sentTo' \in {Len(sk'.oob), Len(sk'.out), Len(sk'.oob) + Len(sk'.out), sentTo},
           UNCHANGED <<readOn, inbox, ended, arrived, toPlug, outcome>>
    PROVE  SocketInv'
  <1>1. /\ sk' \in SocketRecord /\ toPeer' \in Seq(Nat) /\ outbox' \in 0 .. Room
        /\ writeOn' \in BOOLEAN
        /\ sk'.frozen = st.frozen /\ sk'.frozenReadable = st.frozenReadable
        /\ Len(sk'.oob) <= 1 /\ Len(sk'.oob) + Len(sk'.out) <= Len(st.oob) + Len(st.out)
        /\ toPeer' \o (sk'.oob \o sk'.out) = toPeer \o (st.oob \o st.out)
    <2>1. CASE st.writable
      BY <2>1, TrySendEffect DEF SocketInv
    <2>2. CASE ~st.writable
      <3>1. /\ sk' = st /\ toPeer' = toPeer /\ outbox' = outbox /\ writeOn' = writeOn
            /\ toPeer \in Seq(Nat) /\ outbox \in 0 .. Room /\ writeOn \in BOOLEAN
        BY <2>2 DEF SocketInv, SocketTyped
      <3>2. Len(st.oob) \in Nat /\ Len(st.out) \in Nat
        BY DEF SocketRecord
      <3>3. Len(st.oob) + Len(st.out) <= Len(st.oob) + Len(st.out)
        BY <3>2
      <3> QED BY <3>1, <3>3
    <2> QED BY <2>1, <2>2
  <1>2. WriteWakes'
    <2>1. CASE st.writable
      <3>1. ~sk'.writable \/ Len(sk'.oob) + Len(sk'.out) > 0 => sk'.pendingError \/ writeOn'
        BY <2>1, TrySendEffect DEF SocketInv
      <3> QED BY <3>1 DEF WriteWakes
    <2>2. CASE ~st.writable
      BY <2>2 DEF SocketInv, WriteWakes
    <2> QED BY <2>1, <2>2
  <1>3. PICK a \in Nat, b \in Nat, c \in Nat :
          a = Len(sk'.oob) /\ b = Len(sk'.out) /\ c = Len(st.oob) + Len(st.out)
    BY <1>1 DEF SocketRecord
  <1>4. Len(sk'.oob) + Len(sk'.out) <= wrote'
    <2>1. a + b <= c /\ c <= w
      BY <1>1, <1>3
    <2>2. w \in Nat
      BY Numbers DEF SocketInv, SocketTyped
    <2>3. a + b <= w
      BY <2>1, <2>2
    <2> QED BY <1>3, <2>3
  <1>5. Sends'
    BY <1>1, <1>4 DEF Sends, Ascending
  <1>6. sentTo' \in 0 .. MaxOut + 1 /\ wrote' \in 0 .. MaxOut
    <2>1. /\ a + b <= w /\ w \in wrote .. MaxOut /\ wrote \in 0 .. MaxOut /\ MaxOut \in Nat
          /\ sentTo \in 0 .. MaxOut + 1
      <3>1. a + b <= w
        BY <1>3, <1>4
      <3> QED BY <3>1, Numbers DEF SocketInv, SocketTyped
    <2>2. sentTo' \in {a, b, a + b, sentTo}
      BY <1>3
    <2> QED BY <2>1, <2>2
  <1>7. SocketTyped'
    BY <1>1, <1>6 DEF SocketInv, SocketTyped
  <1>8. Receives' /\ ReadWakes'
    BY <1>1 DEF SocketInv, Receives, ReadWakes, Counted
  <1> QED BY <1>2, <1>5, <1>7, <1>8 DEF SocketInv

\* Facts about the types of the socket that every step uses.
LEMMA SocketFacts ==
    ASSUME SocketInv
    PROVE  /\ sk.oob \in Seq(Nat) /\ sk.out \in Seq(Nat) /\ toPeer \in Seq(Nat) /\ toPlug \in Seq(Nat)
           /\ inbox \in Seq(Nat) /\ Len(sk.oob) \in Nat /\ Len(sk.out) \in Nat
           /\ wrote \in 0 .. MaxOut /\ arrived \in Nat /\ MaxOut \in Nat /\ events \in Seq(EventNames)
  BY Numbers DEF SocketInv, SocketTyped, SocketRecord

\* sk_tcp_write.
LEMMA WriteKeeps == ASSUME SocketInv, Tcp!Write PROVE SocketInv'
  <1>1. PICK st : st = [sk EXCEPT !.out = Append(@, wrote + 1)]
    OBVIOUS
  <1>2. /\ sk.oob \in Seq(Nat) /\ sk.out \in Seq(Nat) /\ toPeer \in Seq(Nat) /\ wrote \in Nat
        /\ wrote + 1 \in wrote .. MaxOut /\ wrote' = wrote + 1 /\ wrote + 1 \in Nat
    BY SocketFacts DEF Tcp!Write
  <1>3. /\ st \in SocketRecord /\ st.oob = sk.oob /\ st.out = Append(sk.out, wrote + 1)
        /\ st.frozen = sk.frozen /\ st.frozenReadable = sk.frozenReadable
        /\ st.writable = sk.writable /\ st.pendingError = sk.pendingError
    <2>1. PICK u : u = Append(sk.out, wrote + 1)
      OBVIOUS
    <2>2. u \in Seq(Nat)
      BY <1>2, <2>1, AppendProperties
    <2>3. st = [sk EXCEPT !.out = u] /\ sk \in SocketRecord
      BY <1>1, <2>1 DEF SocketInv, SocketTyped
    <2>4. /\ st \in SocketRecord /\ st.oob = sk.oob /\ st.out = u
          /\ st.frozen = sk.frozen /\ st.frozenReadable = sk.frozenReadable
          /\ st.writable = sk.writable /\ st.pendingError = sk.pendingError
      BY <2>2, <2>3 DEF SocketRecord
    <2> QED BY <2>1, <2>4
  <1>4. Len(st.oob) <= 1 /\ Len(st.oob) + Len(st.out) <= wrote + 1
    <2>1. PICK a \in Nat, b \in Nat : a = Len(sk.oob) /\ b = Len(sk.out)
      BY SocketFacts
    <2>2. a <= 1 /\ a + b <= wrote
      BY <2>1 DEF SocketInv, Sends
    <2>3. Len(st.out) = b + 1
      BY <1>2, <1>3, <2>1
    <2>4. Len(st.oob) = a
      BY <1>3, <2>1
    <2>5. a + (b + 1) <= wrote + 1
      BY <1>2, <2>2
    <2> QED BY <2>2, <2>3, <2>4, <2>5
  <1>5. Ascending(toPeer \o (st.oob \o st.out), wrote + 1)
    <2>1. PICK p, q, r, x : p = toPeer /\ q = sk.oob /\ r = sk.out /\ x = wrote + 1
      OBVIOUS
    <2>2. p \in Seq(Nat) /\ q \in Seq(Nat) /\ r \in Seq(Nat) /\ x \in Nat
      BY <1>2, <2>1
    <2>3. p \o (q \o Append(r, x)) = Append(p \o (q \o r), x)
      BY <2>2, AppendLast
    <2>4. toPeer \o (st.oob \o st.out) = Append(toPeer \o (sk.oob \o sk.out), wrote + 1)
      BY <1>3, <2>1, <2>3
    <2> QED BY <1>2, <2>4, AscendingAppend DEF SocketInv, Sends
  <1>6. \/ st.writable /\ Tcp!TrySend(st)
        \/ /\ ~st.writable /\ ~sk.writable /\ st.pendingError = sk.pendingError /\ events' = events
           /\ sk' = st /\ UNCHANGED <<toPeer, outbox, writeOn>>
    BY <1>1, <1>3 DEF Tcp!Write, Tcp!SendOrKeep
  <1>7. /\ outcome = "fine" /\ events' = events /\ sentTo' = Len(sk'.out)
        /\ UNCHANGED <<readOn, inbox, ended, arrived, toPlug, outcome>>
    BY DEF Tcp!Write, Tcp!Open
  <1>8. events' \in Seq(EventNames) /\ (Among("READ", events) => Among("READ", events'))
    BY <1>7, SocketFacts
  <1> QED BY <1>2, <1>3, <1>4, <1>5, <1>6, <1>7, <1>8, Sent

\* sk_tcp_write_oob: what is dropped leaves an ascending rest.
LEMMA WriteOobKeeps == ASSUME SocketInv, Tcp!WriteOob PROVE SocketInv'
  <1>1. PICK st : st = [sk EXCEPT !.out = <<>>, !.oob = <<wrote + 1>>]
    OBVIOUS
  <1>2. /\ sk.oob \in Seq(Nat) /\ sk.out \in Seq(Nat) /\ toPeer \in Seq(Nat) /\ wrote \in Nat
        /\ wrote + 1 \in wrote .. MaxOut /\ wrote' = wrote + 1 /\ wrote + 1 \in Nat
    BY SocketFacts DEF Tcp!WriteOob
  <1>3. /\ st \in SocketRecord /\ st.oob = <<wrote + 1>> /\ st.out = <<>>
        /\ st.frozen = sk.frozen /\ st.frozenReadable = sk.frozenReadable
        /\ st.writable = sk.writable /\ st.pendingError = sk.pendingError
    <2>1. PICK u, v : u = <<wrote + 1>> /\ v = <<>>
      OBVIOUS
    <2>2. u \in Seq(Nat) /\ v \in Seq(Nat)
      BY <1>2, <2>1, EmptySeq
    <2>3. st = [sk EXCEPT !.out = v, !.oob = u] /\ sk \in SocketRecord
      BY <1>1, <2>1 DEF SocketInv, SocketTyped
    <2>4. /\ st \in SocketRecord /\ st.oob = u /\ st.out = v
          /\ st.frozen = sk.frozen /\ st.frozenReadable = sk.frozenReadable
          /\ st.writable = sk.writable /\ st.pendingError = sk.pendingError
      BY <2>2, <2>3 DEF SocketRecord
    <2> QED BY <2>1, <2>4
  <1>4. Len(st.oob) <= 1 /\ Len(st.oob) + Len(st.out) <= wrote + 1
    <2>1. Len(st.oob) = 1 /\ Len(st.out) = 0
      BY <1>2, <1>3
    <2> QED BY <1>2, <2>1
  <1>5. Ascending(toPeer \o (st.oob \o st.out), wrote + 1)
    <2>1. \A p \in Seq(Nat) : p \o (<<wrote + 1>> \o <<>>) = Append(p, wrote + 1)
      BY <1>2
    <2>2. toPeer \o (st.oob \o st.out) = Append(toPeer, wrote + 1)
      BY <1>2, <1>3, <2>1
    <2>3. sk.oob \o sk.out \in Seq(Nat)
      BY <1>2, ConcatProperties
    <2>4. Ascending(toPeer, wrote)
      BY <1>2, <2>3, AscendingFirst DEF SocketInv, Sends
    <2> QED BY <1>2, <2>2, <2>4, AscendingAppend
  <1>6. \/ st.writable /\ Tcp!TrySend(st)
        \/ /\ ~st.writable /\ ~sk.writable /\ st.pendingError = sk.pendingError /\ events' = events
           /\ sk' = st /\ UNCHANGED <<toPeer, outbox, writeOn>>
    BY <1>1, <1>3 DEF Tcp!WriteOob, Tcp!SendOrKeep
  <1>7. /\ outcome = "fine" /\ events' = events /\ sentTo' = Len(sk'.oob)
        /\ UNCHANGED <<readOn, inbox, ended, arrived, toPlug, outcome>>
    BY DEF Tcp!WriteOob, Tcp!Open
  <1>8. events' \in Seq(EventNames) /\ (Among("READ", events) => Among("READ", events'))
    BY <1>7, SocketFacts
  <1> QED BY <1>2, <1>3, <1>4, <1>5, <1>6, <1>7, <1>8, Sent

\* sk_tcp_set_frozen: what came meanwhile is looked at, so that FD_READ is enabled or posted.
LEMMA SetFrozenKeeps == ASSUME SocketInv, Tcp!SetFrozen PROVE SocketInv'
  <1> USE SocketFacts
  <1>1. /\ outcome = "fine" /\ sk' = [sk EXCEPT !.frozen = ~@, !.frozenReadable = FALSE]
        /\ UNCHANGED <<writeOn, ended, outbox, arrived, wrote, toPlug, toPeer, sentTo, outcome, inbox>>
    BY DEF Tcp!SetFrozen, Tcp!Open, Tcp!counts, Tcp!Reads
  <1>2. /\ sk' \in SocketRecord /\ sk'.oob = sk.oob /\ sk'.out = sk.out
        /\ sk'.writable = sk.writable /\ sk'.pendingError = sk.pendingError /\ ~sk'.frozenReadable
    BY <1>1 DEF SocketInv, SocketTyped, SocketRecord
  <1>3. /\ \/ /\ readOn' = (inbox = <<>>)
              /\ events' = IF inbox = <<>> THEN events ELSE Append(events, "READ")
           \/ ~(sk.frozen /\ sk.frozenReadable) /\ UNCHANGED <<readOn, events>>
    BY DEF Tcp!SetFrozen, Tcp!Reads
  <1>4. /\ events' \in Seq(EventNames) /\ readOn' \in BOOLEAN
        /\ Among("WRITE", events) => Among("WRITE", events')
        /\ readOn' => inbox = <<>>
        /\ ~readOn' => Among("READ", events')
    <2>1. \A x \in EventNames : /\ Append(events, x) \in Seq(EventNames) /\ Among(x, Append(events, x))
                                /\ Among("WRITE", events) => Among("WRITE", Append(events, x))
      BY PostedStays DEF EventNames
    <2>2. /\ readOn \in BOOLEAN
          /\ readOn => inbox = <<>>
          /\ ~readOn => sk.frozenReadable \/ Among("READ", events)
          /\ sk.frozenReadable => sk.frozen
      BY <1>1 DEF SocketInv, SocketTyped, ReadWakes
    <2>3. CASE UNCHANGED <<readOn, events>> /\ ~(sk.frozen /\ sk.frozenReadable)
      <3>1. readOn' = readOn /\ events' = events /\ events \in Seq(EventNames)
        BY <2>3
      <3> QED BY <2>2, <2>3, <3>1
    <2>4. CASE inbox = <<>> /\ readOn' = TRUE /\ events' = events
      BY <2>2, <2>4
    <2>5. CASE inbox # <<>> /\ readOn' = FALSE /\ events' = Append(events, "READ")
      <3>1. "READ" \in EventNames
        BY DEF EventNames
      <3> QED BY <2>1, <2>5, <3>1
    <2> QED BY <1>3, <2>3, <2>4, <2>5
  <1>5. SocketTyped'
    BY <1>1, <1>2, <1>4 DEF SocketInv, SocketTyped
  <1>6. Sends' /\ Receives'
    BY <1>1, <1>2 DEF SocketInv, Sends, Receives, Ascending, Counted
  <1>7. ReadWakes' /\ WriteWakes'
    BY <1>1, <1>2, <1>4 DEF SocketInv, ReadWakes, WriteWakes
  <1> QED BY <1>5, <1>6, <1>7 DEF SocketInv

\* FD_CONNECT.
LEMMA ConnectKeeps == ASSUME SocketInv, Tcp!Connect PROVE SocketInv'
  <1>1. /\ outcome = "fine" /\ events # <<>> /\ Head(events) = "CONNECT" /\ events' = Tail(events)
        /\ UNCHANGED <<readOn, writeOn, inbox, ended, outbox, arrived, wrote, toPlug, toPeer, sentTo>>
    BY DEF Tcp!Connect, Tcp!Event, Tcp!Open, Tcp!counts
  <1>2. /\ Tail(events) \in Seq(EventNames)
        /\ \A e \in {"READ", "WRITE"} : Among(e, events) => Among(e, Tail(events))
    <2>1. \A e \in {"READ", "WRITE"} : e \in EventNames /\ e # "CONNECT"
      BY DEF EventNames
    <2> QED BY <1>1, <2>1, SocketFacts, PostedStays
  <1>3. /\ sk' \in SocketRecord /\ sk'.oob = sk.oob /\ sk'.out = sk.out
        /\ sk'.frozen = sk.frozen /\ sk'.frozenReadable = sk.frozenReadable
        /\ sk'.pendingError = sk.pendingError /\ (sk'.writable \/ sk'.writable = sk.writable)
        /\ outcome' \in {"fine", "closed"}
    BY <1>1 DEF Tcp!Connect, SocketInv, SocketTyped, SocketRecord
  <1>4. SocketTyped'
    BY <1>1, <1>2, <1>3 DEF SocketInv, SocketTyped
  <1>5. Sends' /\ Receives'
    BY <1>1, <1>3 DEF SocketInv, Sends, Receives, Ascending, Counted
  <1>6. ReadWakes' /\ WriteWakes'
    BY <1>1, <1>2, <1>3 DEF SocketInv, ReadWakes, WriteWakes
  <1> QED BY <1>4, <1>5, <1>6 DEF SocketInv

\* FD_READ: while the socket is frozen it is remembered; otherwise what is read is the beginning of
\* what Winsock holds, and FD_READ is posted again if that was not all.
LEMMA ReadKeeps == ASSUME SocketInv, Tcp!Read PROVE SocketInv'
  <1>1. /\ outcome = "fine" /\ events # <<>> /\ Head(events) = "READ"
        /\ UNCHANGED <<writeOn, ended, outbox, arrived, wrote, toPeer, sentTo>>
    BY DEF Tcp!Read, Tcp!Event, Tcp!Open, Tcp!counts
  <1>2. /\ Tail(events) \in Seq(EventNames) /\ (Among("WRITE", events) => Among("WRITE", Tail(events)))
        /\ Append(Tail(events), "READ") \in Seq(EventNames) /\ Among("READ", Append(Tail(events), "READ"))
        /\ Among("WRITE", events) => Among("WRITE", Append(Tail(events), "READ"))
    <2>1. "WRITE" \in EventNames /\ "READ" \in EventNames /\ "WRITE" # "READ" /\ events \in Seq(EventNames)
      BY SocketFacts DEF EventNames
    <2>2. Tail(events) \in Seq(EventNames) /\ (Among("WRITE", events) => Among("WRITE", Tail(events)))
      BY <1>1, <2>1, PostedStays
    <2> QED BY <2>1, <2>2, PostedStays
  <1>3. CASE sk.frozen
    <2>1. /\ sk' = [sk EXCEPT !.frozenReadable = TRUE] /\ events' = Tail(events)
          /\ UNCHANGED <<readOn, inbox, toPlug, outcome>>
      BY <1>3 DEF Tcp!Read
    <2>2. /\ sk' \in SocketRecord /\ sk'.oob = sk.oob /\ sk'.out = sk.out
          /\ sk'.frozen /\ sk'.frozenReadable
          /\ sk'.writable = sk.writable /\ sk'.pendingError = sk.pendingError
      BY <1>3, <2>1 DEF SocketInv, SocketTyped, SocketRecord
    <2>3. SocketTyped'
      BY <1>1, <1>2, <2>1, <2>2 DEF SocketInv, SocketTyped
    <2>4. Sends' /\ Receives'
      BY <1>1, <2>1, <2>2 DEF SocketInv, Sends, Receives, Ascending, Counted
    <2>5. ReadWakes' /\ WriteWakes'
      BY <1>1, <1>2, <2>1, <2>2 DEF SocketInv, ReadWakes, WriteWakes
    <2> QED BY <2>3, <2>4, <2>5 DEF SocketInv
  <1>4. CASE ~sk.frozen /\ inbox = <<>> /\ ended # "no"
    <2>1. events' = Tail(events) /\ outcome' = "closed" /\ UNCHANGED <<sk, readOn, inbox, toPlug>>
      BY <1>4 DEF Tcp!Read
    <2>2. SocketTyped'
      BY <1>1, <1>2, <2>1 DEF SocketInv, SocketTyped
    <2>3. Sends' /\ Receives' /\ ReadWakes' /\ WriteWakes'
      BY <1>1, <2>1 DEF SocketInv, Sends, Receives, ReadWakes, WriteWakes, Ascending, Counted
    <2> QED BY <2>2, <2>3 DEF SocketInv
  <1>5. CASE ~sk.frozen /\ ~(inbox = <<>> /\ ended # "no")
    <2>1. PICK k \in 0 .. Len(inbox) :
            /\ toPlug' = toPlug \o SubSeq(inbox, 1, k)
            /\ Tcp!Reads(SubSeq(inbox, k + 1, Len(inbox)), Tail(events))
            /\ UNCHANGED <<sk, outcome>>
      BY <1>5 DEF Tcp!Read
    <2>2. PICK first, rest : first = SubSeq(inbox, 1, k) /\ rest = SubSeq(inbox, k + 1, Len(inbox))
      OBVIOUS
    <2>3. first \in Seq(Nat) /\ rest \in Seq(Nat) /\ first \o rest = inbox
      BY <2>2, SocketFacts, CutIsWhole
    <2>4. /\ inbox' = rest /\ readOn' = (rest = <<>>) /\ toPlug' = toPlug \o first
          /\ events' = IF rest = <<>> THEN Tail(events) ELSE Append(Tail(events), "READ")
          /\ sk' = sk /\ outcome' = outcome
      BY <2>1, <2>2 DEF Tcp!Reads
    <2>5. toPlug \o first \in Seq(Nat) /\ (toPlug \o first) \o rest = toPlug \o inbox
      <3>1. toPlug \in Seq(Nat)
        BY SocketFacts
      <3> QED BY <2>3, <3>1, Regroup, ConcatProperties
    <2>6. SocketTyped'
      BY <1>1, <1>2, <2>3, <2>4, <2>5 DEF SocketInv, SocketTyped
    <2>7. Receives'
      <3>1. Counted((toPlug \o first) \o rest, arrived)
        BY <1>1, <2>5 DEF SocketInv, Receives
      <3>2. Counted(toPlug \o first, Len(toPlug \o first))
        BY <2>3, <2>5, <3>1, SocketFacts, CountedFirst
      <3> QED BY <1>1, <2>4, <3>1, <3>2 DEF Receives
    <2>8. Sends'
      BY <1>1, <2>4 DEF SocketInv, Sends, Ascending
    <2>9. ReadWakes' /\ WriteWakes'
      BY <1>1, <1>2, <1>5, <2>4 DEF SocketInv, ReadWakes, WriteWakes
    <2> QED BY <2>6, <2>7, <2>8, <2>9 DEF SocketInv
  <1> QED BY <1>3, <1>4, <1>5

\* FD_WRITE.
LEMMA WriteEventKeeps == ASSUME SocketInv, Tcp!WriteEvent PROVE SocketInv'
  <1>1. PICK st : st = [sk EXCEPT !.writable = TRUE]
    OBVIOUS
  <1>2. /\ outcome = "fine" /\ events # <<>> /\ Head(events) = "WRITE" /\ events' = Tail(events)
        /\ Tcp!TrySend(st) /\ sentTo' \in {Len(sk'.oob) + Len(sk'.out), sentTo}
        /\ UNCHANGED <<readOn, inbox, ended, arrived, wrote, toPlug, outcome>>
    BY <1>1 DEF Tcp!WriteEvent, Tcp!Event, Tcp!Open, Tcp!counts, Tcp!Size
  <1>3. events' \in Seq(EventNames) /\ (Among("READ", events) => Among("READ", events'))
    <2>1. "READ" \in EventNames /\ "WRITE" # "READ" /\ events \in Seq(EventNames)
      BY SocketFacts DEF EventNames
    <2> QED BY <1>2, <2>1, PostedStays
  <1>4. /\ st \in SocketRecord /\ st.oob = sk.oob /\ st.out = sk.out /\ st.writable
        /\ st.frozen = sk.frozen /\ st.frozenReadable = sk.frozenReadable
    BY <1>1 DEF SocketInv, SocketTyped, SocketRecord
  <1>5. /\ Len(st.oob) <= 1 /\ Len(st.oob) + Len(st.out) <= wrote
        /\ Ascending(toPeer \o (st.oob \o st.out), wrote)
    BY <1>4 DEF SocketInv, Sends
  <1>6. wrote \in wrote .. MaxOut
    BY SocketFacts
  <1> QED BY <1>2, <1>3, <1>4, <1>5, <1>6, Sent

\* FD_CLOSE: what the plug is given is a beginning of what arrived.
LEMMA CloseEventKeeps == ASSUME SocketInv, Tcp!CloseEvent PROVE SocketInv'
  <1>1. /\ outcome = "fine" /\ events' = Tail(events) /\ inbox' = <<>> /\ outcome' \in {"closed", "freed"}
        /\ UNCHANGED <<sk, readOn, writeOn, ended, outbox, arrived, wrote, toPeer, sentTo>>
    BY DEF Tcp!CloseEvent, Tcp!Event, Tcp!Open, Tcp!counts
  <1>2. PICK k \in 0 .. Len(inbox) : toPlug' = toPlug \o SubSeq(inbox, 1, k)
    <2>1. Len(inbox) \in Nat /\ SubSeq(inbox, 1, Len(inbox)) = inbox
      BY SocketFacts, SubSeqFull, LenProperties
    <2>2. Len(inbox) \in 0 .. Len(inbox) /\ 1 .. Len(inbox) \subseteq 0 .. Len(inbox)
      BY <2>1
    <2>3. CASE toPlug' = toPlug \o inbox
      BY <2>1, <2>2, <2>3
    <2>4. CASE \E k \in 1 .. Len(inbox) : toPlug' = toPlug \o SubSeq(inbox, 1, k)
      BY <2>2, <2>4
    <2> QED BY <2>3, <2>4 DEF Tcp!CloseEvent
  <1>3. PICK first, rest : first = SubSeq(inbox, 1, k) /\ rest = SubSeq(inbox, k + 1, Len(inbox))
    OBVIOUS
  <1>4. first \in Seq(Nat) /\ rest \in Seq(Nat) /\ first \o rest = inbox
    BY <1>3, SocketFacts, CutIsWhole
  <1>5. toPlug \o first \in Seq(Nat) /\ (toPlug \o first) \o rest = toPlug \o inbox
    <2>1. toPlug \in Seq(Nat)
      BY SocketFacts
    <2> QED BY <1>4, <2>1, Regroup, ConcatProperties
  <1>6. Counted(toPlug \o first, Len(toPlug \o first))
    <2>1. Counted((toPlug \o first) \o rest, arrived)
      BY <1>1, <1>5 DEF SocketInv, Receives
    <2> QED BY <1>4, <1>5, <2>1, SocketFacts, CountedFirst
  <1>7. Tail(events) \in Seq(EventNames)
    <2>1. events # <<>>
      BY DEF Tcp!CloseEvent, Tcp!Event
    <2> QED BY <2>1, SocketFacts
  <1>8. SocketTyped'
    BY <1>1, <1>2, <1>3, <1>5, <1>7, EmptySeq DEF SocketInv, SocketTyped
  <1>9. Sends' /\ Receives' /\ ReadWakes' /\ WriteWakes'
    BY <1>1, <1>2, <1>3, <1>6 DEF SocketInv, Sends, Receives, ReadWakes, WriteWakes, Ascending
  <1> QED BY <1>8, <1>9 DEF SocketInv

\* sk_tcp_close, and net_pending_errors.
LEMMA CloseKeeps == ASSUME SocketInv, Tcp!Close \/ Tcp!PendingError PROVE SocketInv'
  <1>1. /\ outcome = "fine" /\ outcome' = "closed"
        /\ UNCHANGED <<sk, events, readOn, writeOn, inbox, ended, outbox, arrived, wrote, toPlug, toPeer, sentTo>>
    BY DEF Tcp!Close, Tcp!PendingError, Tcp!Open, Tcp!winsock, Tcp!counts
  <1> QED BY <1>1 DEF SocketInv, SocketTyped, Sends, Receives, ReadWakes, WriteWakes, Ascending, Counted

\* A block arrives: FD_READ is posted, unless it has been already.
LEMMA ArrivesKeeps == ASSUME SocketInv, Tcp!Arrives PROVE SocketInv'
  <1>1. /\ arrived' = arrived + 1 /\ inbox' = Append(inbox, arrived + 1) /\ readOn' = FALSE
        /\ events' = IF readOn THEN Append(events, "READ") ELSE events
        /\ UNCHANGED <<sk, writeOn, ended, outbox, wrote, toPlug, toPeer, sentTo, outcome>>
    BY DEF Tcp!Arrives
  <1>2. /\ events' \in Seq(EventNames) /\ (Among("WRITE", events) => Among("WRITE", events'))
        /\ readOn \/ Among("READ", events) => Among("READ", events')
    <2>1. "WRITE" \in EventNames /\ "READ" \in EventNames /\ events \in Seq(EventNames)
      BY SocketFacts DEF EventNames
    <2>2. /\ Append(events, "READ") \in Seq(EventNames) /\ Among("READ", Append(events, "READ"))
          /\ Among("WRITE", events) => Among("WRITE", Append(events, "READ"))
      BY <2>1, PostedStays
    <2> QED BY <1>1, <2>1, <2>2
  <1>3. arrived' \in Nat /\ inbox' \in Seq(Nat) /\ readOn' \in BOOLEAN
    <2>1. arrived + 1 \in Nat
      BY SocketFacts
    <2> QED BY <1>1, <2>1, SocketFacts, AppendProperties
  <1>4. SocketTyped'
    BY <1>1, <1>2, <1>3 DEF SocketInv, SocketTyped
  <1>5. Receives'
    <2>1. Counted(toPlug', Len(toPlug'))
      BY <1>1 DEF SocketInv, Receives, Counted
    <2>2. ASSUME outcome = "fine" PROVE Counted(toPlug \o Append(inbox, arrived + 1), arrived + 1)
      <3>1. PICK p, q, x : p = toPlug /\ q = inbox /\ x = arrived
        OBVIOUS
      <3>2. p \in Seq(Nat) /\ q \in Seq(Nat) /\ x \in Nat /\ x + 1 \in Nat
        BY <3>1, SocketFacts
      <3>3. Counted(p \o q, x)
        BY <2>2, <3>1 DEF SocketInv, Receives
      <3>4. Counted(Append(p \o q, x + 1), x + 1)
        BY <3>2, <3>3, CountedAppend
      <3>5. p \o Append(q, x + 1) = Append(p \o q, x + 1)
        <4>1. <<>> \in Seq(Nat)
          OBVIOUS
        <4>2. p \o (<<>> \o Append(q, x + 1)) = Append(p \o (<<>> \o q), x + 1)
          BY <3>2, <4>1, AppendLast
        <4>3. Append(q, x + 1) \in Seq(Nat)
          BY <3>2, AppendProperties
        <4>4. <<>> \o Append(q, x + 1) = Append(q, x + 1) /\ <<>> \o q = q
          BY <3>2, <4>3, ConcatEmptySeq
        <4> QED BY <4>2, <4>4
      <3> QED BY <3>1, <3>4, <3>5
    <2> QED BY <1>1, <2>1, <2>2 DEF Receives
  <1>6. Sends'
    BY <1>1 DEF SocketInv, Sends, Ascending
  <1>7. ReadWakes' /\ WriteWakes'
    BY <1>1, <1>2 DEF SocketInv, ReadWakes, WriteWakes
  <1> QED BY <1>4, <1>5, <1>6, <1>7 DEF SocketInv

\* The peer closes.
LEMMA PeerClosesKeeps == ASSUME SocketInv, Tcp!PeerCloses PROVE SocketInv'
  <1>1. /\ ended' \in {"yes", "reset"} /\ events' = Append(events, "CLOSE")
        /\ UNCHANGED <<sk, readOn, writeOn, inbox, outbox, arrived, wrote, toPlug, toPeer, sentTo, outcome>>
    BY DEF Tcp!PeerCloses, Tcp!counts
  <1>2. /\ events' \in Seq(EventNames)
        /\ \A e \in {"READ", "WRITE"} : Among(e, events) => Among(e, events')
    <2>1. "CLOSE" \in EventNames /\ {"READ", "WRITE"} \subseteq EventNames /\ events \in Seq(EventNames)
      BY SocketFacts DEF EventNames
    <2> QED BY <1>1, <2>1, PostedStays
  <1>3. SocketTyped'
    BY <1>1, <1>2 DEF SocketInv, SocketTyped
  <1>4. Sends' /\ Receives'
    BY <1>1 DEF SocketInv, Sends, Receives, Ascending, Counted
  <1>5. ReadWakes' /\ WriteWakes'
    BY <1>1, <1>2 DEF SocketInv, ReadWakes, WriteWakes
  <1> QED BY <1>3, <1>4, <1>5 DEF SocketInv

\* A block goes on its way: FD_WRITE is posted if it was awaited.
LEMMA DrainsKeeps == ASSUME SocketInv, Tcp!Drains PROVE SocketInv'
  <1>1. /\ outbox > 0 /\ outbox' = outbox - 1 /\ writeOn' = FALSE
        /\ events' = IF writeOn THEN Append(events, "WRITE") ELSE events
        /\ UNCHANGED <<sk, readOn, inbox, ended, arrived, wrote, toPlug, toPeer, sentTo, outcome>>
    BY DEF Tcp!Drains, Tcp!counts
  <1>2. /\ events' \in Seq(EventNames) /\ (Among("READ", events) => Among("READ", events'))
        /\ writeOn \/ Among("WRITE", events) => Among("WRITE", events')
    <2>1. "WRITE" \in EventNames /\ "READ" \in EventNames /\ events \in Seq(EventNames)
      BY SocketFacts DEF EventNames
    <2>2. /\ Append(events, "WRITE") \in Seq(EventNames) /\ Among("WRITE", Append(events, "WRITE"))
          /\ Among("READ", events) => Among("READ", Append(events, "WRITE"))
      BY <2>1, PostedStays
    <2> QED BY <1>1, <2>1, <2>2
  <1>3. outbox' \in 0 .. Room /\ writeOn' \in BOOLEAN
    <2>1. outbox \in 0 .. Room /\ Room \in Nat
      BY Numbers DEF SocketInv, SocketTyped
    <2>2. outbox - 1 \in 0 .. Room
      BY <1>1, <2>1
    <2> QED BY <1>1, <2>2
  <1>4. SocketTyped'
    BY <1>1, <1>2, <1>3 DEF SocketInv, SocketTyped
  <1>5. Sends' /\ Receives'
    BY <1>1 DEF SocketInv, Sends, Receives, Ascending, Counted
  <1>6. ReadWakes' /\ WriteWakes'
    BY <1>1, <1>2 DEF SocketInv, ReadWakes, WriteWakes
  <1> QED BY <1>4, <1>5, <1>6 DEF SocketInv

\* A socket that has just been made, by whatever call.
LEMMA SocketBegins == ASSUME Tcp!Init PROVE SocketInv
  <1>1. /\ sk \in SocketRecord /\ sk.oob = <<>> /\ sk.out = <<>> /\ ~sk.frozenReadable
        /\ sk.writable \/ ~sk.connected
    <2>1. <<>> \in Seq(Nat)
      OBVIOUS
    <2>2. /\ Tcp!Fresh \in SocketRecord /\ Tcp!Fresh.oob = <<>> /\ Tcp!Fresh.out = <<>>
          /\ ~Tcp!Fresh.frozenReadable
      BY <2>1 DEF Tcp!Fresh, SocketRecord
    <2>3. \/ sk = [Tcp!Fresh EXCEPT !.connected = FALSE]
          \/ sk = [Tcp!Fresh EXCEPT !.writable = TRUE]
          \/ sk = [Tcp!Fresh EXCEPT !.writable = TRUE, !.frozen = TRUE]
      BY DEF Tcp!Init, Tcp!Origins
    <2> QED BY <2>2, <2>3 DEF SocketRecord
  <1>2. events \in Seq(EventNames) /\ (~sk.connected => Among("WRITE", events))
    <2>1. CASE sk.connected
      BY <2>1, EmptySeq DEF Tcp!Init
    <2>2. CASE ~sk.connected
      <3>1. events = <<"CONNECT", "WRITE">>
        BY <2>2 DEF Tcp!Init
      <3>2. events \in Seq(EventNames) /\ Len(events) = 2 /\ events[2] = "WRITE"
        BY <3>1 DEF EventNames
      <3> QED BY <3>2 DEF Among
    <2> QED BY <2>1, <2>2
  <1>3. SocketTyped
    <2>1. 0 \in 0 .. Room /\ 0 \in 0 .. MaxOut /\ 0 \in 0 .. MaxOut + 1 /\ <<>> \in Seq(Nat)
      BY Numbers
    <2> QED BY <1>1, <1>2, <2>1 DEF Tcp!Init, SocketTyped
  <1>4. Sends
    <2>1. toPeer \o (sk.oob \o sk.out) = <<>> /\ Len(sk.oob) = 0 /\ Len(sk.out) = 0 /\ wrote = 0
      BY <1>1, EmptySeq, ConcatEmptySeq DEF Tcp!Init
    <2> QED BY <2>1, EmptySeq DEF Sends, Ascending
  <1>5. Receives
    <2>1. toPlug \o inbox = <<>> /\ toPlug = <<>> /\ Len(<<>>) = 0 /\ arrived = 0
      BY EmptySeq, ConcatEmptySeq DEF Tcp!Init
    <2> QED BY <2>1, EmptySeq DEF Receives, Counted
  <1>6. ReadWakes
    BY <1>1 DEF Tcp!Init, ReadWakes
  <1>7. WriteWakes
    <2>1. Len(sk.oob) + Len(sk.out) = 0
      BY <1>1, EmptySeq
    <2> QED BY <1>1, <1>2, <2>1 DEF WriteWakes
  <1> QED BY <1>3, <1>4, <1>5, <1>6, <1>7 DEF SocketInv

\* Every step of the socket.
LEMMA SocketStep == ASSUME SocketInv, [Tcp!Next]_socketVars PROVE SocketInv'
  <1>1. CASE UNCHANGED socketVars
    BY <1>1 DEF socketVars, SocketInv, SocketTyped, Sends, Receives, ReadWakes, WriteWakes, Ascending, Counted
  <1>2. CASE Tcp!SelectResult
    BY <1>2, ConnectKeeps, ReadKeeps, WriteEventKeeps, CloseEventKeeps DEF Tcp!SelectResult
  <1>3. CASE Tcp!Next /\ ~Tcp!SelectResult
    BY <1>3, WriteKeeps, WriteOobKeeps, SetFrozenKeeps, CloseKeeps, ArrivesKeeps, PeerClosesKeeps, DrainsKeeps
    DEF Tcp!Next
  <1> QED BY <1>1, <1>2, <1>3

\* What the invariant says of the plug and of the peer.
LEMMA SocketSound == ASSUME SocketInv PROVE Tcp!TypeOK /\ Tcp!InOrder /\ Tcp!NoLostWakeup
  <1>1. PICK a \in Nat, b \in Nat : a = Len(sk.oob) /\ b = Len(sk.out)
    BY SocketFacts
  <1>2. a <= 1 /\ a + b <= wrote /\ wrote <= MaxOut /\ wrote \in Nat /\ MaxOut \in Nat
    <2>1. a <= 1 /\ a + b <= wrote
      BY <1>1 DEF SocketInv, Sends
    <2> QED BY <2>1, SocketFacts
  <1>3. Tcp!TypeOK
    <2>1. b <= MaxOut
      BY <1>2
    <2>2. /\ sk \in SocketRecord /\ outbox \in 0 .. Room /\ ended \in {"no", "yes", "reset"}
          /\ outcome \in {"fine", "closed", "freed"} /\ sentTo \in 0 .. MaxOut + 1
      BY DEF SocketInv, SocketTyped
    <2> QED BY <1>1, <1>2, <2>1, <2>2 DEF Tcp!TypeOK, SocketRecord
  <1>4. Tcp!InOrder
    <2>1. toPlug = [i \in 1 .. Len(toPlug) |-> i]
      BY DEF SocketInv, Receives, Counted
    <2>2. Ascending(toPeer, wrote)
      <3>1. sk.oob \o sk.out \in Seq(Nat) /\ toPeer \in Seq(Nat) /\ wrote \in Nat
        BY SocketFacts, ConcatProperties
      <3> QED BY <3>1, AscendingFirst DEF SocketInv, Sends
    <2>3. DOMAIN toPeer = 1 .. Len(toPeer)
      BY SocketFacts, LenProperties
    <2> QED BY <2>1, <2>2, <2>3 DEF Tcp!InOrder, Ascending
  <1>5. Tcp!NoLostWakeup
    <2>1. DOMAIN events = 1 .. Len(events)
      BY SocketFacts, LenProperties
    <2>2. outcome = "fine" /\ inbox # <<>> => sk.frozenReadable \/ Among("READ", events)
      BY DEF SocketInv, ReadWakes, SocketTyped
    <2>3. outcome = "fine" /\ Len(sk.oob) + Len(sk.out) > 0
            => sk.pendingError \/ writeOn \/ ended # "no" \/ Among("WRITE", events)
      BY DEF SocketInv, WriteWakes
    <2> QED BY <2>1, <2>2, <2>3 DEF Tcp!NoLostWakeup, Tcp!Open, Tcp!Size, Among
  <1> QED BY <1>3, <1>4, <1>5

-----------------------------------------------------------------------------
(* The proxy.  What the backend has received, what waits and what is under    *)
(* way are the reply of the proxy server that is being read, if one is, and   *)
(* the blocks of the server in order, until the close of the connection lets  *)
(* what is under way overtake what waits; what was sent to the proxy server is *)
(* the requests of the negotiation, and then the blocks of the backend, which *)
(* ascend.                                                                    *)

Words == {"data", "2xx", "4xx", "header", "blank", "lf", "granted", "rejected", "rest", "v5", "none",
          "password", "gssapi", "chap", "refused", "v1", "ok", "no"}
Heard == [t : Words, n : Nat]
Spoken == Heard \cup [t : {"request"}, r : {"methods", "password", "connect"}]

\* u is what is left of a reply, and then n blocks.
Said(u, reply, n) ==
    /\ u \in Seq(Heard) /\ Len(u) = Len(reply) + n
    /\ \A i \in 1 .. Len(reply) : u[i] = Proxied!Tok(reply[i])
    /\ \A i \in 1 .. n : u[Len(reply) + i] = Proxied!Data(i)

\* From the element a + 1 on, q is blocks of the backend, ascending up to w.
DataFrom(q, a, w) ==
    \A i \in a + 1 .. Len(q) :
      /\ Proxied!IsData(q[i]) /\ q[i].n \in 0 .. w
      /\ \A j \in a + 1 .. i - 1 : q[j].n < q[i].n

States(method) ==
    CASE method = "http" -> {"s1", "s2"}
      [] method = "socks5" -> {"s1", "s3", "s7"}
      [] method = "direct" -> {}
      [] OTHER -> {"s1"}
\* The request that was sent last, and how many have been sent.
Asked(method, state) ==
    IF method = "socks5" /\ state = "s1" THEN "methods" ELSE IF state = "s7" THEN "password" ELSE "connect"
Counts(method, state) ==
    CASE method = "direct" -> {0}
      [] method # "direct" /\ state \in {"s1", "s2"} -> {1}
      [] method # "direct" /\ state = "s7" -> {2}
      [] method # "direct" /\ state = "s3" -> {2, 3}
      [] OTHER -> {1, 2, 3}
HeaderLines == {<<"header", "blank">>, <<"blank">>, <<"lf">>}
Heralds(state) == IF state = "s2" THEN HeaderLines ELSE Proxied!Replies(Asked(how.method, state))

ProxyTyped ==
    /\ how \in [method : {"http", "socks4", "socks5", "telnet", "direct"}, creds : BOOLEAN,
                addr : {"name", "ipv4"}, backend : {"raw", "ssh"}]
    /\ pstate \in States(how.method) \cup {"active"}
    /\ link \in {"open", "closing", "closed"} /\ fate \in {"fine", "freed", "recursion"}
    /\ subFrozen \in BOOLEAN /\ pfreeze \in BOOLEAN
    /\ pin \in Seq(Heard) /\ feed \in Seq(Heard) /\ got \in Seq(Heard)
    /\ pout \in Seq(Heard) /\ poob \in Seq(Heard) /\ wire \in Seq(Spoken)
    /\ served \in Nat /\ writes \in 0 .. MaxWrites /\ sentData \in 0 .. MaxData

\* After a requests come the blocks of the backend, which wait while the negotiation goes on.
Asks(a) ==
    /\ a \in Counts(how.method, pstate) /\ a <= Len(wire) /\ served <= a
    /\ \A i \in 1 .. a : ~Proxied!IsData(wire[i])
    /\ a > 0 => wire[a] = Proxied!Request(Asked(how.method, pstate))
    /\ \A i \in 1 .. a - 1 : wire[i] # Proxied!Request("connect")
    /\ DataFrom(wire, a, writes)
    /\ IF pstate = "active"
         THEN pout = <<>> /\ poob = <<>> /\ served = a
         ELSE Len(wire) = a /\ DataFrom(poob \o pout, 0, writes)

\* The backend has g and p waits in front of it: g is the blocks of the server in order, each once,
\* but for the copies of the one it is being given and for what has overtaken p.
Passed(g, p, f, l) ==
    /\ \E m \in 0 .. Len(g) :
         /\ \A i \in 1 .. m : g[i] = Proxied!Data(i)
         /\ \/ m = Len(g)
            \/ /\ f = "recursion" /\ p # <<>> /\ Head(p) = Proxied!Data(m)
               /\ \A i \in m + 1 .. Len(g) : g[i] = Proxied!Data(m)
            \/ /\ l # "open" /\ \A i \in DOMAIN p : p[i] = Proxied!Data(m + i)
               /\ \A i \in m + 1 .. Len(g) : g[i] = Proxied!Data(Len(p) + i)
    /\ f = "recursion" => p # <<>> /\ g # <<>> /\ Head(p) = g[Len(g)]

\* While FD_CLOSE delivers: the blocks after the first m have overtaken p, and so will q.
Overtaking(g, p, q, m) ==
    /\ \A i \in 1 .. m : g[i] = Proxied!Data(i)
    /\ \A i \in 1 .. Len(p) : p[i] = Proxied!Data(m + i)
    /\ \A i \in m + 1 .. Len(g) : g[i] = Proxied!Data(Len(p) + i)
    /\ \A i \in 1 .. Len(q) : q[i] = Proxied!Data(Len(p) + (Len(g) + i))

\* What waits in front of the backend and what is under way follow on what it has; during the
\* negotiation one reply is being read, or the last request has not been answered.
Hears(a) ==
    link # "closed" /\ fate = "fine" =>
      IF pstate = "active"
        THEN /\ \/ Said(got \o (pin \o feed), <<>>, sentData)
                \/ link = "closing" /\ \E m \in 0 .. Len(got) : Overtaking(got, pin, feed, m)
             /\ link = "open" /\ pin # <<>> => subFrozen
        ELSE /\ got = <<>>
             /\ \/ served = a /\ \E reply \in Heralds(pstate) : Said(pin \o feed, reply, sentData)
                \/ served = a - 1 /\ pin = <<>> /\ feed = <<>> /\ sentData = 0 /\ pstate # "s2"
             /\ Asked(how.method, pstate) # "connect" => sentData = 0

ProxyInv ==
    /\ ProxyTyped /\ Passed(got, pin, fate, link) /\ (how.addr = "name" => how.method # "direct")
    /\ \E a \in 0 .. 3 : Asks(a) /\ Hears(a)

\* What is dropped from the first of two sequences is dropped from the whole.
LEMMA DropFirst ==
    ASSUME NEW p \in Seq(Heard), NEW q \in Seq(Heard), NEW k \in 0 .. Len(p)
    PROVE  /\ Proxied!Drop(k, p) \in Seq(Heard) /\ Len(Proxied!Drop(k, p)) = Len(p) - k
           /\ Len(Proxied!Drop(k, p) \o q) = Len(p \o q) - k
           /\ \A i \in 1 .. Len(p \o q) - k : (Proxied!Drop(k, p) \o q)[i] = (p \o q)[i + k]
  <1>1. PICK d : d = Proxied!Drop(k, p)
    OBVIOUS
  <1>2. d \in Seq(Heard) /\ Len(d) = Len(p) - k
    BY <1>1, CutIsWhole DEF Proxied!Drop
  <1>3. \A i \in 1 .. Len(p) - k : d[i] = p[i + k]
    BY <1>1 DEF Proxied!Drop
  <1>4. PICK m \in Nat, n \in Nat : m = Len(p) /\ n = Len(q)
    BY LenProperties
  <1>5. /\ Len(p \o q) = m + n /\ Len(d \o q) = (m - k) + n
        /\ \A i \in 1 .. m + n : (p \o q)[i] = IF i <= m THEN p[i] ELSE q[i - m]
        /\ \A i \in 1 .. (m - k) + n : (d \o q)[i] = IF i <= m - k THEN d[i] ELSE q[i - (m - k)]
    BY <1>2, <1>4
  <1>6. k \in 0 .. m
    BY <1>4
  <1>7. ASSUME NEW i \in 1 .. (m + n) - k PROVE (d \o q)[i] = (p \o q)[i + k]
    <2>1. i \in 1 .. (m - k) + n /\ i + k \in 1 .. m + n /\ (i <= m - k <=> i + k <= m)
          /\ i - (m - k) = (i + k) - m
      BY <1>6
    <2>2. CASE i <= m - k
      BY <1>3, <1>4, <1>5, <1>6, <2>1, <2>2
    <2>3. CASE ~(i <= m - k)
      BY <1>5, <2>1, <2>3
    <2> QED BY <2>2, <2>3
  <1>8. (m - k) + n = (m + n) - k
    BY <1>6
  <1> QED BY <1>1, <1>2, <1>4, <1>5, <1>7, <1>8

\* The tokens of a reply that have been read, and what is said after some of them.
LEMMA Reading ==
    ASSUME NEW p \in Seq(Heard), NEW q \in Seq(Heard), NEW n \in Nat,
           NEW s, Len(s) \in Nat, Said(p \o q, s, n)
    PROVE  /\ Len(p) + Len(q) = Len(s) + n
           /\ \A i \in 1 .. Len(p) : i <= Len(s) => p[i] = Proxied!Tok(s[i])
           /\ \A k \in 0 .. Len(p) : \A t :
                /\ Len(t) \in Nat /\ Len(s) = k + Len(t)
                /\ \A i \in 1 .. Len(t) : t[i] = s[i + k]
                => /\ Proxied!Drop(k, p) \in Seq(Heard) /\ Len(Proxied!Drop(k, p)) = Len(p) - k
                   /\ Said(Proxied!Drop(k, p) \o q, t, n)
  <1>1. PICK u : u = p \o q
    OBVIOUS
  <1>2. /\ u \in Seq(Heard) /\ Len(u) = Len(p) + Len(q) /\ Len(p) \in Nat /\ Len(q) \in Nat /\ Len(s) \in Nat
        /\ \A i \in 1 .. Len(p) : u[i] = p[i]
    BY <1>1, ConcatProperties, LenProperties
  <1>3. /\ Len(u) = Len(s) + n
        /\ \A i \in 1 .. Len(s) : u[i] = Proxied!Tok(s[i])
        /\ \A i \in 1 .. n : u[Len(s) + i] = Proxied!Data(i)
    BY <1>1 DEF Said
  <1>4. ASSUME NEW k \in 0 .. Len(p), NEW t, Len(t) \in Nat, Len(s) = k + Len(t),
               \A i \in 1 .. Len(t) : t[i] = s[i + k]
        PROVE  /\ Proxied!Drop(k, p) \in Seq(Heard) /\ Len(Proxied!Drop(k, p)) = Len(p) - k
               /\ Said(Proxied!Drop(k, p) \o q, t, n)
    <2>1. PICK v : v = Proxied!Drop(k, p) \o q
      OBVIOUS
    <2>2. /\ Proxied!Drop(k, p) \in Seq(Heard) /\ Len(Proxied!Drop(k, p)) = Len(p) - k
          /\ Len(v) = Len(u) - k /\ \A i \in 1 .. Len(u) - k : v[i] = u[i + k]
      BY <1>1, <2>1, DropFirst
    <2>3. v \in Seq(Heard)
      BY <2>1, <2>2, ConcatProperties
    <2>4. PICK b \in Nat : b = Len(t)
      BY <1>4
    <2>5. k \in Nat /\ Len(u) = (k + b) + n /\ Len(s) = k + b
      <3>1. Len(s) = k + b
        BY <1>4, <2>4
      <3>2. k \in Nat
        BY <1>2
      <3> QED BY <1>3, <3>1, <3>2
    <2>6. Len(v) = b + n
      BY <2>2, <2>5
    <2>7. \A i \in 1 .. b : v[i] = Proxied!Tok(t[i])
      <3>1. ASSUME NEW i \in 1 .. b PROVE v[i] = Proxied!Tok(t[i])
        <4>1. i \in 1 .. Len(u) - k /\ i + k \in 1 .. Len(s)
          BY <2>5
        <4> QED BY <1>3, <1>4, <2>2, <2>4, <4>1
      <3> QED BY <3>1
    <2>8. \A i \in 1 .. n : v[b + i] = Proxied!Data(i)
      <3>1. ASSUME NEW i \in 1 .. n PROVE v[b + i] = Proxied!Data(i)
        <4>1. b + i \in 1 .. Len(u) - k /\ (b + i) + k = Len(s) + i
          BY <2>5
        <4> QED BY <1>3, <2>2, <4>1
      <3> QED BY <3>1
    <2> QED BY <2>1, <2>2, <2>3, <2>4, <2>6, <2>7, <2>8 DEF Said
  <1>5. ASSUME NEW i \in 1 .. Len(p), i <= Len(s) PROVE p[i] = Proxied!Tok(s[i])
    <2>1. i \in 1 .. Len(s)
      BY <1>2, <1>5
    <2> QED BY <1>2, <1>3, <2>1
  <1> QED BY <1>2, <1>3, <1>4, <1>5

-----------------------------------------------------------------------------
(* The negotiation makes progress or waits: what it leaves is what is left of  *)
(* the reply, and the blocks that follow.                                      *)

Progress(step, rest, n) ==
    /\ step.in \in Seq(Heard)
    /\ \/ step.to = "failed"
       \/ /\ step.to = "active" /\ Asked(how.method, pstate) = "connect"
          /\ Said(step.in \o rest, <<>>, n)
       \/ /\ step.to \in States(how.method) /\ step.send = <<>>
          /\ Asked(how.method, step.to) = Asked(how.method, pstate)
          /\ Counts(how.method, pstate) = Counts(how.method, step.to)
          /\ \E reply \in Heralds(step.to) : Said(step.in \o rest, reply, n)
       \/ /\ step.to \in States(how.method) \ {"s1", "s2"} /\ Asked(how.method, pstate) # "connect"
          /\ step.send = <<Proxied!Request(Asked(how.method, step.to))>>
          /\ step.in = <<>> /\ rest = <<>>
          /\ \A a \in Counts(how.method, pstate) : a + 1 \in Counts(how.method, step.to)

\* A reply of two tokens: they are read when both are there.
LEMMA TwoTokens ==
    ASSUME NEW p \in Seq(Heard), NEW q \in Seq(Heard), NEW x, NEW y, NEW n \in Nat,
           Said(p \o q, <<x, y>>, n), p # <<>>
    PROVE  /\ p[1] = Proxied!Tok(x) /\ Head(p) = Proxied!Tok(x)
           /\ Len(p) \in Nat
           /\ Len(p) >= 2 => /\ p[2] = Proxied!Tok(y)
                             /\ Proxied!Drop(2, p) \in Seq(Heard) /\ Said(Proxied!Drop(2, p) \o q, <<>>, n)
                             /\ n = 0 => Proxied!Drop(2, p) = <<>> /\ q = <<>>
  <1>1. PICK s : s = <<x, y>>
    OBVIOUS
  <1>2. Len(s) \in Nat /\ Len(s) = 2 /\ s[1] = x /\ s[2] = y
    BY <1>1
  <1>3. PICK m \in Nat, k \in Nat : m = Len(p) /\ k = Len(q) /\ m >= 1 /\ Head(p) = p[1]
    <2>1. Len(p) \in Nat /\ Len(q) \in Nat /\ Len(p) # 0
      BY LenProperties, EmptySeq
    <2> QED BY <2>1
  <1>4. Said(p \o q, s, n)
    BY <1>1
  <1>5. /\ Len(p) + Len(q) = Len(s) + n
        /\ \A i \in 1 .. Len(p) : i <= Len(s) => p[i] = Proxied!Tok(s[i])
        /\ \A j \in 0 .. Len(p) : \A t :
             /\ Len(t) \in Nat /\ Len(s) = j + Len(t)
             /\ \A i \in 1 .. Len(t) : t[i] = s[i + j]
             => /\ Proxied!Drop(j, p) \in Seq(Heard) /\ Len(Proxied!Drop(j, p)) = Len(p) - j
                /\ Said(Proxied!Drop(j, p) \o q, t, n)
    BY <1>2, <1>4, Reading
  <1>6. p[1] = Proxied!Tok(x)
    <2>1. 1 \in 1 .. Len(p) /\ 1 <= Len(s)
      BY <1>2, <1>3
    <2>2. p[1] = Proxied!Tok(s[1])
      BY <1>5, <2>1
    <2> QED BY <1>2, <2>2
  <1>7. ASSUME m >= 2
        PROVE  /\ p[2] = Proxied!Tok(y)
               /\ Proxied!Drop(2, p) \in Seq(Heard) /\ Said(Proxied!Drop(2, p) \o q, <<>>, n)
               /\ n = 0 => Proxied!Drop(2, p) = <<>> /\ q = <<>>
    <2>1. p[2] = Proxied!Tok(y)
      <3>1. 2 \in 1 .. Len(p) /\ 2 <= Len(s)
        BY <1>2, <1>3, <1>7
      <3>2. p[2] = Proxied!Tok(s[2])
        BY <1>5, <3>1
      <3> QED BY <1>2, <3>2
    <2>2. PICK t : t = <<>>
      OBVIOUS
    <2>3. Len(t) = 0 /\ 2 \in 0 .. Len(p) /\ 1 .. Len(t) = {}
      BY <1>3, <1>7, <2>2
    <2>4. /\ Proxied!Drop(2, p) \in Seq(Heard) /\ Len(Proxied!Drop(2, p)) = m - 2
          /\ Said(Proxied!Drop(2, p) \o q, t, n)
      <3>1. Len(s) = 2 + Len(t)
        BY <1>2, <2>3
      <3>2. Len(t) \in Nat /\ \A i \in 1 .. Len(t) : t[i] = s[i + 2]
        BY <2>3
      <3> QED BY <1>3, <1>5, <2>3, <3>1, <3>2
    <2>5. ASSUME n = 0 PROVE Proxied!Drop(2, p) = <<>> /\ q = <<>>
      <3>1. m + k = 2
        BY <1>2, <1>3, <1>5, <2>5
      <3>2. m - 2 = 0 /\ k = 0
        BY <1>7, <3>1
      <3> QED BY <1>3, <2>4, <3>2, EmptySeq
    <2> QED BY <2>1, <2>2, <2>4, <2>5
  <1> QED BY <1>3, <1>6, <1>7

\* Telnet: anything the proxy says is data.
LEMMA TelnetProgress ==
    ASSUME ProxyTyped, pstate # "active", how.method = "telnet",
           NEW p \in Seq(Heard), NEW q \in Seq(Heard), NEW n \in Nat, NEW reply \in Heralds(pstate),
           Said(p \o q, reply, n)
    PROVE  Progress(Proxied!Negotiate(p), q, n)
  <1>1. pstate = "s1" /\ reply = <<>> /\ Asked(how.method, pstate) = "connect"
    BY DEF ProxyTyped, States, Heralds, Asked, Proxied!Replies
  <1>2. Proxied!Negotiate(p) = [to |-> "active", in |-> p, send |-> <<>>]
    BY DEF Proxied!Negotiate, Proxied!Go
  <1> QED BY <1>1, <1>2 DEF Progress

\* SOCKS 4.
LEMMA Socks4Progress ==
    ASSUME ProxyTyped, pstate # "active", how.method = "socks4",
           NEW p \in Seq(Heard), NEW q \in Seq(Heard), NEW n \in Nat, NEW reply \in Heralds(pstate),
           p # <<>>, Said(p \o q, reply, n)
    PROVE  Progress(Proxied!Negotiate(p), q, n)
  <1>1. pstate = "s1" /\ Asked(how.method, pstate) = "connect" /\ States(how.method) = {"s1"}
    BY DEF ProxyTyped, States, Asked
  <1>2. PICK x \in {"granted", "rejected"} : reply = <<x, "rest">>
    BY <1>1 DEF Heralds, Proxied!Replies
  <1>3. Proxied!Negotiate(p) = Proxied!Socks4Reply(p)
    BY DEF Proxied!Negotiate
  <1>4. PICK m \in Nat : m = Len(p)
    BY LenProperties
  <1>5. CASE m < 2
    <2>1. Proxied!Negotiate(p) = [to |-> pstate, in |-> p, send |-> <<>>]
      BY <1>3, <1>4, <1>5 DEF Proxied!Socks4Reply, Proxied!Stay
    <2> QED BY <1>1, <2>1 DEF Progress
  <1>6. CASE ~(m < 2)
    <2>1. /\ Head(p) = Proxied!Tok(x) /\ Proxied!Drop(2, p) \in Seq(Heard)
          /\ Said(Proxied!Drop(2, p) \o q, <<>>, n)
      <3>1. Said(p \o q, <<x, "rest">>, n)
        BY <1>2
      <3>2. Len(p) >= 2
        BY <1>4, <1>6
      <3> QED BY <3>1, <3>2, TwoTokens
    <2>2. \/ Proxied!Negotiate(p) = [to |-> "active", in |-> Proxied!Drop(2, p), send |-> <<>>]
          \/ Proxied!Negotiate(p) = [to |-> "failed", in |-> p, send |-> <<>>]
      BY <1>3, <1>4, <1>6 DEF Proxied!Socks4Reply, Proxied!Go, Proxied!Fail
    <2>3. CASE Proxied!Negotiate(p) = [to |-> "active", in |-> Proxied!Drop(2, p), send |-> <<>>]
      BY <1>1, <2>1, <2>3 DEF Progress
    <2>4. CASE Proxied!Negotiate(p) = [to |-> "failed", in |-> p, send |-> <<>>]
      BY <2>4 DEF Progress
    <2> QED BY <2>2, <2>3, <2>4
  <1> QED BY <1>5, <1>6

\* SOCKS 5: the choice of a method, the password, the connection.
LEMMA Socks5Progress ==
    ASSUME ProxyTyped, pstate # "active", how.method = "socks5",
           NEW p \in Seq(Heard), NEW q \in Seq(Heard), NEW n \in Nat, NEW reply \in Heralds(pstate),
           p # <<>>, Said(p \o q, reply, n), Asked(how.method, pstate) # "connect" => n = 0
    PROVE  Progress(Proxied!Negotiate(p), q, n)
  <1> DEFINE step == Proxied!Negotiate(p)
             past == Proxied!Drop(2, p)
             Later(state) == [to |-> state, in |-> past,
                              send |-> <<Proxied!Request(Asked(how.method, state))>>]
  <1>1. PICK x, y : reply = <<x, y>>
    BY DEF Heralds, HeaderLines, ProxyTyped, States, Proxied!Replies
  <1>2. PICK m \in Nat : m = Len(p)
    BY LenProperties
  <1>3. /\ Head(p) = Proxied!Tok(x)
        /\ m >= 2 => /\ p[2] = Proxied!Tok(y) /\ past \in Seq(Heard) /\ Said(past \o q, <<>>, n)
                     /\ n = 0 => past = <<>> /\ q = <<>>
    <2>1. Said(p \o q, <<x, y>>, n)
      BY <1>1
    <2> QED BY <1>2, <2>1, TwoTokens
  <1>4. ASSUME step = [to |-> pstate, in |-> p, send |-> <<>>] PROVE Progress(step, q, n)
    <2>1. pstate \in States(how.method)
      BY DEF ProxyTyped
    <2> QED BY <1>4, <2>1 DEF Progress
  <1>5. ASSUME step.to = "failed", step.in \in Seq(Heard) PROVE Progress(step, q, n)
    BY <1>5 DEF Progress
  <1>6. ASSUME m >= 2, step = [to |-> "active", in |-> past, send |-> <<>>],
               Asked(how.method, pstate) = "connect"
        PROVE  Progress(step, q, n)
    BY <1>3, <1>6 DEF Progress
  <1>7. ASSUME m >= 2, pstate \in {"s1", "s7"}, NEW state \in {"s3", "s7"}, state # pstate,
               step = Later(state)
        PROVE  Progress(step, q, n)
    <2>1. Asked(how.method, pstate) # "connect" /\ n = 0
      BY <1>7 DEF Asked
    <2>2. past = <<>> /\ q = <<>> /\ past \in Seq(Heard)
      BY <1>3, <1>7, <2>1
    <2>3. state \in States(how.method) \ {"s1", "s2"}
      BY <1>7 DEF States
    <2>4. \A a \in Counts(how.method, pstate) : a + 1 \in Counts(how.method, state)
      <3>1. CASE pstate = "s1"
        <4>1. Counts(how.method, pstate) = {1} /\ 2 \in Counts(how.method, state)
          BY <1>7, <3>1 DEF Counts
        <4> QED BY <4>1
      <3>2. CASE pstate = "s7"
        <4>1. Counts(how.method, pstate) = {2} /\ 3 \in Counts(how.method, state)
          BY <1>7, <3>2 DEF Counts
        <4> QED BY <4>1
      <3> QED BY <1>7, <3>1, <3>2
    <2> QED BY <1>7, <2>1, <2>2, <2>3, <2>4 DEF Progress
  <1>8. CASE pstate = "s1"
    <2>1. step = Proxied!Socks5Method(p)
      BY <1>8 DEF Proxied!Negotiate
    <2>2. CASE m < 2
      BY <1>2, <1>4, <2>1, <2>2 DEF Proxied!Socks5Method, Proxied!Stay
    <2>3. CASE m >= 2
      <3>1. \/ step = Later("s3") \/ step = Later("s7")
            \/ step.to = "failed" /\ step.in \in {p, past}
        BY <1>2, <2>1, <2>3 DEF Proxied!Socks5Method, Proxied!Socks5Connect, Proxied!Go, Proxied!Fail, Asked
      <3> QED BY <1>3, <1>5, <1>7, <1>8, <2>3, <3>1
    <2> QED BY <2>2, <2>3
  <1>9. CASE pstate = "s7"
    <2>1. step = Proxied!Socks5Password(p)
      BY <1>9 DEF Proxied!Negotiate
    <2>2. CASE m < 2
      BY <1>2, <1>4, <2>1, <2>2 DEF Proxied!Socks5Password, Proxied!Stay
    <2>3. CASE m >= 2
      <3>1. step = Later("s3") \/ (step.to = "failed" /\ step.in = p)
        BY <1>2, <2>1, <2>3 DEF Proxied!Socks5Password, Proxied!Socks5Connect, Proxied!Go, Proxied!Fail, Asked
      <3> QED BY <1>5, <1>7, <1>9, <2>3, <3>1
    <2> QED BY <2>2, <2>3
  <1>10. CASE pstate = "s3"
    <2>1. step = Proxied!Socks5Reply(p) /\ Asked(how.method, pstate) = "connect"
      BY <1>10 DEF Proxied!Negotiate, Asked
    <2>2. \/ step = [to |-> pstate, in |-> p, send |-> <<>>]
          \/ step.to = "failed" /\ step.in = p
          \/ m >= 2 /\ step = [to |-> "active", in |-> past, send |-> <<>>]
      <3>1. m >= 2 \/ m < 2
        BY <1>2
      <3> QED BY <1>2, <2>1, <3>1 DEF Proxied!Socks5Reply, Proxied!Stay, Proxied!Fail, Proxied!Go
    <2> QED BY <1>4, <1>5, <1>6, <2>1, <2>2
  <1> QED BY <1>8, <1>9, <1>10 DEF ProxyTyped, States

\* A reply of which one token at least is left, when its first is there.
LEMMA FirstToken ==
    ASSUME NEW p \in Seq(Heard), NEW q \in Seq(Heard), NEW n \in Nat, p # <<>>,
           NEW s, NEW t, Len(s) \in Nat, Len(t) \in Nat, Len(s) = 1 + Len(t),
           \A i \in 1 .. Len(t) : t[i] = s[i + 1], Said(p \o q, s, n)
    PROVE  /\ p[1] = Proxied!Tok(s[1]) /\ Head(p) = Proxied!Tok(s[1])
           /\ Tail(p) = Proxied!Drop(1, p) /\ Tail(p) \in Seq(Heard)
           /\ Said(Tail(p) \o q, t, n)
  <1>1. Len(p) \in Nat /\ Len(p) # 0
    BY LenProperties, EmptySeq
  <1>2. 1 \in 0 .. Len(p) /\ 1 \in 1 .. Len(p) /\ 1 <= Len(s)
    BY <1>1
  <1>3. p[1] = Proxied!Tok(s[1])
    <2>1. /\ Len(p) + Len(q) = Len(s) + n
          /\ \A i \in 1 .. Len(p) : i <= Len(s) => p[i] = Proxied!Tok(s[i])
          /\ \A k \in 0 .. Len(p) : \A u :
               /\ Len(u) \in Nat /\ Len(s) = k + Len(u)
               /\ \A i \in 1 .. Len(u) : u[i] = s[i + k]
               => /\ Proxied!Drop(k, p) \in Seq(Heard) /\ Len(Proxied!Drop(k, p)) = Len(p) - k
                  /\ Said(Proxied!Drop(k, p) \o q, u, n)
      BY Reading
    <2> QED BY <1>2, <2>1
  <1>4. Proxied!Drop(1, p) \in Seq(Heard) /\ Said(Proxied!Drop(1, p) \o q, t, n)
    <2>1. \A k \in 0 .. Len(p) : \A u :
            /\ Len(u) \in Nat /\ Len(s) = k + Len(u)
            /\ \A i \in 1 .. Len(u) : u[i] = s[i + k]
            => /\ Proxied!Drop(k, p) \in Seq(Heard) /\ Len(Proxied!Drop(k, p)) = Len(p) - k
               /\ Said(Proxied!Drop(k, p) \o q, u, n)
      BY Reading
    <2> QED BY <1>2, <2>1
  <1>5. Tail(p) = Proxied!Drop(1, p)
    BY <1>1 DEF Proxied!Drop
  <1>6. Head(p) = p[1]
    BY <1>1
  <1>7. Tail(p) \in Seq(Heard) /\ Said(Tail(p) \o q, t, n)
    BY <1>4, <1>5
  <1> QED BY <1>3, <1>5, <1>6, <1>7

LinePassed(i, p) == /\ Proxied!LineSeen(Proxied!Drop(i, p))
                    /\ Proxied!Drop(i, p)[1].t \notin {"blank", "lf"}

\* The headers stop at the first line that has not been passed.
LEMMA HeadersStop ==
    ASSUME NEW p \in Seq(Heard), NEW k \in 0 .. Len(p),
           ~LinePassed(k, p), \A j \in 0 .. k - 1 : LinePassed(j, p)
    PROVE  Proxied!HttpHeaders(p) =
             IF Proxied!LineSeen(Proxied!Drop(k, p)) /\ Head(Proxied!Drop(k, p)).t = "blank"
               THEN [to |-> "active", in |-> Tail(Proxied!Drop(k, p)), send |-> <<>>]
               ELSE [to |-> "s2", in |-> Proxied!Drop(k, p), send |-> <<>>]
  <1> DEFINE First(i) == ~LinePassed(i, p) /\ \A j \in 0 .. i - 1 : LinePassed(j, p)
  <1>1. Len(p) \in Nat
    BY LenProperties
  <1>2. ASSUME NEW i \in 0 .. Len(p), First(i) PROVE i = k
    <2>1. ~(i < k)
      <3>1. i < k => i \in 0 .. k - 1
        BY <1>1
      <3> QED BY <1>2, <3>1
    <2>2. ~(k < i)
      <3>1. k < i => k \in 0 .. i - 1
        BY <1>1
      <3> QED BY <1>2, <3>1
    <2> QED BY <1>1, <2>1, <2>2
  <1>3. (CHOOSE i \in 0 .. Len(p) : First(i)) = k
    BY <1>2
  <1>4. Proxied!HttpHeaders(p) =
          LET rest == Proxied!Drop(CHOOSE i \in 0 .. Len(p) : First(i), p)
          IN  IF Proxied!LineSeen(rest) /\ Head(rest).t = "blank"
                THEN [to |-> "active", in |-> Tail(rest), send |-> <<>>]
                ELSE [to |-> "s2", in |-> rest, send |-> <<>>]
    BY DEF Proxied!HttpHeaders, LinePassed, Proxied!Go
  <1> HIDE DEF First
  <1> QED BY <1>3, <1>4

\* HTTP: the headers are passed, or the empty line ends them.
LEMMA HeadersProgress ==
    ASSUME pstate \in {"s1", "s2"}, how.method = "http",
           NEW p \in Seq(Heard), NEW q \in Seq(Heard), NEW n \in Nat, NEW reply \in HeaderLines,
           Said(p \o q, reply, n)
    PROVE  Progress(Proxied!HttpHeaders(p), q, n)
  <1> DEFINE step == Proxied!HttpHeaders(p)
  <1>1. /\ Asked(how.method, pstate) = "connect" /\ Asked(how.method, "s2") = "connect"
        /\ Counts(how.method, pstate) = {1} /\ Counts(how.method, "s2") = {1} /\ "s2" \in States(how.method)
        /\ Heralds("s2") = HeaderLines
    BY DEF Asked, Counts, States, Heralds
  <1>2. ASSUME NEW rest \in Seq(Heard), NEW lines \in HeaderLines, Said(rest \o q, lines, n),
               step = [to |-> "s2", in |-> rest, send |-> <<>>]
        PROVE  Progress(step, q, n)
    <2>1. step.to = "s2" /\ step.in = rest /\ step.send = <<>>
      BY <1>2
    <2>2. \E line \in Heralds(step.to) : Said(step.in \o q, line, n)
      BY <1>1, <1>2, <2>1
    <2> QED BY <1>1, <2>1, <2>2 DEF Progress
  <1>3. ASSUME NEW rest \in Seq(Heard), Said(rest \o q, <<>>, n),
               step = [to |-> "active", in |-> rest, send |-> <<>>]
        PROVE  Progress(step, q, n)
    BY <1>1, <1>3 DEF Progress
  <1>4. Len(p) \in Nat /\ 0 \in 0 .. Len(p) /\ Proxied!Drop(0, p) = p
    <2>1. Len(p) \in Nat
      BY LenProperties
    <2>2. SubSeq(p, 1, Len(p)) = p
      BY SubSeqFull
    <2> QED BY <2>1, <2>2 DEF Proxied!Drop
  <1>5. ASSUME ~LinePassed(0, p)
        PROVE  step = IF Proxied!LineSeen(p) /\ Head(p).t = "blank"
                        THEN [to |-> "active", in |-> Tail(p), send |-> <<>>]
                        ELSE [to |-> "s2", in |-> p, send |-> <<>>]
    <2>1. \A j \in 0 .. 0 - 1 : LinePassed(j, p)
      OBVIOUS
    <2>2. step = IF Proxied!LineSeen(Proxied!Drop(0, p)) /\ Head(Proxied!Drop(0, p)).t = "blank"
                   THEN [to |-> "active", in |-> Tail(Proxied!Drop(0, p)), send |-> <<>>]
                   ELSE [to |-> "s2", in |-> Proxied!Drop(0, p), send |-> <<>>]
      BY <1>4, <1>5, <2>1, HeadersStop
    <2> QED BY <1>4, <2>2
  <1>6. CASE p = <<>>
    <2>1. ~Proxied!LineSeen(p)
      BY <1>6 DEF Proxied!LineSeen
    <2>2. step = [to |-> "s2", in |-> p, send |-> <<>>]
      BY <1>4, <1>5, <2>1 DEF LinePassed
    <2> QED BY <1>2, <2>2
  <1>7. CASE p # <<>> /\ reply = <<"blank">>
    <2>1. PICK s, t : s = <<"blank">> /\ t = <<>>
      OBVIOUS
    <2>2. Len(s) = 1 /\ Len(t) = 0 /\ s[1] = "blank" /\ \A i \in 1 .. Len(t) : t[i] = s[i + 1]
      BY <2>1
    <2>3. /\ p[1] = Proxied!Tok("blank") /\ Head(p) = Proxied!Tok("blank")
          /\ Tail(p) \in Seq(Heard) /\ Said(Tail(p) \o q, <<>>, n)
      <3>1. Len(s) \in Nat /\ Len(t) \in Nat /\ Len(s) = 1 + Len(t) /\ Said(p \o q, s, n)
        BY <1>7, <2>1, <2>2
      <3>2. p # <<>>
        BY <1>7
      <3>3. /\ p[1] = Proxied!Tok(s[1]) /\ Head(p) = Proxied!Tok(s[1])
            /\ Tail(p) = Proxied!Drop(1, p) /\ Tail(p) \in Seq(Heard)
            /\ Said(Tail(p) \o q, t, n)
        BY <2>2, <3>1, <3>2, FirstToken
      <3> QED BY <2>1, <2>2, <3>3
    <2>4. Proxied!LineSeen(p) /\ Head(p).t = "blank" /\ ~LinePassed(0, p)
      BY <1>4, <1>7, <2>3 DEF LinePassed, Proxied!LineSeen, Proxied!Tok
    <2> QED BY <1>3, <1>5, <2>3, <2>4
  <1>8. CASE p # <<>> /\ reply = <<"lf">>
    <2>1. PICK s, t : s = <<"lf">> /\ t = <<>>
      OBVIOUS
    <2>2. Len(s) = 1 /\ Len(t) = 0 /\ s[1] = "lf" /\ \A i \in 1 .. Len(t) : t[i] = s[i + 1]
      BY <2>1
    <2>3. p[1] = Proxied!Tok("lf") /\ Head(p) = Proxied!Tok("lf")
      <3>1. Len(s) \in Nat /\ Len(t) \in Nat /\ Len(s) = 1 + Len(t) /\ Said(p \o q, s, n)
        BY <1>8, <2>1, <2>2
      <3>2. p # <<>>
        BY <1>8
      <3>3. /\ p[1] = Proxied!Tok(s[1]) /\ Head(p) = Proxied!Tok(s[1])
            /\ Tail(p) = Proxied!Drop(1, p) /\ Tail(p) \in Seq(Heard)
            /\ Said(Tail(p) \o q, t, n)
        BY <2>2, <3>1, <3>2, FirstToken
      <3> QED BY <2>2, <3>3
    <2>4. Head(p).t = "lf" /\ ~LinePassed(0, p)
      BY <1>4, <1>8, <2>3 DEF LinePassed, Proxied!LineSeen, Proxied!Tok
    <2>5. step = [to |-> "s2", in |-> p, send |-> <<>>]
      BY <1>5, <2>4
    <2> QED BY <1>2, <2>5
  <1>9. CASE p # <<>> /\ reply = <<"header", "blank">>
    <2>1. /\ p[1] = Proxied!Tok("header") /\ Head(p) = Proxied!Tok("header")
          /\ Len(p) >= 2 => p[2] = Proxied!Tok("blank")
      BY <1>9, TwoTokens
    <2>2. Len(p) # 0
      BY <1>9, EmptySeq
    <2>3. CASE Len(p) < 2
      <3>1. ~Proxied!LineSeen(p)
        BY <1>4, <2>1, <2>3 DEF Proxied!LineSeen, Proxied!Tok
      <3>2. step = [to |-> "s2", in |-> p, send |-> <<>>]
        BY <1>4, <1>5, <3>1 DEF LinePassed
      <3> QED BY <1>2, <3>2
    <2>4. CASE Len(p) >= 2
      <3>1. PICK d : d = Proxied!Drop(1, p)
        OBVIOUS
      <3>2. PICK s, t, e : s = <<"header", "blank">> /\ t = <<"blank">> /\ e = <<>>
        OBVIOUS
      <3>3. /\ Len(s) = 2 /\ Len(t) = 1 /\ Len(e) = 0 /\ s[2] = "blank" /\ t[1] = "blank"
            /\ \A i \in 1 .. Len(t) : t[i] = s[i + 1]
            /\ \A i \in 1 .. Len(e) : e[i] = t[i + 1]
        BY <3>2
      <3>4. d = Tail(p) /\ d \in Seq(Heard) /\ Said(d \o q, t, n)
        <4>1. Len(s) \in Nat /\ Len(t) \in Nat /\ Len(s) = 1 + Len(t) /\ Said(p \o q, s, n)
          BY <1>9, <3>2, <3>3
        <4> QED BY <1>9, <3>1, <3>3, <4>1, FirstToken
      <3>5. d # <<>>
        <4>1. Len(Tail(p)) = Len(p) - 1
          BY <1>9
        <4> QED BY <1>4, <2>4, <3>4, <4>1, EmptySeq
      <3>6. /\ d[1] = Proxied!Tok("blank") /\ Head(d) = Proxied!Tok("blank")
            /\ Tail(d) \in Seq(Heard) /\ Said(Tail(d) \o q, e, n)
        <4>1. /\ Len(t) \in Nat /\ Len(e) \in Nat /\ Len(t) = 1 + Len(e)
              /\ \A i \in 1 .. Len(e) : e[i] = t[i + 1]
              /\ d \in Seq(Heard) /\ Said(d \o q, t, n)
          BY <3>3, <3>4
        <4>2. /\ d[1] = Proxied!Tok(t[1]) /\ Head(d) = Proxied!Tok(t[1])
              /\ Tail(d) = Proxied!Drop(1, d) /\ Tail(d) \in Seq(Heard)
              /\ Said(Tail(d) \o q, e, n)
          BY <3>5, <4>1, FirstToken
        <4> QED BY <3>3, <4>2
      <3>7. LinePassed(0, p)
        BY <1>4, <1>9, <2>1, <2>4 DEF LinePassed, Proxied!LineSeen, Proxied!Tok
      <3>8. ~LinePassed(1, p) /\ Proxied!LineSeen(d) /\ Head(d).t = "blank"
        BY <3>1, <3>5, <3>6 DEF LinePassed, Proxied!LineSeen, Proxied!Tok
      <3>9. step = [to |-> "active", in |-> Tail(d), send |-> <<>>]
        <4>1. 1 \in 0 .. Len(p) /\ \A j \in 0 .. 1 - 1 : LinePassed(j, p)
          BY <1>4, <2>4, <3>7
        <4>2. step = IF Proxied!LineSeen(Proxied!Drop(1, p)) /\ Head(Proxied!Drop(1, p)).t = "blank"
                       THEN [to |-> "active", in |-> Tail(Proxied!Drop(1, p)), send |-> <<>>]
                       ELSE [to |-> "s2", in |-> Proxied!Drop(1, p), send |-> <<>>]
          BY <3>8, <4>1, HeadersStop
        <4> QED BY <3>1, <3>8, <4>2
      <3> QED BY <1>3, <3>2, <3>6, <3>9
    <2> QED BY <1>4, <2>3, <2>4
  <1> QED BY <1>6, <1>7, <1>8, <1>9 DEF HeaderLines

\* HTTP.
LEMMA HttpProgress ==
    ASSUME ProxyTyped, pstate # "active", how.method = "http",
           NEW p \in Seq(Heard), NEW q \in Seq(Heard), NEW n \in Nat, NEW reply \in Heralds(pstate),
           p # <<>>, Said(p \o q, reply, n)
    PROVE  Progress(Proxied!Negotiate(p), q, n)
  <1>1. pstate \in {"s1", "s2"} /\ Proxied!Negotiate(p) = Proxied!HttpReply(p)
    BY DEF ProxyTyped, States, Proxied!Negotiate
  <1>2. CASE pstate = "s2"
    <2>1. Proxied!HttpReply(p) = Proxied!HttpHeaders(p) /\ reply \in HeaderLines
      BY <1>2 DEF Proxied!HttpReply, Heralds
    <2> QED BY <1>1, <2>1, HeadersProgress
  <1>3. CASE pstate = "s1"
    <2>1. \/ Proxied!Negotiate(p) = [to |-> pstate, in |-> p, send |-> <<>>]
          \/ Head(p).t = "2xx" /\ Proxied!Negotiate(p) = Proxied!HttpHeaders(Tail(p))
          \/ Proxied!Negotiate(p) = [to |-> "failed", in |-> p, send |-> <<>>]
      BY <1>1, <1>3 DEF Proxied!HttpReply, Proxied!Stay, Proxied!Fail
    <2>2. CASE Proxied!Negotiate(p) = [to |-> pstate, in |-> p, send |-> <<>>]
      <3>1. pstate \in States(how.method)
        BY DEF ProxyTyped
      <3> QED BY <2>2, <3>1 DEF Progress
    <2>3. CASE Proxied!Negotiate(p) = [to |-> "failed", in |-> p, send |-> <<>>]
      BY <2>3 DEF Progress
    <2>4. CASE Head(p).t = "2xx" /\ Proxied!Negotiate(p) = Proxied!HttpHeaders(Tail(p))
      <3>1. reply \in {<<"2xx", "header", "blank">>, <<"2xx", "blank">>, <<"2xx", "lf">>, <<"4xx", "blank">>}
        <4>1. reply \in Proxied!Replies("connect")
          BY <1>3 DEF Heralds, Asked
        <4> QED BY <4>1 DEF Proxied!Replies
      <3>2. PICK s, t : /\ s = reply
                        /\ t = CASE reply = <<"2xx", "header", "blank">> -> <<"header", "blank">>
                                 [] reply = <<"2xx", "lf">> -> <<"lf">>
                                 [] OTHER -> <<"blank">>
        OBVIOUS
      <3>3. /\ Len(s) \in Nat /\ Len(t) \in Nat /\ Len(s) = 1 + Len(t)
            /\ \A i \in 1 .. Len(t) : t[i] = s[i + 1]
            /\ t \in HeaderLines
        BY <3>1, <3>2 DEF HeaderLines
      <3>4. Said(p \o q, s, n)
        BY <3>2
      <3>5. /\ p[1] = Proxied!Tok(s[1]) /\ Head(p) = Proxied!Tok(s[1])
            /\ Tail(p) = Proxied!Drop(1, p) /\ Tail(p) \in Seq(Heard)
            /\ Said(Tail(p) \o q, t, n)
        BY <3>3, <3>4, FirstToken
      <3> QED BY <1>1, <2>4, <3>3, <3>5, HeadersProgress
    <2> QED BY <2>1, <2>2, <2>3, <2>4
  <1> QED BY <1>1, <1>2, <1>3

\* Every kind of proxy.
LEMMA Negotiated ==
    ASSUME ProxyTyped, pstate # "active",
           NEW p \in Seq(Heard), NEW q \in Seq(Heard), NEW n \in Nat, NEW reply \in Heralds(pstate),
           p # <<>>, Said(p \o q, reply, n), Asked(how.method, pstate) # "connect" => n = 0
    PROVE  Progress(Proxied!Negotiate(p), q, n)
  <1>1. how.method \in {"http", "socks4", "socks5", "telnet"}
    BY DEF ProxyTyped, States
  <1> QED BY <1>1, HttpProgress, Socks4Progress, Socks5Progress, TelnetProgress

-----------------------------------------------------------------------------
(* The data that is handed to the backend.                                     *)

\* Three sequences, and a further element.
LEMMA HeardRegroup ==
    \A p, q, r \in Seq(Heard) : (p \o q) \o r = p \o (q \o r)
  OBVIOUS

LEMMA HeardAppend ==
    \A p, q \in Seq(Heard), x \in Heard : p \o Append(q, x) = Append(p \o q, x)
  OBVIOUS

\* A beginning of the blocks of the server is blocks of the server.
LEMMA SaidFirst ==
    ASSUME NEW p \in Seq(Heard), NEW q \in Seq(Heard), NEW n \in Nat, Said(p \o q, <<>>, n)
    PROVE  Said(p, <<>>, Len(p))
  <1>1. PICK a \in Nat, b \in Nat : a = Len(p) /\ b = Len(q)
    BY LenProperties
  <1>2. PICK u, e : u = p \o q /\ e = <<>>
    OBVIOUS
  <1>3. Len(e) = 0 /\ 1 .. Len(e) = {}
    BY <1>2
  <1>4. Len(u) = a + b /\ \A i \in 1 .. a : u[i] = p[i]
    BY <1>1, <1>2
  <1>5. Len(u) = 0 + n /\ \A i \in 1 .. n : u[0 + i] = Proxied!Data(i)
    BY <1>2, <1>3 DEF Said
  <1>6. \A i \in 1 .. a : p[0 + i] = Proxied!Data(i)
    BY <1>4, <1>5
  <1>7. Len(p) = Len(e) + a /\ \A i \in 1 .. a : p[Len(e) + i] = Proxied!Data(i)
    BY <1>1, <1>3, <1>6
  <1>8. Said(p, e, a)
    BY <1>3, <1>7 DEF Said
  <1> QED BY <1>1, <1>2, <1>8

\* One more block.
LEMMA SaidMore ==
    ASSUME NEW u, NEW reply, NEW n \in Nat, Len(reply) \in Nat, Said(u, reply, n)
    PROVE  Said(Append(u, Proxied!Data(n + 1)), reply, n + 1) /\ Proxied!Data(n + 1) \in Heard
  <1>1. PICK x : x = Proxied!Data(n + 1)
    OBVIOUS
  <1>2. x \in Heard
    <2>1. n + 1 \in Nat /\ "data" \in Words
      BY DEF Words
    <2> QED BY <1>1, <2>1 DEF Proxied!Data, Heard
  <1>3. PICK k \in Nat : k = Len(reply)
    OBVIOUS
  <1>4. PICK v : v = Append(u, x)
    OBVIOUS
  <1>5. /\ u \in Seq(Heard) /\ Len(u) = k + n
        /\ \A i \in 1 .. k : u[i] = Proxied!Tok(reply[i])
        /\ \A i \in 1 .. n : u[k + i] = Proxied!Data(i)
    BY <1>3 DEF Said
  <1>6. /\ v \in Seq(Heard) /\ Len(v) = (k + n) + 1 /\ v[(k + n) + 1] = x
        /\ \A i \in 1 .. k + n : v[i] = u[i]
    BY <1>2, <1>4, <1>5
  <1>7. \A i \in 1 .. k : v[i] = Proxied!Tok(reply[i])
    BY <1>5, <1>6
  <1>8. \A i \in 1 .. n + 1 : v[k + i] = Proxied!Data(i)
    <2>1. ASSUME NEW i \in 1 .. n + 1 PROVE v[k + i] = Proxied!Data(i)
      <3>1. CASE i = n + 1
        <4>1. k + i = (k + n) + 1
          BY <3>1
        <4> QED BY <1>1, <1>6, <3>1, <4>1
      <3>2. CASE i # n + 1
        <4>1. i \in 1 .. n /\ k + i \in 1 .. k + n
          BY <3>2
        <4> QED BY <1>5, <1>6, <4>1
      <3> QED BY <3>1, <3>2
    <2> QED BY <2>1
  <1>9. Len(v) = k + (n + 1)
    BY <1>6
  <1> QED BY <1>1, <1>2, <1>3, <1>4, <1>6, <1>7, <1>8, <1>9 DEF Said

\* Handing over the first blocks moves nothing.
LEMMA Moved ==
    ASSUME NEW a \in Seq(Heard), NEW p \in Seq(Heard), NEW q \in Seq(Heard), NEW k \in 0 .. Len(p)
    PROVE  /\ SubSeq(p, 1, k) \in Seq(Heard) /\ a \o SubSeq(p, 1, k) \in Seq(Heard)
           /\ Proxied!Drop(k, p) \in Seq(Heard)
           /\ (a \o SubSeq(p, 1, k)) \o (Proxied!Drop(k, p) \o q) = a \o (p \o q)
           /\ a \o (SubSeq(p, 1, k) \o (Proxied!Drop(k, p) \o q)) = a \o (p \o q)
  <1>1. PICK first, rest : first = SubSeq(p, 1, k) /\ rest = Proxied!Drop(k, p)
    OBVIOUS
  <1>2. first \in Seq(Heard) /\ rest \in Seq(Heard) /\ first \o rest = p
    BY <1>1, CutIsWhole DEF Proxied!Drop
  <1>3. a \o first \in Seq(Heard) /\ rest \o q \in Seq(Heard)
    BY <1>2, ConcatProperties
  <1>4. (a \o first) \o (rest \o q) = a \o (first \o (rest \o q))
    <2>1. first \in Seq(Heard) /\ rest \o q \in Seq(Heard)
      BY <1>2, <1>3
    <2> QED BY <2>1, HeardRegroup
  <1>5. first \o (rest \o q) = (first \o rest) \o q
    <2>1. first \in Seq(Heard) /\ rest \in Seq(Heard)
      BY <1>2
    <2> QED BY <2>1, HeardRegroup
  <1> QED BY <1>1, <1>2, <1>3, <1>4, <1>5

\* How much of what waits is handed over, and whether the sub-socket stays frozen.
LEMMA Parts ==
    ASSUME NEW p \in Seq(Heard), NEW o \in Proxied!Handover(p)
    PROVE  /\ o.seen \in 0 .. Len(p) /\ o.freeze \in BOOLEAN /\ o.sub \in BOOLEAN
           /\ o.fate \in {"fine", "freed", "recursion"}
           /\ o.fate # "recursion" => o.used = o.seen
           /\ o.fate = "recursion" => o.seen > 0 /\ o.used = o.seen - 1
           /\ o.fate = "fine" /\ ~o.sub => o.seen = Len(p)
  <1>1. PICK m \in Nat : m = Len(p)
    BY LenProperties
  <1>2. \/ o = Proxied!Outcome(m, m, FALSE, FALSE, "fine")
        \/ \E k \in 1 .. m : o = Proxied!Outcome(k, k, TRUE, TRUE, "fine")
        \/ \E k \in 1 .. m : o = Proxied!Outcome(k, k, FALSE, TRUE, "freed")
        \/ \E k \in 1 .. m : o = Proxied!Outcome(k, k - 1, FALSE, TRUE, "recursion")
    BY <1>1 DEF Proxied!Handover
  <1>3. CASE o = Proxied!Outcome(m, m, FALSE, FALSE, "fine")
    BY <1>1, <1>3 DEF Proxied!Outcome
  <1>4. ASSUME NEW k \in 1 .. m, NEW f \in BOOLEAN, NEW e \in {"fine", "freed"},
               o = Proxied!Outcome(k, k, f, TRUE, e)
        PROVE  /\ o.seen \in 0 .. m /\ o.freeze \in BOOLEAN /\ o.sub \in BOOLEAN
               /\ o.fate \in {"fine", "freed", "recursion"}
               /\ o.fate # "recursion" => o.used = o.seen
               /\ o.fate = "recursion" => o.seen > 0 /\ o.used = o.seen - 1
               /\ o.fate = "fine" /\ ~o.sub => o.seen = m
    BY <1>4 DEF Proxied!Outcome
  <1>5. ASSUME NEW k \in 1 .. m, o = Proxied!Outcome(k, k - 1, FALSE, TRUE, "recursion")
        PROVE  /\ o.seen \in 0 .. m /\ o.freeze \in BOOLEAN /\ o.sub \in BOOLEAN
               /\ o.fate \in {"fine", "freed", "recursion"}
               /\ o.fate # "recursion" => o.used = o.seen
               /\ o.fate = "recursion" => o.seen > 0 /\ o.used = o.seen - 1
               /\ o.fate = "fine" /\ ~o.sub => o.seen = m
    BY <1>5 DEF Proxied!Outcome
  <1> QED BY <1>1, <1>2, <1>3, <1>4, <1>5

\* Nothing yet.
LEMMA NothingPassed == ASSUME NEW p, NEW f, f # "recursion", NEW l PROVE Passed(<<>>, p, f, l)
  <1>1. PICK g : g = <<>>
    OBVIOUS
  <1>2. Len(g) = 0 /\ 0 \in 0 .. 0 /\ ~\E i \in 1 .. 0 : TRUE
    BY <1>1
  <1> QED BY <1>1, <1>2 DEF Passed

\* What is in order is passed on, whatever waits.
LEMMA PassedInOrder ==
    ASSUME NEW g \in Seq(Heard), Said(g, <<>>, Len(g)), NEW p, NEW f, NEW l,
           f = "recursion" => p # <<>> /\ g # <<>> /\ Head(p) = g[Len(g)]
    PROVE  Passed(g, p, f, l)
  <1>1. PICK e, n : e = <<>> /\ n = Len(g)
    OBVIOUS
  <1>2. Len(e) = 0 /\ n \in Nat
    BY <1>1, LenProperties
  <1>3. \A i \in 1 .. n : g[Len(e) + i] = Proxied!Data(i)
    BY <1>1 DEF Said
  <1>4. (\A i \in 1 .. n : g[i] = Proxied!Data(i)) /\ n \in 0 .. n
    BY <1>2, <1>3
  <1> QED BY <1>1, <1>4 DEF Passed

\* Once the connection is closing, more may have been overtaken, and a structure may be freed.
LEMMA PassedStays ==
    ASSUME NEW g, NEW p, NEW f, NEW l, Passed(g, p, f, l), NEW e \in {f, "freed"}, NEW c,
           f # "recursion" \/ e = f, c # "open" \/ l = c
    PROVE  Passed(g, p, e, c)
  BY DEF Passed

\* What the backend is given when it is ready.
LEMMA Handed ==
    ASSUME NEW p \in Seq(Heard), NEW q \in Seq(Heard), NEW n \in Nat, got \in Seq(Heard),
           Said(got \o (p \o q), <<>>, n), NEW o \in Proxied!Handover(p), NEW l,
           got' = got \o SubSeq(p, 1, o.seen), pin' = Proxied!Drop(o.used, p)
    PROVE  /\ got' \in Seq(Heard) /\ pin' \in Seq(Heard) /\ Passed(got', pin', o.fate, l)
           /\ o.fate = "fine" => Said(got' \o (pin' \o q), <<>>, n)
           /\ o.fate = "fine" /\ pin' # <<>> => o.sub
  <1>1. /\ o.seen \in 0 .. Len(p)
        /\ o.fate # "recursion" => o.used = o.seen
        /\ o.fate = "recursion" => o.seen > 0 /\ o.used = o.seen - 1
        /\ o.fate = "fine" /\ ~o.sub => o.seen = Len(p)
    BY Parts
  <1>2. PICK k \in 0 .. Len(p) : k = o.seen
    BY <1>1
  <1>3. PICK g, r : g = got \o SubSeq(p, 1, k) /\ r = Proxied!Drop(k, p)
    OBVIOUS
  <1>4. g \in Seq(Heard) /\ r \in Seq(Heard) /\ g \o (r \o q) = got \o (p \o q)
    BY <1>3, Moved
  <1>5. r \o q \in Seq(Heard) /\ Said(g \o (r \o q), <<>>, n)
    BY <1>4, ConcatProperties
  <1>6. Said(g, <<>>, Len(g))
    BY <1>4, <1>5, SaidFirst
  <1>7. Len(r) = Len(p) - k /\ Len(p) \in Nat
    BY <1>3, DropFirst, LenProperties
  <1>8. o.fate = "fine" /\ r # <<>> => o.sub
    <2>1. k = Len(p) => Len(r) = 0
      BY <1>7
    <2> QED BY <1>1, <1>2, <1>4, <2>1, EmptySeq
  <1>9. got' = g
    BY <1>2, <1>3
  <1>10. CASE o.fate # "recursion"
    <2>1. pin' = r
      BY <1>1, <1>2, <1>3, <1>10
    <2>2. Passed(g, r, o.fate, l)
      BY <1>4, <1>6, <1>10, PassedInOrder
    <2> QED BY <1>4, <1>5, <1>8, <1>9, <2>1, <2>2
  <1>11. CASE o.fate = "recursion"
    <2>1. PICK b : b = Proxied!Drop(k - 1, p)
      OBVIOUS
    <2>2. pin' = b /\ k - 1 \in 0 .. Len(p) /\ k \in 1 .. Len(p)
      <3>1. o.used = k - 1 /\ k > 0
        BY <1>1, <1>2, <1>11
      <3>2. k - 1 \in 0 .. Len(p) /\ k \in 1 .. Len(p)
        BY <1>7, <3>1
      <3> QED BY <2>1, <3>1, <3>2
    <2>3. b \in Seq(Heard) /\ Len(b) = Len(p) - (k - 1) /\ b # <<>> /\ Head(b) = p[k]
      <3>1. b \in Seq(Heard) /\ Len(b) = Len(p) - (k - 1)
        BY <2>1, <2>2, DropFirst
      <3>2. Len(b) > 0
        BY <1>7, <2>2, <3>1
      <3>3. b # <<>> /\ Head(b) = b[1]
        BY <3>1, <3>2
      <3>4. b[1] = p[k]
        BY <1>7, <2>1, <2>2 DEF Proxied!Drop
      <3> QED BY <3>1, <3>3, <3>4
    <2>4. g # <<>> /\ g[Len(g)] = p[k]
      <3>1. PICK first : first = SubSeq(p, 1, k)
        OBVIOUS
      <3>2. first \in Seq(Heard) /\ Len(first) = k /\ first[k] = p[k]
        <4>1. first \in Seq(Heard) /\ Len(first) = k
          BY <2>2, <3>1, CutIsWhole
        <4>2. first[k] = p[k]
          BY <1>7, <2>2, <3>1
        <4> QED BY <4>1, <4>2
      <3>3. Len(got) \in Nat /\ k \in Nat /\ k > 0
        BY <2>2, LenProperties
      <3>4. Len(g) = Len(got) + k /\ g[Len(got) + k] = first[k]
        BY <1>3, <3>1, <3>2, <3>3
      <3>5. Len(g) # 0
        BY <3>3, <3>4
      <3> QED BY <1>4, <3>2, <3>4, <3>5, EmptySeq
    <2>5. Passed(g, b, o.fate, l)
      BY <1>4, <1>6, <2>3, <2>4, PassedInOrder
    <2> QED BY <1>4, <1>9, <1>11, <2>2, <2>3, <2>5
  <1> QED BY <1>10, <1>11

\* A closing connection: what is under way is in order, but for what it overtakes.
LEMMA OvertakingBegins ==
    ASSUME NEW g \in Seq(Heard), NEW p \in Seq(Heard), NEW q \in Seq(Heard), NEW n \in Nat,
           Said(g \o (p \o q), <<>>, n)
    PROVE  Overtaking(g, p, q, Len(g))
  <1>1. PICK e, u : e = <<>> /\ u = g \o (p \o q)
    OBVIOUS
  <1>2. PICK a \in Nat, b \in Nat, c \in Nat : a = Len(g) /\ b = Len(p) /\ c = Len(q)
    BY LenProperties
  <1>3. /\ Len(u) = a + (b + c)
        /\ \A i \in 1 .. a : u[i] = g[i]
        /\ \A i \in 1 .. b : u[a + i] = p[i]
        /\ \A i \in 1 .. c : u[b + (a + i)] = q[i]
    <2>1. PICK v : v = p \o q
      OBVIOUS
    <2>2. v \in Seq(Heard) /\ Len(v) = b + c
      BY <1>2, <2>1, ConcatProperties
    <2>3. (\A i \in 1 .. b : v[i] = p[i]) /\ \A i \in 1 .. c : v[b + i] = q[i]
      BY <1>2, <2>1
    <2>4. Len(u) = a + (b + c) /\ (\A i \in 1 .. a : u[i] = g[i]) /\ \A i \in 1 .. b + c : u[a + i] = v[i]
      BY <1>1, <1>2, <2>1, <2>2
    <2>5. \A i \in 1 .. c : b + i \in 1 .. b + c /\ b + (a + i) = a + (b + i)
      OBVIOUS
    <2>6. \A i \in 1 .. b : i \in 1 .. b + c
      OBVIOUS
    <2> QED BY <2>3, <2>4, <2>5, <2>6
  <1>4. Len(e) = 0 /\ Len(u) = Len(e) + n /\ \A i \in 1 .. n : u[Len(e) + i] = Proxied!Data(i)
    BY <1>1 DEF Said
  <1>5. n = a + (b + c) /\ \A i \in 1 .. n : u[i] = Proxied!Data(i)
    BY <1>3, <1>4
  <1>6. /\ \A i \in 1 .. a : i \in 1 .. n
        /\ \A i \in 1 .. b : a + i \in 1 .. n
        /\ \A i \in 1 .. c : b + (a + i) \in 1 .. n
        /\ ~\E i \in a + 1 .. a : TRUE
    BY <1>5
  <1>7. /\ \A i \in 1 .. a : g[i] = Proxied!Data(i)
        /\ \A i \in 1 .. b : p[i] = Proxied!Data(a + i)
        /\ \A i \in 1 .. c : q[i] = Proxied!Data(b + (a + i))
    BY <1>3, <1>5, <1>6
  <1> QED BY <1>2, <1>6, <1>7 DEF Overtaking

LEMMA OvertakingGoesOn ==
    ASSUME NEW g \in Seq(Heard), NEW p \in Seq(Heard), NEW q \in Seq(Heard), NEW m \in 0 .. Len(g),
           Overtaking(g, p, q, m), NEW k \in 0 .. Len(q), NEW h, NEW r,
           h = g \o SubSeq(q, 1, k), r = Proxied!Drop(k, q)
    PROVE  m \in 0 .. Len(h) /\ Overtaking(h, p, r, m)
  <1>1. PICK a \in Nat, b \in Nat, c \in Nat : a = Len(g) /\ b = Len(p) /\ c = Len(q)
    BY LenProperties
  <1>2. PICK first : first = SubSeq(q, 1, k)
    OBVIOUS
  <1>3. /\ first \in Seq(Heard) /\ Len(first) = k
        /\ \A i \in 1 .. k : first[i] = q[i]
    <2>1. first \in Seq(Heard) /\ Len(first) = k
      BY <1>2, CutIsWhole
    <2>2. \A i \in 1 .. k : first[i] = q[i]
      BY <1>1, <1>2
    <2> QED BY <2>1, <2>2
  <1>4. /\ h \in Seq(Heard) /\ Len(h) = a + k
        /\ \A i \in 1 .. a : h[i] = g[i]
        /\ \A i \in 1 .. k : h[a + i] = q[i]
    <2>1. h \in Seq(Heard) /\ Len(h) = a + k
      BY <1>1, <1>2, <1>3, ConcatProperties
    <2>2. (\A i \in 1 .. a : h[i] = g[i]) /\ \A i \in 1 .. k : h[a + i] = first[i]
      BY <1>1, <1>2, <1>3
    <2> QED BY <1>3, <2>1, <2>2
  <1>5. Len(r) = c - k /\ \A i \in 1 .. c - k : r[i] = q[k + i]
    <2>1. r = SubSeq(q, k + 1, c)
      BY <1>1 DEF Proxied!Drop
    <2>2. Len(r) = c - k
      BY <1>1, <2>1, CutIsWhole
    <2>3. k + 1 \in Int /\ c \in Int /\ \A i \in k + 1 .. c : q[i] \in Heard
      <3>1. \A i \in 1 .. c : q[i] \in Heard
        BY <1>1, ElementOfSeq
      <3>2. k \in Nat /\ \A i \in k + 1 .. c : i \in 1 .. c
        BY <1>1
      <3> QED BY <3>1, <3>2
    <2>4. \A i \in 1 .. c - (k + 1) + 1 : r[i] = q[(k + 1) + i - 1]
      BY <2>1, <2>3, SubSeqProperties
    <2>5. c - (k + 1) + 1 = c - k /\ \A i \in 1 .. c - k : (k + 1) + i - 1 = k + i
      BY <1>1
    <2> QED BY <2>2, <2>4, <2>5
  <1>6. /\ \A i \in 1 .. m : g[i] = Proxied!Data(i)
        /\ \A i \in 1 .. b : p[i] = Proxied!Data(m + i)
        /\ \A i \in m + 1 .. a : g[i] = Proxied!Data(b + i)
        /\ \A i \in 1 .. c : q[i] = Proxied!Data(b + (a + i))
    BY <1>1 DEF Overtaking
  <1>7. m \in 0 .. a /\ k \in 0 .. c
    BY <1>1
  <1>8. \A i \in 1 .. m : h[i] = Proxied!Data(i)
    <2>1. \A i \in 1 .. m : i \in 1 .. a
      BY <1>7
    <2> QED BY <1>4, <1>6, <2>1
  <1>9. ASSUME NEW i \in m + 1 .. a + k PROVE h[i] = Proxied!Data(b + i)
    <2>1. CASE i <= a
      <3>1. i \in 1 .. a /\ i \in m + 1 .. a
        BY <1>7, <2>1
      <3> QED BY <1>4, <1>6, <3>1
    <2>2. CASE i > a
      <3>1. PICK j \in 1 .. k : i = a + j
        <4>1. i - a \in 1 .. k /\ i = a + (i - a)
          BY <1>7, <2>2
        <4> QED BY <4>1
      <3>2. j \in 1 .. c
        BY <1>7
      <3> QED BY <1>4, <1>6, <3>1, <3>2
    <2>3. i <= a \/ i > a
      BY <1>7
    <2> QED BY <2>1, <2>2, <2>3
  <1>10. ASSUME NEW i \in 1 .. c - k PROVE r[i] = Proxied!Data(b + ((a + k) + i))
    <2>1. k + i \in 1 .. c /\ a + (k + i) = (a + k) + i
      BY <1>7
    <2>2. r[i] = q[k + i]
      BY <1>5
    <2> QED BY <1>6, <2>1, <2>2
  <1>11. m \in 0 .. a + k
    BY <1>7
  <1> QED BY <1>1, <1>4, <1>5, <1>6, <1>8, <1>9, <1>10, <1>11 DEF Overtaking

LEMMA OvertakingIsPassed ==
    ASSUME NEW g \in Seq(Heard), NEW p \in Seq(Heard), NEW q, NEW m \in 0 .. Len(g),
           Overtaking(g, p, q, m), NEW f, f # "recursion", NEW l, l # "open"
    PROVE  Passed(g, p, f, l)
  <1>1. DOMAIN p = 1 .. Len(p)
    OBVIOUS
  <1> QED BY <1>1 DEF Overtaking, Passed

-----------------------------------------------------------------------------
(* What is sent to the proxy server.                                           *)

LEMMA HeardIsSpoken == \A q \in Seq(Heard) : q \in Seq(Spoken)
  <1>1. Heard \subseteq Spoken
    BY DEF Spoken
  <1>2. \A S, T : S \subseteq T => \A q \in Seq(S) : q \in Seq(T)
    OBVIOUS
  <1> QED BY <1>1, <1>2

\* One more block ascends.
LEMMA DataMore ==
    ASSUME NEW q \in Seq(Spoken), NEW a \in 0 .. Len(q), NEW w \in Nat, DataFrom(q, a, w)
    PROVE  /\ Append(q, Proxied!Data(w + 1)) \in Seq(Spoken)
           /\ Len(Append(q, Proxied!Data(w + 1))) = Len(q) + 1
           /\ \A i \in 1 .. Len(q) : Append(q, Proxied!Data(w + 1))[i] = q[i]
           /\ DataFrom(Append(q, Proxied!Data(w + 1)), a, w + 1)
  <1>1. PICK x, v : x = Proxied!Data(w + 1) /\ v = Append(q, x)
    OBVIOUS
  <1>2. PICK m \in Nat : m = Len(q)
    BY LenProperties
  <1>3. x \in Spoken /\ Proxied!IsData(x) /\ x.n = w + 1
    BY <1>1 DEF Spoken, Heard, Words, Proxied!Data, Proxied!IsData
  <1>4. /\ v \in Seq(Spoken) /\ Len(v) = m + 1 /\ v[m + 1] = x
        /\ \A i \in 1 .. m : v[i] = q[i]
    BY <1>1, <1>2, <1>3
  <1>5. ASSUME NEW i \in a + 1 .. m + 1
        PROVE  /\ Proxied!IsData(v[i]) /\ v[i].n \in 0 .. w + 1
               /\ \A j \in a + 1 .. i - 1 : v[j].n < v[i].n
    <2>1. a \in 0 .. m
      BY <1>2
    <2>2. \A j \in a + 1 .. m : Proxied!IsData(q[j]) /\ q[j].n \in 0 .. w
      BY <1>2 DEF DataFrom
    <2>3. CASE i = m + 1
      <3>1. v[i] = x
        BY <1>4, <2>3
      <3>2. ASSUME NEW j \in a + 1 .. i - 1 PROVE v[j].n < w + 1
        <4>1. j \in a + 1 .. m /\ j \in 1 .. m
          BY <2>1, <2>3
        <4>2. v[j] = q[j] /\ q[j].n \in 0 .. w
          BY <1>4, <2>2, <4>1
        <4> QED BY <4>2
      <3>3. w + 1 \in 0 .. w + 1
        OBVIOUS
      <3> QED BY <1>3, <3>1, <3>2, <3>3
    <2>4. CASE i # m + 1
      <3>1. i \in a + 1 .. m /\ i \in 1 .. m
        BY <2>1, <2>4
      <3>2. v[i] = q[i] /\ Proxied!IsData(q[i]) /\ q[i].n \in 0 .. w
        BY <1>4, <2>2, <3>1
      <3>3. \A j \in a + 1 .. i - 1 : q[j].n < q[i].n
        BY <1>2, <3>1 DEF DataFrom
      <3>4. \A j \in a + 1 .. i - 1 : v[j] = q[j]
        BY <1>4, <2>1, <3>1
      <3>5. q[i].n \in 0 .. w + 1
        BY <3>2
      <3> QED BY <3>2, <3>3, <3>4, <3>5
    <2> QED BY <2>3, <2>4
  <1>6. DataFrom(v, a, w + 1)
    BY <1>4, <1>5 DEF DataFrom
  <1> QED BY <1>1, <1>2, <1>4, <1>6

\* What has waited goes after the requests.
LEMMA DataJoin ==
    ASSUME NEW p \in Seq(Spoken), NEW q \in Seq(Spoken), NEW w \in Nat, DataFrom(q, 0, w)
    PROVE  /\ p \o q \in Seq(Spoken) /\ Len(p) <= Len(p \o q)
           /\ \A i \in 1 .. Len(p) : (p \o q)[i] = p[i]
           /\ DataFrom(p \o q, Len(p), w)
  <1> DEFINE v == p \o q
  <1>1. PICK m \in Nat, n \in Nat : m = Len(p) /\ n = Len(q)
    BY LenProperties
  <1>2. /\ v \in Seq(Spoken) /\ Len(v) = m + n
        /\ \A i \in 1 .. m : v[i] = p[i]
        /\ \A i \in m + 1 .. m + n : v[i] = q[i - m]
    <2>1. /\ v \in Seq(Spoken) /\ Len(v) = m + n
          /\ \A i \in 1 .. m + n : v[i] = IF i <= m THEN p[i] ELSE q[i - m]
      BY <1>1
    <2> QED BY <2>1
  <1>3. ASSUME NEW i \in m + 1 .. m + n
        PROVE  /\ Proxied!IsData(v[i]) /\ v[i].n \in 0 .. w
               /\ \A j \in m + 1 .. i - 1 : v[j].n < v[i].n
    <2>1. i - m \in 0 + 1 .. n
      OBVIOUS
    <2>2. /\ Proxied!IsData(q[i - m]) /\ q[i - m].n \in 0 .. w
          /\ \A j \in 0 + 1 .. (i - m) - 1 : q[j].n < q[i - m].n
      BY <1>1, <2>1 DEF DataFrom
    <2>3. ASSUME NEW j \in m + 1 .. i - 1 PROVE v[j].n < v[i].n
      <3>1. j - m \in 0 + 1 .. (i - m) - 1 /\ j \in m + 1 .. m + n
        OBVIOUS
      <3>2. v[j] = q[j - m] /\ v[i] = q[i - m]
        BY <1>2, <3>1
      <3> QED BY <2>2, <3>1, <3>2
    <2>4. v[i] = q[i - m]
      BY <1>2
    <2> QED BY <2>2, <2>3, <2>4
  <1>4. DataFrom(v, m, w)
    BY <1>2, <1>3 DEF DataFrom
  <1> QED BY <1>1, <1>2, <1>4

-----------------------------------------------------------------------------
(* Every step of a connection through a proxy.                                 *)

\* Types that every step uses.
LEMMA ProxyFacts ==
    ASSUME ProxyInv
    PROVE  /\ ProxyTyped /\ sentData \in Nat /\ writes \in Nat /\ served \in Nat
           /\ MaxWrites \in Nat /\ MaxData \in Nat
           /\ pin \in Seq(Heard) /\ feed \in Seq(Heard) /\ got \in Seq(Heard) /\ wire \in Seq(Spoken)
           /\ pout \in Seq(Heard) /\ poob \in Seq(Heard)
           /\ poob \o pout \in Seq(Heard) /\ pin \o feed \in Seq(Heard)
  <1>1. ProxyTyped
    BY DEF ProxyInv
  <1>2. MaxWrites \in Nat /\ MaxData \in Nat
    BY Numbers
  <1>3. /\ pin \in Seq(Heard) /\ feed \in Seq(Heard) /\ got \in Seq(Heard) /\ wire \in Seq(Spoken)
        /\ pout \in Seq(Heard) /\ poob \in Seq(Heard) /\ served \in Nat
    BY <1>1 DEF ProxyTyped
  <1>4. sentData \in Nat /\ writes \in Nat
    BY <1>1, <1>2 DEF ProxyTyped
  <1> QED BY <1>1, <1>2, <1>3, <1>4, ConcatProperties

\* What is said in the states of the negotiation depends on the kind of the proxy alone.
LEMMA HearsStays ==
    ASSUME NEW a \in 0 .. 3, Hears(a),
           UNCHANGED <<how, pstate, subFrozen, link, fate, pin, feed, got, served, sentData>>
    PROVE  Hears(a)'
  <1>1. \A reply : reply \in Heralds(pstate) => reply \in Heralds(pstate)'
    BY DEF Heralds, Proxied!Replies, Asked
  <1>2. CASE link # "closed" /\ fate = "fine"
    <2>1. CASE pstate = "active"
      BY <1>2, <2>1 DEF Hears, Said, Overtaking
    <2>2. CASE pstate # "active"
      BY <1>1, <1>2, <2>2 DEF Hears, Said, Asked
    <2> QED BY <2>1, <2>2
  <1> QED BY <1>2 DEF Hears

\* The requests stay those of the negotiation.
LEMMA AsksStays ==
    ASSUME NEW a \in 0 .. 3, Asks(a), UNCHANGED <<how, pstate, served, wire, writes, poob, pout>>
    PROVE  Asks(a)'
  BY DEF Asks, Counts, Asked, DataFrom

\* The backend is told that the connection has been closed.
LEMMA ClosingKeeps == ASSUME ProxyInv, Proxied!Closing PROVE ProxyInv'
  <1>1. /\ link' = "closed" /\ fate = "fine"
        /\ UNCHANGED <<how, pstate, subFrozen, pfreeze, pin, pout, poob, feed, wire, served, got,
                       writes, sentData, fate>>
    BY DEF Proxied!Closing, Proxied!buffers
  <1>2. PICK a \in 0 .. 3 : Asks(a) /\ Hears(a)
    BY DEF ProxyInv
  <1>3. Asks(a)' /\ Hears(a)'
    BY <1>1, <1>2, AsksStays DEF Hears
  <1>4. ProxyTyped'
    BY <1>1 DEF ProxyInv, ProxyTyped
  <1>5. Passed(got, pin, fate, "closed")
    BY PassedStays DEF ProxyInv
  <1> QED BY <1>1, <1>2, <1>3, <1>4, <1>5 DEF ProxyInv

\* FD_CLOSE begins to deliver what has arrived.
LEMMA CloseArrivesKeeps == ASSUME ProxyInv, Proxied!CloseArrives PROVE ProxyInv'
  <1>1. /\ link = "open" /\ fate = "fine" /\ link' = "closing"
        /\ UNCHANGED <<how, pstate, subFrozen, pfreeze, pin, pout, poob, feed, wire, served, got,
                       writes, sentData, fate>>
    BY DEF Proxied!CloseArrives, Proxied!Up, Proxied!buffers
  <1>2. PICK a \in 0 .. 3 : Asks(a) /\ Hears(a)
    BY DEF ProxyInv
  <1>3. Asks(a)'
    BY <1>1, <1>2, AsksStays
  <1>4. Hears(a)'
    <2>1. CASE pstate = "active"
      <3>1. Said(got \o (pin \o feed), <<>>, sentData)
        BY <1>1, <1>2, <2>1 DEF Hears
      <3>2. Said(got' \o (pin' \o feed'), <<>>, sentData')
        BY <1>1, <3>1
      <3> QED BY <1>1, <2>1, <3>2 DEF Hears
    <2>2. CASE pstate # "active"
      <3>1. \A reply : reply \in Heralds(pstate) => reply \in Heralds(pstate)'
        BY <1>1 DEF Heralds, Proxied!Replies, Asked
      <3> QED BY <1>1, <1>2, <2>2, <3>1 DEF Hears, Said, Asked
    <2> QED BY <2>1, <2>2
  <1>5. ProxyTyped'
    BY <1>1 DEF ProxyInv, ProxyTyped
  <1>6. Passed(got, pin, fate, "closing")
    BY PassedStays DEF ProxyInv
  <1> QED BY <1>1, <1>2, <1>3, <1>4, <1>5, <1>6 DEF ProxyInv

\* The delivery that has started over: one more copy of the block that waits first.
LEMMA AgainKeeps == ASSUME ProxyInv, Proxied!Again PROVE ProxyInv'
  <1>1. /\ fate = "recursion" /\ got' = Append(got, Head(pin))
        /\ UNCHANGED <<how, pstate, link, subFrozen, pfreeze, pin, pout, poob, feed, wire, served,
                       writes, sentData, fate>>
    BY DEF Proxied!Again, Proxied!buffers
  <1>2. PICK a \in 0 .. 3 : Asks(a) /\ Hears(a)
    BY DEF ProxyInv
  <1>3. Asks(a)'
    BY <1>1, <1>2, AsksStays
  <1>4. Hears(a)'
    BY <1>1 DEF Hears
  <1>5. PICK n, x, h : n = Len(got) /\ x = Head(pin) /\ h = Append(got, x)
    OBVIOUS
  <1>6. pin # <<>> /\ got # <<>> /\ x = got[n] /\ n \in Nat /\ n > 0
    <2>1. pin # <<>> /\ got # <<>> /\ x = got[n]
      BY <1>1, <1>5 DEF ProxyInv, Passed
    <2> QED BY <1>5, <2>1, ProxyFacts, EmptySeq, LenProperties
  <1>7. x \in Heard
    <2>1. n \in 1 .. Len(got)
      BY <1>5, <1>6
    <2> QED BY <1>6, <2>1, ProxyFacts, ElementOfSeq
  <1>8. /\ h \in Seq(Heard) /\ Len(h) = n + 1 /\ h[n + 1] = x /\ h # <<>>
        /\ \A i \in 1 .. n : h[i] = got[i]
    BY <1>5, <1>7, ProxyFacts
  <1>9. PICK m \in 0 .. n :
          /\ \A i \in 1 .. m : got[i] = Proxied!Data(i)
          /\ \/ m = n
             \/ /\ x = Proxied!Data(m)
                /\ \A i \in m + 1 .. n : got[i] = Proxied!Data(m)
             \/ /\ m # n
                /\ \A i \in DOMAIN pin : pin[i] = Proxied!Data(m + i)
                /\ \A i \in m + 1 .. n : got[i] = Proxied!Data(Len(pin) + i)
    BY <1>1, <1>5 DEF ProxyInv, Passed
  <1>10. x = Proxied!Data(m) /\ \A i \in m + 1 .. n : got[i] = Proxied!Data(m)
    <2>1. CASE m = n
      <3>1. n \in 1 .. m /\ ~\E i \in m + 1 .. n : TRUE
        BY <1>6, <2>1
      <3> QED BY <1>6, <1>9, <2>1, <3>1
    <2>2. CASE /\ m # n
               /\ \A i \in DOMAIN pin : pin[i] = Proxied!Data(m + i)
               /\ \A i \in m + 1 .. n : got[i] = Proxied!Data(Len(pin) + i)
      <3>1. Len(pin) \in Nat /\ Len(pin) > 0 /\ 1 \in DOMAIN pin /\ x = pin[1]
        BY <1>5, <1>6, ProxyFacts
      <3>2. n \in m + 1 .. n
        BY <1>6, <1>9, <2>2
      <3>3. Proxied!Data(m + 1) = Proxied!Data(Len(pin) + n)
        BY <1>6, <2>2, <3>1, <3>2
      <3>4. m + 1 = Len(pin) + n
        BY <3>3 DEF Proxied!Data
      <3>5. m + 1 # Len(pin) + n
        BY <3>1, <3>2
      <3> QED BY <3>4, <3>5
    <2> QED BY <1>9, <2>1, <2>2
  <1>11. Passed(h, pin, fate, link)
    <2>1. \A i \in 1 .. m : h[i] = Proxied!Data(i)
      <3>1. \A i \in 1 .. m : i \in 1 .. n
        BY <1>6
      <3> QED BY <1>8, <1>9, <3>1
    <2>2. \A i \in m + 1 .. n + 1 : h[i] = Proxied!Data(m)
      <3>1. \A i \in m + 1 .. n + 1 : i = n + 1 \/ (i \in m + 1 .. n /\ i \in 1 .. n)
        BY <1>6
      <3> QED BY <1>8, <1>10, <3>1
    <2>3. m \in 0 .. n + 1
      BY <1>6
    <2> QED BY <1>1, <1>5, <1>6, <1>8, <1>10, <2>1, <2>2, <2>3 DEF Passed
  <1>12. ProxyTyped'
    BY <1>1, <1>5, <1>8 DEF ProxyInv, ProxyTyped
  <1> QED BY <1>1, <1>3, <1>4, <1>5, <1>11, <1>12 DEF ProxyInv

\* sk_proxy_write, sk_proxy_write_oob: a block goes to the end of what is sent, or waits at the end
\* of what waits, or in the place of it.
LEMMA WritesKeep == ASSUME ProxyInv, Proxied!Write \/ Proxied!WriteOob PROVE ProxyInv'
  <1>1. /\ writes' = writes + 1 /\ writes < MaxWrites
        /\ UNCHANGED <<how, pstate, link, subFrozen, pfreeze, pin, feed, served, got, sentData, fate>>
    BY DEF Proxied!Write, Proxied!WriteOob
  <1>2. PICK a \in 0 .. 3 : Asks(a) /\ Hears(a)
    BY DEF ProxyInv
  <1>3. Hears(a)'
    BY <1>1, <1>2, HearsStays
  <1>4. PICK x : x = Proxied!Data(writes + 1)
    OBVIOUS
  <1>5. x \in Heard /\ writes' \in 0 .. MaxWrites /\ writes + 1 \in Nat
    <2>1. writes + 1 \in Nat /\ writes' \in 0 .. MaxWrites
      BY <1>1, ProxyFacts
    <2>2. "data" \in Words
      BY DEF Words
    <2> QED BY <1>4, <2>1, <2>2 DEF Proxied!Data, Heard
  <1>6. a \in 0 .. Len(wire) /\ Len(wire) \in Nat
    <2>1. Len(wire) \in Nat
      BY ProxyFacts, LenProperties
    <2> QED BY <1>2, <2>1 DEF Asks
  <1>7. CASE pstate = "active"
    <2>1. wire' = Append(wire, x) /\ pout' = pout /\ poob' = poob
      BY <1>4, <1>7 DEF Proxied!Write, Proxied!WriteOob
    <2>2. /\ wire' \in Seq(Spoken) /\ Len(wire') = Len(wire) + 1
          /\ \A i \in 1 .. Len(wire) : wire'[i] = wire[i]
          /\ DataFrom(wire', a, writes')
      <3>1. DataFrom(wire, a, writes) /\ wire \in Seq(Spoken) /\ writes \in Nat
        BY <1>2, ProxyFacts DEF Asks
      <3> QED BY <1>1, <1>4, <1>6, <2>1, <3>1, DataMore
    <2>3. Asks(a)'
      <3>1. a <= Len(wire') /\ \A i \in 1 .. a : wire'[i] = wire[i]
        BY <1>6, <2>2
      <3>2. /\ \A i \in 1 .. a : ~Proxied!IsData(wire'[i])
            /\ a > 0 => wire'[a] = Proxied!Request(Asked(how.method, pstate))
            /\ \A i \in 1 .. a - 1 : wire'[i] # Proxied!Request("connect")
        <4>1. (a > 0 => a \in 1 .. a) /\ \A i \in 1 .. a - 1 : i \in 1 .. a
          BY <1>6
        <4> QED BY <1>2, <3>1, <4>1 DEF Asks
      <3>3. pout' = <<>> /\ poob' = <<>> /\ served' = a /\ pstate' = "active" /\ how' = how
        BY <1>1, <1>2, <1>7, <2>1 DEF Asks
      <3>4. a \in Counts(how.method, pstate) /\ served' <= a
        BY <1>1, <1>2 DEF Asks
      <3> QED BY <1>1, <2>2, <3>1, <3>2, <3>3, <3>4 DEF Asks
    <2>4. ProxyTyped'
      BY <1>1, <1>5, <2>1, <2>2 DEF ProxyInv, ProxyTyped
    <2> QED BY <1>1, <1>2, <1>3, <2>3, <2>4 DEF ProxyInv
  <1>8. CASE pstate # "active"
    <2>1. /\ wire' = wire
          /\ \/ pout' = Append(pout, x) /\ poob' = poob
             \/ pout' = <<>> /\ poob' = <<x>>
      BY <1>4, <1>8 DEF Proxied!Write, Proxied!WriteOob
    <2>2. Len(wire) = a /\ DataFrom(poob \o pout, 0, writes)
      BY <1>2, <1>8 DEF Asks
    <2>3. PICK old, none : old = poob \o pout /\ none = <<>>
      OBVIOUS
    <2>4. old \in Seq(Heard) /\ old \in Seq(Spoken) /\ none \in Seq(Heard) /\ none \in Seq(Spoken) /\ Len(none) = 0
      BY <2>3, ProxyFacts, HeardIsSpoken, EmptySeq
    <2>5. /\ pout' \in Seq(Heard) /\ poob' \in Seq(Heard)
          /\ \E q \in {old, none} : poob' \o pout' = Append(q, x)
      <3>1. CASE pout' = Append(pout, x) /\ poob' = poob
        BY <1>5, <2>3, <3>1, ProxyFacts, HeardAppend, AppendProperties
      <3>2. CASE pout' = <<>> /\ poob' = <<x>>
        <4>1. PICK u : u = <<x>>
          OBVIOUS
        <4>2. u \in Seq(Heard) /\ u = Append(none, x)
          BY <1>5, <2>3, <4>1
        <4>3. u \o none = u
          BY <2>3, <4>2, ConcatEmptySeq
        <4> QED BY <2>3, <2>4, <3>2, <4>1, <4>2, <4>3
      <3> QED BY <2>1, <3>1, <3>2
    <2>6. DataFrom(poob' \o pout', 0, writes')
      <3>1. PICK q \in {old, none} : poob' \o pout' = Append(q, x)
        BY <2>5
      <3>2. q \in Seq(Spoken) /\ DataFrom(q, 0, writes) /\ 0 \in 0 .. Len(q) /\ writes \in Nat
        <4>1. DataFrom(none, 0, writes)
          BY <2>4 DEF DataFrom
        <4>2. Len(old) \in Nat /\ Len(none) \in Nat
          BY <2>4, LenProperties
        <4>3. CASE q = old
          BY <2>2, <2>3, <2>4, <4>2, <4>3, ProxyFacts
        <4>4. CASE q = none
          BY <2>4, <4>1, <4>2, <4>4, ProxyFacts
        <4> QED BY <3>1, <4>3, <4>4
      <3>3. DataFrom(Append(q, x), 0, writes + 1)
        BY <1>4, <3>2, DataMore
      <3> QED BY <1>1, <3>1, <3>3
    <2>7. Asks(a)'
      <3>1. DataFrom(wire, a, writes + 1)
        <4>1. ~\E i \in a + 1 .. Len(wire) : TRUE
          BY <1>6, <2>2
        <4> QED BY <4>1 DEF DataFrom
      <3> QED BY <1>1, <1>2, <1>8, <2>1, <2>2, <2>6, <3>1 DEF Asks
    <2>8. ProxyTyped'
      BY <1>1, <1>5, <2>1, <2>5 DEF ProxyInv, ProxyTyped
    <2> QED BY <1>1, <1>2, <1>3, <2>7, <2>8 DEF ProxyInv
  <1> QED BY <1>7, <1>8

\* The backend takes what waits.
LEMMA UnfreezeKeeps == ASSUME ProxyInv, Proxied!Unfreeze PROVE ProxyInv'
  <1>1. /\ link = "open" /\ fate = "fine"
        /\ UNCHANGED <<how, pstate, link, pout, poob, feed, wire, served, writes, sentData>>
    BY DEF Proxied!Unfreeze, Proxied!Up
  <1>2. PICK a \in 0 .. 3 : Asks(a) /\ Hears(a)
    BY DEF ProxyInv
  <1>3. Asks(a)'
    BY <1>1, <1>2, AsksStays
  <1>4. CASE pstate # "active"
    <2>1. UNCHANGED <<pin, got, subFrozen, fate>> /\ pfreeze' = FALSE
      BY <1>4 DEF Proxied!Unfreeze
    <2>2. Hears(a)'
      BY <1>1, <1>2, <2>1, HearsStays
    <2>3. ProxyTyped'
      BY <1>1, <2>1 DEF ProxyInv, ProxyTyped
    <2> QED BY <1>1, <1>3, <2>1, <2>2, <2>3 DEF ProxyInv
  <1>5. CASE pstate = "active"
    <2>1. PICK o \in Proxied!Handover(pin) :
            /\ got' = got \o SubSeq(pin, 1, o.seen) /\ pin' = Proxied!Drop(o.used, pin)
            /\ pfreeze' \in {pfreeze, o.freeze} /\ fate' = o.fate /\ subFrozen' = o.sub
      BY <1>5 DEF Proxied!Unfreeze
    <2>2. o.freeze \in BOOLEAN /\ o.sub \in BOOLEAN /\ o.fate \in {"fine", "freed", "recursion"}
      BY ProxyFacts, Parts
    <2>3. Said(got \o (pin \o feed), <<>>, sentData)
      BY <1>1, <1>2, <1>5 DEF Hears
    <2>4. /\ got' \in Seq(Heard) /\ pin' \in Seq(Heard) /\ Passed(got', pin', o.fate, link)
          /\ o.fate = "fine" => Said(got' \o (pin' \o feed), <<>>, sentData)
          /\ o.fate = "fine" /\ pin' # <<>> => o.sub
      BY <2>1, <2>3, ProxyFacts, Handed
    <2>5. Hears(a)'
      BY <1>1, <1>5, <2>1, <2>4 DEF Hears
    <2>6. ProxyTyped'
      BY <1>1, <2>1, <2>2, <2>4 DEF ProxyInv, ProxyTyped
    <2>7. Passed(got', pin', fate', link')
      BY <1>1, <2>1, <2>4
    <2> QED BY <1>1, <1>3, <2>5, <2>6, <2>7 DEF ProxyInv
  <1> QED BY <1>4, <1>5

\* A reply that is made up of known words.
LEMMA RepliesHeard ==
    ASSUME NEW x, NEW reply \in Proxied!Replies(x)
    PROVE  /\ Proxied!Toks(reply) \in Seq(Heard) /\ Len(reply) \in Nat
           /\ Len(Proxied!Toks(reply)) = Len(reply)
           /\ \A i \in 1 .. Len(reply) : Proxied!Toks(reply)[i] = Proxied!Tok(reply[i])
  <1>1. \A w \in Words : Proxied!Tok(w) \in Heard
    BY DEF Proxied!Tok, Heard
  <1>2. /\ Len(reply) \in Nat /\ DOMAIN reply = 1 .. Len(reply)
        /\ \A i \in 1 .. Len(reply) : reply[i] \in Words
    BY DEF Proxied!Replies, Words
  <1>3. PICK n \in Nat : n = Len(reply)
    BY <1>2
  <1>4. PICK toks : toks = Proxied!Toks(reply)
    OBVIOUS
  <1>5. toks = [i \in 1 .. n |-> Proxied!Tok(reply[i])]
    BY <1>2, <1>3, <1>4 DEF Proxied!Toks
  <1>6. /\ \A i \in 1 .. n : toks[i] = Proxied!Tok(reply[i]) /\ toks[i] \in Heard
        /\ DOMAIN toks = 1 .. n
    BY <1>1, <1>2, <1>3, <1>5
  <1>7. toks \in Seq(Heard) /\ Len(toks) = n
    BY <1>5, <1>6
  <1> QED BY <1>3, <1>4, <1>6, <1>7

\* The proxy server answers the last request.
LEMMA ServerRepliesKeeps == ASSUME ProxyInv, Proxied!ServerReplies PROVE ProxyInv'
  <1>1. /\ served < Len(wire) /\ ~Proxied!IsData(wire[served + 1]) /\ served' = served + 1
        /\ link = "open"
        /\ UNCHANGED <<how, pstate, link, subFrozen, pfreeze, pin, pout, poob, wire, got, writes, sentData, fate>>
    BY DEF Proxied!ServerReplies, Proxied!buffers
  <1>2. PICK a \in 0 .. 3 : Asks(a) /\ Hears(a)
    BY DEF ProxyInv
  <1>3. PICK reply \in Proxied!Replies(wire[served + 1].r) : feed' = feed \o Proxied!Toks(reply)
    BY DEF Proxied!ServerReplies
  <1>4. PICK toks : toks = Proxied!Toks(reply)
    OBVIOUS
  <1>5. /\ toks \in Seq(Heard) /\ Len(reply) \in Nat /\ Len(toks) = Len(reply)
        /\ \A i \in 1 .. Len(reply) : toks[i] = Proxied!Tok(reply[i])
    BY <1>4, RepliesHeard
  <1>6. served + 1 <= a /\ pstate # "active"
    <2>1. Len(wire) \in Nat /\ served \in Nat
      BY ProxyFacts, LenProperties
    <2>2. a <= Len(wire) /\ served <= a /\ \A i \in a + 1 .. Len(wire) : Proxied!IsData(wire[i])
      BY <1>2 DEF Asks, DataFrom
    <2>3. served # a
      <3>1. served = a => served + 1 \in a + 1 .. Len(wire)
        BY <1>1, <2>1
      <3> QED BY <1>1, <2>2, <3>1
    <2> QED BY <1>2, <2>1, <2>2, <2>3 DEF Asks
  <1>7. Asks(a)'
    <2>1. served' <= a
      BY <1>1, <1>6
    <2> QED BY <1>1, <1>2, <1>6, <2>1 DEF Asks
  <1>8. Hears(a)'
    <2>1. CASE fate # "fine"
      BY <1>1, <2>1 DEF Hears
    <2>2. CASE fate = "fine"
      <3>1. served \in Nat /\ served # a
        BY <1>6, ProxyFacts
      <3>2. got = <<>> /\ served = a - 1 /\ pin = <<>> /\ feed = <<>> /\ sentData = 0 /\ pstate # "s2"
        BY <1>1, <1>2, <1>6, <2>2, <3>1 DEF Hears
      <3>3. served' = a /\ a > 0 /\ served + 1 = a
        BY <1>1, <3>1, <3>2
      <3>4. wire[a] = Proxied!Request(Asked(how.method, pstate))
        BY <1>2, <3>3 DEF Asks
      <3>5. wire[served + 1].r = Asked(how.method, pstate)
        BY <3>3, <3>4 DEF Proxied!Request
      <3>6. reply \in Heralds(pstate)
        BY <1>3, <3>2, <3>5 DEF Heralds
      <3>7. reply \in Heralds(pstate)'
        BY <1>1, <3>6 DEF Heralds, Proxied!Replies, Asked
      <3>8. pin' \o feed' = toks
        BY <1>1, <1>3, <1>4, <1>5, <3>2, ConcatEmptySeq
      <3>9. Said(toks, reply, 0)
        BY <1>5 DEF Said
      <3>10. Said(pin' \o feed', reply, sentData')
        BY <1>1, <3>2, <3>8, <3>9
      <3>11. got' = <<>> /\ pstate' # "active" /\ sentData' = 0
        BY <1>1, <1>6, <3>2
      <3> QED BY <3>3, <3>7, <3>10, <3>11 DEF Hears
    <2> QED BY <2>1, <2>2
  <1>9. ProxyTyped'
    <2>1. feed' \in Seq(Heard) /\ served' \in Nat
      BY <1>1, <1>3, <1>4, <1>5, ProxyFacts, ConcatProperties
    <2> QED BY <1>1, <2>1 DEF ProxyInv, ProxyTyped
  <1> QED BY <1>1, <1>7, <1>8, <1>9 DEF ProxyInv

\* The server sends a block.
LEMMA ServerSendsKeeps == ASSUME ProxyInv, Proxied!ServerSends PROVE ProxyInv'
  <1>1. /\ sentData < MaxData /\ sentData' = sentData + 1
        /\ feed' = Append(feed, Proxied!Data(sentData + 1))
        /\ how.method = "direct" \/ (served > 0 /\ wire[served] = Proxied!Request("connect"))
        /\ link = "open"
        /\ UNCHANGED <<how, pstate, link, subFrozen, pfreeze, pin, pout, poob, wire, served, got, writes, fate>>
    BY DEF Proxied!ServerSends, Proxied!buffers, Proxied!Granted
  <1>2. PICK a \in 0 .. 3 : Asks(a) /\ Hears(a)
    BY DEF ProxyInv
  <1>3. PICK x : x = Proxied!Data(sentData + 1)
    OBVIOUS
  <1>4. /\ x \in Heard
        /\ \A u, reply : Len(reply) \in Nat /\ Said(u, reply, sentData)
                           => Said(Append(u, x), reply, sentData')
    <2>1. \A u, reply : Len(reply) \in Nat /\ Said(u, reply, sentData)
                          => Said(Append(u, x), reply, sentData')
      BY <1>1, <1>3, ProxyFacts, SaidMore
    <2>2. sentData + 1 \in Nat /\ "data" \in Words
      BY ProxyFacts DEF Words
    <2> QED BY <1>3, <2>1, <2>2 DEF Proxied!Data, Heard
  <1>5. Asks(a)'
    BY <1>1, <1>2, AsksStays
  <1>6. pin \o Append(feed, x) = Append(pin \o feed, x)
    BY <1>4, ProxyFacts, HeardAppend
  <1>7. Hears(a)'
    <2>1. CASE fate # "fine"
      BY <1>1, <2>1 DEF Hears
    <2>2. CASE fate = "fine" /\ pstate = "active"
      <3>1. got \o Append(pin \o feed, x) = Append(got \o (pin \o feed), x)
        BY <1>4, ProxyFacts, HeardAppend
      <3>2. Said(got \o (pin \o feed), <<>>, sentData) /\ Len(<<>>) \in Nat
        BY <1>1, <1>2, <2>2, EmptySeq DEF Hears
      <3>3. Said(got \o (pin \o Append(feed, x)), <<>>, sentData')
        BY <1>4, <1>6, <3>1, <3>2
      <3>4. pin # <<>> => subFrozen
        BY <1>1, <1>2, <2>2 DEF Hears
      <3> QED BY <1>1, <1>3, <2>2, <3>3, <3>4 DEF Hears
    <2>3. CASE fate = "fine" /\ pstate # "active"
      <3>1. how.method # "direct" /\ served > 0 /\ wire[served] = Proxied!Request("connect")
        BY <1>1, <2>3, ProxyFacts DEF ProxyTyped, States
      <3>2. served = a
        <4>1. served \in Nat /\ served <= a /\ \A i \in 1 .. a - 1 : wire[i] # Proxied!Request("connect")
          BY <1>2, ProxyFacts DEF Asks
        <4> QED BY <3>1, <4>1
      <3>3. Asked(how.method, pstate) = "connect"
        <4>1. wire[a] = Proxied!Request(Asked(how.method, pstate))
          BY <1>2, <3>1, <3>2 DEF Asks
        <4> QED BY <3>1, <3>2, <4>1 DEF Proxied!Request
      <3>4. got = <<>> /\ \E reply \in Heralds(pstate) : Said(pin \o feed, reply, sentData)
        BY <1>1, <1>2, <2>3, <3>2 DEF Hears
      <3>5. PICK reply \in Heralds(pstate) : Said(pin \o feed, reply, sentData)
        BY <3>4
      <3>6. Len(reply) \in Nat
        BY DEF Heralds, HeaderLines, Proxied!Replies
      <3>7. Said(pin \o Append(feed, x), reply, sentData')
        BY <1>4, <1>6, <3>5, <3>6
      <3>8. reply \in Heralds(pstate)'
        BY <1>1 DEF Heralds, Proxied!Replies, Asked
      <3>9. Asked(how.method, pstate)' = "connect" /\ got' = <<>> /\ served' = a /\ pstate' # "active"
        BY <1>1, <2>3, <3>2, <3>3, <3>4 DEF Asked
      <3>10. Said(pin' \o feed', reply, sentData')
        BY <1>1, <1>3, <3>7
      <3> QED BY <3>8, <3>9, <3>10 DEF Hears
    <2> QED BY <2>1, <2>2, <2>3
  <1>8. ProxyTyped'
    <2>1. feed' \in Seq(Heard)
      BY <1>1, <1>3, <1>4, ProxyFacts, AppendProperties
    <2>2. sentData' \in 0 .. MaxData
      BY <1>1, ProxyFacts
    <2> QED BY <1>1, <2>1, <2>2 DEF ProxyInv, ProxyTyped
  <1> QED BY <1>1, <1>5, <1>7, <1>8 DEF ProxyInv

\* What is read is what the negotiation, or the backend, goes on from.
LEMMA ReceivesBlock ==
    ASSUME ProxyInv, NEW k \in 1 .. Len(feed)
    PROVE  LET block == SubSeq(feed, 1, k)
               left == Proxied!Drop(k, feed)
           IN  /\ block \in Seq(Heard) /\ left \in Seq(Heard) /\ pin \o block \in Seq(Heard)
               /\ pin \o block # <<>> /\ block \o left = feed
               /\ (pin \o block) \o left = pin \o feed
  <1>1. PICK block, left : block = SubSeq(feed, 1, k) /\ left = Proxied!Drop(k, feed)
    OBVIOUS
  <1>2. feed \in Seq(Heard) /\ pin \in Seq(Heard)
    BY ProxyFacts
  <1>3. k \in 0 .. Len(feed) /\ k > 0
    BY <1>2, LenProperties
  <1>4. block \in Seq(Heard) /\ left \in Seq(Heard) /\ Len(block) = k /\ block \o left = feed
    BY <1>1, <1>2, <1>3, CutIsWhole DEF Proxied!Drop
  <1>5. pin \o block \in Seq(Heard) /\ (pin \o block) \o left = pin \o (block \o left)
    BY <1>2, <1>4, HeardRegroup, ConcatProperties
  <1>6. pin \o block # <<>>
    <2>1. Len(pin \o block) = Len(pin) + k /\ Len(pin) \in Nat
      BY <1>2, <1>4, ConcatProperties, LenProperties
    <2>2. Len(pin) + k # 0
      BY <1>3, <2>1
    <2> QED BY <2>1, <2>2, EmptySeq
  <1> QED BY <1>1, <1>4, <1>5, <1>6

\* Data, once the negotiation is over and while the connection is open.
LEMMA ReceiveOpen ==
    ASSUME ProxyInv, NEW k \in 1 .. Len(feed), Proxied!Receive(k), pstate = "active", link = "open"
    PROVE  ProxyInv'
  <1>1. PICK block, left : block = SubSeq(feed, 1, k) /\ left = Proxied!Drop(k, feed)
    OBVIOUS
  <1>2. /\ fate = "fine" /\ ~subFrozen
        /\ feed' = left /\ got' = got \o block /\ subFrozen' \in BOOLEAN /\ link' \in {"open", "closed"}
        /\ UNCHANGED <<how, pstate, pfreeze, pin, pout, poob, wire, fate, served, writes, sentData>>
    <2>1. /\ feed' = left /\ got' = got \o block /\ fate = "fine" /\ ~subFrozen
          /\ UNCHANGED <<how, pstate, pfreeze, pin, pout, poob, wire, served, writes, sentData>>
      BY <1>1 DEF Proxied!Receive, Proxied!buffers
    <2>2. \/ link' = link /\ fate' = fate /\ subFrozen' \in {subFrozen, TRUE, FALSE}
          \/ link' = "closed" /\ fate' = Proxied!AfterClose /\ UNCHANGED subFrozen
      BY DEF Proxied!Receive
    <2>3. Proxied!AfterClose = "fine"
      BY DEF Proxied!AfterClose
    <2>4. subFrozen \in BOOLEAN
      BY DEF ProxyInv, ProxyTyped
    <2> QED BY <2>1, <2>2, <2>3, <2>4
  <1>3. PICK a \in 0 .. 3 : Asks(a) /\ Hears(a)
    BY DEF ProxyInv
  <1>4. pin = <<>> /\ Said(got \o (pin \o feed), <<>>, sentData)
    BY <1>2, <1>3 DEF Hears
  <1>5. block \in Seq(Heard) /\ left \in Seq(Heard) /\ block \o left = feed
    BY <1>1, ReceivesBlock
  <1>6. pin \o feed = feed /\ pin \o left = left
    BY <1>4, <1>5, ProxyFacts, ConcatEmptySeq
  <1>7. got' \in Seq(Heard) /\ got' \o left = got \o feed
    <2>1. got \in Seq(Heard) /\ block \in Seq(Heard) /\ left \in Seq(Heard)
      BY <1>5, ProxyFacts
    <2>2. (got \o block) \o left = got \o (block \o left) /\ got \o block \in Seq(Heard)
      BY <2>1, HeardRegroup, ConcatProperties
    <2> QED BY <1>2, <1>5, <2>2
  <1>8. Said(got' \o (pin' \o feed'), <<>>, sentData')
    BY <1>2, <1>4, <1>6, <1>7
  <1>9. Passed(got', pin, fate, link')
    <2>1. Said(got' \o left, <<>>, sentData) /\ sentData \in Nat
      BY <1>4, <1>6, <1>7, ProxyFacts
    <2>2. Said(got', <<>>, Len(got'))
      BY <1>5, <1>7, <2>1, SaidFirst
    <2> QED BY <1>2, <1>7, <2>2, PassedInOrder
  <1>10. Hears(a)'
    BY <1>2, <1>4, <1>8 DEF Hears
  <1>11. Asks(a)'
    BY <1>2, <1>3, AsksStays
  <1>12. ProxyTyped'
    BY <1>2, <1>5, <1>7 DEF ProxyInv, ProxyTyped
  <1> QED BY <1>2, <1>9, <1>10, <1>11, <1>12 DEF ProxyInv

\* FD_CLOSE delivers, past what waits.
LEMMA ReceiveClosing ==
    ASSUME ProxyInv, NEW k \in 1 .. Len(feed), Proxied!Receive(k), pstate = "active", link = "closing"
    PROVE  ProxyInv'
  <1>1. PICK block, left : block = SubSeq(feed, 1, k) /\ left = Proxied!Drop(k, feed)
    OBVIOUS
  <1>2. /\ fate = "fine" /\ feed' = left /\ got' = got \o block /\ subFrozen' \in BOOLEAN
        /\ link' \in {"closing", "closed"} /\ fate' \in {"fine", "freed"}
        /\ UNCHANGED <<how, pstate, pfreeze, pin, pout, poob, wire, served, writes, sentData>>
    <2>1. /\ feed' = left /\ got' = got \o block /\ fate = "fine"
          /\ UNCHANGED <<how, pstate, pfreeze, pin, pout, poob, wire, served, writes, sentData>>
      BY <1>1 DEF Proxied!Receive, Proxied!buffers
    <2>2. \/ link' = link /\ fate' = fate /\ subFrozen' \in {subFrozen, TRUE, FALSE}
          \/ link' = "closed" /\ fate' = Proxied!AfterClose /\ UNCHANGED subFrozen
      BY DEF Proxied!Receive
    <2>3. Proxied!AfterClose = "freed"
      BY DEF Proxied!AfterClose
    <2>4. subFrozen \in BOOLEAN
      BY DEF ProxyInv, ProxyTyped
    <2> QED BY <2>1, <2>2, <2>3, <2>4
  <1>3. PICK a \in 0 .. 3 : Asks(a) /\ Hears(a)
    BY DEF ProxyInv
  <1>4. PICK m \in 0 .. Len(got) : Overtaking(got, pin, feed, m)
    <2>1. CASE Said(got \o (pin \o feed), <<>>, sentData)
      <3>1. Overtaking(got, pin, feed, Len(got))
        BY <2>1, ProxyFacts, OvertakingBegins
      <3>2. Len(got) \in 0 .. Len(got)
        BY ProxyFacts, LenProperties
      <3> QED BY <3>1, <3>2
    <2> QED BY <1>2, <1>3, <2>1 DEF Hears
  <1>5. block \in Seq(Heard) /\ left \in Seq(Heard) /\ got' \in Seq(Heard)
    BY <1>1, <1>2, ReceivesBlock, ProxyFacts, ConcatProperties
  <1>6. m \in 0 .. Len(got') /\ Overtaking(got', pin, left, m)
    <2>1. k \in 0 .. Len(feed)
      BY ProxyFacts, LenProperties
    <2> QED BY <1>1, <1>2, <1>4, <2>1, ProxyFacts, OvertakingGoesOn
  <1>7. Passed(got', pin, fate', link')
    BY <1>2, <1>5, <1>6, ProxyFacts, OvertakingIsPassed
  <1>8. Hears(a)'
    BY <1>2, <1>6 DEF Hears
  <1>9. Asks(a)'
    BY <1>2, <1>3, AsksStays
  <1>10. ProxyTyped'
    BY <1>2, <1>5 DEF ProxyInv, ProxyTyped
  <1> QED BY <1>2, <1>7, <1>8, <1>9, <1>10 DEF ProxyInv

\* Data, once the negotiation is over.
LEMMA ReceiveData ==
    ASSUME ProxyInv, NEW k \in 1 .. Len(feed), Proxied!Receive(k), pstate = "active"
    PROVE  ProxyInv'
  <1>1. link \in {"open", "closing"}
    BY DEF Proxied!Receive
  <1> QED BY <1>1, ReceiveOpen, ReceiveClosing

\* The negotiation is over: what the backend has sent meanwhile goes to the server, and what the
\* server has sent goes to the backend, when it is ready.
LEMMA Activates ==
    ASSUME ProxyInv, NEW left \in Seq(Heard), NEW step, NEW a \in 0 .. 3, Asks(a),
           pstate # "active", Asked(how.method, pstate) = "connect", served = a, got = <<>>,
           step \in Seq(Heard), Said(step \o left, <<>>, sentData), fate = "fine",
           pstate' = "active", Proxied!HandOver(step), feed' = left,
           wire' = wire \o poob \o pout, pout' = <<>>, poob' = <<>>,
           UNCHANGED <<how, link, served, writes, sentData>>
    PROVE  ProxyInv'
  <1>1. how.method # "direct"
    BY ProxyFacts DEF ProxyTyped, States
  <1>2. Len(wire) = a /\ DataFrom(poob \o pout, 0, writes) /\ a \in {1, 2, 3}
    BY <1>1 DEF Asks, Counts
  <1>3. wire' = wire \o (poob \o pout)
    <2>1. wire \in Seq(Spoken) /\ poob \in Seq(Spoken) /\ pout \in Seq(Spoken)
      BY ProxyFacts, HeardIsSpoken
    <2>2. \A p, q, r \in Seq(Spoken) : (p \o q) \o r = p \o (q \o r)
      OBVIOUS
    <2> QED BY <2>1, <2>2
  <1>4. /\ wire' \in Seq(Spoken) /\ a <= Len(wire')
        /\ \A i \in 1 .. a : wire'[i] = wire[i]
        /\ DataFrom(wire', a, writes)
    <2>1. PICK p, q : p = wire /\ q = poob \o pout
      OBVIOUS
    <2>2. p \in Seq(Spoken) /\ q \in Seq(Spoken) /\ writes \in Nat /\ DataFrom(q, 0, writes)
      BY <1>2, <2>1, ProxyFacts, HeardIsSpoken
    <2>3. /\ p \o q \in Seq(Spoken) /\ Len(p) <= Len(p \o q)
          /\ \A i \in 1 .. Len(p) : (p \o q)[i] = p[i]
          /\ DataFrom(p \o q, Len(p), writes)
      BY <2>2, DataJoin
    <2> QED BY <1>2, <1>3, <2>1, <2>3
  <1>5. Asks(a)'
    <2>1. /\ a \in Counts(how.method, "active")
          /\ Asked(how.method, "active") = "connect"
      BY <1>1, <1>2 DEF Counts, Asked
    <2>2. /\ \A i \in 1 .. a : ~Proxied!IsData(wire'[i])
          /\ a > 0 => wire'[a] = Proxied!Request("connect")
          /\ \A i \in 1 .. a - 1 : wire'[i] # Proxied!Request("connect")
      <3>1. (a > 0 => a \in 1 .. a) /\ \A i \in 1 .. a - 1 : i \in 1 .. a
        BY <1>2
      <3> QED BY <1>4, <3>1 DEF Asks
    <2> QED BY <1>4, <2>1, <2>2 DEF Asks
  <1>6. \/ got' = got /\ pin' = step /\ subFrozen' = TRUE /\ pfreeze' = pfreeze /\ fate' = fate
        \/ \E o \in Proxied!Handover(step) :
             /\ got' = got \o SubSeq(step, 1, o.seen) /\ pin' = Proxied!Drop(o.used, step)
             /\ pfreeze' = o.freeze /\ fate' = o.fate /\ subFrozen' = o.sub
    BY DEF Proxied!HandOver
  <1>7. Said(got \o (step \o left), <<>>, sentData)
    <2>1. step \o left \in Seq(Heard)
      BY ConcatProperties
    <2> QED BY <2>1, ConcatEmptySeq
  <1>8. /\ got' \in Seq(Heard) /\ pin' \in Seq(Heard) /\ Passed(got', pin', fate', link)
        /\ fate' = "fine" => Said(got' \o (pin' \o left), <<>>, sentData)
        /\ fate' = "fine" /\ pin' # <<>> => subFrozen'
        /\ pfreeze' \in BOOLEAN /\ subFrozen' \in BOOLEAN /\ fate' \in {"fine", "freed", "recursion"}
    <2>1. CASE got' = got /\ pin' = step /\ subFrozen' = TRUE /\ pfreeze' = pfreeze /\ fate' = fate
      <3>1. got \in Seq(Heard) /\ pfreeze \in BOOLEAN
        BY DEF ProxyInv, ProxyTyped
      <3>2. Said(got, <<>>, Len(got))
        BY <1>7, <3>1, ConcatProperties, ProxyFacts, SaidFirst
      <3>3. Passed(got, step, fate, link)
        BY <3>1, <3>2, PassedInOrder
      <3> QED BY <1>7, <2>1, <3>1, <3>3
    <2>2. ASSUME NEW o \in Proxied!Handover(step),
                 got' = got \o SubSeq(step, 1, o.seen), pin' = Proxied!Drop(o.used, step),
                 pfreeze' = o.freeze, fate' = o.fate, subFrozen' = o.sub
          PROVE  /\ got' \in Seq(Heard) /\ pin' \in Seq(Heard) /\ Passed(got', pin', fate', link)
                 /\ fate' = "fine" => Said(got' \o (pin' \o left), <<>>, sentData)
                 /\ fate' = "fine" /\ pin' # <<>> => subFrozen'
                 /\ pfreeze' \in BOOLEAN /\ subFrozen' \in BOOLEAN /\ fate' \in {"fine", "freed", "recursion"}
      <3>1. o.freeze \in BOOLEAN /\ o.sub \in BOOLEAN /\ o.fate \in {"fine", "freed", "recursion"}
        BY Parts
      <3>2. /\ got' \in Seq(Heard) /\ pin' \in Seq(Heard) /\ Passed(got', pin', o.fate, link)
            /\ o.fate = "fine" => Said(got' \o (pin' \o left), <<>>, sentData)
            /\ o.fate = "fine" /\ pin' # <<>> => o.sub
        BY <1>7, <2>2, ProxyFacts, Handed
      <3> QED BY <2>2, <3>1, <3>2
    <2> QED BY <1>6, <2>1, <2>2
  <1>9. Hears(a)'
    BY <1>8 DEF Hears
  <1>10. ProxyTyped'
    BY <1>4, <1>8, EmptySeq DEF ProxyInv, ProxyTyped
  <1> QED BY <1>5, <1>8, <1>9, <1>10 DEF ProxyInv

\* The negotiation goes on, is over, or has failed.
LEMMA ReceiveReply ==
    ASSUME ProxyInv, NEW k \in 1 .. Len(feed), Proxied!Receive(k), pstate # "active"
    PROVE  ProxyInv'
  <1>1. PICK block, left : block = SubSeq(feed, 1, k) /\ left = Proxied!Drop(k, feed)
    OBVIOUS
  <1>2. PICK p, step : p = pin \o block /\ step = Proxied!Negotiate(p)
    OBVIOUS
  <1>3. /\ link \in {"open", "closing"} /\ fate = "fine" /\ feed' = left
        /\ UNCHANGED <<how, served, writes, sentData>>
    BY <1>1 DEF Proxied!Receive
  <1>4. \/ /\ step.to = "failed" /\ link' = "closed" /\ fate' = Proxied!AfterClose /\ pin' = step.in
           /\ UNCHANGED <<pstate, subFrozen, pfreeze, pout, poob, wire, got>>
        \/ /\ step.to = "active" /\ pstate' = "active" /\ Proxied!HandOver(step.in)
           /\ wire' = wire \o poob \o pout /\ pout' = <<>> /\ poob' = <<>> /\ UNCHANGED link
        \/ /\ step.to \notin {"failed", "active"}
           /\ pstate' = step.to /\ pin' = step.in /\ wire' = wire \o step.send
           /\ UNCHANGED <<link, subFrozen, pfreeze, pout, poob, got, fate>>
    BY <1>1, <1>2 DEF Proxied!Receive
  <1>5. PICK a \in 0 .. 3 : Asks(a) /\ Hears(a)
    BY DEF ProxyInv
  <1>6. /\ left \in Seq(Heard) /\ p \in Seq(Heard) /\ p # <<>> /\ p \o left = pin \o feed
    BY <1>1, <1>2, ReceivesBlock
  <1>7. feed # <<>>
    BY ProxyFacts, EmptySeq
  <1>8. /\ got = <<>> /\ served = a
        /\ \E reply \in Heralds(pstate) : Said(pin \o feed, reply, sentData)
        /\ Asked(how.method, pstate) # "connect" => sentData = 0
    BY <1>3, <1>5, <1>7 DEF Hears
  <1>9. Progress(step, left, sentData)
    <2>1. PICK reply \in Heralds(pstate) : Said(pin \o feed, reply, sentData)
      BY <1>8
    <2> QED BY <1>2, <1>6, <1>8, <2>1, ProxyFacts, Negotiated
  <1>10. how.method # "direct" /\ a > 0 /\ Len(wire) = a
    <2>1. how.method # "direct"
      BY ProxyFacts DEF ProxyTyped, States
    <2> QED BY <1>5, <2>1 DEF Asks, Counts
  <1>11. CASE step.to = "failed"
    <2>1. /\ link' = "closed" /\ pin' = step.in /\ step.in \in Seq(Heard) /\ fate' \in {"fine", "freed"}
          /\ UNCHANGED <<pstate, subFrozen, pfreeze, pout, poob, wire, got>>
      BY <1>4, <1>9, <1>11 DEF Progress, Proxied!AfterClose
    <2>2. Asks(a)'
      BY <1>3, <1>5, <2>1, AsksStays
    <2>3. Hears(a)'
      BY <2>1 DEF Hears
    <2>4. ProxyTyped'
      BY <1>3, <1>6, <2>1 DEF ProxyInv, ProxyTyped
    <2>5. Passed(got', pin', fate', link')
      BY <1>8, <2>1, NothingPassed
    <2> QED BY <1>3, <2>1, <2>2, <2>3, <2>4, <2>5 DEF ProxyInv
  <1>12. CASE step.to = "active"
    <2>1. /\ pstate' = "active" /\ Proxied!HandOver(step.in)
          /\ wire' = wire \o poob \o pout /\ pout' = <<>> /\ poob' = <<>> /\ UNCHANGED link
      BY <1>4, <1>12
    <2>2. "active" \notin States(how.method)
      BY ProxyFacts DEF ProxyTyped, States
    <2>3. /\ step.in \in Seq(Heard) /\ Asked(how.method, pstate) = "connect"
          /\ Said(step.in \o left, <<>>, sentData)
      BY <1>9, <1>12, <2>2 DEF Progress
    <2> QED BY <1>3, <1>5, <1>6, <1>8, <2>1, <2>3, Activates
  <1>13. CASE step.to \notin {"failed", "active"}
    <2>1. /\ pstate' = step.to /\ pin' = step.in /\ wire' = wire \o step.send
          /\ UNCHANGED <<link, subFrozen, pfreeze, pout, poob, got, fate>>
      BY <1>4, <1>13
    <2>2. step.in \in Seq(Heard) /\ Passed(got', pin', fate', link')
      BY <1>3, <1>8, <1>9, <2>1, NothingPassed DEF Progress
    <2>3. CASE /\ step.to \in States(how.method) /\ step.send = <<>>
               /\ Asked(how.method, step.to) = Asked(how.method, pstate)
               /\ Counts(how.method, pstate) = Counts(how.method, step.to)
               /\ \E reply \in Heralds(step.to) : Said(step.in \o left, reply, sentData)
      <3>1. wire' = wire
        BY <2>1, <2>3, ProxyFacts, ConcatEmptySeq
      <3>2. Asks(a)'
        BY <1>3, <1>5, <1>13, <2>1, <2>3, <3>1 DEF Asks
      <3>3. Hears(a)'
        <4>1. PICK reply \in Heralds(step.to) : Said(step.in \o left, reply, sentData)
          BY <2>3
        <4>2. reply \in Heralds(pstate)'
          BY <1>3, <2>1, <4>1 DEF Heralds, Proxied!Replies, Asked
        <4>3. Said(pin' \o feed', reply, sentData') /\ served' = a /\ got' = <<>> /\ pstate' # "active"
          BY <1>3, <1>8, <1>13, <2>1, <4>1
        <4>4. Asked(how.method, pstate)' # "connect" => sentData' = 0
          BY <1>3, <1>8, <2>1, <2>3
        <4> QED BY <4>2, <4>3, <4>4 DEF Hears
      <3>4. ProxyTyped'
        BY <1>3, <1>6, <2>1, <2>2, <2>3, <3>1 DEF ProxyInv, ProxyTyped
      <3> QED BY <1>3, <2>1, <2>2, <3>2, <3>3, <3>4 DEF ProxyInv
    <2>4. CASE /\ step.to \in States(how.method) \ {"s1", "s2"} /\ Asked(how.method, pstate) # "connect"
               /\ step.send = <<Proxied!Request(Asked(how.method, step.to))>>
               /\ step.in = <<>> /\ left = <<>>
               /\ \A c \in Counts(how.method, pstate) : c + 1 \in Counts(how.method, step.to)
      <3>1. PICK x : x = Proxied!Request(Asked(how.method, step.to))
        OBVIOUS
      <3>2. x \in Spoken /\ ~Proxied!IsData(x)
        BY <3>1 DEF Asked, Spoken, Proxied!Request, Proxied!IsData
      <3>3. wire' = Append(wire, x)
        <4>1. wire' = wire \o <<x>> /\ wire \in Seq(Spoken)
          BY <2>1, <2>4, <3>1, ProxyFacts
        <4> QED BY <3>2, <4>1, AppendIsConcat
      <3>4. /\ wire' \in Seq(Spoken) /\ Len(wire') = a + 1 /\ wire'[a + 1] = x
            /\ \A i \in 1 .. a : wire'[i] = wire[i]
        BY <1>10, <3>2, <3>3, ProxyFacts
      <3>5. a + 1 \in 0 .. 3 /\ a + 1 \in Counts(how.method, step.to)
        <4>1. a + 1 \in Counts(how.method, step.to)
          BY <1>5, <2>4 DEF Asks
        <4>2. Counts(how.method, step.to) \subseteq 0 .. 3
          BY DEF Counts
        <4> QED BY <4>1, <4>2
      <3>6. wire[a] # Proxied!Request("connect")
        <4>1. wire[a] = Proxied!Request(Asked(how.method, pstate))
          BY <1>5, <1>10 DEF Asks
        <4> QED BY <2>4, <4>1 DEF Proxied!Request
      <3>7. ASSUME NEW i \in 1 .. a
            PROVE  ~Proxied!IsData(wire'[i]) /\ wire'[i] # Proxied!Request("connect")
        <4>1. ~Proxied!IsData(wire[i])
          BY <1>5 DEF Asks
        <4>2. wire[i] # Proxied!Request("connect")
          <5>1. i \in 1 .. a - 1 => wire[i] # Proxied!Request("connect")
            BY <1>5 DEF Asks
          <5> QED BY <3>6, <5>1
        <4> QED BY <3>4, <4>1, <4>2
      <3>8. DataFrom(wire', a + 1, writes')
        <4>1. ~\E i \in (a + 1) + 1 .. Len(wire') : TRUE
          BY <3>4
        <4> QED BY <4>1 DEF DataFrom
      <3>9. DataFrom(poob \o pout, 0, writes)
        BY <1>5 DEF Asks
      <3>10. Asks(a + 1)'
        <4>1. \A i \in 1 .. a + 1 : ~Proxied!IsData(wire'[i])
          <5>1. \A i \in 1 .. a + 1 : i \in 1 .. a \/ i = a + 1
            OBVIOUS
          <5> QED BY <3>2, <3>4, <3>7, <5>1
        <4>2. \A i \in 1 .. (a + 1) - 1 : wire'[i] # Proxied!Request("connect")
          BY <3>7
        <4>3. /\ a + 1 <= Len(wire') /\ Len(wire') = a + 1 /\ served' <= a + 1
          BY <1>3, <1>8, <3>4
        <4>4. pstate' # "active" /\ a + 1 \in Counts(how.method, pstate)'
          BY <1>3, <1>13, <2>1, <3>5 DEF Counts
        <4>5. wire'[a + 1] = Proxied!Request(Asked(how.method, pstate))'
          BY <1>3, <2>1, <3>1, <3>4 DEF Asked, Proxied!Request
        <4>6. DataFrom(poob \o pout, 0, writes)'
          BY <1>3, <2>1, <3>9 DEF DataFrom
        <4> QED BY <3>8, <4>1, <4>2, <4>3, <4>4, <4>5, <4>6 DEF Asks
      <3>11. Hears(a + 1)'
        <4>1. sentData = 0
          BY <1>8, <2>4
        <4>2. /\ got' = <<>> /\ served' = (a + 1) - 1 /\ pin' = <<>> /\ feed' = <<>> /\ sentData' = 0
              /\ pstate' # "s2" /\ pstate' # "active"
          BY <1>3, <1>8, <1>13, <2>1, <2>4, <4>1
        <4> QED BY <4>2 DEF Hears
      <3>12. ProxyTyped'
        BY <1>3, <1>6, <2>1, <2>2, <2>4, <3>4 DEF ProxyInv, ProxyTyped
      <3> QED BY <1>3, <2>1, <2>2, <3>5, <3>10, <3>11, <3>12 DEF ProxyInv
    <2> QED BY <1>9, <1>13, <2>3, <2>4 DEF Progress
  <1> QED BY <1>11, <1>12, <1>13

\* plug_proxy_receive.
LEMMA ReceiveKeeps == ASSUME ProxyInv, NEW k \in Nat, Proxied!Receive(k) PROVE ProxyInv'
  <1>1. k \in 1 .. Len(feed)
    BY DEF Proxied!Receive
  <1> QED BY <1>1, ReceiveData, ReceiveReply

\* The exclude list is asked about a name as if it had no address; a name that is given to a
\* backend has therefore been found to go to the proxy.
LEMMA ProxyBegins == ASSUME Proxied!Init PROVE ProxyInv
  <1>1. PICK cfg \in Proxied!Configs, host \in Proxied!Hosts, b \in {"raw", "ssh"} :
          how = [method |-> Proxied!Route(cfg, host, Proxied!NameLookup(cfg, host)), creds |-> cfg.creds,
                 addr |-> Proxied!NameLookup(cfg, host), backend |-> b]
    BY DEF Proxied!Init
  <1>2. cfg.method \in {"http", "socks4", "socks5", "telnet", "none"} /\ cfg.creds \in BOOLEAN
    BY DEF Proxied!Configs, Proxied!Methods
  <1>3. PICK addr : addr = Proxied!NameLookup(cfg, host)
    OBVIOUS
  <1>4. /\ addr \in {"name", "ipv4"}
        /\ addr = "name" => cfg.method # "none" /\ Proxied!ForDestination(cfg, host, "null")
    BY <1>3 DEF Proxied!NameLookup
  <1>5. Proxied!ForDestination(cfg, host, "null") => Proxied!ForDestination(cfg, host, "name")
    BY DEF Proxied!ForDestination
  <1>6. PICK method : method = Proxied!Route(cfg, host, addr)
    OBVIOUS
  <1>7. /\ method \in {"http", "socks4", "socks5", "telnet", "direct"}
        /\ addr = "name" => method # "direct"
    BY <1>2, <1>4, <1>5, <1>6 DEF Proxied!Route
  <1>8. how = [method |-> method, creds |-> cfg.creds, addr |-> addr, backend |-> b]
    BY <1>1, <1>3, <1>6
  <1>9. /\ how \in [method : {"http", "socks4", "socks5", "telnet", "direct"}, creds : BOOLEAN,
                    addr : {"name", "ipv4"}, backend : {"raw", "ssh"}]
        /\ how.addr = "name" => how.method # "direct"
    BY <1>2, <1>4, <1>7, <1>8
  <1>10. /\ pstate = IF how.method = "direct" THEN "active" ELSE "s1"
         /\ wire = IF how.method = "direct" THEN <<>>
                   ELSE <<Proxied!Request(Proxied!FirstRequest(how.method))>>
         /\ link = "open" /\ subFrozen = FALSE /\ pfreeze = FALSE
         /\ pin = <<>> /\ pout = <<>> /\ poob = <<>> /\ feed = <<>> /\ served = 0
         /\ got = <<>> /\ writes = 0 /\ sentData = 0 /\ fate = "fine"
    BY DEF Proxied!Init
  <1>11. PICK none : none = <<>>
    OBVIOUS
  <1>12. none \in Seq(Heard) /\ none \in Seq(Spoken) /\ Len(none) = 0 /\ none \o none = none
    BY <1>11, EmptySeq, ConcatEmptySeq
  <1>13. PICK x : x = Proxied!Request(Asked(how.method, pstate))
    OBVIOUS
  <1>14. x \in Spoken /\ ~Proxied!IsData(x)
    BY <1>13 DEF Asked, Spoken, Proxied!Request, Proxied!IsData
  <1>15. how.method # "direct" => wire = <<x>>
    BY <1>10, <1>13 DEF Proxied!FirstRequest, Asked
  <1>16. wire \in Seq(Spoken)
    <2>1. <<x>> \in Seq(Spoken)
      BY <1>14
    <2> QED BY <1>10, <1>11, <1>12, <1>15, <2>1
  <1>17. ProxyTyped
    <2>1. pstate \in States(how.method) \cup {"active"}
      BY <1>9, <1>10 DEF States
    <2>2. 0 \in Nat /\ 0 \in 0 .. MaxWrites /\ 0 \in 0 .. MaxData
      BY Numbers
    <2> QED BY <1>9, <1>10, <1>11, <1>12, <1>16, <2>1, <2>2 DEF ProxyTyped
  <1>18. Passed(got, pin, fate, link) /\ Said(none, none, 0)
    <2>1. Said(none, none, 0)
      BY <1>12 DEF Said
    <2> QED BY <1>10, <2>1, NothingPassed
  <1>19. DataFrom(none, 0, writes)
    BY <1>12 DEF DataFrom
  <1>20. CASE how.method = "direct"
    <2>1. Asks(0)
      <3>1. wire = none /\ served = 0 /\ pstate = "active" /\ pout = <<>> /\ poob = <<>>
        BY <1>10, <1>11, <1>20
      <3>2. 0 \in Counts(how.method, pstate) /\ 0 <= Len(wire) /\ served <= 0 /\ DataFrom(wire, 0, writes)
        BY <1>12, <1>19, <1>20, <3>1 DEF Counts
      <3> QED BY <3>1, <3>2 DEF Asks
    <2>2. Hears(0)
      <3>1. got \o (pin \o feed) = none
        BY <1>10, <1>11, <1>12
      <3> QED BY <1>10, <1>11, <1>18, <1>20, <3>1 DEF Hears
    <2>3. 0 \in 0 .. 3
      OBVIOUS
    <2> QED BY <1>9, <1>17, <1>18, <2>1, <2>2, <2>3 DEF ProxyInv
  <1>21. CASE how.method # "direct"
    <2>1. pstate = "s1" /\ wire = <<x>> /\ served = 0
      BY <1>10, <1>15, <1>21
    <2>2. Len(wire) = 1 /\ wire[1] = x
      BY <2>1
    <2>3. Asks(1)
      <3>1. 1 \in Counts(how.method, pstate)
        BY <1>21, <2>1 DEF Counts
      <3>2. DataFrom(wire, 1, writes)
        BY <2>2 DEF DataFrom
      <3>3. DataFrom(poob \o pout, 0, writes)
        BY <1>10, <1>11, <1>12, <1>19
      <3>4. 1 <= Len(wire) /\ served <= 1 /\ \A i \in 1 .. 1 : ~Proxied!IsData(wire[i])
        BY <1>14, <2>1, <2>2
      <3>5. \A i \in 1 .. 1 - 1 : wire[i] # Proxied!Request("connect")
        OBVIOUS
      <3> QED BY <1>13, <2>1, <2>2, <3>1, <3>2, <3>3, <3>4, <3>5 DEF Asks
    <2>4. Hears(1)
      BY <1>10, <2>1 DEF Hears
    <2>5. 1 \in 0 .. 3
      OBVIOUS
    <2> QED BY <1>9, <1>17, <1>18, <2>3, <2>4, <2>5 DEF ProxyInv
  <1> QED BY <1>20, <1>21

\* Every step of a connection through a proxy.
LEMMA ProxyStep == ASSUME ProxyInv, [Proxied!Next]_proxyVars PROVE ProxyInv'
  <1>1. CASE UNCHANGED proxyVars
    <2>1. PICK a \in 0 .. 3 : Asks(a) /\ Hears(a)
      BY DEF ProxyInv
    <2>2. UNCHANGED <<how, pstate, link, subFrozen, pfreeze, pin, pout, poob, feed, wire, served, got,
                      writes, sentData, fate>>
      BY <1>1 DEF proxyVars
    <2>3. Asks(a)' /\ Hears(a)'
      BY <2>1, <2>2, AsksStays, HearsStays
    <2>4. ProxyTyped'
      BY <2>2 DEF ProxyInv, ProxyTyped
    <2> QED BY <2>2, <2>3, <2>4 DEF ProxyInv
  <1>2. CASE \E k \in 1 .. MaxData + 3 : Proxied!Receive(k)
    <2>1. PICK k \in 1 .. MaxData + 3 : Proxied!Receive(k)
      BY <1>2
    <2>2. k \in Nat
      BY Numbers
    <2> QED BY <2>1, <2>2, ReceiveKeeps
  <1>3. CASE \/ Proxied!Again \/ Proxied!CloseArrives \/ Proxied!Closing
             \/ Proxied!Write \/ Proxied!WriteOob \/ Proxied!Unfreeze
             \/ Proxied!ServerReplies \/ Proxied!ServerSends
    BY <1>3, AgainKeeps, CloseArrivesKeeps, ClosingKeeps, WritesKeep, UnfreezeKeeps,
       ServerRepliesKeeps, ServerSendsKeeps
  <1> QED BY <1>1, <1>2, <1>3 DEF Proxied!Next

\* What the invariant says of the backend and of the server.
LEMMA ProxySound ==
    ASSUME ProxyInv
    PROVE  /\ Proxied!TypeOK /\ Proxied!DeliveredInOrder /\ Proxied!NothingTooSoon
           /\ Proxied!NamesGoToProxies
  <1>1. PICK a \in 0 .. 3 : Asks(a) /\ Hears(a)
    BY DEF ProxyInv
  <1>2. Proxied!TypeOK
    <2>1. pstate \in {"s1", "s2", "s3", "s7", "active"}
      BY ProxyFacts DEF ProxyTyped, States
    <2>2. served \in 0 .. 3
      BY <1>1, ProxyFacts DEF Asks
    <2> QED BY <2>1, <2>2, ProxyFacts DEF Proxied!TypeOK, ProxyTyped
  <1>3. Proxied!DeliveredInOrder
    BY DEF ProxyInv, Passed, Proxied!DeliveredInOrder
  <1>4. Proxied!NothingTooSoon
    <2>1. DOMAIN wire = 1 .. Len(wire) /\ Len(wire) \in Nat
      BY ProxyFacts, LenProperties
    <2>2. ASSUME NEW i \in 1 .. Len(wire), Proxied!IsData(wire[i])
          PROVE  /\ Proxied!Granted
                 /\ \A j \in 1 .. Len(wire) : j > i => Proxied!IsData(wire[j]) /\ wire[j].n > wire[i].n
      <3>1. i \in a + 1 .. Len(wire)
        <4>1. i \notin 1 .. a
          BY <1>1, <2>2 DEF Asks
        <4> QED BY <2>1, <4>1
      <3>2. pstate = "active" /\ served = a
        <4>1. Len(wire) # a
          <5>1. \A m \in Nat : i \in a + 1 .. m => m # a
            OBVIOUS
          <5> QED BY <2>1, <3>1, <5>1
        <4> QED BY <1>1, <4>1 DEF Asks
      <3>3. Proxied!Granted
        <4>1. CASE how.method = "direct"
          BY <4>1 DEF Proxied!Granted
        <4>2. CASE how.method # "direct"
          <5>1. a > 0
            BY <1>1, <3>2, <4>2 DEF Asks, Counts
          <5>2. wire[a] = Proxied!Request("connect")
            BY <1>1, <3>2, <5>1 DEF Asks, Asked
          <5> QED BY <3>2, <5>1, <5>2 DEF Proxied!Granted
        <4> QED BY <4>1, <4>2
      <3>4. ASSUME NEW j \in 1 .. Len(wire), j > i
            PROVE  Proxied!IsData(wire[j]) /\ wire[j].n > wire[i].n
        <4>1. j \in a + 1 .. Len(wire) /\ i \in a + 1 .. j - 1
          BY <2>1, <3>1, <3>4
        <4>2. Proxied!IsData(wire[j]) /\ wire[j].n \in 0 .. writes /\ wire[i].n < wire[j].n
          BY <1>1, <4>1 DEF Asks, DataFrom
        <4>3. wire[i].n \in 0 .. writes
          BY <1>1, <3>1 DEF Asks, DataFrom
        <4> QED BY <4>2, <4>3
      <3> QED BY <3>3, <3>4
    <2> QED BY <2>1, <2>2 DEF Proxied!NothingTooSoon
  <1>5. Proxied!NamesGoToProxies
    BY DEF ProxyInv, Proxied!NamesGoToProxies
  <1> QED BY <1>2, <1>3, <1>4, <1>5

-----------------------------------------------------------------------------
\* Whatever carries a session, both ways of it are the sequence that was sent: through the
\* negotiation of a proxy, cut up anyhow, with its backlogs, freezes and urgent data, and through a
\* socket whose events are each posted once; and no event that somebody waits for is lost.
THEOREM ConnectionIsSound == MCSpec => []ConnectionSound
  <1> DEFINE Inv == SocketInv /\ ProxyInv
  <1>1. MCInit => Inv
    BY SocketBegins, ProxyBegins DEF MCInit
  <1>2. Inv /\ [MCNext]_allVars => Inv'
    <2> SUFFICES ASSUME Inv, [MCNext]_allVars PROVE Inv'
      OBVIOUS
    <2>1. [Tcp!Next]_socketVars
      BY DEF MCNext, allVars
    <2>2. [Proxied!Next]_proxyVars
      BY DEF MCNext, allVars
    <2> QED BY <2>1, <2>2, SocketStep, ProxyStep
  <1>3. Inv => ConnectionSound
    BY SocketSound, ProxySound DEF ConnectionSound
  <1> HIDE DEF Inv
  <1> QED BY <1>1, <1>2, <1>3, PTL DEF MCSpec
=============================================================================
