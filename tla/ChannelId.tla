------------------------------ MODULE ChannelId ------------------------------
(***************************************************************************)
(* alloc_channel_id (ssh.c): first-fit allocation of local channel numbers *)
(* by binary search in the counted B-tree ssh->channels, and the callers   *)
(* that insert the new channel (new_sock_channel, CHANNEL_OPEN) or delete  *)
(* one (CHANNEL_CLOSE, CHANNEL_OPEN_FAILURE).                              *)
(*                                                                         *)
(* The tree is kept as the function i |-> localid of the element with      *)
(* index i: index234 is application, count234 is the variable count.       *)
(* The search runs one probe per step so that its loop invariant can be    *)
(* stated; nothing else runs between two probes, the program is one        *)
(* thread.  low and high are C unsigned ints: low starts at -1, that is    *)
(* Word - 1, and every sum and difference wraps.                           *)
(***************************************************************************)
EXTENDS Integers

CONSTANTS
    Word,        \* 2^32 in the program: the number of unsigned int values
    Offset,      \* CHANNEL_NUMBER_OFFSET, 256 in the program
    MaxChannels  \* bound on the channels open at once

\* The numbers handed out fit in a word, and so does the sum of two indices.
ASSUME ConstAssumption ==
    /\ Word \in Nat /\ Offset \in Nat /\ MaxChannels \in Nat
    /\ Offset + MaxChannels + 1 < Word
    /\ 2 * MaxChannels + 1 < Word

VARIABLES
    count,     \* count234(ssh->channels)
    channels,  \* index234: 0 .. count-1 -> localid
    pc,        \* "idle", or "search" inside the loop
    low, high  \* locals of alloc_channel_id

vars == <<count, channels, pc, low, high>>

\* C unsigned arithmetic on words.
UAdd(a, b) == IF a + b < Word THEN a + b ELSE a + b - Word
USub(a, b) == IF b <= a THEN a - b ELSE a - b + Word

Ids == { channels[i] : i \in 0 .. count - 1 }

Init ==
    /\ count = 0 /\ channels = [i \in 0 .. -1 |-> 0]
    /\ pc = "idle" /\ low = 0 /\ high = 0

\* The sorted insertion point of id: add234 keeps the tree in ssh_channelcmp order.
SortedPosition(id, p) ==
    /\ p \in 0 .. count
    /\ \A i \in 0 .. p - 1 : channels[i] < id
    /\ \A i \in p .. count - 1 : id < channels[i]

\* add234: a number already in the tree is refused and the tree left as it is.
Insert(id) ==
    IF id \in Ids
      THEN UNCHANGED <<count, channels>>
      ELSE \E p \in 0 .. count :
             /\ SortedPosition(id, p)
             /\ channels' = [i \in 0 .. count |-> IF i < p THEN channels[i]
                                                  ELSE IF i = p THEN id
                                                  ELSE channels[i - 1]]
             /\ count' = count + 1

\* Mutant: high starts one past the number of channels.
BeginAllocPastEnd ==
    /\ pc = "idle" /\ count < MaxChannels
    /\ pc' = "search" /\ low' = Word - 1 /\ high' = count + 1
    /\ UNCHANGED <<count, channels>>

\* Mutant: low declared as a signed int.
BeginAllocSigned ==
    /\ pc = "idle" /\ count < MaxChannels
    /\ pc' = "search" /\ low' = -1 /\ high' = count
    /\ UNCHANGED <<count, channels>>

\* Entry of alloc_channel_id, up to the loop.
BeginAlloc ==
    /\ pc = "idle" /\ count < MaxChannels
    /\ pc' = "search" /\ low' = Word - 1 /\ high' = count
    /\ UNCHANGED <<count, channels>>

Probing == pc = "search" /\ USub(high, low) > 1

\* Mutant: a matching probe forgets to move low.
ProbeKeepsLow ==
    /\ Probing
    /\ LET mid == UAdd(high, low) \div 2
       IN  high' = IF channels[mid] = UAdd(mid, Offset) THEN high ELSE mid
    /\ UNCHANGED <<count, channels, pc, low>>

\* Mutant: the probe takes any later number for the end of the initial run.
ProbeAnyId ==
    /\ Probing
    /\ LET mid == UAdd(high, low) \div 2
       IN  IF channels[mid] >= UAdd(mid, Offset)
             THEN low' = mid /\ UNCHANGED high
             ELSE high' = mid /\ UNCHANGED low
    /\ UNCHANGED <<count, channels, pc>>

\* One turn of the while loop.
Probe ==
    /\ Probing
    /\ LET mid == UAdd(high, low) \div 2
       IN  IF channels[mid] = UAdd(mid, Offset)
             THEN low' = mid /\ UNCHANGED high
             ELSE high' = mid /\ UNCHANGED low
    /\ UNCHANGED <<count, channels, pc>>

\* The value alloc_channel_id returns.
NewId == UAdd(UAdd(low, 1), Offset)

\* Loop exit; every caller adds the channel to the tree before anything else.
EndAlloc ==
    /\ pc = "search" /\ ~Probing
    /\ Insert(NewId)
    /\ pc' = "idle" /\ low' = 0 /\ high' = 0

\* del234(ssh->channels, c) for the channel at index k.
FreeChannel(k) ==
    /\ pc = "idle" /\ k \in 0 .. count - 1
    /\ count' = count - 1
    /\ channels' = [i \in 0 .. count - 2 |-> IF i < k THEN channels[i]
                                             ELSE channels[i + 1]]
    /\ UNCHANGED <<pc, low, high>>

Next ==
    \/ BeginAlloc
    \/ Probe
    \/ EndAlloc
    \/ \E k \in 0 .. MaxChannels - 1 : FreeChannel(k)

\* The search itself is a loop of one function: once entered it runs on.
Spec == Init /\ [][Next]_vars /\ WF_vars(Probe) /\ WF_vars(EndAlloc)

-----------------------------------------------------------------------------
\* Type invariant.
TypeOK ==
    /\ count \in 0 .. MaxChannels
    /\ channels \in [0 .. count - 1 -> Offset .. Offset + MaxChannels - 1]
    /\ pc \in {"idle", "search"}
    /\ low \in 0 .. Word - 1
    /\ high \in 0 .. Word - 1

\* Every probe is of an index inside the tree: index234 never returns NULL
\* for the c->localid that follows (ssh.c:780-781).
ProbeInTree == Probing => UAdd(high, low) \div 2 \in 0 .. count - 1

\* "First-fit allocation of channel numbers: always pick the lowest unused
\* one" (ssh.c:767), and the assertion of ssh.c:792 that it is unused:
\* at loop exit the result is not an open channel's number, and every number from
\* Offset up to it is.
FirstFit ==
    (pc = "search" /\ ~Probing) =>
        /\ NewId \notin Ids
        /\ \A id \in Offset .. NewId - 1 : id \in Ids

\* alloc_channel_id returns: the binary search terminates from every tree.
AllocReturns == (pc = "search") ~> (pc = "idle")
=============================================================================
