-------------------------------- MODULE Utf8 --------------------------------
(***************************************************************************)
(* How term_out (terminal.c:1479-1560) decodes UTF-8: byte by byte, with   *)
(* the number of bytes still to come, the length of the sequence and the   *)
(* bits so far.  A byte that breaks a sequence off is looked at again as   *)
(* the start of the next one (unget).                                      *)
(***************************************************************************)
EXTENDS Integers, SequencesExt

CONSTANTS
    Bytes,     \* the bytes the server sends, one or more of every kind
    Points     \* code points sent whole, to see whether they arrive

VARIABLE dec     \* utf_state, utf_size and utf_char

UCSERR == -1     \* a malformed sequence
Replacement == 65533

IsCont(b) == b \div 64 = 2
\* Bytes that follow this lead byte, and the bits it brings.
Follow(b) == IF b >= 252 THEN 5 ELSE IF b >= 248 THEN 4 ELSE IF b >= 240 THEN 3
             ELSE IF b >= 224 THEN 2 ELSE 1
LeadBits(b) == b % (2 ^ (6 - Follow(b)))
Smallest == <<128, 2048, 65536, 2097152, 67108864>>

Idle == [state |-> 0, size |-> 0, char |-> 0]

\* Mutant: an overlong sequence is taken for the character it spells.
FinishLoose(c, size) ==
    IF c > 1114111 \/ c \in 55296..57343 \/ c \in {65534, 65535} THEN <<UCSERR>>
    ELSE IF c \in 917504..917631 \/ c = 65279 THEN <<>>
    ELSE IF c >= 65536 THEN <<Replacement>> ELSE <<c>>

\* The separators U+2028 and U+2029 become the control NEL, which, like all
\* high controls, becomes the replacement character.
Finish(c, size) ==
    IF c < Smallest[size] \/ c > 1114111 \/ c \in 55296..57343
       \/ c \in {65534, 65535} THEN <<UCSERR>>
    ELSE IF c < 160 \/ c \in {8232, 8233} THEN <<Replacement>>
    ELSE IF c \in 917504..917631 \/ c = 65279 THEN <<>>
    ELSE IF c >= 65536 THEN <<Replacement>> ELSE <<c>>

\* The decoder after a byte that starts a sequence, and what comes out.
Start(b) ==
    IF b < 128 THEN [d |-> Idle, out |-> <<b>>]
    ELSE IF IsCont(b) \/ b >= 254 THEN [d |-> Idle, out |-> <<UCSERR>>]
    ELSE [d |-> [state |-> Follow(b), size |-> Follow(b), char |-> LeadBits(b)],
          out |-> <<>>]

\* Mutant: the byte that breaks a sequence off is lost.
StepLossy(d, b) ==
    IF d.state = 0 THEN Start(b)
    ELSE IF ~IsCont(b) THEN [d |-> Idle, out |-> <<UCSERR>>]
    ELSE IF d.state > 1 THEN [d |-> [d EXCEPT !.state = @ - 1, !.char = @ * 64 + (b % 64)],
                              out |-> <<>>]
    ELSE [d |-> Idle, out |-> Finish(d.char * 64 + (b % 64), d.size)]

Step(d, b) ==
    IF d.state = 0 THEN Start(b)
    ELSE IF ~IsCont(b) THEN LET s == Start(b) IN [s EXCEPT !.out = <<UCSERR>> \o @]
    ELSE IF d.state > 1 THEN [d |-> [d EXCEPT !.state = @ - 1, !.char = @ * 64 + (b % 64)],
                              out |-> <<>>]
    ELSE [d |-> Idle, out |-> Finish(d.char * 64 + (b % 64), d.size)]

FeedAll(d, bytes) ==
    LET One(s, b) == LET r == Step(s.d, b) IN [d |-> r.d, out |-> s.out \o r.out]
    IN  FoldLeft(One, [d |-> d, out |-> <<>>], bytes)

UInit == dec = Idle
Byte == \E b \in Bytes : dec' = Step(dec, b).d
UNext == Byte
USpec == UInit /\ [][UNext]_dec

-----------------------------------------------------------------------------
UTypeOK ==
    /\ dec.state \in 0..5 /\ dec.state <= dec.size
    /\ dec.char \in Nat

\* How a code point is written.
Cont(c, shift) == 128 + ((c \div (2 ^ shift)) % 64)
Encode(c) ==
    IF c < 128 THEN <<c>>
    ELSE IF c < 2048 THEN <<192 + c \div 64, Cont(c, 0)>>
    ELSE IF c < 65536 THEN <<224 + c \div 4096, Cont(c, 6), Cont(c, 0)>>
    ELSE <<240 + c \div 262144, Cont(c, 12), Cont(c, 6), Cont(c, 0)>>
\* The same, one byte longer than it need be.
Overlong(c) ==
    IF c < 128 THEN <<192 + c \div 64, Cont(c, 0)>>
    ELSE IF c < 2048 THEN <<224, Cont(c, 6), Cont(c, 0)>>
    ELSE <<240, Cont(c, 12), Cont(c, 6), Cont(c, 0)>>

\* Whatever came before, well formed or not, a character that is sent whole
\* arrives; what it breaks off shows as one error and nothing is lost.
Arrives ==
    \A c \in Points :
        LET r == FeedAll(dec, Encode(c))
        IN  r.d = Idle /\ r.out = (IF dec.state > 0 THEN <<UCSERR>> ELSE <<>>) \o <<c>>

\* No character is reached by a longer spelling, least of all a control.
NoOverlong ==
    \A c \in {p \in Points : p < 65536} :
        dec.state = 0 => FeedAll(dec, Overlong(c)).out = <<UCSERR>>
=============================================================================
