------------------------------ MODULE Wildcard ------------------------------
(***************************************************************************)
(* The wildcard matcher (wildcard.c).  Patterns and targets are sequences  *)
(* of characters; a position past the end reads as the terminating NUL.    *)
(***************************************************************************)
EXTENDS Integers, SequencesExt

CONSTANT Shapes  \* a sequence of what to build: first, more (characters), longest, targets

VARIABLES shape, pattern

\* The characters in their order.
Order == <<"*", "-", "?", "[", "\\", "]", "^", "a", "b">>
Code == [c \in ToSet(Order) |-> CHOOSE i \in DOMAIN Order : Order[i] = c]

At(s, i) == IF i \in DOMAIN s THEN s[i] ELSE "NUL"
TrailingBackslash == -1
UnclosedClass == -2
InvalidRange == -3

Within(c, a, b) ==
    \/ Code[a] <= Code[c] /\ Code[c] <= Code[b]
    \/ Code[b] <= Code[c] /\ Code[c] <= Code[a]

Failed(ret) == [ret |-> ret, f |-> 0, t |-> 0]

\* Mutant: a backslash in a class is an ordinary character.
UnquotedAsIs(p, f) == f
\* Backslashes work inside classes too.
Unquoted(p, f) == IF At(p, f) = "\\" THEN f + 1 ELSE f

\* The members of a class from f on; c is the character to be matched.
RECURSIVE Members(_, _, _, _)
Members(p, f, c, matched) ==
    LET g == Unquoted(p, f)
        h == Unquoted(p, g + 2)
    IN  IF At(p, f) = "]" THEN [ret |-> IF matched THEN 1 ELSE 0, f |-> f + 1]
        ELSE IF At(p, g) = "NUL" THEN [ret |-> UnclosedClass, f |-> g]
        ELSE IF At(p, g + 1) # "-" THEN Members(p, g + 1, c, matched \/ p[g] = c)
        ELSE IF At(p, g + 2) = "]" THEN [ret |-> InvalidRange, f |-> g]
        ELSE IF At(p, h) = "NUL" THEN [ret |-> UnclosedClass, f |-> h]
        ELSE Members(p, h + 1, c, matched \/ Within(c, p[g], p[h]))

\* One character's worth of pattern against c.
InClass(p, f, c, invert) ==
    LET class == Members(p, f, c, FALSE)
    IN  IF class.ret < 0 \/ ~invert THEN class ELSE [class EXCEPT !.ret = 1 - @]
Character(p, f, c) ==
    CASE p[f] = "\\" -> IF At(p, f + 1) = "NUL" THEN [ret |-> TrailingBackslash, f |-> f]
                        ELSE [ret |-> IF p[f + 1] = c THEN 1 ELSE 0, f |-> f + 2]
      [] p[f] = "?" -> [ret |-> 1, f |-> f + 1]
      [] p[f] = "[" -> LET invert == At(p, f + 1) = "^"
                       IN  InClass(p, IF invert THEN f + 2 ELSE f + 1, c, invert)
      [] OTHER -> [ret |-> IF p[f] = c THEN 1 ELSE 0, f |-> f + 1]

\* wc_match_fragment: up to the end or the next asterisk.
RECURSIVE Fragment(_, _, _, _), FragmentOn(_, _, _, _)
FragmentOn(p, s, t, one) == IF one.ret <= 0 THEN Failed(one.ret) ELSE Fragment(p, one.f, s, t + 1)
Fragment(p, f, s, t) ==
    IF At(p, f) \in {"NUL", "*"} THEN [ret |-> 1, f |-> f, t |-> t]
    ELSE IF At(s, t) = "NUL" THEN Failed(0)
    ELSE FragmentOn(p, s, t, Character(p, f, s[t]))

\* The search for the fragment at f in the target from t on; at is where it was found.
RECURSIVE Find(_, _, _, _), FindOn(_, _, _, _, _)
FindOn(p, f, s, t, r) == IF r.ret # 0 THEN [r |-> r, at |-> t] ELSE Find(p, f, s, t + 1)
Find(p, f, s, t) ==
    IF At(s, t) = "NUL" THEN [r |-> Failed(0), at |-> t] ELSE FindOn(p, f, s, t, Fragment(p, f, s, t))

\* A last fragment that was found too early is tried again at the very end.
Final(p, f, s, from, r) ==
    IF r.ret > 0 /\ At(p, r.f) = "NUL" /\ At(s, r.t) # "NUL"
    THEN LET again == Fragment(p, f, s, Len(s) + 1 - (r.t - from)) IN [again EXCEPT !.f = 0]
    ELSE r

RECURSIVE Skip(_, _)
Skip(p, f) == IF At(p, f) = "*" THEN Skip(p, f + 1) ELSE f

\* One asterisk and the fragment after it, and so on.
RECURSIVE Stars(_, _, _, _), StarsOn(_, _, _, _), StarsAfter(_, _, _, _)
StarsOn(p, s, r, last) ==
    IF r.ret <= 0 THEN r.ret ELSE IF last # r THEN last.ret ELSE Stars(p, r.f, s, r.t)
StarsAfter(p, g, s, found) == StarsOn(p, s, found.r, Final(p, g, s, found.at, found.r))
Stars(p, f, s, t) ==
    LET g == Skip(p, f)
    IN  IF At(p, f) = "NUL" THEN IF At(s, t) = "NUL" THEN 1 ELSE 0
        ELSE IF At(p, g) = "NUL" THEN 1
        ELSE StarsAfter(p, g, s, Find(p, g, s, t))

\* wc_match.
MatchRest(p, s, r) == IF r.ret <= 0 THEN r.ret ELSE Stars(p, r.f, s, r.t)
Match(p, s) == IF At(p, 1) = "*" THEN Stars(p, 1, s, 1) ELSE MatchRest(p, s, Fragment(p, 1, s, 1))

\* wc_unescape with a buffer: what it returns, and the string.
RECURSIVE Unescape(_, _, _)
Unescape(p, f, out) ==
    CASE At(p, f) = "NUL" -> [ret |-> 1, out |-> out]
      [] At(p, f) = "\\" -> IF At(p, f + 1) = "NUL" THEN [ret |-> 1, out |-> out]
                            ELSE Unescape(p, f + 2, Append(out, p[f + 1]))
      [] At(p, f) \in {"*", "?", "[", "]"} -> [ret |-> 0, out |-> out]
      [] OTHER -> Unescape(p, f + 1, Append(out, p[f]))

WInit == shape \in DOMAIN Shapes /\ pattern = <<>>
Extend ==
    /\ Len(pattern) < Shapes[shape].longest
    /\ \E c \in IF pattern = <<>> THEN Shapes[shape].first ELSE Shapes[shape].more : pattern' = Append(pattern, c)
    /\ UNCHANGED shape
WNext == Extend
WSpec == WInit /\ [][WNext]_<<shape, pattern>>

-----------------------------------------------------------------------------
(***************************************************************************)
(* The syntax as its definition has it (wildcard.c:20-36): a sequence of   *)
(* sets of characters and of asterisks, or Bad.                            *)
(***************************************************************************)
Bad == <<[star |-> TRUE, set |-> {"NUL"}]>>
RECURSIVE Class(_, _)
\* The set of the class whose members begin at f, and where it ends (0: nowhere).
Class(p, f) ==
    LET g == IF At(p, f) = "\\" THEN f + 1 ELSE f
        h == IF At(p, g + 2) = "\\" THEN g + 3 ELSE g + 2
        range == At(p, g + 1) = "-"
        rest == Class(p, (IF range THEN h ELSE g) + 1)
    IN  IF At(p, f) = "]" THEN [end |-> f, set |-> {}]
        ELSE IF At(p, g) = "NUL" \/ (range /\ (At(p, g + 2) = "]" \/ At(p, h) = "NUL"))
             THEN [end |-> 0, set |-> {}]
        ELSE [rest EXCEPT !.set = @ \cup IF range THEN {c \in DOMAIN Code : Within(c, p[g], p[h])}
                                         ELSE {p[g]}]

RECURSIVE Items(_, _)
Items(p, f) ==
    LET class == Class(p, IF At(p, f + 1) = "^" THEN f + 2 ELSE f + 1)
        set == IF At(p, f + 1) = "^" THEN DOMAIN Code \ class.set ELSE class.set
        Then(item, next) == LET rest == Items(p, next) IN IF rest = Bad THEN Bad ELSE <<item>> \o rest
    IN  CASE At(p, f) = "NUL" -> <<>>
          [] At(p, f) = "*" -> Then([star |-> TRUE, set |-> {}], f + 1)
          [] At(p, f) = "?" -> Then([star |-> FALSE, set |-> DOMAIN Code], f + 1)
          [] At(p, f) = "\\" -> IF At(p, f + 1) = "NUL" THEN Bad
                                ELSE Then([star |-> FALSE, set |-> {p[f + 1]}], f + 2)
          [] At(p, f) = "[" -> IF class.end = 0 THEN Bad
                               ELSE Then([star |-> FALSE, set |-> set], class.end + 1)
          [] OTHER -> Then([star |-> FALSE, set |-> {p[f]}], f + 1)

RECURSIVE Fits(_, _)
Fits(items, s) ==
    IF items = <<>> THEN s = <<>>
    ELSE IF Head(items).star
    THEN \E k \in 0..Len(s) : Fits(Tail(items), SubSeq(s, k + 1, Len(s)))
    ELSE s # <<>> /\ Head(s) \in Head(items).set /\ Fits(Tail(items), Tail(s))

\* Taking every fragment where it occurs first finds a match whenever there is one; a pattern that
\* breaks the syntax never matches, and only such a pattern is reported.
MatchesDefined ==
    LET items == Items(pattern, 1)
    IN  \A s \in Shapes[shape].targets :
            LET r == Match(pattern, s)
            IN  IF items = Bad THEN r <= 0 ELSE r = (IF Fits(items, s) THEN 1 ELSE 0)

\* A pattern that is found to be no wildcard matches the string it stands for and no other, unless
\* it ends in a backslash.
UnescapedMatches ==
    LET u == Unescape(pattern, 1, <<>>)
    IN  u.ret = 1 /\ Items(pattern, 1) # Bad =>
            /\ Match(pattern, u.out) = 1
            /\ \A s \in Shapes[shape].targets : Match(pattern, s) = 1 => s = u.out
=============================================================================
