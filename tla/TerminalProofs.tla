---------------------------- MODULE TerminalProofs ----------------------------
(***************************************************************************)
(* The terminal's screen, proved for windows, scrollbacks and characters   *)
(* of every size and number: the lines are counted rightly, the cursor and *)
(* the margins stay on the screen, and no operation leaves half of a wide  *)
(* character behind but the two that are known to.                         *)
(***************************************************************************)
EXTENDS Terminal, SequenceTheorems, WellFoundedInduction, TLAPS

-----------------------------------------------------------------------------
(* The invariant                                                             *)

\* What a line holds, in a scenario s.
Alphabet(s) == {"blank", "R", "a"} \cup s.glyphs
Halved(c, s) ==
    \A j \in 1 .. Len(c) :
        c[j] = "R" => j > 1 /\ c[j - 1] # "R" /\ ("before" \in s.groups \/ c[j - 1] = "W")
Texts(s) == {c \in Seq(Alphabet(s)) : Halved(c, s)}
Lines(s) == [c : Texts(s), w : SUBSET {1, 2}, d : {b \in BOOLEAN : b => "cells" \in s.groups}]
Pages(s, n) == {p \in Seq(Lines(s)) : Len(p) = n}

\* The fields that there are.
Shaped(t) ==
    /\ DOMAIN t = {"rows", "cols", "savelines", "cfg", "screen", "alt", "sb", "temps", "altsb",
                   "disp", "which", "seen", "x", "y", "mt", "mb", "om", "wrap", "wn", "ins",
                   "other", "save", "tabs", "sel"}
    /\ DOMAIN t.sel = {"state", "from", "to", "anchor", "mode"}
    /\ DOMAIN t.other = {"x", "y", "mt", "mb", "om", "wrap", "wn", "ins"}
    /\ DOMAIN t.save = {"x", "y", "wn"}

\* The window, the screens and the scrollback; what counts them; and what
\* points at them.
Sized(t, s) ==
    /\ t.rows \in s.heights /\ t.cols \in s.widths /\ t.savelines \in s.limits
    /\ t.which \in {0, 1}
Paged(t, s) ==
    /\ t.screen \in Pages(s, t.rows) /\ t.alt \in Pages(s, t.rows)
    /\ t.sb \in Seq(Lines(s)) /\ Len(t.sb) <= t.savelines
    /\ t.temps \in 0 .. Len(t.sb) /\ t.altsb \in 0 .. t.rows
OnScreen(t, p) ==
    /\ p.x \in 0 .. t.cols - 1 /\ p.y \in 0 .. t.rows - 1
    /\ p.mt \in 0 .. p.mb /\ p.mb \in 0 .. t.rows - 1
Pointed(t) ==
    /\ OnScreen(t, t) /\ OnScreen(t, t.other)
    /\ t.save.x \in Nat /\ t.save.y \in Nat
    /\ t.tabs \subseteq 0 .. t.cols - 1
    /\ t.sel.state \in {"none", "about", "drag", "selected"}
Term(t, s) == Shaped(t) /\ Sized(t, s) /\ Paged(t, s) /\ Pointed(t)

TermInv == scene \in Scenarios /\ steps \in 0 .. scene.length /\ Term(term, scene)

\* The same window, cursor and margins.
Kin(t, u) ==
    /\ u.rows = t.rows /\ u.cols = t.cols
    /\ u.x = t.x /\ u.y = t.y /\ u.mt = t.mt /\ u.mb = t.mb

\* Column x, counted from 0, does not hold the right half of a wide character.
Whole(t, y, x) == x < t.cols => LineAt(t, y).c[x + 1] # "R"

\* b is c with g at position k.
Replaces(b, c, n, k, g, s) ==
    b \in [1 .. n -> Alphabet(s)] /\ \A j \in 1 .. n : b[j] = IF j = k THEN g ELSE c[j]

\* b is c with m cells put in, or taken out, after the first x.
Opens(b, c, n, x, m, s) ==
    /\ b \in [1 .. n -> Alphabet(s)]
    /\ \A j \in 1 .. n : b[j] = IF j <= x THEN c[j] ELSE IF j <= x + m THEN "blank" ELSE c[j - m]
Closes(b, c, n, x, m, s) ==
    /\ b \in [1 .. n -> Alphabet(s)]
    /\ \A j \in 1 .. n : b[j] = IF j <= x THEN c[j] ELSE IF j + m <= n THEN c[j + m] ELSE "blank"

\* b is c with blanks in the places E.
Blotted(b, c, n, E, s) ==
    /\ b \in [1 .. n -> Alphabet(s)]
    /\ \A j \in 1 .. n : b[j] = IF j \in E THEN "blank" ELSE c[j]

\* Erasing the places E leaves no right half just behind them, or may do so.
Clean(E, n, s) == "before" \in s.groups \/ \A j \in 1 .. n : j \notin E => j - 1 \notin E

\* The same window, cursor, margins and screen.
Alike(t, u) == Kin(t, u) /\ u.screen = t.screen

\* All but the screen and the scrollback as it was.
Rest(t, u) ==
    /\ Kin(t, u) /\ u.savelines = t.savelines /\ u.which = t.which
    /\ u.alt = t.alt /\ u.altsb = t.altsb
    /\ u.other = t.other /\ u.save = t.save /\ u.tabs = t.tabs /\ u.sel.state = t.sel.state

\* A new size, for R rows with y the cursor's and N lines of scrollback: the
\* lines that come back, are dropped and go to the scrollback, where the screen
\* begins among all lines, and how many are forgotten.
Measures(R, rows, y, N, temps, limit, back, dropped, pushed, cut, first) ==
    /\ back = Least(Most(rows - R, 0), temps)
    /\ dropped = Least(Most(R - rows, 0), R - 1 - y)
    /\ pushed = Most(R - rows, 0) - dropped
    /\ cut = N - back + pushed
    /\ first = Most(cut - limit, 0)

\* q is p with some lines brought to n columns.
Fits(q, p, n) ==
    /\ q = [i \in DOMAIN p |-> q[i]]
    /\ \A i \in DOMAIN p : q[i] = p[i] \/ q[i] = Resized(p[i], n)

\* All but the cursor, the margins and the tabs as it was.
Besides(t, u) ==
    /\ DOMAIN u = DOMAIN t /\ u.rows = t.rows /\ u.cols = t.cols /\ u.savelines = t.savelines
    /\ u.which = t.which /\ u.screen = t.screen /\ u.alt = t.alt /\ u.sb = t.sb
    /\ u.temps = t.temps /\ u.altsb = t.altsb
    /\ u.other = t.other /\ u.save = t.save /\ u.sel = t.sel

\* One step of Scroll.
Turn(r, top, bot, n, sb) == IF n < 0 THEN ScrollDown(r, top, bot) ELSE ScrollUp(r, top, bot, sb)

\* What the function in Scroll is.
IsRun(g, t, top, bot, n, sb, times) ==
    g = [i \in 0 .. times |-> IF i = 0 THEN t ELSE Turn(g[i - 1], top, bot, n, sb)]

-----------------------------------------------------------------------------
(* Sequences                                                                 *)

\* A set of natural numbers has a least element.
LEMMA LeastElement ==
    ASSUME NEW T, T \subseteq Nat, T # {}
    PROVE  \E x \in T : \A y \in T : x <= y
  <1>1. PICK x \in T : \A y \in T : ~(<<y, x>> \in OpToRel(<, Nat))
    BY NatLessThanWellFounded, WFMin, Zenon
  <1>2. \A y \in T : ~(y < x)
    BY <1>1 DEF OpToRel
  <1> QED BY <1>2

\* A function of the positions is a sequence.
LEMMA Made ==
    ASSUME NEW A, NEW n \in Nat, NEW f, f \in [1 .. n -> A]
    PROVE  f \in Seq(A) /\ Len(f) = n
  OBVIOUS

LEMMA Changed ==
    ASSUME NEW A, NEW q \in Seq(A), NEW k \in 1 .. Len(q), NEW e \in A
    PROVE  /\ [q EXCEPT ![k] = e] \in Seq(A) /\ Len([q EXCEPT ![k] = e]) = Len(q)
           /\ \A j \in 1 .. Len(q) : [q EXCEPT ![k] = e][j] = IF j = k THEN e ELSE q[j]
  BY ExceptSeq

\* One element taken out and another put in.
LEMMA Rotated ==
    ASSUME NEW A, NEW q \in Seq(A), NEW i \in 1 .. Len(q), NEW j \in 1 .. Len(q), NEW e \in A
    PROVE  InsertAt(RemoveAt(q, i), j, e) \in Seq(A) /\ Len(InsertAt(RemoveAt(q, i), j, e)) = Len(q)
  <1>0. Len(q) \in Nat /\ \A k \in 1 .. Len(q) : q[k] \in A
    BY LenProperties, ElementOfSeq
  <1> DEFINE r == RemoveAt(q, i)
  <1>1. r \in Seq(A) /\ Len(r) = Len(q) - 1
    <2> DEFINE a == SubSeq(q, 1, i - 1)
               b == SubSeq(q, i + 1, Len(q))
    <2>1. \A k \in 1 .. i - 1 : q[k] \in A
      BY <1>0
    <2>2. \A k \in i + 1 .. Len(q) : q[k] \in A
      BY <1>0
    <2>3. a \in Seq(A) /\ Len(a) = i - 1
      BY <2>1, <1>0, SubSeqProperties
    <2>4. b \in Seq(A) /\ Len(b) = Len(q) - i
      BY <2>2, <1>0, SubSeqProperties
    <2> HIDE DEF a, b
    <2>5. a \o b \in Seq(A) /\ Len(a \o b) = Len(a) + Len(b)
      BY <2>3, <2>4, ConcatProperties
    <2>6. r = a \o b
      BY DEF RemoveAt, a, b
    <2> QED BY <2>3, <2>4, <2>5, <2>6, <1>0
  <1> HIDE DEF r
  <1>2. InsertAt(r, j, e) \in Seq(A) /\ Len(InsertAt(r, j, e)) = Len(r) + 1
    <2> DEFINE a == SubSeq(r, 1, j - 1)
               b == SubSeq(r, j, Len(r))
    <2>0. Len(r) \in Nat /\ j - 1 <= Len(r) /\ \A k \in 1 .. Len(r) : r[k] \in A
      BY <1>0, <1>1, ElementOfSeq
    <2>1. \A k \in 1 .. j - 1 : r[k] \in A
      BY <2>0
    <2>2. \A k \in j .. Len(r) : r[k] \in A
      BY <2>0
    <2>3. a \in Seq(A) /\ Len(a) = j - 1
      BY <2>1, <2>0, SubSeqProperties
    <2>4. b \in Seq(A) /\ Len(b) = Len(r) - j + 1
      BY <2>2, <2>0, SubSeqProperties
    <2> HIDE DEF a, b
    <2>5. <<e>> \in Seq(A) /\ Len(<<e>>) = 1
      OBVIOUS
    <2>6. a \o <<e>> \in Seq(A) /\ Len(a \o <<e>>) = Len(a) + 1
      BY <2>3, <2>5, ConcatProperties
    <2> DEFINE c == a \o <<e>>
    <2> HIDE DEF c
    <2>7. c \in Seq(A) /\ Len(c) = Len(a) + 1
      BY <2>6, <2>5 DEF c
    <2>8. c \o b \in Seq(A) /\ Len(c \o b) = Len(c) + Len(b)
      BY <2>4, <2>7, ConcatProperties
    <2>9. InsertAt(r, j, e) = c \o b
      BY DEF InsertAt, a, b, c
    <2> QED BY <2>0, <2>3, <2>4, <2>7, <2>8, <2>9
  <1> QED BY <1>0, <1>1, <1>2 DEF r

\* Part of two sequences put together.
LEMMA Slice ==
    ASSUME NEW A, NEW q \in Seq(A), NEW m \in Nat, NEW n \in Nat, m <= n, n <= Len(q)
    PROVE  SubSeq(q, m + 1, n) \in Seq(A) /\ Len(SubSeq(q, m + 1, n)) = n - m
  <1>1. \A k \in m + 1 .. n : q[k] \in A
    BY ElementOfSeq, LenProperties
  <1> QED BY <1>1, SubSeqProperties

LEMMA Queued ==
    ASSUME NEW A, NEW q \in Seq(A), NEW e \in A
    PROVE  /\ Append(q, e) \in Seq(A) /\ Len(Append(q, e)) = Len(q) + 1 /\ Len(q) \in Nat
           /\ q # <<>> => /\ Tail(q) \in Seq(A) /\ Len(Tail(q)) = Len(q) - 1
                          /\ Append(Tail(q), e) \in Seq(A) /\ Len(Append(Tail(q), e)) = Len(q)
  <1>1. /\ Append(q, e) \in Seq(A) /\ Len(Append(q, e)) = Len(q) + 1 /\ Len(q) \in Nat
    BY LenProperties, AppendProperties
  <1>2. ASSUME q # <<>> PROVE Tail(q) \in Seq(A) /\ Len(Tail(q)) = Len(q) - 1
    BY <1>2, HeadTailProperties
  <1>3. ASSUME q # <<>> PROVE Append(Tail(q), e) \in Seq(A) /\ Len(Append(Tail(q), e)) = Len(Tail(q)) + 1
    BY <1>2, <1>3, AppendProperties
  <1> QED BY <1>1, <1>2, <1>3

-----------------------------------------------------------------------------
(* Lines                                                                     *)

\* What a scenario is.
LEMMA Scenario ==
    ASSUME NEW s \in Scenarios, NEW t, Sized(t, s)
    PROVE  /\ t.rows \in Nat \ {0} /\ t.cols \in Nat \ {0} /\ t.savelines \in Nat
           /\ "R" \notin s.glyphs /\ s.length \in Nat
           /\ t.cols = 1 => "W" \notin s.glyphs /\ ("tabs" \notin s.groups \/ "cells" \notin s.groups)
  BY TerminalAssumption DEF Sized

\* What a line is made of, and how to make one.
LEMMA TextIs ==
    ASSUME NEW s, NEW c \in Texts(s)
    PROVE  /\ c \in Seq(Alphabet(s)) /\ Len(c) \in Nat
           /\ \A j \in 1 .. Len(c) :
                  /\ c[j] \in Alphabet(s)
                  /\ c[j] = "R" => j > 1 /\ c[j - 1] # "R" /\ ("before" \in s.groups \/ c[j - 1] = "W")
  BY LenProperties, ElementOfSeq DEF Texts, Halved

LEMMA TextMade ==
    ASSUME NEW s, NEW n \in Nat, NEW c, c \in [1 .. n -> Alphabet(s)],
           \A j \in 1 .. n :
               c[j] = "R" => j > 1 /\ c[j - 1] # "R" /\ ("before" \in s.groups \/ c[j - 1] = "W")
    PROVE  c \in Texts(s) /\ Len(c) = n
  <1>1. c \in Seq(Alphabet(s)) /\ Len(c) = n
    BY Made
  <1> QED BY <1>1 DEF Texts, Halved

LEMMA LineIs ==
    ASSUME NEW s, NEW l \in Lines(s)
    PROVE  /\ l.c \in Texts(s) /\ l.w \in SUBSET {1, 2}
           /\ l.d \in BOOLEAN /\ (l.d => "cells" \in s.groups)
           /\ l = [c |-> l.c, w |-> l.w, d |-> l.d]
  BY DEF Lines

LEMMA LineMade ==
    ASSUME NEW s, NEW c \in Texts(s), NEW w \in SUBSET {1, 2}, NEW d \in BOOLEAN, d => "cells" \in s.groups
    PROVE  [c |-> c, w |-> w, d |-> d] \in Lines(s)
  BY DEF Lines

LEMMA Blanks ==
    ASSUME NEW s, NEW n \in Nat
    PROVE  BlankLine(n) \in Lines(s) /\ Len(BlankLine(n).c) = n
  <1> DEFINE c == [i \in 1 .. n |-> "blank"]
  <1>1. c \in Texts(s) /\ Len(c) = n
    <2>1. c \in [1 .. n -> Alphabet(s)]
      BY DEF Alphabet
    <2> HIDE DEF c
    <2>2. \A j \in 1 .. n : c[j] = "blank"
      BY DEF c
    <2>3. \A j \in 1 .. n :
               c[j] = "R" => j > 1 /\ c[j - 1] # "R" /\ ("before" \in s.groups \/ c[j - 1] = "W")
      BY <2>2
    <2> QED BY <2>1, <2>3, TextMade
  <1> HIDE DEF c
  <1>2. BlankLine(n) = [c |-> c, w |-> {}, d |-> FALSE]
    BY DEF BlankLine, c
  <1>3. [c |-> c, w |-> {}, d |-> FALSE] \in Lines(s)
    BY <1>1, LineMade
  <1> QED BY <1>1, <1>2, <1>3

LEMMA Refitted ==
    ASSUME NEW s, NEW l \in Lines(s), NEW n \in Nat
    PROVE  Resized(l, n) \in Lines(s) /\ Len(Resized(l, n).c) = n
  <1>1. CASE Len(l.c) = n
    BY <1>1 DEF Resized
  <1>2. CASE Len(l.c) # n
    <2> DEFINE a == l.c
               c == [i \in 1 .. n |-> IF i <= Len(a) THEN a[i] ELSE "blank"]
    <2>0. a \in Texts(s) /\ l.d \in BOOLEAN /\ (l.d => "cells" \in s.groups)
      BY LineIs
    <2> HIDE DEF a
    <2>1. /\ Len(a) \in Nat
          /\ \A j \in 1 .. Len(a) :
                  /\ a[j] \in Alphabet(s)
                  /\ a[j] = "R" => j > 1 /\ a[j - 1] # "R" /\ ("before" \in s.groups \/ a[j - 1] = "W")
      BY <2>0, TextIs
    <2>2. c \in [1 .. n -> Alphabet(s)]
      <3>1. \A j \in 1 .. n : j <= Len(a) => a[j] \in Alphabet(s)
        BY <2>1
      <3>2. "blank" \in Alphabet(s)
        BY DEF Alphabet
      <3> QED BY <3>1, <3>2
    <2>3. \A j \in 1 .. n : c[j] = IF j <= Len(a) THEN a[j] ELSE "blank"
      OBVIOUS
    <2> HIDE DEF c
    <2>4. \A j \in 1 .. n :
               c[j] = "R" => j > 1 /\ c[j - 1] # "R" /\ ("before" \in s.groups \/ c[j - 1] = "W")
      <3> SUFFICES ASSUME NEW j \in 1 .. n, c[j] = "R"
                   PROVE  j > 1 /\ c[j - 1] # "R" /\ ("before" \in s.groups \/ c[j - 1] = "W")
        OBVIOUS
      <3>1. j <= Len(a) /\ a[j] = "R"
        BY <2>3
      <3>2. j > 1 /\ a[j - 1] # "R" /\ ("before" \in s.groups \/ a[j - 1] = "W")
        BY <3>1, <2>1
      <3>3. c[j - 1] = a[j - 1]
        <4>1. j - 1 \in 1 .. n /\ j - 1 <= Len(a)
          BY <3>1, <3>2, <2>1
        <4> QED BY <4>1, <2>3
      <3> QED BY <3>2, <3>3
    <2>5. c \in Texts(s) /\ Len(c) = n
      BY <2>2, <2>4, TextMade
    <2>6. Resized(l, n) = [c |-> c, w |-> {}, d |-> l.d]
      BY <1>2 DEF Resized, a, c
    <2>7. [c |-> c, w |-> {}, d |-> l.d] \in Lines(s)
      BY <2>0, <2>5, LineMade
    <2> QED BY <2>5, <2>6, <2>7
  <1> QED BY <1>1, <1>2

-----------------------------------------------------------------------------
(* Changing a screen                                                         *)

LEMMA Numbers ==
    ASSUME NEW s \in Scenarios, NEW t, Term(t, s)
    PROVE  /\ t.rows \in Nat \ {0} /\ t.cols \in Nat \ {0} /\ t.savelines \in Nat
           /\ t.x \in 0 .. t.cols - 1 /\ t.y \in 0 .. t.rows - 1
           /\ t.mt \in 0 .. t.mb /\ t.mb \in 0 .. t.rows - 1
           /\ t.screen \in Seq(Lines(s)) /\ Len(t.screen) = t.rows
  BY Scenario DEF Term, Pointed, OnScreen, Paged, Pages

LEMMA Redrawn ==
    ASSUME NEW s, NEW t, Term(t, s), NEW p \in Pages(s, t.rows)
    PROVE  /\ Term([t EXCEPT !.screen = p], s) /\ Kin(t, [t EXCEPT !.screen = p])
           /\ [t EXCEPT !.screen = p].screen = p
  <1> DEFINE u == [t EXCEPT !.screen = p]
  <1>1. Shaped(u)
    BY DEF Term, Shaped
  <1>2. /\ u.rows = t.rows /\ u.cols = t.cols /\ u.savelines = t.savelines /\ u.which = t.which
        /\ u.screen = p /\ u.alt = t.alt /\ u.sb = t.sb /\ u.temps = t.temps /\ u.altsb = t.altsb
        /\ u.x = t.x /\ u.y = t.y /\ u.mt = t.mt /\ u.mb = t.mb
        /\ u.other = t.other /\ u.save = t.save /\ u.tabs = t.tabs /\ u.sel = t.sel
    BY DEF Term, Shaped
  <1> HIDE DEF u
  <1>3. Sized(u, s) /\ Paged(u, s) /\ Pointed(u)
    BY <1>2 DEF Term, Sized, Paged, Pointed, OnScreen
  <1> QED BY <1>1, <1>2, <1>3 DEF Term, Kin, u

LEMMA LineOf ==
    ASSUME NEW s \in Scenarios, NEW t, Term(t, s), NEW y \in 0 .. t.rows - 1
    PROVE  LineAt(t, y) \in Lines(s) /\ Len(LineAt(t, y).c) = t.cols
  <1>1. t.screen[y + 1] \in Lines(s) /\ t.cols \in Nat
    <2>1. y + 1 \in 1 .. Len(t.screen) /\ t.screen \in Seq(Lines(s)) /\ t.cols \in Nat
      BY Numbers
    <2> QED BY <2>1, ElementOfSeq
  <1>2. LineAt(t, y) = Resized(t.screen[y + 1], t.cols)
    BY DEF LineAt, Stored
  <1> QED BY <1>1, <1>2, Refitted

LEMMA Drawn ==
    ASSUME NEW s \in Scenarios, NEW t, Term(t, s), NEW y \in 0 .. t.rows - 1, NEW l \in Lines(s)
    PROVE  /\ Term(WithLine(t, y, l), s) /\ Kin(t, WithLine(t, y, l))
           /\ Len(l.c) = t.cols => LineAt(WithLine(t, y, l), y) = l
  <1> DEFINE p == [t.screen EXCEPT ![y + 1] = l]
  <1>1. y + 1 \in 1 .. Len(t.screen) /\ t.screen \in Seq(Lines(s)) /\ Len(t.screen) = t.rows
    BY Numbers
  <1>2. p \in Seq(Lines(s)) /\ Len(p) = t.rows /\ p[y + 1] = l
    BY <1>1, Changed
  <1>3. WithLine(t, y, l) = [t EXCEPT !.screen = p]
    BY DEF WithLine
  <1> HIDE DEF p
  <1>4. p \in Pages(s, t.rows)
    BY <1>2 DEF Pages
  <1> DEFINE u == WithLine(t, y, l)
  <1>5. Term(u, s) /\ Kin(t, u) /\ u.screen = p
    BY <1>3, <1>4, Redrawn
  <1> HIDE DEF u
  <1>6. LineAt(u, y) = Resized(l, u.cols) /\ u.cols = t.cols
    BY <1>2, <1>5 DEF LineAt, Stored, Kin
  <1>7. Len(l.c) = t.cols => LineAt(u, y) = l
    BY <1>6 DEF Resized
  <1> QED BY <1>5, <1>7 DEF u

\* The characters of a line that fits.
LEMMA CellsOf ==
    ASSUME NEW s \in Scenarios, NEW t, Term(t, s), NEW y \in 0 .. t.rows - 1
    PROVE  LET l == LineAt(t, y)
           IN  /\ l.c \in Texts(s) /\ Len(l.c) = t.cols /\ l.w \in SUBSET {1, 2}
               /\ l.d \in BOOLEAN /\ (l.d => "cells" \in s.groups)
               /\ l = [c |-> l.c, w |-> l.w, d |-> l.d]
               /\ DOMAIN l.c = 1 .. t.cols
               /\ \A j \in 1 .. t.cols :
                      /\ l.c[j] \in Alphabet(s)
                      /\ l.c[j] = "R" => j > 1 /\ l.c[j - 1] # "R"
                                         /\ ("before" \in s.groups \/ l.c[j - 1] = "W")
  <1> DEFINE l == LineAt(t, y)
  <1>1. l \in Lines(s) /\ Len(l.c) = t.cols
    BY LineOf
  <1> HIDE DEF l
  <1>2. l.c \in Texts(s) /\ l.w \in SUBSET {1, 2} /\ l.d \in BOOLEAN /\ (l.d => "cells" \in s.groups)
        /\ l = [c |-> l.c, w |-> l.w, d |-> l.d]
    BY <1>1, LineIs
  <1> DEFINE c == l.c
  <1> HIDE DEF c
  <1>3. c \in Texts(s) /\ Len(c) = t.cols
    BY <1>1, <1>2 DEF c
  <1>4. /\ c \in Seq(Alphabet(s))
        /\ \A j \in 1 .. t.cols :
               /\ c[j] \in Alphabet(s)
               /\ c[j] = "R" => j > 1 /\ c[j - 1] # "R" /\ ("before" \in s.groups \/ c[j - 1] = "W")
    BY <1>3, TextIs
  <1>5. DOMAIN c = 1 .. t.cols
    BY <1>3, <1>4, LenProperties
  <1> QED BY <1>1, <1>2, <1>4, <1>5 DEF c, l

\* A line with one character put in place of another that does not begin a
\* wide one; or with a wide one begun.
LEMMA Put ==
    ASSUME NEW s, NEW n \in Nat, NEW c \in Texts(s), Len(c) = n, NEW k \in 1 .. n,
           NEW g \in Alphabet(s), g # "R", g = "W" \/ (k < n => c[k + 1] # "R"),
           NEW b, Replaces(b, c, n, k, g, s)
    PROVE  b \in Texts(s) /\ Len(b) = n
  <1>0. b \in [1 .. n -> Alphabet(s)] /\ \A j \in 1 .. n : b[j] = IF j = k THEN g ELSE c[j]
    BY DEF Replaces
  <1>1. \A j \in 1 .. n :
                  /\ c[j] \in Alphabet(s)
                  /\ c[j] = "R" => j > 1 /\ c[j - 1] # "R" /\ ("before" \in s.groups \/ c[j - 1] = "W")
    BY TextIs
  <1>2. ASSUME NEW j \in 1 .. n, b[j] = "R"
        PROVE  j > 1 /\ b[j - 1] # "R" /\ ("before" \in s.groups \/ b[j - 1] = "W")
    <2>1. j # k /\ c[j] = "R"
      BY <1>0, <1>2
    <2>2. j > 1 /\ c[j - 1] # "R" /\ ("before" \in s.groups \/ c[j - 1] = "W")
      BY <2>1, <1>1
    <2>3. j - 1 \in 1 .. n
      BY <2>2
    <2>4. CASE j - 1 = k
      <3>1. k < n /\ k + 1 = j
        BY <2>4
      <3>2. g = "W" /\ b[j - 1] = g
        BY <3>1, <2>1, <2>3, <2>4, <1>0
      <3> QED BY <3>2, <2>2
    <2>5. CASE j - 1 # k
      BY <1>0, <2>2, <2>3, <2>5
    <2> QED BY <2>4, <2>5
  <1> QED BY <1>0, <1>2, TextMade

\* The right half of a wide character, put after the left one.
LEMMA PutRight ==
    ASSUME NEW s, NEW n \in Nat, NEW c \in Texts(s), Len(c) = n, NEW k \in 2 .. n,
           c[k - 1] = "W", k < n => c[k + 1] # "R",
           NEW b, Replaces(b, c, n, k, "R", s)
    PROVE  b \in Texts(s) /\ Len(b) = n
  <1>0. b \in [1 .. n -> Alphabet(s)] /\ \A j \in 1 .. n : b[j] = IF j = k THEN "R" ELSE c[j]
    BY DEF Replaces
  <1>1. \A j \in 1 .. n :
                  /\ c[j] \in Alphabet(s)
                  /\ c[j] = "R" => j > 1 /\ c[j - 1] # "R" /\ ("before" \in s.groups \/ c[j - 1] = "W")
    BY TextIs
  <1>2. ASSUME NEW j \in 1 .. n, b[j] = "R"
        PROVE  j > 1 /\ b[j - 1] # "R" /\ ("before" \in s.groups \/ b[j - 1] = "W")
    <2>1. CASE j = k
      <3>1. j - 1 \in 1 .. n /\ j - 1 # k /\ j > 1
        BY <2>1
      <3>2. b[j - 1] = c[j - 1] /\ c[j - 1] = "W"
        BY <3>1, <2>1, <1>0
      <3> QED BY <3>1, <3>2
    <2>2. CASE j # k
      <3>1. c[j] = "R"
        BY <1>0, <1>2, <2>2
      <3>2. j > 1 /\ c[j - 1] # "R" /\ ("before" \in s.groups \/ c[j - 1] = "W")
        BY <3>1, <1>1
      <3>3. j - 1 # k
        <4> SUFFICES ASSUME j - 1 = k PROVE FALSE
          OBVIOUS
        <4>1. k < n /\ k + 1 = j
          OBVIOUS
        <4> QED BY <4>1, <3>1
      <3>4. j - 1 \in 1 .. n /\ b[j - 1] = c[j - 1]
        BY <1>0, <3>2, <3>3
      <3> QED BY <3>2, <3>4
    <2> QED BY <2>1, <2>2
  <1> QED BY <1>0, <1>2, TextMade

\* The two halves of a wide character replaced by blanks.
LEMMA CutText ==
    ASSUME NEW s, NEW n \in Nat, NEW c \in Texts(s), Len(c) = n, NEW x \in 1 .. n - 1, c[x + 1] = "R",
           NEW b, b \in [1 .. n -> Alphabet(s)],
           \A j \in 1 .. n : b[j] = IF j = x \/ j = x + 1 THEN "blank" ELSE c[j]
    PROVE  b \in Texts(s) /\ Len(b) = n
  <1>1. \A j \in 1 .. n :
                  /\ c[j] \in Alphabet(s)
                  /\ c[j] = "R" => j > 1 /\ c[j - 1] # "R" /\ ("before" \in s.groups \/ c[j - 1] = "W")
    BY TextIs
  <1>2. ASSUME NEW j \in 1 .. n, b[j] = "R"
        PROVE  j > 1 /\ b[j - 1] # "R" /\ ("before" \in s.groups \/ b[j - 1] = "W")
    <2>1. j # x /\ j # x + 1 /\ c[j] = "R"
      BY <1>2
    <2>2. j > 1 /\ c[j - 1] # "R" /\ ("before" \in s.groups \/ c[j - 1] = "W")
      BY <2>1, <1>1
    <2>3. j - 1 # x
      BY <2>1
    <2>4. j - 1 # x + 1
      <3> SUFFICES ASSUME j - 1 = x + 1 PROVE FALSE
        OBVIOUS
      <3> QED BY <2>2
    <2>5. j - 1 \in 1 .. n /\ b[j - 1] = c[j - 1]
      BY <2>2, <2>3, <2>4
    <2> QED BY <2>2, <2>5
  <1> QED BY <1>2, TextMade

\* Lines with one field changed.
LEMMA LineWith ==
    ASSUME NEW s, NEW l \in Lines(s)
    PROVE  /\ \A c \in Texts(s) : [l EXCEPT !.c = c] \in Lines(s) /\ [l EXCEPT !.c = c].c = c
           /\ \A w \in SUBSET {1, 2} : [l EXCEPT !.w = w] \in Lines(s) /\ [l EXCEPT !.w = w].c = l.c
           /\ \A d \in BOOLEAN : (d => "cells" \in s.groups) =>
                  [l EXCEPT !.d = d] \in Lines(s) /\ [l EXCEPT !.d = d].c = l.c
  BY DEF Lines

LEMMA Bounded ==
    ASSUME NEW s \in Scenarios, NEW t, Term(t, s), NEW y \in 0 .. t.rows - 1, NEW x \in Nat
    PROVE  /\ Term(CheckBoundary(t, x, y), s) /\ Kin(t, CheckBoundary(t, x, y))
           /\ Whole(CheckBoundary(t, x, y), y, x)
           /\ \A k \in Nat : Whole(t, y, k) => Whole(CheckBoundary(t, x, y), y, k)
  <1> DEFINE l == LineAt(t, y)
             u == CheckBoundary(t, x, y)
             n == t.cols
  <1>0. n \in Nat \ {0}
    BY Numbers
  <1>1. /\ l \in Lines(s) /\ l.c \in Texts(s) /\ Len(l.c) = n /\ l.w \in SUBSET {1, 2}
        /\ l.d \in BOOLEAN /\ (l.d => "cells" \in s.groups)
        /\ \A j \in 1 .. n : l.c[j] = "R" => j > 1
    BY CellsOf, LineOf
  <1>2. l.c \in [1 .. n -> Alphabet(s)] /\ "blank" \in Alphabet(s)
    BY <1>1, TextIs, LenProperties DEF Alphabet
  <1>3. Kin(t, t)
    BY DEF Kin
  <1>5. CASE x = 0 \/ x > n \/ (x < n /\ l.c[x + 1] # "R")
    <2>1. u = t
      BY <1>0, <1>5 DEF CheckBoundary
    <2> HIDE DEF u
    <2>2. Whole(t, y, x)
      BY <1>0, <1>1, <1>5 DEF Whole
    <2> QED BY <2>1, <2>2, <1>3 DEF u
  <1>6. CASE x # 0 /\ x = n
    <2>1. u = WithLine(t, y, Unfilled(l))
      BY <1>0, <1>6 DEF CheckBoundary
    <2> HIDE DEF u
    <2> HIDE DEF l
    <2>2. PICK w \in SUBSET {1, 2} : w = l.w \ {2}
      BY <1>1
    <2>3. PICK v : v = Unfilled(l)
      OBVIOUS
    <2>4. Term(u, s) /\ Kin(t, u) /\ LineAt(u, y).c = l.c
      <3>1. v \in Lines(s) /\ v.c = l.c
        <4>1. v = [l EXCEPT !.w = w]
          BY <2>2, <2>3 DEF Unfilled
        <4> QED BY <4>1, <1>1 DEF Lines
      <3>2. u = WithLine(t, y, v) /\ Len(v.c) = t.cols
        BY <2>1, <2>3, <3>1, <1>1
      <3> QED BY <3>1, <3>2, Drawn
    <2>5. \A k \in Nat : Whole(t, y, k) => Whole(u, y, k)
      BY <2>4 DEF Whole, Kin, l
    <2>6. Whole(u, y, x)
      BY <2>4, <1>6 DEF Whole, Kin
    <2> QED BY <2>4, <2>5, <2>6 DEF u
  <1>7. CASE x # 0 /\ x < n /\ l.c[x + 1] = "R"
    <2>0. x \in 1 .. n - 1 /\ n \in Nat
      BY <1>0, <1>7
    <2>1. u = WithLine(t, y, Cut(l, x))
      BY <1>0, <1>7 DEF CheckBoundary
    <2> HIDE DEF u, l
    <2>2. PICK c : c = [l.c EXCEPT ![x] = "blank", ![x + 1] = "blank"]
      OBVIOUS
    <2>3. /\ c \in [1 .. n -> Alphabet(s)]
          /\ \A j \in 1 .. n : c[j] = IF j = x \/ j = x + 1 THEN "blank" ELSE l.c[j]
      BY <2>0, <2>2, <1>2
    <2>4. c \in Texts(s) /\ Len(c) = n
      <3>1. PICK a, m : a = l.c /\ m = n
        OBVIOUS
      <3>2. a \in Texts(s) /\ Len(a) = m /\ a[x + 1] = "R" /\ m \in Nat /\ x \in 1 .. m - 1
        BY <3>1, <2>0, <1>1, <1>7 DEF l
      <3>3. /\ c \in [1 .. m -> Alphabet(s)]
            /\ \A j \in 1 .. m : c[j] = IF j = x \/ j = x + 1 THEN "blank" ELSE a[j]
        BY <3>1, <2>3
      <3>4. c \in Texts(s) /\ Len(c) = m
        BY <3>2, <3>3, CutText
      <3> QED BY <3>1, <3>4
    <2>5. PICK v : v = Cut(l, x)
      OBVIOUS
    <2>6. Term(u, s) /\ Kin(t, u) /\ LineAt(u, y).c = c
      <3>1. v = [l EXCEPT !.c = c]
        BY <2>2, <2>5, <1>1 DEF Cut, Lines
      <3>2. v \in Lines(s) /\ v.c = c
        BY <3>1, <2>4, <1>1, LineWith
      <3>3. u = WithLine(t, y, v) /\ Len(v.c) = t.cols
        BY <2>1, <2>4, <2>5, <3>2
      <3> QED BY <3>2, <3>3, Drawn
    <2>7. \A k \in Nat : Whole(t, y, k) => Whole(u, y, k)
      <3> SUFFICES ASSUME NEW k \in Nat, Whole(t, y, k), k < t.cols PROVE c[k + 1] # "R"
        BY <2>6 DEF Whole, Kin
      <3>1. l.c[k + 1] # "R" /\ k + 1 \in 1 .. n
        BY <2>0 DEF Whole, l
      <3> QED BY <3>1, <2>3
    <2>8. Whole(u, y, x)
      BY <2>0, <2>3, <2>6 DEF Whole, Kin
    <2> QED BY <2>6, <2>7, <2>8 DEF u
  <1> QED BY <1>0, <1>5, <1>6, <1>7

-----------------------------------------------------------------------------
(* Cells written                                                             *)

\* New characters for a line of the screen, its flags and its size as they
\* were.
LEMMA Rewritten ==
    ASSUME NEW s \in Scenarios, NEW t, Term(t, s), NEW y \in 0 .. t.rows - 1,
           NEW c \in Texts(s), Len(c) = t.cols,
           NEW u, u = WithLine(t, y, [LineAt(t, y) EXCEPT !.c = c])
    PROVE  Term(u, s) /\ Kin(t, u) /\ LineAt(u, y).c = c
  <1>1. PICK l : l = LineAt(t, y)
    OBVIOUS
  <1>2. l \in Lines(s)
    BY <1>1, LineOf
  <1>3. PICK v : v = [l EXCEPT !.c = c]
    OBVIOUS
  <1>4. v \in Lines(s) /\ v.c = c
    BY <1>2, <1>3 DEF Lines
  <1>5. u = WithLine(t, y, v) /\ Len(v.c) = t.cols
    BY <1>1, <1>3, <1>4
  <1> QED BY <1>4, <1>5, Drawn

\* The characters of the cursor's line.
LEMMA Here ==
    ASSUME NEW s \in Scenarios, NEW t, Term(t, s)
    PROVE  /\ t.y \in 0 .. t.rows - 1 /\ t.x \in 0 .. t.cols - 1 /\ t.cols \in Nat \ {0}
           /\ LineAt(t, t.y) \in Lines(s)
           /\ LineAt(t, t.y).c \in Texts(s) /\ Len(LineAt(t, t.y).c) = t.cols
           /\ LineAt(t, t.y).c \in [1 .. t.cols -> Alphabet(s)]
           /\ "blank" \in Alphabet(s) /\ "R" \in Alphabet(s)
  <1>1. t.y \in 0 .. t.rows - 1 /\ t.x \in 0 .. t.cols - 1 /\ t.cols \in Nat \ {0}
    BY Numbers
  <1>2. PICK y : y = t.y
    OBVIOUS
  <1>3. LineAt(t, y) \in Lines(s) /\ LineAt(t, y).c \in Texts(s) /\ Len(LineAt(t, y).c) = t.cols
    BY <1>1, <1>2, LineOf, CellsOf
  <1>4. PICK c : c = LineAt(t, y).c
    OBVIOUS
  <1>5. c \in [1 .. t.cols -> Alphabet(s)]
    BY <1>3, <1>4, TextIs, LenProperties
  <1>6. "blank" \in Alphabet(s) /\ "R" \in Alphabet(s)
    BY DEF Alphabet
  <1> QED BY <1>1, <1>2, <1>3, <1>4, <1>5, <1>6

\* A cell is written if that leaves a text.
LEMMA CellIs ==
    ASSUME NEW s \in Scenarios, NEW t, Term(t, s), NEW x \in 0 .. t.cols - 1, NEW g \in Alphabet(s)
    PROVE  \E c : /\ Replaces(c, LineAt(t, t.y).c, t.cols, x + 1, g, s)
                  /\ c \in Texts(s) => /\ Term(Cell(t, x, g), s) /\ Kin(t, Cell(t, x, g))
                                        /\ LineAt(Cell(t, x, g), t.y).c = c
  <1>1. PICK y, l, n, u : y = t.y /\ l = LineAt(t, t.y) /\ n = t.cols /\ u = Cell(t, x, g)
    OBVIOUS
  <1>2. /\ y \in 0 .. t.rows - 1 /\ n \in Nat \ {0}
        /\ l.c \in Texts(s) /\ Len(l.c) = n /\ l.c \in [1 .. n -> Alphabet(s)]
        /\ l \in Lines(s)
    BY <1>1, Here
  <1>3. PICK a, k : a = l.c /\ k = x + 1
    OBVIOUS
  <1>4. a \in Texts(s) /\ Len(a) = n /\ a \in [1 .. n -> Alphabet(s)] /\ k \in 1 .. n
    BY <1>1, <1>2, <1>3
  <1>5. PICK c : c = [a EXCEPT ![k] = g]
    OBVIOUS
  <1>6. Replaces(c, a, n, k, g, s)
    BY <1>4, <1>5 DEF Replaces
  <1>7. u = WithLine(t, y, [LineAt(t, y) EXCEPT !.c = c])
    <2>1. [l EXCEPT !.c[x + 1] = g] = [l EXCEPT !.c = c]
      BY <1>2, <1>3, <1>5 DEF Lines
    <2>2. u = WithLine(t, t.y, [l EXCEPT !.c[x + 1] = g])
      BY <1>1 DEF Cell
    <2> QED BY <1>1, <2>1, <2>2
  <1>8. ASSUME c \in Texts(s) PROVE Term(u, s) /\ Kin(t, u) /\ LineAt(u, y).c = c
    <2>1. Len(c) = t.cols
      BY <1>1, <1>2, <1>4, <1>5, <1>6, LenProperties, Changed
    <2> QED BY <1>1, <1>2, <1>7, <1>8, <2>1, Rewritten
  <1> QED BY <1>1, <1>3, <1>6, <1>8

\* A character that is no right half, where none follows.
LEMMA Celled ==
    ASSUME NEW s \in Scenarios, NEW t, Term(t, s), NEW x \in 0 .. t.cols - 1,
           NEW g \in Alphabet(s), g # "R", Whole(t, t.y, x + 1)
    PROVE  Term(Cell(t, x, g), s) /\ Kin(t, Cell(t, x, g))
  <1>1. PICK n, k, a : n = t.cols /\ k = x + 1 /\ a = LineAt(t, t.y).c
    OBVIOUS
  <1>2. n \in Nat /\ k \in 1 .. n /\ a \in Texts(s) /\ Len(a) = n
    BY <1>1, Here
  <1>3. PICK c : /\ Replaces(c, a, n, k, g, s)
                 /\ c \in Texts(s) => Term(Cell(t, x, g), s) /\ Kin(t, Cell(t, x, g))
    BY <1>1, CellIs
  <1>4. k < n => a[k + 1] # "R"
    BY <1>1 DEF Whole
  <1>5. c \in Texts(s)
    BY <1>2, <1>3, <1>4, Put
  <1> QED BY <1>3, <1>5

\* Both halves of a wide character, where no right half follows.
LEMMA PairPut ==
    ASSUME NEW s \in Scenarios, NEW t, Term(t, s), "W" \in s.glyphs, NEW x \in 0 .. t.cols - 2,
           Whole(t, t.y, x + 2)
    PROVE  /\ Term(Cell(Cell(t, x, "W"), x + 1, "R"), s)
           /\ Kin(t, Cell(Cell(t, x, "W"), x + 1, "R"))
  <1>1. PICK n, k, a, y : n = t.cols /\ k = x + 1 /\ a = LineAt(t, t.y).c /\ y = t.y
    OBVIOUS
  <1>2. /\ n \in Nat /\ k \in 1 .. n /\ k + 1 \in 2 .. n /\ a \in Texts(s) /\ Len(a) = n
        /\ "W" \in Alphabet(s) /\ "R" \in Alphabet(s) /\ x \in 0 .. t.cols - 1
    BY <1>1, Here DEF Alphabet
  <1>3. PICK u : u = Cell(t, x, "W")
    OBVIOUS
  <1>4. PICK c : /\ Replaces(c, a, n, k, "W", s)
                 /\ c \in Texts(s) => Term(u, s) /\ Kin(t, u) /\ LineAt(u, y).c = c
    BY <1>1, <1>2, <1>3, CellIs
  <1>5. c \in Texts(s) /\ Len(c) = n
    BY <1>2, <1>4, Put
  <1>6. Term(u, s) /\ Kin(t, u) /\ LineAt(u, y).c = c /\ u.y = y /\ u.cols = n
    BY <1>1, <1>4, <1>5 DEF Kin
  <1>7. PICK m, v : m = k + 1 /\ v = Cell(u, x + 1, "R")
    OBVIOUS
  <1>8. m \in 2 .. n /\ c[m - 1] = "W" /\ (m < n => c[m + 1] # "R")
    <2>1. \A j \in 1 .. n : c[j] = IF j = k THEN "W" ELSE a[j]
      BY <1>4 DEF Replaces
    <2>2. c[m - 1] = "W"
      BY <2>1, <1>2, <1>7
    <2>3. ASSUME m < n PROVE c[m + 1] # "R"
      <3>1. x + 2 < t.cols /\ m + 1 = (x + 2) + 1
        BY <2>3, <1>1, <1>7
      <3>2. a[m + 1] # "R"
        BY <3>1, <1>1 DEF Whole
      <3>3. m + 1 \in 1 .. n /\ m + 1 # k
        BY <2>3, <1>2, <1>7
      <3> QED BY <3>2, <3>3, <2>1
    <2> QED BY <2>2, <2>3, <1>2, <1>7
  <1>9. PICK b : /\ Replaces(b, c, n, m, "R", s)
                 /\ b \in Texts(s) => Term(v, s) /\ Kin(u, v)
    <2>1. x + 1 \in 0 .. u.cols - 1 /\ m = (x + 1) + 1
      BY <1>1, <1>2, <1>6, <1>7
    <2> QED BY <2>1, <1>1, <1>2, <1>6, <1>7, CellIs
  <1>10. b \in Texts(s)
    BY <1>2, <1>5, <1>8, <1>9, PutRight
  <1> QED BY <1>3, <1>6, <1>7, <1>9, <1>10 DEF Kin

LEMMA Roomy ==
    ASSUME NEW s \in Scenarios, NEW t, Term(t, s), NEW n \in Nat
    PROVE  /\ Term(Room(t, n), s) /\ Kin(t, Room(t, n))
           /\ Whole(Room(t, n), t.y, t.x) /\ Whole(Room(t, n), t.y, t.x + n)
  <1>1. PICK x, y, z : x = t.x /\ y = t.y /\ z = t.x + n
    OBVIOUS
  <1>2. x \in Nat /\ z \in Nat /\ y \in 0 .. t.rows - 1
    BY <1>1, Here
  <1>3. PICK u : u = CheckBoundary(t, x, y)
    OBVIOUS
  <1>4. Term(u, s) /\ Kin(t, u) /\ Whole(u, y, x)
    BY <1>2, <1>3, Bounded
  <1>5. y \in 0 .. u.rows - 1
    BY <1>2, <1>4 DEF Kin
  <1>6. PICK v : v = CheckBoundary(u, z, y)
    OBVIOUS
  <1>7. Term(v, s) /\ Kin(u, v) /\ Whole(v, y, z) /\ (Whole(u, y, x) => Whole(v, y, x))
    BY <1>2, <1>4, <1>5, <1>6, Bounded
  <1>8. v = Room(t, n)
    BY <1>1, <1>3, <1>6 DEF Room
  <1>9. Kin(t, v)
    BY <1>4, <1>7 DEF Kin
  <1> QED BY <1>1, <1>4, <1>7, <1>8, <1>9

LEMMA NarrowPut ==
    ASSUME NEW s \in Scenarios, NEW t, Term(t, s), NEW g \in s.glyphs
    PROVE  Term(PutNarrow(t, g), s) /\ Kin(t, PutNarrow(t, g))
  <1>1. PICK u : u = Room(t, 1)
    OBVIOUS
  <1>2. Term(u, s) /\ Kin(t, u) /\ Whole(u, t.y, t.x + 1)
    BY <1>1, Roomy
  <1>3. g \in Alphabet(s) /\ g # "R"
    BY TerminalAssumption DEF Alphabet
  <1>4. PICK x : x = t.x
    OBVIOUS
  <1>5. x \in 0 .. u.cols - 1 /\ Whole(u, u.y, x + 1)
    BY <1>2, <1>4, Here DEF Kin
  <1>6. Term(Cell(u, x, g), s) /\ Kin(u, Cell(u, x, g))
    BY <1>2, <1>3, <1>5, Celled
  <1>7. PutNarrow(t, g) = Cell(u, x, g)
    BY <1>1, <1>4 DEF PutNarrow
  <1> QED BY <1>2, <1>6, <1>7 DEF Kin

-----------------------------------------------------------------------------
(* The selection                                                             *)

LEMMA Unselected ==
    ASSUME NEW s, NEW t, Term(t, s)
    PROVE  Term(Deselect(t), s) /\ Alike(t, Deselect(t))
  <1>1. PICK u : u = Deselect(t)
    OBVIOUS
  <1>2. Shaped(u)
    BY <1>1 DEF Deselect, Term, Shaped
  <1>3. /\ u.rows = t.rows /\ u.cols = t.cols /\ u.savelines = t.savelines /\ u.which = t.which
        /\ u.screen = t.screen /\ u.alt = t.alt /\ u.sb = t.sb /\ u.temps = t.temps /\ u.altsb = t.altsb
        /\ u.x = t.x /\ u.y = t.y /\ u.mt = t.mt /\ u.mb = t.mb
        /\ u.other = t.other /\ u.save = t.save /\ u.tabs = t.tabs
    BY <1>1 DEF Deselect, Term, Shaped
  <1>4. u.sel.state = "none"
    BY <1>1 DEF Deselect, Term, Shaped
  <1>5. Sized(u, s) /\ Paged(u, s) /\ Pointed(u)
    BY <1>3, <1>4 DEF Term, Sized, Paged, Pointed, OnScreen
  <1> QED BY <1>1, <1>2, <1>3, <1>5 DEF Term, Alike, Kin

LEMMA SelectionChecked ==
    ASSUME NEW s, NEW t, Term(t, s), NEW from, NEW to
    PROVE  Term(CheckSelection(t, from, to), s) /\ Alike(t, CheckSelection(t, from, to))
  <1>1. CheckSelection(t, from, to) = t \/ CheckSelection(t, from, to) = Deselect(t)
    BY DEF CheckSelection
  <1>2. Alike(t, t)
    BY DEF Alike, Kin
  <1> QED BY <1>1, <1>2, Unselected

LEMMA StillWhole ==
    ASSUME NEW t, NEW u, Alike(t, u), NEW y \in Nat, NEW x, Whole(t, y, x)
    PROVE  Whole(u, y, x)
  BY DEF Alike, Kin, Whole, LineAt, Stored

-----------------------------------------------------------------------------
(* Scrolling                                                                 *)

\* A terminal is one whose screen and scrollback are, if the rest is as it was.
LEMMA Rescreened ==
    ASSUME NEW s, NEW t, Term(t, s), NEW u, Shaped(u), Rest(t, u),
           u.screen \in Pages(s, t.rows),
           u.sb \in Seq(Lines(s)), Len(u.sb) <= t.savelines, u.temps \in 0 .. Len(u.sb)
    PROVE  Term(u, s)
  <1>1. Sized(u, s)
    BY DEF Rest, Term, Kin, Sized
  <1>2. Paged(u, s)
    BY DEF Rest, Term, Kin, Paged
  <1>3. Pointed(u)
    BY DEF Rest, Term, Kin, Pointed, OnScreen
  <1> QED BY <1>1, <1>2, <1>3 DEF Term

LEMMA Turned ==
    ASSUME NEW s \in Scenarios, NEW t, Term(t, s), NEW i \in 0 .. t.rows - 1, NEW j \in 0 .. t.rows - 1
    PROVE  InsertAt(RemoveAt(t.screen, i + 1), j + 1, BlankLine(t.cols)) \in Pages(s, t.rows)
  <1>1. PICK q, e : q = t.screen /\ e = BlankLine(t.cols)
    OBVIOUS
  <1>2. q \in Seq(Lines(s)) /\ Len(q) = t.rows /\ e \in Lines(s)
    BY <1>1, Numbers, Blanks
  <1>3. PICK m \in 1 .. Len(q), n \in 1 .. Len(q) : m = i + 1 /\ n = j + 1
    BY <1>2, Numbers
  <1>4. InsertAt(RemoveAt(q, m), n, e) \in Seq(Lines(s)) /\ Len(InsertAt(RemoveAt(q, m), n, e)) = Len(q)
    BY <1>2, <1>3, Rotated
  <1> QED BY <1>1, <1>2, <1>3, <1>4 DEF Pages

LEMMA ScrolledUp ==
    ASSUME NEW s \in Scenarios, NEW t, Term(t, s), NEW top \in 0 .. t.rows - 1, NEW bot \in 0 .. t.rows - 1,
           NEW sb
    PROVE  Term(ScrollUp(t, top, bot, sb), s) /\ Kin(t, ScrollUp(t, top, bot, sb))
  <1>1. PICK u : u = ScrollUp(t, top, bot, sb)
    OBVIOUS
  <1>2. Shaped(u) /\ Rest(t, u)
    <2>1. DOMAIN u = DOMAIN t
      BY <1>1 DEF ScrollUp
    <2>2. DOMAIN u.sel = DOMAIN t.sel /\ u.sel.state = t.sel.state
      BY <1>1 DEF ScrollUp, Term, Shaped
    <2>3. /\ u.rows = t.rows /\ u.cols = t.cols /\ u.savelines = t.savelines /\ u.which = t.which
          /\ u.alt = t.alt /\ u.altsb = t.altsb
          /\ u.x = t.x /\ u.y = t.y /\ u.mt = t.mt /\ u.mb = t.mb
          /\ u.other = t.other /\ u.save = t.save /\ u.tabs = t.tabs
      BY <1>1 DEF ScrollUp, Term, Shaped
    <2> QED BY <2>1, <2>2, <2>3 DEF Term, Shaped, Rest, Kin
  <1>3. u.screen \in Pages(s, t.rows)
    <2>1. u.screen = InsertAt(RemoveAt(t.screen, top + 1), bot + 1, BlankLine(t.cols))
      BY <1>1 DEF ScrollUp, Term, Shaped
    <2> QED BY <2>1, Turned
  <1>4. PICK l : l = t.screen[top + 1]
    OBVIOUS
  <1>5. l \in Lines(s) /\ t.sb \in Seq(Lines(s)) /\ Len(t.sb) <= t.savelines /\ Len(t.sb) \in Nat
        /\ t.savelines \in Nat /\ t.temps \in 0 .. Len(t.sb)
    <2>1. t.screen \in Seq(Lines(s)) /\ top + 1 \in 1 .. Len(t.screen) /\ t.savelines \in Nat
      BY Numbers
    <2>2. l \in Lines(s)
      BY <1>4, <2>1, ElementOfSeq
    <2> QED BY <2>1, <2>2, LenProperties DEF Term, Paged
  <1>6. \/ u.sb = t.sb /\ u.temps = t.temps
        \/ t.savelines > 0 /\ Len(t.sb) = t.savelines /\ u.sb = Append(Tail(t.sb), l) /\ u.temps = t.temps
        \/ Len(t.sb) # t.savelines /\ u.sb = Append(t.sb, l) /\ u.temps = t.temps + 1
    BY <1>1, <1>4 DEF ScrollUp, Term, Shaped
  <1>7. u.sb \in Seq(Lines(s)) /\ Len(u.sb) <= t.savelines /\ u.temps \in 0 .. Len(u.sb)
    <2>1. CASE u.sb = t.sb /\ u.temps = t.temps
      BY <2>1, <1>5
    <2>2. CASE t.savelines > 0 /\ Len(t.sb) = t.savelines /\ u.sb = Append(Tail(t.sb), l) /\ u.temps = t.temps
      <3>1. t.sb # <<>>
        BY <2>2, <1>5, EmptySeq
      <3>2. u.sb \in Seq(Lines(s)) /\ Len(u.sb) = Len(t.sb)
        BY <3>1, <2>2, <1>5, Queued
      <3> QED BY <3>2, <2>2, <1>5
    <2>3. CASE Len(t.sb) # t.savelines /\ u.sb = Append(t.sb, l) /\ u.temps = t.temps + 1
      <3>1. u.sb \in Seq(Lines(s)) /\ Len(u.sb) = Len(t.sb) + 1
        BY <2>3, <1>5, Queued
      <3> QED BY <3>1, <2>3, <1>5
    <2> QED BY <1>6, <2>1, <2>2, <2>3
  <1>8. Term(u, s)
    BY <1>2, <1>3, <1>7, Rescreened
  <1> QED BY <1>1, <1>2, <1>8 DEF Rest

LEMMA ScrolledDown ==
    ASSUME NEW s \in Scenarios, NEW t, Term(t, s), NEW top \in 0 .. t.rows - 1, NEW bot \in 0 .. t.rows - 1
    PROVE  Term(ScrollDown(t, top, bot), s) /\ Kin(t, ScrollDown(t, top, bot))
  <1>1. PICK u : u = ScrollDown(t, top, bot)
    OBVIOUS
  <1>2. Shaped(u) /\ Rest(t, u) /\ u.sb = t.sb /\ u.temps = t.temps
    BY <1>1 DEF ScrollDown, Term, Shaped, Rest, Kin
  <1>3. u.screen \in Pages(s, t.rows)
    <2>1. u.screen = InsertAt(RemoveAt(t.screen, bot + 1), top + 1, BlankLine(t.cols))
      BY <1>1 DEF ScrollDown, Term, Shaped
    <2> QED BY <2>1, Turned
  <1>4. u.sb \in Seq(Lines(s)) /\ Len(u.sb) <= t.savelines /\ u.temps \in 0 .. Len(u.sb)
    BY <1>2 DEF Term, Paged
  <1>5. Term(u, s)
    BY <1>2, <1>3, <1>4, Rescreened
  <1> QED BY <1>1, <1>2, <1>5 DEF Rest

\* Scrolling n lines is scrolling one line n times.
LEMMA Turns ==
    ASSUME NEW t, NEW top, NEW bot, NEW n, NEW sb, NEW times \in Nat
    PROVE  \E g : IsRun(g, t, top, bot, n, sb, times)
  <1> DEFINE Is(g, m) == g = [i \in 0 .. m |-> IF i = 0 THEN t ELSE Turn(g[i - 1], top, bot, n, sb)]
  <1> DEFINE bad == {m \in Nat : ~\E g : Is(g, m)}
  <1>1. bad = {}
    <2> SUFFICES ASSUME bad # {} PROVE FALSE
      OBVIOUS
    <2>1. PICK m \in bad : \A k \in bad : m <= k
      BY LeastElement
    <2>2. CASE m = 0
      <3>1. Is([i \in 0 .. 0 |-> t], 0)
        OBVIOUS
      <3> QED BY <3>1, <2>1, <2>2
    <2>3. CASE m # 0
      <3>0. m \in Nat /\ m - 1 \in Nat /\ m - 1 \notin bad
        <4>1. m \in Nat
          BY <2>1
        <4> HIDE DEF bad
        <4>2. m - 1 \in Nat /\ ~(m <= m - 1)
          BY <4>1, <2>3
        <4> QED BY <4>1, <4>2, <2>1
      <3>1. PICK g : Is(g, m - 1)
        BY <3>0
      <3> DEFINE h == [i \in 0 .. m |-> IF i = m THEN Turn(g[m - 1], top, bot, n, sb) ELSE g[i]]
      <3> HIDE DEF h
      <3>2. \A i \in 0 .. m - 1 : h[i] = g[i]
        BY <2>1, <2>3 DEF h
      <3>3. \A i \in 0 .. m : h[i] = IF i = 0 THEN t ELSE Turn(h[i - 1], top, bot, n, sb)
        <4> SUFFICES ASSUME NEW i \in 0 .. m
                     PROVE  h[i] = IF i = 0 THEN t ELSE Turn(h[i - 1], top, bot, n, sb)
          OBVIOUS
        <4>1. CASE i = m
          BY <4>1, <3>2, <2>1, <2>3 DEF h
        <4>2. CASE i # m
          <5>1. i \in 0 .. m - 1 /\ (i # 0 => i - 1 \in 0 .. m - 1)
            BY <4>2, <2>1
          <5>2. g[i] = IF i = 0 THEN t ELSE Turn(g[i - 1], top, bot, n, sb)
            BY <5>1, <3>1
          <5> QED BY <5>1, <5>2, <3>2
        <4> QED BY <4>1, <4>2
      <3>4. Is(h, m)
        BY <3>3 DEF h
      <3> QED BY <3>4, <2>1
    <2> QED BY <2>2, <2>3
  <1>2. times \notin bad
    BY <1>1
  <1>3. \E g : Is(g, times)
    BY <1>2
  <1> QED BY <1>3 DEF IsRun

LEMMA ScrollDef ==
    ASSUME NEW t, NEW top, NEW bot, NEW n \in Int, NEW sb
    PROVE  \E times \in Nat : \E g :
               IsRun(g, t, top, bot, n, sb, times) /\ Scroll(t, top, bot, n, sb) = g[times]
  <1>1. PICK times \in Nat : times = IF n < 0 THEN -n ELSE n
    OBVIOUS
  <1> DEFINE after == CHOOSE g : IsRun(g, t, top, bot, n, sb, times)
  <1>2. IsRun(after, t, top, bot, n, sb, times)
    BY Turns
  <1>3. Scroll(t, top, bot, n, sb) = after[times]
    BY <1>1 DEF Scroll, Turn, IsRun
  <1> QED BY <1>2, <1>3

LEMMA TurnOnce ==
    ASSUME NEW s \in Scenarios, NEW t, Term(t, s), NEW top \in 0 .. t.rows - 1, NEW bot \in 0 .. t.rows - 1,
           NEW n, NEW sb
    PROVE  Term(Turn(t, top, bot, n, sb), s) /\ Kin(t, Turn(t, top, bot, n, sb))
  BY ScrolledUp, ScrolledDown DEF Turn

LEMMA Scrolled ==
    ASSUME NEW s \in Scenarios, NEW t, Term(t, s), NEW top \in 0 .. t.rows - 1, NEW bot \in 0 .. t.rows - 1,
           NEW n \in Int, NEW sb
    PROVE  Term(Scroll(t, top, bot, n, sb), s) /\ Kin(t, Scroll(t, top, bot, n, sb))
  <1>2. PICK times \in Nat : \E g :
            IsRun(g, t, top, bot, n, sb, times) /\ Scroll(t, top, bot, n, sb) = g[times]
    BY ScrollDef
  <1>1. PICK g : IsRun(g, t, top, bot, n, sb, times) /\ Scroll(t, top, bot, n, sb) = g[times]
    BY <1>2
  <1>3. g[0] = t /\ \A i \in 1 .. times : g[i] = Turn(g[i - 1], top, bot, n, sb)
    BY <1>1 DEF IsRun
  <1> DEFINE Good(r) == Term(r, s) /\ Kin(t, r)
             bad == {i \in 0 .. times : ~Good(g[i])}
  <1>4. \A r : Good(r) => Good(Turn(r, top, bot, n, sb))
    <2> SUFFICES ASSUME NEW r, Term(r, s), Kin(t, r)
                 PROVE  Term(Turn(r, top, bot, n, sb), s) /\ Kin(t, Turn(r, top, bot, n, sb))
      OBVIOUS
    <2>1. top \in 0 .. r.rows - 1 /\ bot \in 0 .. r.rows - 1
      BY DEF Kin
    <2>2. PICK v : v = Turn(r, top, bot, n, sb)
      OBVIOUS
    <2>3. Term(v, s) /\ Kin(r, v)
      BY <2>1, <2>2, TurnOnce
    <2>4. Kin(t, v)
      BY <2>3 DEF Kin
    <2> QED BY <2>2, <2>3, <2>4
  <1>5. Good(t)
    BY DEF Kin
  <1> HIDE DEF Good
  <1>6. bad = {}
    <2> SUFFICES ASSUME bad # {} PROVE FALSE
      OBVIOUS
    <2>0. bad \subseteq Nat
      OBVIOUS
    <2> HIDE DEF bad
    <2>1. PICK i \in bad : \A k \in bad : i <= k
      BY <2>0, LeastElement
    <2>2. i \in 0 .. times /\ ~Good(g[i])
      BY <2>1 DEF bad
    <2>3. i # 0
      BY <2>2, <1>3, <1>5
    <2>4. i \in 1 .. times /\ i - 1 \in 0 .. times
      BY <2>2, <2>3
    <2>5. Good(g[i - 1])
      <3>1. ~(i <= i - 1)
        BY <2>4
      <3>2. i - 1 \notin bad
        BY <2>1, <3>1
      <3> QED BY <2>4, <3>2 DEF bad
    <2> QED BY <2>2, <2>4, <2>5, <1>3, <1>4
  <1>7. Good(g[times])
    BY <1>6
  <1> QED BY <1>1, <1>7 DEF Good

\* Moving the cursor.
LEMMA Aimed ==
    ASSUME NEW s, NEW t, Term(t, s), NEW u, Shaped(u),
           u.rows = t.rows, u.cols = t.cols, u.savelines = t.savelines, u.which = t.which,
           u.screen = t.screen, u.alt = t.alt, u.sb = t.sb, u.temps = t.temps, u.altsb = t.altsb,
           u.other = t.other, u.save = t.save, u.tabs = t.tabs, u.sel = t.sel,
           OnScreen(t, u)
    PROVE  Term(u, s)
  <1>1. Sized(u, s) /\ Paged(u, s)
    BY DEF Term, Sized, Paged
  <1>2. Pointed(u)
    BY DEF Term, Pointed, OnScreen
  <1> QED BY <1>1, <1>2 DEF Term

LEMMA WentDown ==
    ASSUME NEW s \in Scenarios, NEW t, Term(t, s)
    PROVE  /\ Term(LineDown(t), s)
           /\ LineDown(t).rows = t.rows /\ LineDown(t).cols = t.cols /\ LineDown(t).x = t.x
  <1>0. /\ t.y \in 0 .. t.rows - 1 /\ t.mt \in 0 .. t.rows - 1 /\ t.mb \in 0 .. t.rows - 1
        /\ t.rows \in Nat /\ OnScreen(t, t)
    BY Numbers DEF Term, Pointed
  <1>1. PICK u : u = LineDown(t)
    OBVIOUS
  <1>2. CASE t.y = t.mb
    <2>1. PICK a, b : a = t.mt /\ b = t.mb
      OBVIOUS
    <2>2. u = Scroll(t, a, b, 1, TRUE)
      BY <1>1, <1>2, <2>1 DEF LineDown
    <2>3. a \in 0 .. t.rows - 1 /\ b \in 0 .. t.rows - 1 /\ 1 \in Int
      BY <1>0, <2>1
    <2>4. Term(Scroll(t, a, b, 1, TRUE), s) /\ Kin(t, Scroll(t, a, b, 1, TRUE))
      BY <2>3, Scrolled, Zenon
    <2> QED BY <1>1, <2>2, <2>4 DEF Kin
  <1>3. CASE t.y # t.mb /\ t.y < t.rows - 1
    <2>1. u = [t EXCEPT !.y = t.y + 1]
      BY <1>1, <1>3 DEF LineDown
    <2>2. /\ Shaped(u) /\ u.rows = t.rows /\ u.cols = t.cols /\ u.savelines = t.savelines
          /\ u.which = t.which /\ u.screen = t.screen /\ u.alt = t.alt /\ u.sb = t.sb
          /\ u.temps = t.temps /\ u.altsb = t.altsb
          /\ u.other = t.other /\ u.save = t.save /\ u.tabs = t.tabs /\ u.sel = t.sel
          /\ u.x = t.x /\ u.y = t.y + 1 /\ u.mt = t.mt /\ u.mb = t.mb
      BY <2>1 DEF Term, Shaped
    <2>3. OnScreen(t, u)
      BY <2>2, <1>0, <1>3 DEF OnScreen
    <2>4. Term(u, s)
      BY <2>2, <2>3, Aimed
    <2> QED BY <1>1, <2>2, <2>4
  <1>4. CASE t.y # t.mb /\ ~(t.y < t.rows - 1)
    BY <1>4 DEF LineDown
  <1> QED BY <1>2, <1>3, <1>4

-----------------------------------------------------------------------------
(* Printing                                                                  *)

LEMMA AtColumn ==
    ASSUME NEW s \in Scenarios, NEW t, Term(t, s), NEW x \in 0 .. t.cols - 1
    PROVE  /\ Term([t EXCEPT !.x = x], s)
           /\ [t EXCEPT !.x = x].rows = t.rows /\ [t EXCEPT !.x = x].cols = t.cols
           /\ [t EXCEPT !.x = x].x = x /\ [t EXCEPT !.x = x].y = t.y
  <1>1. PICK u : u = [t EXCEPT !.x = x]
    OBVIOUS
  <1>2. /\ Shaped(u) /\ u.rows = t.rows /\ u.cols = t.cols /\ u.savelines = t.savelines
        /\ u.which = t.which /\ u.screen = t.screen /\ u.alt = t.alt /\ u.sb = t.sb
        /\ u.temps = t.temps /\ u.altsb = t.altsb
        /\ u.other = t.other /\ u.save = t.save /\ u.tabs = t.tabs /\ u.sel = t.sel
        /\ u.x = x /\ u.y = t.y /\ u.mt = t.mt /\ u.mb = t.mb
    BY <1>1 DEF Term, Shaped
  <1>3. OnScreen(t, u)
    BY <1>2 DEF Term, Pointed, OnScreen
  <1>4. Term(u, s)
    BY <1>2, <1>3, Aimed
  <1> QED BY <1>1, <1>2, <1>4

LEMMA FillerPut ==
    ASSUME NEW s \in Scenarios, NEW t, Term(t, s)
    PROVE  Term(Filled(t), s) /\ Kin(t, Filled(t))
  <1>1. PICK y, l, n, u : y = t.y /\ l = LineAt(t, t.y) /\ n = t.cols /\ u = Filled(t)
    OBVIOUS
  <1>2. /\ y \in 0 .. t.rows - 1 /\ n \in Nat /\ n \in 1 .. n
        /\ l.c \in Texts(s) /\ Len(l.c) = n /\ l.c \in [1 .. n -> Alphabet(s)]
        /\ l \in Lines(s) /\ "blank" \in Alphabet(s)
    BY <1>1, Here
  <1>3. PICK a, c : a = l.c /\ c = [a EXCEPT ![n] = "blank"]
    OBVIOUS
  <1>4. a \in Texts(s) /\ Len(a) = n /\ Replaces(c, a, n, n, "blank", s)
    BY <1>2, <1>3 DEF Replaces
  <1>5. c \in Texts(s) /\ Len(c) = n
    BY <1>2, <1>4, Put
  <1>6. PICK v : v = [l EXCEPT !.c = c, !.w = {1, 2}]
    OBVIOUS
  <1>7. v \in Lines(s)
    BY <1>2, <1>5, <1>6 DEF Lines
  <1>8. u = WithLine(t, y, v)
    <2>1. [l EXCEPT !.c[t.cols] = "blank", !.w = {1, 2}] = v
      BY <1>1, <1>2, <1>3, <1>6 DEF Lines
    <2>2. u = WithLine(t, t.y, [l EXCEPT !.c[t.cols] = "blank", !.w = {1, 2}])
      BY <1>1 DEF Filled
    <2> QED BY <1>1, <2>1, <2>2
  <1>9. Term(u, s) /\ Kin(t, u)
    BY <1>2, <1>7, <1>8, Drawn
  <1> QED BY <1>1, <1>9

LEMMA WidePut ==
    ASSUME NEW s \in Scenarios, NEW t, Term(t, s), "W" \in s.glyphs
    PROVE  /\ Term(PutWide(t, "W"), s)
           /\ PutWide(t, "W").rows = t.rows /\ PutWide(t, "W").cols = t.cols
  <1>0. t.cols \in Nat /\ t.cols > 1 /\ t.x \in 0 .. t.cols - 1
    BY Scenario, Numbers DEF Term
  <1>1. PICK r : r = Room(t, 2)
    OBVIOUS
  <1>2. Term(r, s) /\ Kin(t, r) /\ Whole(r, t.y, t.x + 2)
    BY <1>1, Roomy
  <1>3. PICK u : u = IF t.x = t.cols - 1 THEN Room([LineDown(Filled(r)) EXCEPT !.x = 0], 2) ELSE r
    OBVIOUS
  <1>4. /\ Term(u, s) /\ u.rows = t.rows /\ u.cols = t.cols
        /\ u.x \in 0 .. u.cols - 2 /\ Whole(u, u.y, u.x + 2)
    <2>1. CASE t.x = t.cols - 1
      <3>1. PICK f : f = Filled(r)
        OBVIOUS
      <3>2. Term(f, s) /\ Kin(r, f)
        BY <1>2, <3>1, FillerPut
      <3>3. PICK d : d = LineDown(f)
        OBVIOUS
      <3>4. Term(d, s) /\ d.rows = f.rows /\ d.cols = f.cols
        BY <3>2, <3>3, WentDown
      <3>5. PICK e : e = [d EXCEPT !.x = 0]
        OBVIOUS
      <3>6. 0 \in 0 .. d.cols - 1
        BY <3>4, Numbers
      <3>7. Term(e, s) /\ e.rows = d.rows /\ e.cols = d.cols /\ e.x = 0
        BY <3>4, <3>5, <3>6, AtColumn
      <3>8. u = Room(e, 2)
        BY <1>3, <2>1, <3>1, <3>3, <3>5
      <3>9. Term(u, s) /\ Kin(e, u) /\ Whole(u, e.y, e.x + 2)
        BY <3>7, <3>8, Roomy
      <3>10. u.rows = t.rows /\ u.cols = t.cols
        BY <1>2, <3>2, <3>4, <3>7, <3>9 DEF Kin
      <3>11. u.x = 0 /\ u.y = e.y /\ e.x = 0
        BY <3>7, <3>9 DEF Kin
      <3> QED BY <1>0, <3>9, <3>10, <3>11
    <2>2. CASE t.x # t.cols - 1
      <3>1. u = r
        BY <1>3, <2>2
      <3>2. u.rows = t.rows /\ u.cols = t.cols /\ u.x = t.x /\ u.y = t.y
        BY <1>2, <3>1 DEF Kin
      <3> QED BY <1>0, <1>2, <2>2, <3>1, <3>2
    <2> QED BY <2>1, <2>2
  <1>5. PICK x, p : x = u.x /\ p = Cell(Cell(u, x, "W"), x + 1, "R")
    OBVIOUS
  <1>6. Term(p, s) /\ Kin(u, p)
    BY <1>4, <1>5, PairPut
  <1>7. x + 1 \in 0 .. p.cols - 1 /\ p.x = x
    BY <1>0, <1>4, <1>5, <1>6 DEF Kin
  <1>8. PICK q, z : q = [p EXCEPT !.x = z] /\ z = x + 1
    OBVIOUS
  <1>9. Term(q, s) /\ q.rows = p.rows /\ q.cols = p.cols
    BY <1>6, <1>7, <1>8, AtColumn
  <1>10. PutWide(t, "W") = q
    <2>1. PutWide(t, "W") = [p EXCEPT !.x = p.x + 1]
      BY <1>1, <1>3, <1>5 DEF PutWide
    <2> QED BY <2>1, <1>7, <1>8
  <1>11. q.rows = t.rows /\ q.cols = t.cols
    BY <1>4, <1>6, <1>9 DEF Kin
  <1> QED BY <1>9, <1>10, <1>11

LEMMA Wrapped ==
    ASSUME NEW s \in Scenarios, NEW t, Term(t, s)
    PROVE  /\ Term(WrapLine(t), s)
           /\ WrapLine(t).rows = t.rows /\ WrapLine(t).cols = t.cols
  <1>1. PICK y, l : y = t.y /\ l = LineAt(t, t.y)
    OBVIOUS
  <1>2. y \in 0 .. t.rows - 1 /\ l \in Lines(s)
    BY <1>1, Here
  <1>3. PICK v : v = [l EXCEPT !.w = l.w \cup {1}]
    OBVIOUS
  <1>4. v \in Lines(s)
    BY <1>2, <1>3 DEF Lines
  <1>5. PICK u : u = WithLine(t, y, v)
    OBVIOUS
  <1>6. Term(u, s) /\ Kin(t, u)
    BY <1>2, <1>4, <1>5, Drawn
  <1>7. PICK d : d = LineDown(u)
    OBVIOUS
  <1>8. Term(d, s) /\ d.rows = u.rows /\ d.cols = u.cols
    BY <1>6, <1>7, WentDown
  <1>9. PICK e : e = [d EXCEPT !.x = 0, !.wn = FALSE]
    OBVIOUS
  <1>10. WrapLine(t) = e
    BY <1>1, <1>3, <1>5, <1>7, <1>9 DEF WrapLine
  <1>11. /\ Shaped(e) /\ e.rows = d.rows /\ e.cols = d.cols /\ e.savelines = d.savelines
         /\ e.which = d.which /\ e.screen = d.screen /\ e.alt = d.alt /\ e.sb = d.sb
         /\ e.temps = d.temps /\ e.altsb = d.altsb
         /\ e.other = d.other /\ e.save = d.save /\ e.tabs = d.tabs /\ e.sel = d.sel
         /\ e.x = 0 /\ e.y = d.y /\ e.mt = d.mt /\ e.mb = d.mb
    BY <1>8, <1>9 DEF Term, Shaped
  <1>12. OnScreen(d, e)
    BY <1>8, <1>11, Numbers DEF OnScreen
  <1>13. Term(e, s)
    BY <1>8, <1>11, <1>12, Aimed
  <1> QED BY <1>6, <1>8, <1>10, <1>11, <1>13 DEF Kin

-----------------------------------------------------------------------------
(* Cells moved and erased                                                    *)

\* Blanks at some places; no right half is left just behind them, if the
\* operations that do leave one are out.
LEMMA Erasure ==
    ASSUME NEW s, NEW n \in Nat, NEW c \in Texts(s), Len(c) = n, NEW E,
           "before" \in s.groups \/ \A j \in 1 .. n : c[j] = "R" /\ j \notin E => j - 1 \notin E,
           NEW b, Blotted(b, c, n, E, s)
    PROVE  b \in Texts(s) /\ Len(b) = n
  <1>0. /\ b \in [1 .. n -> Alphabet(s)]
        /\ \A j \in 1 .. n : b[j] = IF j \in E THEN "blank" ELSE c[j]
    BY DEF Blotted
  <1>1. \A j \in 1 .. n :
                  /\ c[j] \in Alphabet(s)
                  /\ c[j] = "R" => j > 1 /\ c[j - 1] # "R" /\ ("before" \in s.groups \/ c[j - 1] = "W")
    BY TextIs
  <1>2. ASSUME NEW j \in 1 .. n, b[j] = "R"
        PROVE  j > 1 /\ b[j - 1] # "R" /\ ("before" \in s.groups \/ b[j - 1] = "W")
    <2>1. j \notin E /\ c[j] = "R"
      BY <1>0, <1>2
    <2>2. j > 1 /\ c[j - 1] # "R" /\ ("before" \in s.groups \/ c[j - 1] = "W")
      BY <2>1, <1>1
    <2>3. j - 1 \in 1 .. n
      BY <2>2
    <2>4. CASE j - 1 \in E
      <3>1. b[j - 1] = "blank"
        BY <1>0, <2>3, <2>4
      <3>2. "before" \in s.groups
        BY <2>1, <2>4
      <3> QED BY <2>2, <3>1, <3>2
    <2>5. CASE j - 1 \notin E
      BY <1>0, <2>2, <2>3, <2>5
    <2> QED BY <2>4, <2>5
  <1>3. \A j \in 1 .. n :
            b[j] = "R" => j > 1 /\ b[j - 1] # "R" /\ ("before" \in s.groups \/ b[j - 1] = "W")
    BY <1>2
  <1> QED BY <1>0, <1>3, TextMade

\* Cells inserted or removed, from a place where no right half is.
LEMMA ShiftedRight ==
    ASSUME NEW s, NEW n \in Nat, NEW c \in Texts(s), Len(c) = n, NEW x \in 0 .. n, NEW m \in Nat,
           x < n => c[x + 1] # "R",
           NEW b, Opens(b, c, n, x, m, s)
    PROVE  b \in Texts(s) /\ Len(b) = n
  <1>0. /\ b \in [1 .. n -> Alphabet(s)]
        /\ \A j \in 1 .. n : b[j] = IF j <= x THEN c[j] ELSE IF j <= x + m THEN "blank" ELSE c[j - m]
    BY DEF Opens
  <1>1. \A j \in 1 .. n :
                  /\ c[j] \in Alphabet(s)
                  /\ c[j] = "R" => j > 1 /\ c[j - 1] # "R" /\ ("before" \in s.groups \/ c[j - 1] = "W")
    BY TextIs
  <1>2. ASSUME NEW j \in 1 .. n, b[j] = "R"
        PROVE  j > 1 /\ b[j - 1] # "R" /\ ("before" \in s.groups \/ b[j - 1] = "W")
    <2>1. CASE j <= x
      <3>1. c[j] = "R"
        BY <1>0, <1>2, <2>1
      <3>2. j > 1 /\ c[j - 1] # "R" /\ ("before" \in s.groups \/ c[j - 1] = "W")
        BY <3>1, <1>1
      <3>3. j - 1 \in 1 .. n /\ j - 1 <= x
        BY <2>1, <3>2
      <3>4. b[j - 1] = c[j - 1]
        BY <1>0, <3>3
      <3> QED BY <3>2, <3>4
    <2>2. CASE x < j /\ j <= x + m
      BY <1>0, <1>2, <2>2
    <2>3. CASE x + m < j
      <3>0. ~(j <= x) /\ ~(j <= x + m) /\ j - m \in 1 .. n
        BY <2>3
      <3>1. b[j] = c[j - m]
        BY <1>0, <3>0
      <3>2. PICK k : k = j - m
        OBVIOUS
      <3>3. k \in 1 .. n /\ c[k] = "R"
        BY <1>2, <3>0, <3>1, <3>2
      <3>4. k > 1 /\ c[k - 1] # "R" /\ ("before" \in s.groups \/ c[k - 1] = "W")
        BY <3>3, <1>1
      <3>5. k # x + 1
        <4> SUFFICES ASSUME k = x + 1 PROVE FALSE
          OBVIOUS
        <4>1. x < n
          BY <3>3
        <4> QED BY <4>1, <3>3
      <3>6. j - 1 \in 1 .. n /\ ~(j - 1 <= x) /\ ~(j - 1 <= x + m) /\ (j - 1) - m = k - 1
        BY <2>3, <3>2, <3>4, <3>5
      <3>7. b[j - 1] = c[k - 1]
        BY <1>0, <3>6
      <3> QED BY <3>4, <3>6, <3>7
    <2> QED BY <2>1, <2>2, <2>3
  <1>3. \A j \in 1 .. n :
            b[j] = "R" => j > 1 /\ b[j - 1] # "R" /\ ("before" \in s.groups \/ b[j - 1] = "W")
    BY <1>2
  <1> QED BY <1>0, <1>3, TextMade

LEMMA ShiftedLeft ==
    ASSUME NEW s, NEW n \in Nat, NEW c \in Texts(s), Len(c) = n, NEW x \in 0 .. n, NEW m \in Nat,
           x + m < n => c[x + m + 1] # "R",
           NEW b, Closes(b, c, n, x, m, s)
    PROVE  b \in Texts(s) /\ Len(b) = n
  <1>0. /\ b \in [1 .. n -> Alphabet(s)]
        /\ \A j \in 1 .. n : b[j] = IF j <= x THEN c[j] ELSE IF j + m <= n THEN c[j + m] ELSE "blank"
    BY DEF Closes
  <1>1. \A j \in 1 .. n :
                  /\ c[j] \in Alphabet(s)
                  /\ c[j] = "R" => j > 1 /\ c[j - 1] # "R" /\ ("before" \in s.groups \/ c[j - 1] = "W")
    BY TextIs
  <1>2. ASSUME NEW j \in 1 .. n, b[j] = "R"
        PROVE  j > 1 /\ b[j - 1] # "R" /\ ("before" \in s.groups \/ b[j - 1] = "W")
    <2>1. CASE j <= x
      <3>1. c[j] = "R"
        BY <1>0, <1>2, <2>1
      <3>2. j > 1 /\ c[j - 1] # "R" /\ ("before" \in s.groups \/ c[j - 1] = "W")
        BY <3>1, <1>1
      <3>3. j - 1 \in 1 .. n /\ j - 1 <= x
        BY <2>1, <3>2
      <3>4. b[j - 1] = c[j - 1]
        BY <1>0, <3>3
      <3> QED BY <3>2, <3>4
    <2>2. CASE x < j /\ n < j + m
      <3>1. ~(j <= x) /\ ~(j + m <= n)
        BY <2>2
      <3> QED BY <1>0, <1>2, <3>1
    <2>3. CASE x < j /\ j + m <= n
      <3>0. ~(j <= x) /\ j + m \in 1 .. n
        BY <2>3
      <3>1. b[j] = c[j + m]
        BY <1>0, <3>0, <2>3
      <3>2. PICK k : k = j + m
        OBVIOUS
      <3>3. k \in 1 .. n /\ c[k] = "R"
        BY <1>2, <3>0, <3>1, <3>2
      <3>4. k > 1 /\ c[k - 1] # "R" /\ ("before" \in s.groups \/ c[k - 1] = "W")
        BY <3>3, <1>1
      <3>5. j # x + 1
        <4> SUFFICES ASSUME j = x + 1 PROVE FALSE
          OBVIOUS
        <4>1. x + m < n /\ k = x + m + 1
          BY <3>0, <3>2
        <4> QED BY <4>1, <3>3
      <3>6. j - 1 \in 1 .. n /\ ~(j - 1 <= x) /\ (j - 1) + m <= n /\ (j - 1) + m = k - 1
        BY <2>3, <3>2, <3>4, <3>5
      <3>7. b[j - 1] = c[k - 1]
        BY <1>0, <3>6
      <3> QED BY <3>4, <3>6, <3>7
    <2> QED BY <2>1, <2>2, <2>3
  <1>3. \A j \in 1 .. n :
            b[j] = "R" => j > 1 /\ b[j - 1] # "R" /\ ("before" \in s.groups \/ b[j - 1] = "W")
    BY <1>2
  <1> QED BY <1>0, <1>3, TextMade

LEMMA CellsShifted ==
    ASSUME NEW s \in Scenarios, NEW t, Term(t, s), NEW m \in Nat, NEW n \in Int,
           IF n < 0 THEN Whole(t, t.y, t.x + m) ELSE Whole(t, t.y, t.x)
    PROVE  Term(Shifted(t, m, n), s) /\ Kin(t, Shifted(t, m, n))
  <1>1. PICK y, l, k, x, c : y = t.y /\ l = LineAt(t, t.y) /\ k = t.cols /\ x = t.x /\ c = l.c
    OBVIOUS
  <1>2. /\ y \in 0 .. t.rows - 1 /\ k \in Nat /\ x \in 0 .. k /\ x < k
        /\ c \in Texts(s) /\ Len(c) = k /\ c \in [1 .. k -> Alphabet(s)] /\ "blank" \in Alphabet(s)
    BY <1>1, Here
  <1>3. PICK b : b = [i \in 1 .. k |->
                        IF i <= x THEN c[i]
                        ELSE IF n < 0 THEN IF i + m <= k THEN c[i + m] ELSE "blank"
                        ELSE IF i <= x + m THEN "blank" ELSE c[i - m]]
    OBVIOUS
  <1>4. b \in Texts(s) /\ Len(b) = k
    <2>1. CASE n < 0
      <3>1. Closes(b, c, k, x, m, s)
        <4>1. \A i \in 1 .. k : i + m <= k => c[i + m] \in Alphabet(s)
          BY <1>2
        <4>2. b = [i \in 1 .. k |-> IF i <= x THEN c[i] ELSE IF i + m <= k THEN c[i + m] ELSE "blank"]
          BY <1>3, <2>1
        <4> QED BY <1>2, <4>1, <4>2 DEF Closes
      <3>2. x + m < k => c[x + m + 1] # "R"
        BY <1>1, <1>2, <2>1 DEF Whole
      <3> QED BY <1>2, <3>1, <3>2, ShiftedLeft
    <2>2. CASE ~(n < 0)
      <3>1. Opens(b, c, k, x, m, s)
        <4>1. \A i \in 1 .. k : ~(i <= x + m) => c[i - m] \in Alphabet(s)
          BY <1>2
        <4>2. b = [i \in 1 .. k |-> IF i <= x THEN c[i] ELSE IF i <= x + m THEN "blank" ELSE c[i - m]]
          BY <1>3, <2>2
        <4> QED BY <1>2, <4>1, <4>2 DEF Opens
      <3>2. x < k => c[x + 1] # "R"
        BY <1>1, <1>2, <2>2 DEF Whole
      <3> QED BY <1>2, <3>1, <3>2, ShiftedRight
    <2> QED BY <2>1, <2>2
  <1>5. PICK u : u = Shifted(t, m, n)
    OBVIOUS
  <1>6. u = WithLine(t, y, [LineAt(t, y) EXCEPT !.c = b])
    BY <1>1, <1>3, <1>5 DEF Shifted
  <1>7. Term(u, s) /\ Kin(t, u)
    BY <1>1, <1>2, <1>4, <1>6, Rewritten
  <1> QED BY <1>5, <1>7

LEMMA CellsInserted ==
    ASSUME NEW s \in Scenarios, NEW t, Term(t, s), NEW n \in Int
    PROVE  Term(InsertCells(t, n), s) /\ Kin(t, InsertCells(t, n))
  <1>1. PICK x, y, m : x = t.x /\ y = t.y /\ m = Least(IF n < 0 THEN -n ELSE n, t.cols - t.x)
    OBVIOUS
  <1>2. y \in 0 .. t.rows - 1 /\ x \in Nat /\ m \in Nat
    BY <1>1, Here DEF Least
  <1>3. PICK a : a = CheckSelection(t, Cursor(t), At(t.x + m, t.y))
    OBVIOUS
  <1>4. Term(a, s) /\ Kin(t, a)
    BY <1>3, SelectionChecked DEF Alike
  <1>5. PICK b : b = CheckBoundary(a, x, y)
    OBVIOUS
  <1>6. y \in 0 .. a.rows - 1
    BY <1>2, <1>4 DEF Kin
  <1>7. Term(b, s) /\ Kin(a, b) /\ Whole(b, y, x)
    BY <1>2, <1>4, <1>5, <1>6, Bounded
  <1>8. PICK z, e : z = x + m /\ e = IF n < 0 THEN CheckBoundary(b, z, y) ELSE b
    OBVIOUS
  <1>9. Term(e, s) /\ Kin(b, e) /\ IF n < 0 THEN Whole(e, y, z) ELSE Whole(e, y, x)
    <2>1. CASE n < 0
      <3>1. z \in Nat /\ y \in 0 .. b.rows - 1 /\ e = CheckBoundary(b, z, y)
        BY <1>2, <1>6, <1>7, <1>8, <2>1 DEF Kin
      <3>2. Term(e, s) /\ Kin(b, e) /\ Whole(e, y, z)
        BY <1>7, <3>1, Bounded
      <3> QED BY <2>1, <3>2
    <2>2. CASE ~(n < 0)
      BY <1>7, <1>8, <2>2 DEF Kin
    <2> QED BY <2>1, <2>2
  <1>10. e.x = x /\ e.y = y /\ Kin(t, e)
    BY <1>1, <1>4, <1>7, <1>9 DEF Kin
  <1>11. PICK u : u = Shifted(e, m, n)
    OBVIOUS
  <1>12. Term(u, s) /\ Kin(e, u)
    <2>1. IF n < 0 THEN Whole(e, e.y, e.x + m) ELSE Whole(e, e.y, e.x)
      BY <1>8, <1>9, <1>10
    <2> QED BY <1>2, <1>9, <1>11, <2>1, CellsShifted
  <1>13. InsertCells(t, n) = u
    <2>1. InsertCells(t, n) = Shifted(IF n < 0 THEN CheckBoundary(b, t.x + m, t.y) ELSE b, m, n)
      BY <1>1, <1>3, <1>5 DEF InsertCells
    <2> QED BY <1>1, <1>8, <1>11, <2>1
  <1> QED BY <1>10, <1>12, <1>13 DEF Kin

LEMMA CellsBlanked ==
    ASSUME NEW s \in Scenarios, NEW t, Term(t, s), NEW m \in Nat, Whole(t, t.y, t.x + m)
    PROVE  Term(Blanked(t, m), s) /\ Kin(t, Blanked(t, m))
  <1>1. PICK y, l, k, x, c : y = t.y /\ l = LineAt(t, t.y) /\ k = t.cols /\ x = t.x /\ c = l.c
    OBVIOUS
  <1>2. /\ y \in 0 .. t.rows - 1 /\ k \in Nat /\ x \in 0 .. k /\ x < k /\ l \in Lines(s)
        /\ c \in Texts(s) /\ Len(c) = k /\ c \in [1 .. k -> Alphabet(s)] /\ "blank" \in Alphabet(s)
    BY <1>1, Here
  <1>3. PICK E : E = x + 1 .. x + m
    OBVIOUS
  <1>4. PICK b : b = [i \in 1 .. k |-> IF i \in E THEN "blank" ELSE c[i]]
    OBVIOUS
  <1>5. b \in Texts(s) /\ Len(b) = k
    <2>1. Blotted(b, c, k, E, s)
      BY <1>2, <1>4 DEF Blotted
    <2>2. ASSUME NEW j \in 1 .. k, c[j] = "R", j \notin E PROVE j - 1 \notin E
      <3>1. x + m < k => c[(x + m) + 1] # "R"
        BY <1>1 DEF Whole
      <3> SUFFICES ASSUME j - 1 \in E PROVE FALSE
        OBVIOUS
      <3>2. x + m < k /\ j = (x + m) + 1
        BY <1>2, <1>3, <2>2
      <3> QED BY <2>2, <3>1, <3>2
    <2>3. \A j \in 1 .. k : c[j] = "R" /\ j \notin E => j - 1 \notin E
      BY <2>2
    <2> QED BY <1>2, <2>1, <2>3, Erasure
  <1>6. PICK u : u = Blanked(t, m)
    OBVIOUS
  <1>7. u = WithLine(t, y, [LineAt(t, y) EXCEPT !.c = b])
    <2>1. u = WithLine(t, y, [l EXCEPT !.c =
                  [i \in 1 .. k |-> IF i > x /\ i <= x + m THEN "blank" ELSE l.c[i]]])
      BY <1>1, <1>2, <1>6 DEF Blanked, Lines
    <2>2. b = [i \in 1 .. k |-> IF i > x /\ i <= x + m THEN "blank" ELSE l.c[i]]
      <3>1. \A i \in 1 .. k : i \in E <=> i > x /\ i <= x + m
        BY <1>2, <1>3
      <3> QED BY <1>1, <1>4, <3>1
    <2> QED BY <1>1, <2>1, <2>2
  <1>8. Term(u, s) /\ Kin(t, u)
    BY <1>1, <1>2, <1>5, <1>7, Rewritten
  <1> QED BY <1>6, <1>8

LEMMA CharsErased ==
    ASSUME NEW s \in Scenarios, NEW t, Term(t, s), NEW n \in Nat
    PROVE  Term(EraseChars(t, n), s) /\ Kin(t, EraseChars(t, n))
  <1>1. PICK m : m = Least(n, t.cols - t.x)
    OBVIOUS
  <1>2. m \in Nat
    BY <1>1, Here DEF Least
  <1>3. PICK a : a = Room(t, m)
    OBVIOUS
  <1>4. Term(a, s) /\ Kin(t, a) /\ Whole(a, t.y, t.x + m)
    BY <1>2, <1>3, Roomy
  <1>5. PICK e : e = CheckSelection(a, Cursor(t), At(t.x + m, t.y))
    OBVIOUS
  <1>6. Term(e, s) /\ Alike(a, e)
    BY <1>4, <1>5, SelectionChecked
  <1>7. Whole(e, t.y, t.x + m)
    <2>1. PICK y, x : y = t.y /\ x = t.x + m
      OBVIOUS
    <2>2. y \in Nat
      BY <2>1, Here
    <2> QED BY <1>4, <1>6, <2>1, <2>2, StillWhole
  <1>8. Kin(t, e) /\ e.y = t.y /\ e.x = t.x
    BY <1>4, <1>6 DEF Kin, Alike
  <1>9. PICK u : u = Blanked(e, m)
    OBVIOUS
  <1>10. Term(u, s) /\ Kin(e, u)
    BY <1>2, <1>6, <1>7, <1>8, <1>9, CellsBlanked
  <1>11. EraseChars(t, n) = u
    BY <1>1, <1>3, <1>5, <1>9 DEF EraseChars, Room
  <1> QED BY <1>8, <1>10, <1>11 DEF Kin

\* The character before the cursor may be half of a wide one.
LEMMA Deleted ==
    ASSUME NEW s \in Scenarios, NEW t, Term(t, s), "before" \in s.groups
    PROVE  Term(Delete(t), s) /\ Delete(t).rows = t.rows /\ Delete(t).cols = t.cols
  <1>1. PICK x : x = IF t.x > 0 /\ ~t.wn THEN t.x - 1 ELSE t.x
    OBVIOUS
  <1>2. PICK y, l, k, c : y = t.y /\ l = LineAt(t, t.y) /\ k = t.cols /\ c = l.c
    OBVIOUS
  <1>3. /\ y \in 0 .. t.rows - 1 /\ k \in Nat /\ x \in 0 .. k - 1 /\ l \in Lines(s)
        /\ c \in Texts(s) /\ Len(c) = k /\ c \in [1 .. k -> Alphabet(s)] /\ "blank" \in Alphabet(s)
    BY <1>1, <1>2, Here
  <1>4. PICK b, E : b = [c EXCEPT ![x + 1] = "blank"] /\ E = {x + 1}
    OBVIOUS
  <1>5. b \in Texts(s) /\ Len(b) = k
    <2>1. Blotted(b, c, k, E, s)
      BY <1>3, <1>4 DEF Blotted
    <2> QED BY <1>3, <2>1, Erasure
  <1>6. PICK v : v = [t EXCEPT !.x = x, !.wn = FALSE]
    OBVIOUS
  <1>7. Term(v, s) /\ v.rows = t.rows /\ v.cols = t.cols /\ LineAt(v, y) = LineAt(t, y)
    <2>1. /\ Shaped(v) /\ v.rows = t.rows /\ v.cols = t.cols /\ v.savelines = t.savelines
          /\ v.which = t.which /\ v.screen = t.screen /\ v.alt = t.alt /\ v.sb = t.sb
          /\ v.temps = t.temps /\ v.altsb = t.altsb
          /\ v.other = t.other /\ v.save = t.save /\ v.tabs = t.tabs /\ v.sel = t.sel
          /\ v.x = x /\ v.y = t.y /\ v.mt = t.mt /\ v.mb = t.mb
      BY <1>6 DEF Term, Shaped
    <2>2. OnScreen(t, v)
      BY <1>2, <1>3, <2>1 DEF OnScreen, Term, Pointed
    <2>3. Term(v, s)
      BY <2>1, <2>2, Aimed
    <2> QED BY <1>3, <2>1, <2>3 DEF LineAt, Stored
  <1>8. PICK u : u = Delete(t)
    OBVIOUS
  <1>9. u = WithLine(v, y, [LineAt(v, y) EXCEPT !.c = b])
    <2>1. [l EXCEPT !.c[x + 1] = "blank"] = [l EXCEPT !.c = b]
      BY <1>2, <1>3, <1>4 DEF Lines
    <2>2. u = WithLine(v, t.y, [l EXCEPT !.c[x + 1] = "blank"])
      BY <1>1, <1>2, <1>6, <1>8 DEF Delete
    <2> QED BY <1>2, <1>7, <2>1, <2>2
  <1>10. Term(u, s) /\ Kin(v, u)
    BY <1>2, <1>3, <1>5, <1>7, <1>9, Rewritten
  <1> QED BY <1>7, <1>8, <1>10 DEF Kin

\* A line with some of its cells erased.
LEMMA LineErased ==
    ASSUME NEW s, NEW n \in Nat, NEW l \in Lines(s), Len(l.c) = n, NEW E, Clean(E, n, s),
           NEW a, Blotted(a, l.c, n, E, s), NEW w \in SUBSET {1, 2}, NEW d \in BOOLEAN, d => l.d
    PROVE  [c |-> a, w |-> w, d |-> d] \in Lines(s)
  <1>1. PICK c : c = l.c
    OBVIOUS
  <1>2. c \in Texts(s) /\ Len(c) = n /\ (d => "cells" \in s.groups)
    BY <1>1, LineIs
  <1>3. a \in Texts(s)
    BY <1>1, <1>2, Erasure DEF Clean
  <1> QED BY <1>2, <1>3, LineMade

\* Up to the end of the screen or of a line, or where right halves may be
\* left alone.
LEMMA CellsErased ==
    ASSUME NEW s \in Scenarios, NEW t, Term(t, s), NEW from, from.x \in Int, from.y \in Int,
           NEW to, to.x \in Int, to.y \in Int, "before" \in s.groups \/ to.x = 0, NEW lattr \in BOOLEAN
    PROVE  Term(EraseCells(t, from, to, lattr), s) /\ Kin(t, EraseCells(t, from, to, lattr))
  <1> DEFINE In(x, y) == ~Before(At(x, y), from) /\ Before(At(x, y), to)
             Erased(y, l) == [c |-> [i \in 1 .. t.cols |-> IF In(i - 1, y) THEN "blank" ELSE l.c[i]],
                              w |-> IF In(t.cols, y) THEN {} ELSE l.w,
                              d |-> l.d /\ ~(lattr /\ In(t.cols, y))]
             p == [i \in 1 .. t.rows |->
                      IF i - 1 < from.y \/ i - 1 > to.y THEN t.screen[i]
                      ELSE Erased(i - 1, Resized(t.screen[i], t.cols))]
  <1>1. t.rows \in Nat /\ t.cols \in Nat /\ t.screen \in Seq(Lines(s)) /\ Len(t.screen) = t.rows
    BY Numbers
  <1>2. EraseCells(t, from, to, lattr) = [t EXCEPT !.screen = p]
    BY <1>1 DEF EraseCells, Term, Shaped
  <1>3. ASSUME NEW y \in Int, NEW l \in Lines(s), Len(l.c) = t.cols
        PROVE  Erased(y, l) \in Lines(s)
    <2>1. PICK n, b, w, E : n = t.cols /\ b = (lattr /\ In(t.cols, y))
                            /\ w = (IF In(t.cols, y) THEN {} ELSE l.w)
                            /\ E = {j \in 1 .. n : In(j - 1, y)}
      OBVIOUS
    <2>3. w \in SUBSET {1, 2}
      BY <1>3, <2>1, LineIs
    <2>4. Clean(E, n, s)
      <3> SUFFICES ASSUME to.x = 0, NEW j \in 1 .. n, j \notin E, j - 1 \in E PROVE FALSE
        BY DEF Clean
      <3>1. In(j - 2, y) /\ j - 1 \in 1 .. n /\ n \in Nat
        BY <1>1, <2>1
      <3>2. In(j - 1, y)
        BY <3>1 DEF Before, At
      <3> QED BY <2>1, <3>2
    <2>5. PICK a : a = [i \in 1 .. t.cols |-> IF In(i - 1, y) THEN "blank" ELSE l.c[i]]
      OBVIOUS
    <2>6. n \in Nat /\ Len(l.c) = n /\ l \in Lines(s)
      BY <1>1, <1>3, <2>1
    <2>7. Blotted(a, l.c, n, E, s)
      <3>1. \A i \in 1 .. n : l.c[i] \in Alphabet(s) /\ "blank" \in Alphabet(s)
        BY <2>6, LineIs, TextIs DEF Alphabet
      <3>2. \A i \in 1 .. n : i \in E <=> In(i - 1, y)
        BY <2>1
      <3> HIDE DEF In
      <3> QED BY <2>1, <2>5, <3>1, <3>2 DEF Blotted
    <2>8. PICK d \in BOOLEAN : d = (l.d /\ ~b)
      OBVIOUS
    <2>9. d => l.d
      BY <2>8
    <2>10. [c |-> a, w |-> w, d |-> d] \in Lines(s)
      BY <2>3, <2>4, <2>6, <2>7, <2>9, LineErased
    <2> HIDE DEF In
    <2> QED BY <2>1, <2>5, <2>8, <2>10
  <1>4. p \in Pages(s, t.rows)
    <2>1. ASSUME NEW i \in 1 .. t.rows PROVE p[i] \in Lines(s)
      <3>1. t.screen[i] \in Lines(s)
        BY <1>1, ElementOfSeq
      <3>2. PICK l : l = Resized(t.screen[i], t.cols)
        OBVIOUS
      <3>3. l \in Lines(s) /\ Len(l.c) = t.cols
        BY <1>1, <3>1, <3>2, Refitted
      <3> HIDE DEF Erased
      <3>4. Erased(i - 1, l) \in Lines(s)
        BY <1>1, <3>3, <1>3
      <3> QED BY <3>1, <3>2, <3>4
    <2>2. p \in [1 .. t.rows -> Lines(s)]
      <3> HIDE DEF Erased
      <3>1. DOMAIN p = 1 .. t.rows /\ p = [i \in 1 .. t.rows |-> p[i]]
        OBVIOUS
      <3> HIDE DEF p
      <3> QED BY <2>1, <3>1
    <2> HIDE DEF p
    <2> QED BY <1>1, <2>2, Made DEF Pages
  <1> HIDE DEF p
  <1>5. Term([t EXCEPT !.screen = p], s) /\ Kin(t, [t EXCEPT !.screen = p])
    BY <1>4, Redrawn
  <1> QED BY <1>2, <1>5

LEMMA LastUsedIs ==
    ASSUME NEW n \in Nat, NEW p, DOMAIN p = 1 .. n
    PROVE  LastUsed(p) \in 0 .. n
  <1> DEFINE Used(i) == \E j \in DOMAIN p[i].c : p[i].c[j] # "blank"
             used == {i \in DOMAIN p : Used(i)}
  <1>1. LastUsed(p) = IF used = {} THEN 0 ELSE CHOOSE i \in used : \A k \in used : k <= i
    BY DEF LastUsed
  <1>2. used \subseteq 1 .. n
    OBVIOUS
  <1> HIDE DEF used
  <1>3. CASE used # {}
    <2> DEFINE T == {n - i : i \in used}
    <2>1. T \subseteq Nat /\ T # {}
      BY <1>2, <1>3
    <2>2. PICK m \in T : \A k \in T : m <= k
      <3> HIDE DEF T
      <3> QED BY <2>1, LeastElement
    <2>3. PICK i \in used : m = n - i
      BY <2>2
    <2>4. \A k \in used : k <= i
      <3> SUFFICES ASSUME NEW k \in used PROVE k <= i
        OBVIOUS
      <3>1. n - k \in T
        OBVIOUS
      <3>2. m <= n - k
        BY <2>2, <3>1
      <3> QED BY <1>2, <2>3, <3>2
    <2>5. PICK r : r = CHOOSE e \in used : \A k \in used : k <= e
      OBVIOUS
    <2>6. r \in used
      BY <2>3, <2>4, <2>5
    <2>7. LastUsed(p) = r
      BY <1>1, <1>3, <2>5
    <2>8. r \in 0 .. n
      <3> HIDE DEF T
      <3>1. r \in 1 .. n
        BY <1>2, <2>6
      <3> QED BY <3>1
    <2> QED BY <2>7, <2>8
  <1> QED BY <1>1, <1>3

LEMMA PageIs ==
    ASSUME NEW s, NEW n \in Nat, NEW p \in Pages(s, n)
    PROVE  p \in Seq(Lines(s)) /\ Len(p) = n /\ DOMAIN p = 1 .. n /\ LastUsed(p) \in 0 .. n
  <1>1. p \in Seq(Lines(s)) /\ Len(p) = n
    BY DEF Pages
  <1>2. DOMAIN p = 1 .. n
    BY <1>1, LenProperties
  <1> QED BY <1>1, <1>2, LastUsedIs

LEMMA Forgotten ==
    ASSUME NEW s, NEW t, Term(t, s)
    PROVE  Term([t EXCEPT !.temps = 0], s) /\ Kin(t, [t EXCEPT !.temps = 0])
  <1>1. PICK u : u = [t EXCEPT !.temps = 0]
    OBVIOUS
  <1>2. Shaped(u) /\ Rest(t, u) /\ u.sb = t.sb /\ u.temps = 0 /\ u.screen = t.screen
    BY <1>1 DEF Term, Shaped, Rest, Kin
  <1>3. /\ u.screen \in Pages(s, t.rows) /\ u.sb \in Seq(Lines(s)) /\ Len(u.sb) <= t.savelines
        /\ u.temps \in 0 .. Len(u.sb)
    BY <1>2, LenProperties DEF Term, Paged
  <1>4. Term(u, s)
    BY <1>2, <1>3, Rescreened
  <1> QED BY <1>1, <1>2, <1>4 DEF Rest

LEMMA EmptiedIs ==
    ASSUME NEW s \in Scenarios, NEW t, Term(t, s), NEW from, from.x \in Int, from.y \in Int,
           NEW to, to.x \in Int, to.y \in Int, "before" \in s.groups \/ to.x = 0,
           NEW lineOnly \in BOOLEAN, to.x = 0 /\ ~lineOnly => to.y = t.rows
    PROVE  Term(Emptied(t, from, to, lineOnly), s) /\ Kin(t, Emptied(t, from, to, lineOnly))
  <1>0. t.rows \in Nat /\ Kin(t, t) /\ t.screen \in Pages(s, t.rows)
    BY Numbers DEF Kin, Term, Paged
  <1>1. PICK top, n : /\ top = (from = None /\ to.x = 0 /\ ~lineOnly)
                      /\ n = IF to.y = t.rows THEN LastUsed(t.screen) ELSE to.y
    OBVIOUS
  <1>2. PICK t1 : t1 = IF t.cfg.ets /\ top
                       THEN IF n > 0 THEN Scroll(t, 0, n - 1, n, TRUE) ELSE t
                       ELSE EraseCells(t, from, to, ~lineOnly)
    OBVIOUS
  <1>3. Term(t1, s) /\ Kin(t, t1)
    <2>1. CASE t.cfg.ets /\ top
      <3>1. n = LastUsed(t.screen)
        BY <1>1, <2>1
      <3>2. n \in 0 .. t.rows
        BY <1>0, <3>1, PageIs
      <3>3. CASE n > 0
        <4>1. PICK bot : bot = n - 1
          OBVIOUS
        <4>2. bot \in 0 .. t.rows - 1 /\ 0 \in 0 .. t.rows - 1 /\ n \in Int
          BY <1>0, <3>2, <3>3, <4>1
        <4>3. Term(Scroll(t, 0, bot, n, TRUE), s) /\ Kin(t, Scroll(t, 0, bot, n, TRUE))
          BY <4>2, Scrolled
        <4> QED BY <1>2, <2>1, <3>3, <4>1, <4>3
      <3>4. CASE ~(n > 0)
        BY <1>0, <1>2, <2>1, <3>4
      <3> QED BY <3>3, <3>4
    <2>2. CASE ~(t.cfg.ets /\ top)
      <3>1. PICK lattr \in BOOLEAN : lattr = ~lineOnly
        OBVIOUS
      <3>2. t1 = EraseCells(t, from, to, lattr)
        BY <1>2, <2>2, <3>1
      <3> QED BY <3>1, <3>2, CellsErased
    <2> QED BY <2>1, <2>2
  <1>4. PICK u : u = IF top /\ t.which = 0 THEN [t1 EXCEPT !.temps = 0] ELSE t1
    OBVIOUS
  <1>5. Term(u, s) /\ Kin(t1, u)
    <2>1. CASE top /\ t.which = 0
      BY <1>3, <1>4, <2>1, Forgotten
    <2>2. CASE ~(top /\ t.which = 0)
      BY <1>3, <1>4, <2>2 DEF Kin
    <2> QED BY <2>1, <2>2
  <1>6. Emptied(t, from, to, lineOnly) = u
    BY <1>1, <1>2, <1>4 DEF Emptied
  <1> QED BY <1>3, <1>5, <1>6 DEF Kin

LEMMA LotsErased ==
    ASSUME NEW s \in Scenarios, NEW t, Term(t, s), NEW lineOnly \in BOOLEAN, NEW fromBegin \in BOOLEAN,
           NEW toEnd \in BOOLEAN, "before" \in s.groups \/ toEnd
    PROVE  /\ Term(EraseLots(t, lineOnly, fromBegin, toEnd), s)
           /\ Kin(t, EraseLots(t, lineOnly, fromBegin, toEnd))
  <1>0. /\ t.x \in 0 .. t.cols - 1 /\ t.y \in 0 .. t.rows - 1 /\ t.rows \in Nat /\ t.cols \in Nat
        /\ Kin(t, t)
    BY Numbers DEF Kin
  <1>1. PICK from, to :
            /\ from = IF ~fromBegin THEN Cursor(t) ELSE At(0, IF lineOnly THEN t.y ELSE 0)
            /\ to = IF ~toEnd THEN After1(t, Cursor(t)) ELSE At(0, IF lineOnly THEN t.y + 1 ELSE t.rows)
    OBVIOUS
  <1>2. from.x \in Int /\ from.y \in Int
    BY <1>0, <1>1 DEF Cursor, At
  <1>3. /\ to.x \in Int /\ to.y \in Int /\ ("before" \in s.groups \/ to.x = 0)
        /\ to.x = 0 /\ ~lineOnly => to.y = t.rows
    <2>1. CASE toEnd
      BY <1>0, <1>1, <2>1 DEF At
    <2>2. CASE ~toEnd
      <3>1. to = At(t.x + 1, t.y)
        BY <1>0, <1>1, <2>2 DEF After1, Cursor, At
      <3>2. to.x = t.x + 1 /\ to.y = t.y
        BY <3>1 DEF At
      <3> QED BY <1>0, <2>2, <3>2
    <2> QED BY <2>1, <2>2
  <1>4. PICK t1 : t1 = IF fromBegin /\ toEnd THEN t ELSE CheckBoundary(t, t.x, t.y)
    OBVIOUS
  <1>5. Term(t1, s) /\ Kin(t, t1)
    <2>1. PICK x, y : x = t.x /\ y = t.y
      OBVIOUS
    <2>2. x \in Nat /\ y \in 0 .. t.rows - 1
      BY <1>0, <2>1
    <2>3. Term(CheckBoundary(t, x, y), s) /\ Kin(t, CheckBoundary(t, x, y))
      BY <2>2, Bounded
    <2> QED BY <1>0, <1>4, <2>1, <2>3
  <1>6. PICK t2 : t2 = CheckSelection(t1, from, to)
    OBVIOUS
  <1>7. Term(t2, s) /\ Kin(t, t2)
    BY <1>5, <1>6, SelectionChecked DEF Alike, Kin
  <1>8. PICK u : u = Emptied(t2, from, to, lineOnly)
    OBVIOUS
  <1>9. Term(u, s) /\ Kin(t2, u)
    <2>1. to.x = 0 /\ ~lineOnly => to.y = t2.rows
      BY <1>3, <1>7 DEF Kin
    <2> QED BY <1>2, <1>3, <1>7, <1>8, <2>1, EmptiedIs
  <1>10. EraseLots(t, lineOnly, fromBegin, toEnd) = u
    BY <1>1, <1>4, <1>6, <1>8 DEF EraseLots
  <1> QED BY <1>7, <1>9, <1>10 DEF Kin

-----------------------------------------------------------------------------
(* The two screens, and power on                                             *)

\* A terminal is what looks like one.
LEMMA Assembled ==
    ASSUME NEW s, NEW u, Shaped(u), Sized(u, s), Paged(u, s), OnScreen(u, u), OnScreen(u, u.other),
           u.save.x \in Nat, u.save.y \in Nat, u.tabs \subseteq 0 .. u.cols - 1,
           u.sel.state \in {"none", "about", "drag", "selected"}
    PROVE  Term(u, s)
  BY DEF Term, Pointed

LEMMA SwappedIs ==
    ASSUME NEW s \in Scenarios, NEW t, Term(t, s), NEW which \in {0, 1}, NEW wipe, NEW stay
    PROVE  /\ Term(Swapped(t, which, wipe, stay), s)
           /\ Swapped(t, which, wipe, stay).rows = t.rows
           /\ Swapped(t, which, wipe, stay).cols = t.cols
  <1>1. PICK u, o : u = Swapped(t, which, wipe, stay) /\ o = t.other
    OBVIOUS
  <1>2. /\ u.rows = t.rows /\ u.cols = t.cols /\ u.savelines = t.savelines /\ u.which = which
        /\ u.screen = t.alt /\ u.alt = t.screen /\ u.sb = t.sb /\ u.temps = t.temps
        /\ u.altsb = LastUsed(t.screen)
        /\ u.save = t.save /\ u.tabs = t.tabs /\ u.sel = t.sel
    BY <1>1 DEF Swapped, Term, Shaped
  <1>3. /\ u.x = (IF stay THEN t.x ELSE o.x) /\ u.y = (IF stay THEN t.y ELSE o.y)
        /\ u.mt = (IF wipe THEN t.mt ELSE o.mt) /\ u.mb = (IF wipe THEN t.mb ELSE o.mb)
        /\ u.other = [f \in DOMAIN o |-> t[f]]
    BY <1>1 DEF Swapped, Term, Shaped
  <1>4. DOMAIN u = DOMAIN t
    BY <1>1 DEF Swapped
  <1>5. DOMAIN o = {"x", "y", "mt", "mb", "om", "wrap", "wn", "ins"}
    BY <1>1 DEF Term, Shaped
  <1>6. /\ DOMAIN u.other = DOMAIN o
        /\ u.other.x = t.x /\ u.other.y = t.y /\ u.other.mt = t.mt /\ u.other.mb = t.mb
    BY <1>3, <1>5
  <1>7. Shaped(u)
    BY <1>2, <1>4, <1>5, <1>6 DEF Term, Shaped
  <1>8. OnScreen(t, t) /\ OnScreen(t, o)
    BY <1>1 DEF Term, Pointed
  <1>9. OnScreen(u, u)
    BY <1>2, <1>3, <1>8 DEF OnScreen
  <1>10. OnScreen(u, u.other)
    BY <1>2, <1>6, <1>8 DEF OnScreen
  <1>11. Sized(u, s)
    BY <1>2 DEF Term, Sized
  <1>12. Paged(u, s)
    <2>1. t.rows \in Nat /\ t.screen \in Pages(s, t.rows)
      BY Numbers DEF Term, Paged
    <2>2. LastUsed(t.screen) \in 0 .. t.rows
      BY <2>1, PageIs
    <2> QED BY <1>2, <2>2 DEF Term, Paged
  <1>13. /\ u.save.x \in Nat /\ u.save.y \in Nat /\ u.tabs \subseteq 0 .. u.cols - 1
         /\ u.sel.state \in {"none", "about", "drag", "selected"}
    BY <1>2 DEF Term, Pointed
  <1>14. Term(u, s)
    BY <1>7, <1>9, <1>10, <1>11, <1>12, <1>13, Assembled
  <1> QED BY <1>1, <1>2, <1>14

LEMMA ScreenSwapped ==
    ASSUME NEW s \in Scenarios, NEW t, Term(t, s), NEW which \in {0, 1}, NEW reset, NEW keepPos
    PROVE  /\ Term(SwapScreen(t, which, reset, keepPos), s)
           /\ SwapScreen(t, which, reset, keepPos).rows = t.rows
           /\ SwapScreen(t, which, reset, keepPos).cols = t.cols
  <1>1. PICK wipe, stay :
            wipe = (reset /\ which = 1) /\ stay = (wipe \/ keepPos)
    OBVIOUS
  <1>2. PICK t1 : t1 = IF which = t.which THEN t ELSE Swapped(t, which, wipe, stay)
    OBVIOUS
  <1>3. Term(t1, s) /\ t1.rows = t.rows /\ t1.cols = t.cols
    <2>1. CASE which = t.which
      BY <1>2, <2>1
    <2>2. CASE which # t.which
      <3>1. t1 = Swapped(t, which, wipe, stay)
        BY <1>2, <2>2
      <3> QED BY <3>1, SwappedIs
    <2> QED BY <2>1, <2>2
  <1>4. PICK u : u = IF wipe THEN EraseLots(t1, FALSE, TRUE, TRUE) ELSE t1
    OBVIOUS
  <1>5. Term(u, s) /\ Kin(t1, u)
    <2>1. CASE wipe
      BY <1>3, <1>4, <2>1, LotsErased
    <2>2. CASE ~wipe
      BY <1>3, <1>4, <2>2 DEF Kin
    <2> QED BY <1>1, <2>1, <2>2
  <1>6. SwapScreen(t, which, reset, keepPos) = u
    BY <1>1, <1>2, <1>4 DEF SwapScreen
  <1> QED BY <1>3, <1>5, <1>6 DEF Kin

\* What is set that nothing here depends on.
LEMMA Settled ==
    ASSUME NEW s, NEW t, Term(t, s), NEW v
    PROVE  /\ Term([t EXCEPT !.disp = v], s) /\ Alike(t, [t EXCEPT !.disp = v])
           /\ Term([t EXCEPT !.seen = v], s) /\ Alike(t, [t EXCEPT !.seen = v])
           /\ Term([t EXCEPT !.wn = v], s) /\ Alike(t, [t EXCEPT !.wn = v])
           /\ Term([t EXCEPT !.ins = v], s) /\ Alike(t, [t EXCEPT !.ins = v])
           /\ Term([t EXCEPT !.wrap = v], s) /\ Alike(t, [t EXCEPT !.wrap = v])
           /\ Term([t EXCEPT !.om = v], s) /\ Alike(t, [t EXCEPT !.om = v])
           /\ Term([t EXCEPT !.cfg = v], s) /\ Alike(t, [t EXCEPT !.cfg = v])
  <1>1. ASSUME NEW u,
               \/ u = [t EXCEPT !.disp = v] \/ u = [t EXCEPT !.seen = v] \/ u = [t EXCEPT !.wn = v]
               \/ u = [t EXCEPT !.ins = v] \/ u = [t EXCEPT !.wrap = v] \/ u = [t EXCEPT !.om = v]
               \/ u = [t EXCEPT !.cfg = v]
        PROVE  Term(u, s) /\ Alike(t, u)
    <2>1. /\ Shaped(u) /\ u.rows = t.rows /\ u.cols = t.cols /\ u.savelines = t.savelines
          /\ u.which = t.which /\ u.screen = t.screen /\ u.alt = t.alt /\ u.sb = t.sb
          /\ u.temps = t.temps /\ u.altsb = t.altsb
          /\ u.other = t.other /\ u.save = t.save /\ u.tabs = t.tabs /\ u.sel = t.sel
          /\ u.x = t.x /\ u.y = t.y /\ u.mt = t.mt /\ u.mb = t.mb
      BY <1>1 DEF Term, Shaped
    <2>2. OnScreen(t, u)
      BY <2>1 DEF Term, Pointed, OnScreen
    <2>3. Term(u, s)
      BY <2>1, <2>2, Aimed
    <2> QED BY <2>1, <2>3 DEF Alike, Kin
  <1> QED BY <1>1

\* What is selected.
LEMMA Marked ==
    ASSUME NEW s, NEW t, Term(t, s), NEW r, DOMAIN r = {"state", "from", "to", "anchor", "mode"},
           r.state \in {"none", "about", "drag", "selected"}
    PROVE  Term([t EXCEPT !.sel = r], s) /\ Alike(t, [t EXCEPT !.sel = r])
  <1>1. PICK u : u = [t EXCEPT !.sel = r]
    OBVIOUS
  <1>2. /\ Shaped(u) /\ u.rows = t.rows /\ u.cols = t.cols /\ u.savelines = t.savelines
        /\ u.which = t.which /\ u.screen = t.screen /\ u.alt = t.alt /\ u.sb = t.sb
        /\ u.temps = t.temps /\ u.altsb = t.altsb
        /\ u.other = t.other /\ u.save = t.save /\ u.tabs = t.tabs /\ u.sel = r
        /\ u.x = t.x /\ u.y = t.y /\ u.mt = t.mt /\ u.mb = t.mb
    BY <1>1 DEF Term, Shaped
  <1>3. Sized(u, s) /\ Paged(u, s) /\ Pointed(u)
    BY <1>2 DEF Term, Sized, Paged, Pointed, OnScreen
  <1> QED BY <1>1, <1>2, <1>3 DEF Term, Alike, Kin

LEMMA PoweredOn ==
    ASSUME NEW s \in Scenarios, NEW t, Term(t, s)
    PROVE  /\ Term(PowerOn(t), s) /\ PowerOn(t).rows = t.rows /\ PowerOn(t).cols = t.cols
  <1>0. t.rows \in Nat \ {0} /\ t.cols \in Nat \ {0}
    BY Numbers
  <1>1. PICK u : u = [t EXCEPT !.x = 0, !.y = 0, !.mt = 0, !.mb = t.rows - 1,
                         !.om = FALSE, !.ins = FALSE, !.wrap = TRUE, !.wn = FALSE,
                         !.save = [x |-> 0, y |-> 0, wn |-> FALSE], !.which = 0,
                         !.other = [Kept EXCEPT !.mb = t.rows - 1],
                         !.tabs = {i \in 0 .. (t.cols - 1) : i % 8 = 0}]
    OBVIOUS
  <1>2. /\ u.rows = t.rows /\ u.cols = t.cols /\ u.savelines = t.savelines /\ u.which = 0
        /\ u.screen = t.screen /\ u.alt = t.alt /\ u.sb = t.sb /\ u.temps = t.temps
        /\ u.altsb = t.altsb /\ u.sel = t.sel
        /\ u.x = 0 /\ u.y = 0 /\ u.mt = 0 /\ u.mb = t.rows - 1
        /\ u.save = [x |-> 0, y |-> 0, wn |-> FALSE]
        /\ u.other = [Kept EXCEPT !.mb = t.rows - 1]
        /\ u.tabs \subseteq 0 .. t.cols - 1
    BY <1>1 DEF Term, Shaped
  <1>3. DOMAIN u = DOMAIN t
    BY <1>1
  <1>4. /\ DOMAIN u.other = {"x", "y", "mt", "mb", "om", "wrap", "wn", "ins"}
        /\ u.other.x = 0 /\ u.other.y = 0 /\ u.other.mt = 0 /\ u.other.mb = t.rows - 1
        /\ DOMAIN u.save = {"x", "y", "wn"} /\ u.save.x = 0 /\ u.save.y = 0
    BY <1>2 DEF Kept
  <1>5. Shaped(u)
    BY <1>2, <1>3, <1>4 DEF Term, Shaped
  <1>6. Sized(u, s) /\ Paged(u, s)
    BY <1>2 DEF Term, Sized, Paged
  <1>7. OnScreen(u, u) /\ OnScreen(u, u.other)
    BY <1>0, <1>2, <1>4 DEF OnScreen
  <1>8. Term(u, s)
    BY <1>2, <1>4, <1>5, <1>6, <1>7, Assembled DEF Term, Pointed
  <1>9. PICK a : a = SwapScreen(u, 1, FALSE, FALSE)
    OBVIOUS
  <1>10. Term(a, s) /\ a.rows = u.rows /\ a.cols = u.cols
    <2>1. PICK w, f : w = 1 /\ f = FALSE
      OBVIOUS
    <2>2. w \in {0, 1} /\ a = SwapScreen(u, w, f, f)
      BY <1>9, <2>1
    <2> QED BY <1>8, <2>2, ScreenSwapped
  <1>11. PICK b : b = EraseLots(a, FALSE, TRUE, TRUE)
    OBVIOUS
  <1>12. Term(b, s) /\ Kin(a, b)
    BY <1>10, <1>11, LotsErased
  <1>13. PICK c : c = SwapScreen(b, 0, FALSE, FALSE)
    OBVIOUS
  <1>14. Term(c, s) /\ c.rows = b.rows /\ c.cols = b.cols
    <2>1. PICK w, f : w = 0 /\ f = FALSE
      OBVIOUS
    <2>2. w \in {0, 1} /\ c = SwapScreen(b, w, f, f)
      BY <1>13, <2>1
    <2> QED BY <1>12, <2>2, ScreenSwapped
  <1>15. PICK d : d = EraseLots(c, FALSE, TRUE, TRUE)
    OBVIOUS
  <1>16. Term(d, s) /\ Kin(c, d)
    BY <1>14, <1>15, LotsErased
  <1>17. PowerOn(t) = d
    BY <1>1, <1>9, <1>11, <1>13, <1>15 DEF PowerOn
  <1> QED BY <1>2, <1>10, <1>12, <1>14, <1>16, <1>17 DEF Kin

-----------------------------------------------------------------------------
(* A new size                                                                *)

LEMMA Joined ==
    ASSUME NEW A, NEW p \in Seq(A), NEW q \in Seq(A)
    PROVE  p \o q \in Seq(A) /\ Len(p \o q) = Len(p) + Len(q) /\ Len(p) \in Nat /\ Len(q) \in Nat
  BY ConcatProperties, LenProperties

\* How many lines come back, are dropped, and go to the scrollback.
LEMMA Measured ==
    ASSUME NEW R \in Nat \ {0}, NEW rows \in Nat \ {0}, NEW y \in 0 .. R - 1, NEW N \in Nat,
           NEW temps \in 0 .. N, NEW limit \in Nat,
           NEW back, NEW dropped, NEW pushed, NEW cut, NEW first,
           Measures(R, rows, y, N, temps, limit, back, dropped, pushed, cut, first)
    PROVE  /\ back \in 0 .. temps /\ pushed \in Nat /\ dropped \in Nat /\ cut \in Nat /\ first \in 0 .. cut
           /\ cut <= N + R - dropped /\ cut - first <= limit
           /\ Most(rows - R - back, 0) \in Nat
           /\ (N + R - dropped) - cut + Most(rows - R - back, 0) = rows
  <1>0. /\ back = Least(Most(rows - R, 0), temps)
        /\ dropped = Least(Most(R - rows, 0), R - 1 - y)
        /\ pushed = Most(R - rows, 0) - dropped
        /\ cut = N - back + pushed
        /\ first = Most(cut - limit, 0)
    BY DEF Measures
  <1>1. CASE rows >= R
    <2>1. dropped = 0 /\ pushed = 0
      BY <1>0, <1>1 DEF Least, Most
    <2>2. back \in 0 .. temps /\ back <= rows - R
      BY <1>0, <1>1 DEF Least, Most
    <2>3. Most(rows - R - back, 0) = rows - R - back
      BY <1>1, <2>2 DEF Most
    <2>4. cut = N - back /\ cut \in Nat
      BY <1>0, <2>1, <2>2
    <2>5. first \in 0 .. cut /\ cut - first <= limit
      BY <1>0, <2>4 DEF Most
    <2> QED BY <1>1, <2>1, <2>2, <2>3, <2>4, <2>5
  <1>2. CASE ~(rows >= R)
    <2>1. back = 0 /\ Most(R - rows, 0) = R - rows
      BY <1>0, <1>2 DEF Least, Most
    <2>2. dropped \in 0 .. R - rows
      BY <1>0, <1>2 DEF Least, Most
    <2>3. pushed = R - rows - dropped /\ cut = N + (R - rows - dropped) /\ cut \in Nat
      BY <1>0, <2>1, <2>2
    <2>4. Most(rows - R - back, 0) = 0
      BY <1>2, <2>1 DEF Most
    <2>5. first \in 0 .. cut /\ cut - first <= limit
      BY <1>0, <2>3 DEF Most
    <2> QED BY <1>2, <2>1, <2>2, <2>3, <2>4, <2>5
  <1> QED BY <1>1, <1>2

\* Where a line ends up.
LEMMA Clamped ==
    ASSUME NEW v \in Int, NEW high \in Nat
    PROVE  Clamp(v, 0, high) \in 0 .. high
  BY DEF Clamp, Most, Least

LEMMA Refits ==
    ASSUME NEW s \in Scenarios, NEW t, Term(t, s), NEW rows \in s.heights, NEW cols \in s.widths,
           NEW limit \in s.limits
    PROVE  Term(Refit(t, rows, cols, limit), s)
  <1>1. PICK R, N, y, temps : R = t.rows /\ N = Len(t.sb) /\ y = t.y /\ temps = t.temps
    OBVIOUS
  <1>2. /\ R \in Nat \ {0} /\ y \in 0 .. R - 1 /\ N \in Nat /\ temps \in 0 .. N
        /\ rows \in Nat \ {0} /\ cols \in Nat \ {0} /\ limit \in Nat
        /\ t.sb \in Seq(Lines(s)) /\ t.screen \in Seq(Lines(s)) /\ Len(t.screen) = R
        /\ t.x \in Nat /\ t.save.x \in Nat /\ t.save.y \in Nat
    <2>1. t.sb \in Seq(Lines(s)) /\ temps \in 0 .. N
      BY <1>1 DEF Term, Paged
    <2>2. rows \in Nat \ {0} /\ cols \in Nat \ {0} /\ limit \in Nat
      BY TerminalAssumption
    <2>3. t.save.x \in Nat /\ t.save.y \in Nat
      BY DEF Term, Pointed
    <2> QED BY <1>1, <2>1, <2>2, <2>3, Numbers, LenProperties
  <1>3. PICK back, dropped, pushed, cut, first :
            Measures(R, rows, y, N, temps, limit, back, dropped, pushed, cut, first)
    BY DEF Measures
  <1>4. /\ back \in 0 .. temps /\ pushed \in Nat /\ dropped \in Nat /\ cut \in Nat /\ first \in 0 .. cut
        /\ cut <= N + R - dropped /\ cut - first <= limit
        /\ Most(rows - R - back, 0) \in Nat
        /\ (N + R - dropped) - cut + Most(rows - R - back, 0) = rows
    BY <1>2, <1>3, Measured
  <1>5. PICK all, fresh, screen, sb :
            /\ all = t.sb \o t.screen
            /\ fresh = [i \in 1 .. Most(rows - R - back, 0) |-> BlankLine(cols)]
            /\ screen = SubSeq(all, cut + 1, Len(all) - dropped) \o fresh
            /\ sb = SubSeq(all, first + 1, cut)
    OBVIOUS
  <1>6. all \in Seq(Lines(s)) /\ Len(all) = N + R
    BY <1>1, <1>2, <1>5, Joined
  <1>7. BlankLine(cols) \in Lines(s)
    BY <1>2, Blanks
  <1>8. screen \in Pages(s, rows)
    <2>1. PICK m : m = Most(rows - R - back, 0)
      OBVIOUS
    <2>2. fresh \in Seq(Lines(s)) /\ Len(fresh) = m
      <3>1. m \in Nat /\ fresh \in [1 .. m -> Lines(s)]
        BY <1>4, <1>5, <1>7, <2>1
      <3> QED BY <3>1, Made
    <2>3. PICK p, e : p = SubSeq(all, cut + 1, e) /\ e = Len(all) - dropped
      OBVIOUS
    <2>4. p \in Seq(Lines(s)) /\ Len(p) = e - cut
      <3>1. e = N + R - dropped /\ Len(all) = N + R
        BY <1>2, <1>4, <1>6, <2>3
      <3>2. cut \in Nat /\ dropped \in Nat /\ cut <= N + R - dropped /\ N \in Nat /\ R \in Nat
        BY <1>2, <1>4
      <3>3. e \in Nat /\ cut <= e /\ e <= Len(all)
        BY <3>1, <3>2
      <3> QED BY <3>2, <3>3, <1>6, <2>3, Slice
    <2>5. p \o fresh \in Seq(Lines(s)) /\ Len(p \o fresh) = Len(p) + Len(fresh)
      BY <2>2, <2>4, Joined
    <2>6. Len(p) + Len(fresh) = rows
      <3>1. Len(p) = (N + R - dropped) - cut /\ Len(fresh) = m
        BY <1>2, <1>4, <1>6, <2>2, <2>3, <2>4
      <3>2. (N + R - dropped) - cut + m = rows
        BY <1>4, <2>1
      <3> QED BY <3>1, <3>2
    <2> QED BY <1>5, <2>3, <2>5, <2>6 DEF Pages
  <1>9. sb \in Seq(Lines(s)) /\ Len(sb) = cut - first /\ Len(sb) <= limit
    <2>1. first \in Nat /\ cut \in Nat /\ first <= cut /\ cut <= Len(all)
      BY <1>2, <1>4, <1>6
    <2>2. sb \in Seq(Lines(s)) /\ Len(sb) = cut - first
      BY <1>5, <1>6, <2>1, Slice
    <2> QED BY <1>4, <2>2
  <1>10. PICK alt, tabs, sy, ty, x, n :
            /\ alt = [i \in 1 .. rows |-> BlankLine(cols)]
            /\ tabs = {i \in t.tabs : i < cols} \cup {i \in t.cols .. (cols - 1) : i % 8 = 0}
            /\ sy = Clamp(t.save.y + back - pushed, 0, rows - 1)
            /\ ty = Clamp(y + back - pushed, 0, rows - 1)
            /\ x = Least(t.x, cols - 1)
            /\ n = Least(temps - back + pushed, cut - first)
    OBVIOUS
  <1>11. alt \in Pages(s, rows)
    <2>1. alt \in [1 .. rows -> Lines(s)] /\ rows \in Nat
      BY <1>2, <1>7, <1>10
    <2> QED BY <2>1, Made DEF Pages
  <1>12. /\ sy \in 0 .. rows - 1 /\ ty \in 0 .. rows - 1 /\ x \in 0 .. cols - 1
         /\ n \in 0 .. Len(sb) /\ tabs \subseteq 0 .. cols - 1
    <2>1. sy \in 0 .. rows - 1 /\ ty \in 0 .. rows - 1
      <3>1. /\ t.save.y + back - pushed \in Int /\ y + back - pushed \in Int /\ rows - 1 \in Nat
        BY <1>2, <1>4
      <3> QED BY <1>10, <3>1, Clamped
    <2>2. x \in 0 .. cols - 1
      BY <1>2, <1>10 DEF Least
    <2>3. n \in 0 .. Len(sb)
      <3>1. PICK p, q : p = temps - back + pushed /\ q = cut - first
        OBVIOUS
      <3>2. p \in Nat
        BY <1>2, <1>4, <3>1
      <3>3. q \in Nat /\ q = Len(sb)
        BY <1>4, <1>9, <3>1
      <3> QED BY <1>10, <3>1, <3>2, <3>3 DEF Least
    <2>4. tabs \subseteq 0 .. cols - 1
      <3>1. t.tabs \subseteq 0 .. t.cols - 1 /\ t.cols \in Nat
        BY Numbers DEF Term, Pointed
      <3> QED BY <1>2, <1>10, <3>1
    <2> QED BY <2>1, <2>2, <2>3, <2>4
  <1>13. PICK u : u = Refit(t, rows, cols, limit)
    OBVIOUS
  <1>14. u = [t EXCEPT !.rows = rows, !.cols = cols, !.savelines = limit, !.screen = screen, !.sb = sb,
                !.temps = n, !.disp = 0, !.altsb = 0, !.alt = alt, !.mt = 0, !.mb = rows - 1,
                !.tabs = tabs, !.save.y = sy, !.y = ty, !.x = x, !.wn = FALSE,
                !.other = [t.other EXCEPT !.x = 0, !.y = 0, !.mt = 0, !.mb = rows - 1, !.wn = FALSE]]
    BY ZenonT(60), <1>1, <1>3, <1>5, <1>10, <1>13 DEF Refit, Measures
  <1>15. /\ DOMAIN u = DOMAIN t
         /\ u.rows = rows /\ u.cols = cols /\ u.savelines = limit /\ u.which = t.which
         /\ u.screen = screen /\ u.sb = sb /\ u.temps = n /\ u.altsb = 0 /\ u.alt = alt
         /\ u.mt = 0 /\ u.mb = rows - 1 /\ u.tabs = tabs /\ u.y = ty /\ u.x = x /\ u.sel = t.sel
         /\ u.save = [t.save EXCEPT !.y = sy]
         /\ u.other = [t.other EXCEPT !.x = 0, !.y = 0, !.mt = 0, !.mb = rows - 1, !.wn = FALSE]
    BY <1>14 DEF Term, Shaped
  <1>16. /\ DOMAIN u.other = DOMAIN t.other
         /\ u.other.x = 0 /\ u.other.y = 0 /\ u.other.mt = 0 /\ u.other.mb = rows - 1
         /\ DOMAIN u.save = DOMAIN t.save /\ u.save.x = t.save.x /\ u.save.y = sy
    BY <1>15 DEF Term, Shaped
  <1>17. Shaped(u)
    BY <1>15, <1>16 DEF Term, Shaped
  <1>18. Sized(u, s)
    BY <1>15 DEF Term, Sized
  <1>19. Paged(u, s)
    BY <1>2, <1>8, <1>9, <1>11, <1>12, <1>15 DEF Paged
  <1>20. OnScreen(u, u) /\ OnScreen(u, u.other)
    <2>1. /\ 0 \in 0 .. cols - 1 /\ 0 \in 0 .. rows - 1 /\ rows - 1 \in 0 .. rows - 1
          /\ x \in 0 .. cols - 1 /\ ty \in 0 .. rows - 1
      <3>1. rows \in Nat \ {0} /\ cols \in Nat \ {0}
        BY <1>2
      <3>2. 0 \in 0 .. cols - 1 /\ 0 \in 0 .. rows - 1 /\ rows - 1 \in 0 .. rows - 1
        BY <3>1
      <3> QED BY <3>2, <1>12
    <2>2. u.rows = rows /\ u.cols = cols /\ u.x = x /\ u.y = ty /\ u.mt = 0 /\ u.mb = rows - 1
      BY <1>15
    <2> QED BY <2>1, <2>2, <1>16 DEF OnScreen
  <1>21. /\ u.save.x \in Nat /\ u.save.y \in Nat /\ u.tabs \subseteq 0 .. u.cols - 1
         /\ u.sel.state \in {"none", "about", "drag", "selected"}
    <2>1. t.sel.state \in {"none", "about", "drag", "selected"}
      BY DEF Term, Pointed
    <2> QED BY <1>2, <1>12, <1>15, <1>16, <2>1
  <1>22. Term(u, s)
    BY <1>17, <1>18, <1>19, <1>20, <1>21, Assembled
  <1> QED BY <1>13, <1>22

LEMMA SizedAnew ==
    ASSUME NEW s \in Scenarios, NEW t, Term(t, s), NEW rows \in s.heights, NEW cols \in s.widths,
           NEW limit \in s.limits
    PROVE  Term(Resize(t, rows, cols, limit), s)
  <1>1. PICK a, w, f : a = Deselect(t) /\ w = 0 /\ f = FALSE
    OBVIOUS
  <1>2. Term(a, s) /\ w \in {0, 1}
    BY <1>1, Unselected
  <1>3. PICK b : b = SwapScreen(a, w, f, f)
    OBVIOUS
  <1>4. Term(b, s)
    BY <1>2, <1>3, ScreenSwapped
  <1>5. PICK c : c = Refit(b, rows, cols, limit)
    OBVIOUS
  <1>6. Term(c, s)
    BY <1>4, <1>5, Refits
  <1>7. PICK v : v = t.which
    OBVIOUS
  <1>8. v \in {0, 1}
    BY <1>7 DEF Term, Sized
  <1>9. PICK d : d = SwapScreen(c, v, f, f)
    OBVIOUS
  <1>10. Term(d, s)
    BY <1>6, <1>8, <1>9, ScreenSwapped
  <1>11. Resize(t, rows, cols, limit) = t \/ Resize(t, rows, cols, limit) = d
    BY <1>1, <1>3, <1>5, <1>7, <1>9 DEF Resize
  <1> QED BY <1>10, <1>11

-----------------------------------------------------------------------------
(* The view and the selection                                                *)

LEMMA Fitted ==
    ASSUME NEW s, NEW n \in Nat, NEW p \in Seq(Lines(s)), NEW q, Fits(q, p, n)
    PROVE  q \in Seq(Lines(s)) /\ Len(q) = Len(p)
  <1>1. Len(p) \in Nat /\ DOMAIN p = 1 .. Len(p) /\ \A i \in 1 .. Len(p) : p[i] \in Lines(s)
    BY LenProperties, ElementOfSeq
  <1>2. q = [i \in DOMAIN p |-> q[i]] /\ \A i \in DOMAIN p : q[i] = p[i] \/ q[i] = Resized(p[i], n)
    BY DEF Fits
  <1>3. ASSUME NEW i \in 1 .. Len(p) PROVE q[i] \in Lines(s)
    <2>1. PICK l : l = p[i]
      OBVIOUS
    <2>2. l \in Lines(s) /\ (q[i] = l \/ q[i] = Resized(l, n))
      BY <1>1, <1>2, <2>1
    <2>3. Resized(l, n) \in Lines(s)
      BY <2>2, Refitted
    <2> QED BY <2>2, <2>3
  <1>4. PICK m : m = Len(p)
    OBVIOUS
  <1>5. m \in Nat /\ q \in [1 .. m -> Lines(s)]
    <2>1. q = [i \in 1 .. m |-> q[i]]
      BY <1>1, <1>2, <1>4
    <2> QED BY <1>1, <1>3, <1>4, <2>1
  <1> QED BY <1>4, <1>5, Made

LEMMA PaintedIs ==
    ASSUME NEW s \in Scenarios, NEW t, Term(t, s)
    PROVE  Term(Painted(t), s)
  <1>1. PICK u, n : u = Painted(t) /\ n = t.cols
    OBVIOUS
  <1> DEFINE InView(y) == t.disp <= y /\ y < t.disp + t.rows
             Fit(p, low) == [i \in DOMAIN p |-> IF InView(low + i) THEN Resized(p[i], t.cols) ELSE p[i]]
             alt == [i \in DOMAIN t.alt |->
                        IF i <= AltLines(t) /\ InView(i - t.altsb - 1)
                        THEN Resized(t.alt[i], t.cols) ELSE t.alt[i]]
  <1>2. u = [t EXCEPT !.screen = Fit(t.screen, -1), !.sb = Fit(t.sb, -SbLines(t) - 1), !.alt = alt]
    BY <1>1 DEF Painted
  <1>3. /\ Fits(Fit(t.screen, -1), t.screen, n) /\ Fits(Fit(t.sb, -SbLines(t) - 1), t.sb, n)
        /\ Fits(alt, t.alt, n)
    BY <1>1 DEF Fits
  <1> HIDE DEF Fit, alt
  <1>4. /\ u.rows = t.rows /\ u.cols = t.cols /\ u.savelines = t.savelines /\ u.which = t.which
        /\ u.screen = Fit(t.screen, -1) /\ u.alt = alt /\ u.sb = Fit(t.sb, -SbLines(t) - 1)
        /\ u.temps = t.temps /\ u.altsb = t.altsb /\ u.other = t.other /\ u.save = t.save
        /\ u.tabs = t.tabs /\ u.sel = t.sel /\ u.x = t.x /\ u.y = t.y /\ u.mt = t.mt /\ u.mb = t.mb
    BY <1>2 DEF Term, Shaped
  <1>5. Shaped(u)
    BY <1>2, <1>4 DEF Term, Shaped
  <1>6. /\ t.screen \in Seq(Lines(s)) /\ Len(t.screen) = t.rows
        /\ t.alt \in Seq(Lines(s)) /\ Len(t.alt) = t.rows /\ t.sb \in Seq(Lines(s)) /\ n \in Nat
    BY <1>1, Numbers DEF Term, Paged, Pages
  <1>7. /\ u.screen \in Seq(Lines(s)) /\ Len(u.screen) = t.rows
        /\ u.alt \in Seq(Lines(s)) /\ Len(u.alt) = t.rows
        /\ u.sb \in Seq(Lines(s)) /\ Len(u.sb) = Len(t.sb)
    <2>1. /\ Fits(u.screen, t.screen, n) /\ Fits(u.sb, t.sb, n) /\ Fits(u.alt, t.alt, n)
      BY <1>3, <1>4
    <2> QED BY <1>6, <2>1, Fitted
  <1>8. Paged(u, s)
    BY <1>4, <1>7 DEF Term, Paged, Pages
  <1>9. Sized(u, s) /\ Pointed(u)
    BY <1>4 DEF Term, Sized, Pointed, OnScreen
  <1> QED BY <1>1, <1>5, <1>8, <1>9 DEF Term

LEMMA Updated ==
    ASSUME NEW s \in Scenarios, NEW t, Term(t, s)
    PROVE  Term(Update(t), s)
  <1>1. PICK a, b, v, f : a = [t EXCEPT !.disp = v] /\ v = 0 /\ b = [a EXCEPT !.seen = f] /\ f = FALSE
    OBVIOUS
  <1>2. Term(a, s)
    BY <1>1, Settled
  <1>3. Term(b, s)
    BY <1>1, <1>2, Settled
  <1>4. PICK u : u = IF t.seen /\ t.cfg.ondisp THEN b ELSE t
    OBVIOUS
  <1>5. Term(u, s)
    BY <1>3, <1>4
  <1>6. Update(t) = Painted(u)
    BY <1>1, <1>4 DEF Update, Term, Shaped
  <1> QED BY <1>5, <1>6, PaintedIs

LEMMA ViewScrolled ==
    ASSUME NEW s \in Scenarios, NEW t, Term(t, s), NEW rel, NEW where
    PROVE  Term(ScrollView(t, rel, where), s)
  <1>1. PICK v : ScrollView(t, rel, where) = Update([t EXCEPT !.disp = v])
    BY DEF ScrollView
  <1>2. Term([t EXCEPT !.disp = v], s)
    BY Settled
  <1> QED BY <1>1, <1>2, Updated

LEMMA Spreaded ==
    ASSUME NEW s \in Scenarios, NEW t, Term(t, s), NEW a, NEW b
    PROVE  Term(Spread(t, a, b), s)
  <1>1. PICK p, q : Spread(t, a, b) = [t EXCEPT !.sel.from = p, !.sel.to = q]
    BY DEF Spread
  <1>2. PICK r : r = [t.sel EXCEPT !.from = p, !.to = q]
    OBVIOUS
  <1>3. DOMAIN r = {"state", "from", "to", "anchor", "mode"} /\ r.state = t.sel.state
    BY <1>2 DEF Term, Shaped
  <1>4. r.state \in {"none", "about", "drag", "selected"}
    BY <1>3 DEF Term, Pointed
  <1>5. Spread(t, a, b) = [t EXCEPT !.sel = r]
    BY <1>1, <1>2
  <1> QED BY <1>3, <1>4, <1>5, Marked

LEMMA Clicked ==
    ASSUME NEW s \in Scenarios, NEW t, Term(t, s), NEW p, NEW mode
    PROVE  Term(Click(t, p), s) /\ Term(MultiClick(t, p, mode), s)
  <1>1. PICK d : d = Deselect(t)
    OBVIOUS
  <1>2. Term(d, s)
    BY <1>1, Unselected
  <1>3. ASSUME NEW state \in {"about", "drag"}, NEW m
        PROVE  Term([d EXCEPT !.sel.state = state, !.sel.anchor = p, !.sel.mode = m], s)
    <2>1. PICK r : r = [d.sel EXCEPT !.state = state, !.anchor = p, !.mode = m]
      OBVIOUS
    <2>2. DOMAIN r = {"state", "from", "to", "anchor", "mode"} /\ r.state = state
      BY <1>2, <2>1 DEF Term, Shaped
    <2>3. [d EXCEPT !.sel.state = state, !.sel.anchor = p, !.sel.mode = m] = [d EXCEPT !.sel = r]
      BY <2>1
    <2>4. r.state \in {"none", "about", "drag", "selected"}
      BY <2>2
    <2> QED BY <1>2, <2>2, <2>3, <2>4, Marked
  <1>4. Term([d EXCEPT !.sel.state = "about", !.sel.anchor = p, !.sel.mode = "char"], s)
    BY <1>3
  <1>5. PICK e : e = [d EXCEPT !.sel.state = "drag", !.sel.anchor = p, !.sel.mode = mode]
    OBVIOUS
  <1>6. Term(Spread(e, p, p), s)
    <2>1. Term(e, s)
      BY <1>3, <1>5
    <2> QED BY <2>1, Spreaded
  <1>7. Click(t, p) = [d EXCEPT !.sel.state = "about", !.sel.anchor = p, !.sel.mode = "char"]
    BY <1>1 DEF Click
  <1>8. MultiClick(t, p, mode) = Spread(e, p, p)
    BY <1>1, <1>5 DEF MultiClick
  <1> QED BY <1>4, <1>6, <1>7, <1>8

LEMMA Dragged ==
    ASSUME NEW s \in Scenarios, NEW t, Term(t, s), NEW p, NEW extend
    PROVE  Term(Drag(t, p, extend), s)
  <1>1. Drag(t, p, extend) = t \/ \E a :
            Drag(t, p, extend) = Spread([t EXCEPT !.sel.state = "drag", !.sel.anchor = a], a, p)
    BY DEF Drag
  <1>2. ASSUME NEW a PROVE Term(Spread([t EXCEPT !.sel.state = "drag", !.sel.anchor = a], a, p), s)
    <2>1. PICK r, e : /\ r = [t.sel EXCEPT !.state = "drag", !.anchor = a]
                      /\ e = [t EXCEPT !.sel.state = "drag", !.sel.anchor = a]
      OBVIOUS
    <2>2. DOMAIN r = {"state", "from", "to", "anchor", "mode"} /\ r.state = "drag"
      BY <2>1 DEF Term, Shaped
    <2>3. e = [t EXCEPT !.sel = r]
      BY <2>1
    <2>4. r.state \in {"none", "about", "drag", "selected"}
      BY <2>2
    <2>5. Term(e, s)
      BY <2>2, <2>3, <2>4, Marked
    <2>6. Term(Spread(e, a, p), s)
      BY <2>5, Spreaded
    <2> QED BY <2>1, <2>6
  <1> QED BY <1>1, <1>2

LEMMA Released ==
    ASSUME NEW s \in Scenarios, NEW t, Term(t, s)
    PROVE  Term(Release(t), s)
  <1>1. PICK r : r = [t.sel EXCEPT !.state = IF @ = "drag" THEN "selected" ELSE "none"]
    OBVIOUS
  <1>2. DOMAIN r = {"state", "from", "to", "anchor", "mode"} /\ r.state \in {"selected", "none"}
    BY <1>1 DEF Term, Shaped
  <1>3. Release(t) = [t EXCEPT !.sel = r]
    BY <1>1 DEF Release
  <1>4. r.state \in {"none", "about", "drag", "selected"}
    BY <1>2
  <1> QED BY <1>2, <1>3, <1>4, Marked

-----------------------------------------------------------------------------
(* Characters and the cursor                                                 *)

LEMMA ShownIs ==
    ASSUME NEW s, NEW t, Term(t, s)
    PROVE  Term(Shown(t), s)
  BY SelectionChecked DEF Shown

LEMMA WentOn ==
    ASSUME NEW s \in Scenarios, NEW t, Term(t, s)
    PROVE  Term(Onward(t), s)
  <1>1. PICK u : u = Onward(t)
    OBVIOUS
  <1>2. /\ Shaped(u) /\ u.rows = t.rows /\ u.cols = t.cols /\ u.savelines = t.savelines
        /\ u.which = t.which /\ u.screen = t.screen /\ u.alt = t.alt /\ u.sb = t.sb
        /\ u.temps = t.temps /\ u.altsb = t.altsb
        /\ u.other = t.other /\ u.save = t.save /\ u.tabs = t.tabs /\ u.sel = t.sel
        /\ u.y = t.y /\ u.mt = t.mt /\ u.mb = t.mb
        /\ u.x = IF t.x + 1 = t.cols THEN t.x ELSE t.x + 1
    BY <1>1 DEF Onward, Term, Shaped
  <1>3. t.x \in 0 .. t.cols - 1 /\ t.cols \in Nat
    BY Numbers
  <1>4. u.x \in 0 .. t.cols - 1
    BY <1>2, <1>3
  <1>5. OnScreen(t, u)
    BY <1>2, <1>4 DEF Term, Pointed, OnScreen
  <1>6. Term(u, s)
    BY <1>2, <1>5, Aimed
  <1> QED BY <1>1, <1>6

LEMMA PrintedIs ==
    ASSUME NEW s \in Scenarios, NEW t, Term(t, s), NEW g \in s.glyphs
    PROVE  Term(Printed(t, g), s)
  <1>1. PICK t1 : t1 = IF t.wn /\ t.wrap THEN WrapLine(t) ELSE t
    OBVIOUS
  <1>2. Term(t1, s)
    BY <1>1, Wrapped
  <1>3. PICK u, n : u = (IF t1.ins THEN InsertCells(t1, n) ELSE t1) /\ n = 1
    OBVIOUS
  <1>4. Term(u, s)
    BY <1>2, <1>3, CellsInserted
  <1>5. PICK t2 : t2 = Shown(u)
    OBVIOUS
  <1>6. Term(t2, s)
    BY <1>4, <1>5, ShownIs
  <1>7. PICK t3 : t3 = IF g = "W" THEN PutWide(t2, g) ELSE PutNarrow(t2, g)
    OBVIOUS
  <1>8. Term(t3, s)
    <2>1. CASE g = "W"
      BY <1>6, <1>7, <2>1, WidePut
    <2>2. CASE g # "W"
      BY <1>6, <1>7, <2>2, NarrowPut
    <2> QED BY <2>1, <2>2
  <1>9. Printed(t, g) = Onward(t3)
    BY <1>1, <1>3, <1>5, <1>7 DEF Printed
  <1> QED BY <1>8, <1>9, WentOn

\* The cursor put somewhere.
LEMMA Placed ==
    ASSUME NEW s, NEW t, Term(t, s), NEW x \in 0 .. t.cols - 1, NEW y \in 0 .. t.rows - 1, NEW wn
    PROVE  Term([t EXCEPT !.x = x, !.y = y, !.wn = wn], s)
  <1>1. PICK u : u = [t EXCEPT !.x = x, !.y = y, !.wn = wn]
    OBVIOUS
  <1>2. /\ Shaped(u) /\ u.rows = t.rows /\ u.cols = t.cols /\ u.savelines = t.savelines
        /\ u.which = t.which /\ u.screen = t.screen /\ u.alt = t.alt /\ u.sb = t.sb
        /\ u.temps = t.temps /\ u.altsb = t.altsb
        /\ u.other = t.other /\ u.save = t.save /\ u.tabs = t.tabs /\ u.sel = t.sel
        /\ u.x = x /\ u.y = y /\ u.mt = t.mt /\ u.mb = t.mb
    BY <1>1 DEF Term, Shaped
  <1>3. OnScreen(t, u)
    BY <1>2 DEF OnScreen, Term, Pointed
  <1>4. Term(u, s)
    BY <1>2, <1>3, Aimed
  <1> QED BY <1>1, <1>4

LEMMA Moved ==
    ASSUME NEW s \in Scenarios, NEW t, Term(t, s), NEW x \in Int, NEW y \in Int, NEW clip
    PROVE  Term(Move(t, x, y, clip), s) /\ Move(t, x, y, clip).rows = t.rows
           /\ Move(t, x, y, clip).cols = t.cols
  <1>1. /\ t.cols - 1 \in Nat /\ t.rows - 1 \in Nat /\ t.mt \in Int /\ t.mb \in Int
    BY Numbers
  <1>2. PICK y1 : y1 = IF clip # 0 /\ (t.y >= t.mt \/ clip = 2) THEN Most(y, t.mt) ELSE y
    OBVIOUS
  <1>3. PICK y2 : y2 = IF clip # 0 /\ (t.y <= t.mb \/ clip = 2) THEN Least(y1, t.mb) ELSE y1
    OBVIOUS
  <1>4. y1 \in Int
    BY <1>1, <1>2 DEF Most
  <1>5. y2 \in Int
    BY <1>1, <1>3, <1>4 DEF Least
  <1>6. PICK v, w, f : v = Clamp(x, 0, t.cols - 1) /\ w = Clamp(y2, 0, t.rows - 1) /\ f = FALSE
    OBVIOUS
  <1>7. v \in 0 .. t.cols - 1 /\ w \in 0 .. t.rows - 1
    BY <1>1, <1>5, <1>6, Clamped
  <1>8. PICK u : u = [t EXCEPT !.x = v, !.y = w, !.wn = f]
    OBVIOUS
  <1>9. Term(u, s)
    BY <1>7, <1>8, Placed
  <1>10. Move(t, x, y, clip) = u
    BY <1>2, <1>3, <1>6, <1>8 DEF Move
  <1>11. u.rows = t.rows /\ u.cols = t.cols
    BY <1>8 DEF Term, Shaped
  <1> QED BY <1>9, <1>10, <1>11

LEMMA Saved ==
    ASSUME NEW s \in Scenarios, NEW t, Term(t, s)
    PROVE  Term(SaveCursor(t), s)
  <1>1. PICK u : u = SaveCursor(t)
    OBVIOUS
  <1>2. /\ DOMAIN u = DOMAIN t /\ u.rows = t.rows /\ u.cols = t.cols /\ u.savelines = t.savelines
        /\ u.which = t.which /\ u.screen = t.screen /\ u.alt = t.alt /\ u.sb = t.sb
        /\ u.temps = t.temps /\ u.altsb = t.altsb
        /\ u.other = t.other /\ u.save = [x |-> t.x, y |-> t.y, wn |-> t.wn]
        /\ u.tabs = t.tabs /\ u.sel = t.sel
        /\ u.x = t.x /\ u.y = t.y /\ u.mt = t.mt /\ u.mb = t.mb
    BY <1>1 DEF SaveCursor, Term, Shaped
  <1>3. DOMAIN u.save = {"x", "y", "wn"} /\ u.save.x = t.x /\ u.save.y = t.y
    BY <1>2
  <1>4. Shaped(u)
    BY <1>2, <1>3 DEF Term, Shaped
  <1>5. u.save.x \in Nat /\ u.save.y \in Nat
    BY <1>3, Numbers
  <1>6. Sized(u, s) /\ Paged(u, s) /\ OnScreen(u, u) /\ OnScreen(u, u.other)
    BY <1>2 DEF Term, Sized, Paged, Pointed, OnScreen
  <1>7. u.tabs \subseteq 0 .. u.cols - 1 /\ u.sel.state \in {"none", "about", "drag", "selected"}
    BY <1>2 DEF Term, Pointed
  <1>8. Term(u, s)
    BY <1>4, <1>5, <1>6, <1>7, Assembled
  <1> QED BY <1>1, <1>8

LEMMA Restored ==
    ASSUME NEW s \in Scenarios, NEW t, Term(t, s)
    PROVE  Term(RestoreCursor(t), s)
  <1>1. PICK x, y, wn : x = Least(t.save.x, t.cols - 1) /\ y = Least(t.save.y, t.rows - 1)
                        /\ wn = (t.save.wn /\ x >= t.cols - 1)
    OBVIOUS
  <1>2. t.save.x \in Nat /\ t.save.y \in Nat /\ t.cols \in Nat \ {0} /\ t.rows \in Nat \ {0}
    BY Numbers DEF Term, Pointed
  <1>3. x \in 0 .. t.cols - 1 /\ y \in 0 .. t.rows - 1
    BY <1>1, <1>2 DEF Least
  <1>4. RestoreCursor(t) = [t EXCEPT !.x = x, !.y = y, !.wn = wn]
    BY <1>1 DEF RestoreCursor
  <1>5. ASSUME NEW f PROVE Term([t EXCEPT !.x = x, !.y = y, !.wn = f], s)
    BY <1>3, Placed
  <1> QED BY <1>4, <1>5

LEMMA SeenIs ==
    ASSUME NEW s, NEW t, Term(t, s)
    PROVE  Term(Seen(t), s)
  BY Settled DEF Seen

-----------------------------------------------------------------------------
(* The steps                                                                 *)

LEMMA DoneIs ==
    ASSUME TermInv, NEW group, NEW t, Term(t, scene), Do(group, t)
    PROVE  TermInv' /\ group \in scene.groups
  <1>1. group \in scene.groups /\ steps < scene.length /\ steps' = steps + 1 /\ term' = t /\ scene' = scene
    BY DEF Do
  <1>2. scene \in Scenarios /\ steps \in 0 .. scene.length /\ scene.length \in Nat
    BY TerminalAssumption DEF TermInv
  <1>3. steps' \in 0 .. scene'.length
    BY <1>1, <1>2
  <1>4. Term(term', scene')
    BY <1>1
  <1> QED BY <1>1, <1>2, <1>3, <1>4 DEF TermInv

LEMMA OutIs ==
    ASSUME TermInv, NEW group, NEW t, Out(group, t), group \in scene.groups => Term(t, scene)
    PROVE  TermInv'
  <1>1. Do(group, Shown(t))
    BY DEF Out
  <1>2. group \in scene.groups
    BY <1>1 DEF Do
  <1>3. Term(Shown(t), scene)
    BY <1>2, ShownIs
  <1> QED BY <1>1, <1>3, DoneIs

LEMMA UserIs ==
    ASSUME TermInv, NEW group, NEW t, User(group, t), Term(t, scene)
    PROVE  TermInv'
  BY DoneIs DEF User

LEMMA Now ==
    ASSUME TermInv
    PROVE  /\ scene \in Scenarios /\ Term(term, scene)
           /\ term.rows \in Nat \ {0} /\ term.cols \in Nat \ {0}
           /\ term.x \in 0 .. term.cols - 1 /\ term.y \in 0 .. term.rows - 1
           /\ term.mt \in 0 .. term.mb /\ term.mb \in 0 .. term.rows - 1
           /\ term.tabs \subseteq 0 .. term.cols - 1
  BY Numbers DEF TermInv, Term, Pointed

LEMMA Sited ==
    ASSUME NEW s, NEW t, Term(t, s), NEW u, Besides(t, u), OnScreen(t, u), u.tabs \subseteq 0 .. t.cols - 1
    PROVE  Term(u, s)
  <1>1. Shaped(u) /\ Sized(u, s) /\ Paged(u, s)
    BY DEF Besides, Term, Shaped, Sized, Paged
  <1>2. Pointed(u)
    BY DEF Besides, Term, Pointed, OnScreen
  <1> QED BY <1>1, <1>2 DEF Term

LEMMA StepShowChar ==
    ASSUME TermInv, ShowChar
    PROVE  TermInv'
  <1>1. PICK g \in scene.glyphs : Out("print", Printed(term, g))
    BY DEF ShowChar
  <1>2. Term(Printed(term, g), scene)
    BY Now, PrintedIs
  <1> QED BY <1>1, <1>2, OutIs

LEMMA StepCarriageReturn ==
    ASSUME TermInv, CarriageReturn
    PROVE  TermInv'
  <1>1. PICK u : u = [term EXCEPT !.x = 0, !.wn = FALSE]
    OBVIOUS
  <1>2. Besides(term, u) /\ u.x = 0 /\ u.y = term.y /\ u.mt = term.mt /\ u.mb = term.mb /\ u.tabs = term.tabs
    BY <1>1, Now DEF Besides, Term, Shaped
  <1>3. OnScreen(term, u)
    BY <1>2, Now DEF OnScreen
  <1>4. Term(Seen(u), scene)
    BY <1>2, <1>3, Now, Sited, SeenIs
  <1> QED BY <1>1, <1>4, OutIs DEF CarriageReturn

\* After a line feed the cursor stays or goes to the first column.
LEMMA StepLineFeed ==
    ASSUME TermInv, LineFeed \/ NextLine
    PROVE  TermInv'
  <1>1. PICK d : d = LineDown(term)
    OBVIOUS
  <1>2. Term(d, scene)
    BY <1>1, Now, WentDown
  <1>3. Term([d EXCEPT !.wn = FALSE], scene)
    BY <1>2, Settled
  <1>4. Term([d EXCEPT !.x = 0, !.wn = FALSE], scene)
    <2>1. PICK u : u = [d EXCEPT !.x = 0, !.wn = FALSE]
      OBVIOUS
    <2>2. Besides(d, u) /\ u.x = 0 /\ u.y = d.y /\ u.mt = d.mt /\ u.mb = d.mb /\ u.tabs = d.tabs
      BY <2>1, <1>2 DEF Besides, Term, Shaped
    <2>3. OnScreen(d, u) /\ u.tabs \subseteq 0 .. d.cols - 1
      <3>1. /\ d.cols \in Nat \ {0} /\ d.y \in 0 .. d.rows - 1
            /\ d.mt \in 0 .. d.mb /\ d.mb \in 0 .. d.rows - 1
        BY <1>2, Now, Numbers
      <3>2. d.tabs \subseteq 0 .. d.cols - 1
        BY <1>2 DEF Term, Pointed
      <3> QED BY <2>2, <3>1, <3>2 DEF OnScreen
    <2> QED BY <1>2, <2>1, <2>2, <2>3, Sited
  <1>5. CASE LineFeed
    <2>1. Out("lines", Seen([d EXCEPT !.wn = FALSE]))
      BY <1>1, <1>5 DEF LineFeed
    <2> QED BY <1>3, <2>1, SeenIs, OutIs
  <1>6. CASE NextLine
    <2>1. Out("lines", Seen([d EXCEPT !.x = 0, !.wn = FALSE]))
      BY <1>1, <1>6 DEF NextLine
    <2> QED BY <1>4, <2>1, SeenIs, OutIs
  <1> QED BY <1>5, <1>6

LEMMA StepReverseIndex ==
    ASSUME TermInv, ReverseIndex
    PROVE  TermInv'
  <1>1. PICK u : u = IF term.y = term.mt THEN Scroll(term, term.mt, term.mb, -1, TRUE)
                     ELSE IF term.y > 0 THEN [term EXCEPT !.y = @ - 1] ELSE term
    OBVIOUS
  <1>2. Term(u, scene)
    <2>1. CASE term.y = term.mt
      <3>1. PICK a, b, n, sb : a = term.mt /\ b = term.mb /\ n = -1 /\ sb = TRUE
        OBVIOUS
      <3>2. a \in 0 .. term.rows - 1 /\ b \in 0 .. term.rows - 1 /\ n \in Int
        BY <3>1, Now
      <3>3. u = Scroll(term, a, b, n, sb)
        BY <1>1, <2>1, <3>1
      <3> QED BY <3>2, <3>3, Now, Scrolled
    <2>2. CASE term.y # term.mt /\ term.y > 0
      <3>1. u = [term EXCEPT !.y = term.y - 1]
        BY <1>1, <2>2
      <3>2. Besides(term, u) /\ u.x = term.x /\ u.y = term.y - 1 /\ u.mt = term.mt /\ u.mb = term.mb
            /\ u.tabs = term.tabs
        BY <3>1, Now DEF Besides, Term, Shaped
      <3>3. OnScreen(term, u)
        BY <2>2, <3>2, Now DEF OnScreen
      <3> QED BY <3>2, <3>3, Now, Sited
    <2>3. CASE term.y # term.mt /\ ~(term.y > 0)
      BY <1>1, <2>3, Now
    <2> QED BY <2>1, <2>2, <2>3
  <1>3. Term(Seen([u EXCEPT !.wn = FALSE]), scene)
    BY <1>2, Settled, SeenIs
  <1>4. Out("lines", Seen([u EXCEPT !.wn = FALSE]))
    BY <1>1 DEF ReverseIndex
  <1> QED BY <1>3, <1>4, OutIs

LEMMA StepBackspace ==
    ASSUME TermInv, Backspace
    PROVE  TermInv'
  <1>1. PICK u : u = IF term.x = 0 /\ (term.y = 0 \/ ~term.wrap) THEN term
                     ELSE IF term.x = 0 THEN [term EXCEPT !.x = term.cols - 1, !.y = @ - 1]
                     ELSE IF term.wn THEN [term EXCEPT !.wn = FALSE]
                     ELSE [term EXCEPT !.x = @ - 1]
    OBVIOUS
  <1>2. Besides(term, u) /\ u.mt = term.mt /\ u.mb = term.mb /\ u.tabs = term.tabs
    BY <1>1, Now DEF Besides, Term, Shaped
  <1>3. \/ u.x = term.x /\ u.y = term.y
        \/ term.x = 0 /\ term.y # 0 /\ u.x = term.cols - 1 /\ u.y = term.y - 1
        \/ term.x # 0 /\ u.x = term.x - 1 /\ u.y = term.y
    BY <1>1, Now DEF Term, Shaped
  <1>4. OnScreen(term, u)
    BY <1>2, <1>3, Now DEF OnScreen
  <1>5. Term(Seen(u), scene)
    BY <1>2, <1>4, Now, Sited, SeenIs
  <1>6. Out("move", Seen(u))
    BY <1>1 DEF Backspace
  <1> QED BY <1>5, <1>6, OutIs

LEMMA StepMove ==
    ASSUME TermInv, MoveBy \/ MoveTo
    PROVE  TermInv'
  <1>1. ASSUME NEW x \in Int, NEW y \in Int, NEW clip, Out("move", Seen(Move(term, x, y, clip)))
        PROVE  TermInv'
    <2>1. Term(Seen(Move(term, x, y, clip)), scene)
      BY Now, Moved, SeenIs
    <2> QED BY <1>1, <2>1, OutIs
  <1>2. CASE MoveBy
    <2>1. PICK d \in {At(0, 1), At(0, -1), At(1, 0), At(-1, 0)} :
              Out("move", Seen(Move(term, term.x + d.x, term.y + d.y, 1)))
      BY <1>2 DEF MoveBy
    <2>2. d.x \in Int /\ d.y \in Int
      BY DEF At
    <2>3. term.x + d.x \in Int /\ term.y + d.y \in Int
      BY <2>2, Now
    <2> QED BY <2>1, <2>3, <1>1
  <1>3. CASE MoveTo
    <2>1. PICK y \in 0 .. (term.rows - 1), x \in {0, term.cols - 1} :
              Out("move", Seen(Move(term, x, (IF term.om THEN term.mt ELSE 0) + y,
                                    IF term.om THEN 2 ELSE 0)))
      BY <1>3 DEF MoveTo
    <2>2. PICK z, clip : z = (IF term.om THEN term.mt ELSE 0) + y /\ clip = IF term.om THEN 2 ELSE 0
      OBVIOUS
    <2>3. x \in Int /\ z \in Int
      BY <2>2, Now
    <2> QED BY <2>1, <2>2, <2>3, <1>1
  <1> QED BY <1>2, <1>3

\* On a line of double size there is a column to go to: such lines are made
\* where windows are not of one column.
LEMMA StepTab ==
    ASSUME TermInv, Tab
    PROVE  TermInv'
  <1> DEFINE stops == {i \in (term.x + 1) .. (term.cols - 1) : i \in term.tabs \/ i = term.cols - 1}
             next == IF stops = {} THEN term.cols - 1
                     ELSE CHOOSE i \in stops : \A k \in stops : i <= k
  <1>0. PICK n : n = next
    OBVIOUS
  <1>1. PICK x : x = IF LineAt(term, term.y).d THEN Least(n, term.cols \div 2 - 1) ELSE n
    OBVIOUS
  <1>2. Out("tabs", Seen(CheckSelection([term EXCEPT !.x = x], Cursor(term), At(x, term.y))))
    BY <1>0, <1>1 DEF Tab
  <1>3. n \in 0 .. term.cols - 1
    <2>1. stops \subseteq 0 .. term.cols - 1
      BY Now
    <2>2. CASE stops = {}
      BY <1>0, <2>2, Now
    <2>3. CASE stops # {}
      <3>1. stops \subseteq Nat
        BY <2>1
      <3> HIDE DEF stops
      <3>2. \E i \in stops : \A k \in stops : i <= k
        BY <2>3, <3>1, LeastElement
      <3>3. (CHOOSE i \in stops : \A k \in stops : i <= k) \in stops
        BY <3>2
      <3> QED BY <1>0, <2>1, <2>3, <3>3
    <2> QED BY <2>2, <2>3
  <1> HIDE DEF next
  <1>4. "tabs" \in scene.groups => x \in 0 .. term.cols - 1
    <2>1. CASE LineAt(term, term.y).d
      <3>1. PICK l, y : l = LineAt(term, y) /\ y = term.y
        OBVIOUS
      <3>2. l \in Lines(scene)
        BY <3>1, Now, LineOf
      <3>3. "cells" \in scene.groups
        BY <2>1, <3>1, <3>2, LineIs
      <3>4. "tabs" \in scene.groups => term.cols # 1
        BY <3>3, Now, Scenario DEF Term
      <3>5. PICK h : h = term.cols \div 2 - 1
        OBVIOUS
      <3>6. term.cols # 1 => h \in Nat
        BY <3>5, Now
      <3>7. x = Least(n, h)
        BY <1>1, <2>1, <3>5
      <3> QED BY <1>3, <3>4, <3>6, <3>7, Now DEF Least
    <2>2. CASE ~LineAt(term, term.y).d
      BY <1>1, <1>3, <2>2
    <2> QED BY <2>1, <2>2
  <1>5. PICK from, to, u : from = Cursor(term) /\ to = At(x, term.y) /\ u = [term EXCEPT !.x = x]
    OBVIOUS
  <1>6. ASSUME "tabs" \in scene.groups PROVE Term(Seen(CheckSelection(u, from, to)), scene)
    <2>1. Term(u, scene)
      BY <1>4, <1>5, <1>6, Now, AtColumn
    <2>2. Term(CheckSelection(u, from, to), scene)
      BY <2>1, SelectionChecked
    <2> QED BY <2>2, SeenIs
  <1>7. Out("tabs", Seen(CheckSelection(u, from, to)))
    BY <1>2, <1>5
  <1> QED BY <1>6, <1>7, OutIs

LEMMA StepBackTab ==
    ASSUME TermInv, BackTab
    PROVE  TermInv'
  <1> DEFINE stops == {i \in 0 .. (term.x - 1) : i \in term.tabs \/ i = 0}
  <1>1. PICK x : x = IF stops = {} THEN term.x ELSE CHOOSE i \in stops : \A k \in stops : k <= i
    OBVIOUS
  <1>2. Out("backtab", CheckSelection([term EXCEPT !.x = x], Cursor(term), At(x, term.y)))
    BY <1>1 DEF BackTab
  <1>3. x \in 0 .. term.cols - 1
    <2>1. stops \subseteq 0 .. term.x - 1 /\ term.x \in Nat
      BY Now
    <2>2. CASE stops = {}
      BY <1>1, <2>2, Now
    <2>3. CASE stops # {}
      <3> DEFINE T == {term.x - i : i \in stops}
      <3>1. T \subseteq Nat /\ T # {}
        BY <2>1, <2>3
      <3>2. PICK m \in T : \A k \in T : m <= k
        <4> HIDE DEF T
        <4> QED BY <3>1, LeastElement
      <3>3. PICK i \in stops : m = term.x - i
        BY <3>2
      <3>4. \A k \in stops : k <= i
        <4> SUFFICES ASSUME NEW k \in stops PROVE k <= i
          OBVIOUS
        <4>1. term.x - k \in T
          OBVIOUS
        <4>2. m <= term.x - k
          BY <3>2, <4>1
        <4> HIDE DEF stops
        <4> QED BY <2>1, <3>3, <4>2
      <3> HIDE DEF stops
      <3>5. (CHOOSE e \in stops : \A k \in stops : k <= e) \in stops
        BY <3>3, <3>4
      <3>6. x \in stops
        BY <1>1, <2>3, <3>5
      <3> QED BY <2>1, <3>6, Now
    <2> QED BY <2>2, <2>3
  <1>4. PICK from, to, u : from = Cursor(term) /\ to = At(x, term.y) /\ u = [term EXCEPT !.x = x]
    OBVIOUS
  <1>5. Term(u, scene)
    BY <1>3, <1>4, Now, AtColumn
  <1>6. Term(CheckSelection(u, from, to), scene)
    BY <1>5, SelectionChecked
  <1>7. Out("backtab", CheckSelection(u, from, to))
    BY <1>2, <1>4
  <1> QED BY <1>6, <1>7, OutIs

LEMMA StepTabs ==
    ASSUME TermInv, SetTab \/ ClearTab \/ ClearTabs
    PROVE  TermInv'
  <1>1. PICK tabs : /\ Out("tabs", [term EXCEPT !.tabs = tabs])
                    /\ tabs \in {term.tabs \cup {term.x}, term.tabs \ {term.x}, {}}
    BY DEF SetTab, ClearTab, ClearTabs
  <1>2. tabs \subseteq 0 .. term.cols - 1
    BY <1>1, Now
  <1>3. PICK u : u = [term EXCEPT !.tabs = tabs]
    OBVIOUS
  <1>4. Besides(term, u) /\ u.x = term.x /\ u.y = term.y /\ u.mt = term.mt /\ u.mb = term.mb /\ u.tabs = tabs
    BY <1>3, Now DEF Besides, Term, Shaped
  <1>5. OnScreen(term, u)
    BY <1>4, Now DEF OnScreen
  <1>6. Term(u, scene)
    BY <1>2, <1>4, <1>5, Now, Sited
  <1> QED BY <1>1, <1>3, <1>6, OutIs

LEMMA StepMargins ==
    ASSUME TermInv, SetMargins
    PROVE  TermInv'
  <1>1. PICK top \in 0 .. (term.rows - 1), bot \in 0 .. (term.rows - 1) :
            /\ bot > top
            /\ Out("margins", Seen([term EXCEPT !.mt = top, !.mb = bot, !.x = 0,
                                                !.y = IF term.om THEN top ELSE 0]))
    BY DEF SetMargins
  <1>2. PICK u : u = [term EXCEPT !.mt = top, !.mb = bot, !.x = 0, !.y = IF term.om THEN top ELSE 0]
    OBVIOUS
  <1>3. Besides(term, u) /\ u.x = 0 /\ (u.y = top \/ u.y = 0) /\ u.mt = top /\ u.mb = bot /\ u.tabs = term.tabs
    BY <1>2, Now DEF Besides, Term, Shaped
  <1>4. OnScreen(term, u)
    BY <1>1, <1>3, Now DEF OnScreen
  <1>5. Term(Seen(u), scene)
    BY <1>3, <1>4, Now, Sited, SeenIs
  <1> QED BY <1>1, <1>2, <1>5, OutIs

LEMMA StepRegion ==
    ASSUME TermInv, InsertLines \/ DeleteLines \/ ScrollRegion
    PROVE  TermInv'
  <1>1. ASSUME NEW top \in 0 .. term.rows - 1, NEW n \in Int, NEW sb
        PROVE  /\ Term(Seen(Scroll(term, top, term.mb, n, sb)), scene)
               /\ Term(Seen([Scroll(term, top, term.mb, n, sb) EXCEPT !.wn = FALSE]), scene)
    <2>1. PICK bot, u : bot = term.mb /\ u = Scroll(term, top, bot, n, sb)
      OBVIOUS
    <2>2. bot \in 0 .. term.rows - 1
      BY <2>1, Now
    <2>3. Term(u, scene)
      BY <2>1, <2>2, Now, Scrolled
    <2>4. Term([u EXCEPT !.wn = FALSE], scene)
      BY <2>3, Settled
    <2> QED BY <2>1, <2>3, <2>4, SeenIs
  <1>2. CASE InsertLines
    <2>1. Out("region", Seen(Scroll(term, term.y, term.mb, -1, FALSE)))
      BY <1>2 DEF InsertLines
    <2>2. PICK top, n, sb : top = term.y /\ n = -1 /\ sb = FALSE
      OBVIOUS
    <2>3. top \in 0 .. term.rows - 1 /\ n \in Int
      BY <2>2, Now
    <2> QED BY <1>1, <2>1, <2>2, <2>3, OutIs
  <1>3. CASE DeleteLines
    <2>1. PICK n \in {1, 2} : Out("region", Seen(Scroll(term, term.y, term.mb, n, TRUE)))
      BY <1>3 DEF DeleteLines
    <2>2. PICK top, sb : top = term.y /\ sb = TRUE
      OBVIOUS
    <2>3. top \in 0 .. term.rows - 1 /\ n \in Int
      BY <2>2, Now
    <2> QED BY <1>1, <2>1, <2>2, <2>3, OutIs
  <1>4. CASE ScrollRegion
    <2>1. PICK n \in {-1, 1} :
              Out("region", Seen([Scroll(term, term.mt, term.mb, n, TRUE) EXCEPT !.wn = FALSE]))
      BY <1>4 DEF ScrollRegion
    <2>2. PICK top, sb : top = term.mt /\ sb = TRUE
      OBVIOUS
    <2>3. top \in 0 .. term.rows - 1 /\ n \in Int
      BY <2>2, Now
    <2> QED BY <1>1, <2>1, <2>2, <2>3, OutIs
  <1> QED BY <1>2, <1>3, <1>4

LEMMA StepErase ==
    ASSUME TermInv, EraseDisplay \/ EraseLine \/ EraseBefore
    PROVE  TermInv'
  <1>1. ASSUME NEW line \in BOOLEAN, NEW begin \in BOOLEAN, NEW end \in BOOLEAN,
               "before" \in scene.groups \/ end
        PROVE  /\ Term(Seen(EraseLots(term, line, begin, end)), scene)
               /\ Term(Seen([EraseLots(term, line, begin, end) EXCEPT !.disp = 0]), scene)
    <2>1. PICK u : u = EraseLots(term, line, begin, end)
      OBVIOUS
    <2>2. Term(u, scene)
      BY <1>1, <2>1, Now, LotsErased
    <2>3. Term([u EXCEPT !.disp = 0], scene)
      BY <2>2, Settled
    <2> QED BY <2>1, <2>2, <2>3, SeenIs
  <1>2. CASE EraseDisplay
    <2>1. PICK k \in {<<FALSE, TRUE>>, <<TRUE, TRUE>>} :
              Out("erase", Seen([EraseLots(term, FALSE, k[1], k[2]) EXCEPT !.disp = 0]))
      BY <1>2 DEF EraseDisplay
    <2>2. k[1] \in BOOLEAN /\ k[2] \in BOOLEAN /\ k[2]
      <3>1. PICK f, g : f = FALSE /\ g = TRUE
        OBVIOUS
      <3>2. k = <<f, g>> \/ k = <<g, g>>
        BY <2>1, <3>1
      <3>3. (k[1] = f \/ k[1] = g) /\ k[2] = g
        BY <3>2
      <3> QED BY <3>1, <3>3
    <2>3. Term(Seen([EraseLots(term, FALSE, k[1], k[2]) EXCEPT !.disp = 0]), scene)
      BY <1>1, <2>2
    <2> QED BY <2>1, <2>3, OutIs
  <1>3. CASE EraseLine
    <2>1. PICK k \in {<<FALSE, TRUE>>, <<TRUE, TRUE>>} :
              Out("erase", Seen(EraseLots(term, TRUE, k[1], k[2])))
      BY <1>3 DEF EraseLine
    <2>2. k[1] \in BOOLEAN /\ k[2] \in BOOLEAN /\ k[2]
      <3>1. PICK f, g : f = FALSE /\ g = TRUE
        OBVIOUS
      <3>2. k = <<f, g>> \/ k = <<g, g>>
        BY <2>1, <3>1
      <3>3. (k[1] = f \/ k[1] = g) /\ k[2] = g
        BY <3>2
      <3> QED BY <3>1, <3>3
    <2>3. Term(Seen(EraseLots(term, TRUE, k[1], k[2])), scene)
      BY <1>1, <2>2
    <2> QED BY <2>1, <2>3, OutIs
  <1>4. CASE EraseBefore
    <2>1. PICK line \in BOOLEAN :
              Out("before", Seen(IF line THEN EraseLots(term, line, TRUE, FALSE)
                                 ELSE [EraseLots(term, line, TRUE, FALSE) EXCEPT !.disp = 0]))
      BY <1>4 DEF EraseBefore
    <2>2. PICK u : u = IF line THEN EraseLots(term, line, TRUE, FALSE)
                       ELSE [EraseLots(term, line, TRUE, FALSE) EXCEPT !.disp = 0]
      OBVIOUS
    <2>3. "before" \in scene.groups => Term(Seen(u), scene)
      BY <1>1, <2>2
    <2> QED BY <2>1, <2>2, <2>3, OutIs
  <1> QED BY <1>2, <1>3, <1>4

LEMMA StepCells ==
    ASSUME TermInv, DeleteChar \/ InsertBlanks \/ RemoveCells \/ EraseCell
    PROVE  TermInv'
  <1>1. CASE DeleteChar
    <2>1. "before" \in scene.groups => Term(Delete(term), scene)
      BY Now, Deleted
    <2> QED BY <1>1, <2>1, OutIs DEF DeleteChar
  <1>2. ASSUME NEW n \in Int, Out("cells", Seen(InsertCells(term, n))) PROVE TermInv'
    <2>1. Term(Seen(InsertCells(term, n)), scene)
      BY Now, CellsInserted, SeenIs
    <2> QED BY <1>2, <2>1, OutIs
  <1>3. CASE InsertBlanks
    <2>1. PICK n \in {1, 2} : Out("cells", Seen(InsertCells(term, n)))
      BY <1>3 DEF InsertBlanks
    <2> QED BY <1>2, <2>1
  <1>4. CASE RemoveCells
    <2>1. PICK n \in {1, 2} : Out("cells", Seen(InsertCells(term, -n)))
      BY <1>4 DEF RemoveCells
    <2>2. PICK m \in Int : m = -n
      OBVIOUS
    <2> QED BY <1>2, <2>1, <2>2
  <1>5. CASE EraseCell
    <2>1. PICK n \in {1, 2} : Out("cells", Seen(EraseChars(term, n)))
      BY <1>5 DEF EraseCell
    <2>2. n \in Nat
      OBVIOUS
    <2>3. Term(Seen(EraseChars(term, n)), scene)
      BY <2>2, Now, CharsErased, SeenIs
    <2> QED BY <2>1, <2>3, OutIs
  <1> QED BY <1>1, <1>3, <1>4, <1>5

LEMMA StepFillScreen ==
    ASSUME TermInv, FillScreen
    PROVE  TermInv'
  <1>1. PICK c, full, p :
            /\ c = [j \in 1 .. term.cols |-> "a"]
            /\ full = [c |-> c, w |-> {}, d |-> FALSE]
            /\ p = [i \in 1 .. term.rows |-> full]
    OBVIOUS
  <1>2. full \in Lines(scene)
    <2>1. c \in [1 .. term.cols -> Alphabet(scene)] /\ \A j \in 1 .. term.cols : c[j] # "R"
      BY <1>1 DEF Alphabet
    <2>2. c \in Texts(scene)
      BY <2>1, Now, TextMade
    <2>3. {} \in SUBSET {1, 2} /\ FALSE \in BOOLEAN
      OBVIOUS
    <2> QED BY <1>1, <2>2 DEF Lines
  <1>3. p \in Pages(scene, term.rows)
    <2>1. p \in [1 .. term.rows -> Lines(scene)] /\ term.rows \in Nat
      BY <1>1, <1>2, Now
    <2> QED BY <2>1, Made DEF Pages
  <1>4. PICK a : a = [term EXCEPT !.screen = p]
    OBVIOUS
  <1>5. Term(a, scene)
    BY <1>3, <1>4, Now, Redrawn
  <1>6. PICK b, v : b = [a EXCEPT !.disp = v] /\ v = 0
    OBVIOUS
  <1>7. Term(b, scene)
    BY <1>5, <1>6, Settled
  <1>8. AllFilled(term) = b
    <2>1. [BlankLine(term.cols) EXCEPT !.c = c] = full
      <3>1. PICK e, w, d : e = [i \in 1 .. term.cols |-> "blank"] /\ w = {} /\ d = FALSE
        OBVIOUS
      <3>2. BlankLine(term.cols) = [c |-> e, w |-> w, d |-> d]
        BY <3>1 DEF BlankLine
      <3>3. full = [c |-> c, w |-> w, d |-> d]
        BY <1>1, <3>1
      <3>4. [[c |-> e, w |-> w, d |-> d] EXCEPT !.c = c] = [c |-> c, w |-> w, d |-> d]
        OBVIOUS
      <3> QED BY <3>2, <3>3, <3>4
    <2>2. AllFilled(term) = [term EXCEPT !.screen = p, !.disp = 0]
      BY <1>1, <2>1 DEF AllFilled
    <2> QED BY <1>4, <1>6, <2>2
  <1>9. ASSUME NEW from, NEW to PROVE Term(Seen(CheckSelection(b, from, to)), scene)
    BY <1>7, SelectionChecked, SeenIs
  <1>10. Out("cells", Seen(CheckSelection(b, None, At(0, term.rows))))
    BY <1>8 DEF FillScreen
  <1> QED BY <1>9, <1>10, OutIs

LEMMA StepDoubleSize ==
    ASSUME TermInv, DoubleSize
    PROVE  TermInv'
  <1>1. PICK d \in BOOLEAN : Out("cells", WithLine(term, term.y, [LineAt(term, term.y) EXCEPT !.d = d]))
    BY DEF DoubleSize
  <1>2. PICK y, l, v : y = term.y /\ l = LineAt(term, term.y) /\ v = [l EXCEPT !.d = d]
    OBVIOUS
  <1>3. l \in Lines(scene) /\ y \in 0 .. term.rows - 1
    BY <1>2, Now, LineOf
  <1>4. ASSUME "cells" \in scene.groups PROVE Term(WithLine(term, y, v), scene)
    <2>1. v \in Lines(scene)
      BY <1>2, <1>3, <1>4 DEF Lines
    <2> QED BY <1>3, <2>1, Now, Drawn
  <1> QED BY <1>1, <1>2, <1>4, OutIs

LEMMA StepModes ==
    ASSUME TermInv, Save \/ Restore \/ InsertMode \/ WrapMode \/ OriginMode
    PROVE  TermInv'
  <1>1. CASE Save
    <2>1. Term(SaveCursor(term), scene)
      BY Now, Saved
    <2> QED BY <1>1, <2>1, OutIs DEF Save
  <1>2. CASE Restore
    <2>1. Term(Seen(RestoreCursor(term)), scene)
      BY Now, Restored, SeenIs
    <2> QED BY <1>2, <2>1, OutIs DEF Restore
  <1>3. CASE InsertMode
    <2>1. PICK b \in BOOLEAN : Out("modes", [term EXCEPT !.ins = b])
      BY <1>3 DEF InsertMode
    <2>2. Term([term EXCEPT !.ins = b], scene)
      BY Now, Settled
    <2> QED BY <2>1, <2>2, OutIs
  <1>4. CASE WrapMode
    <2>1. PICK b \in BOOLEAN : Out("modes", [term EXCEPT !.wrap = b])
      BY <1>4 DEF WrapMode
    <2>2. Term([term EXCEPT !.wrap = b], scene)
      BY Now, Settled
    <2> QED BY <2>1, <2>2, OutIs
  <1>5. CASE OriginMode
    <2>1. PICK b \in BOOLEAN : Out("margins", [term EXCEPT !.om = b])
      BY <1>5 DEF OriginMode
    <2>2. Term([term EXCEPT !.om = b], scene)
      BY Now, Settled
    <2> QED BY <2>1, <2>2, OutIs
  <1> QED BY <1>1, <1>2, <1>3, <1>4, <1>5

LEMMA StepColumnMode ==
    ASSUME TermInv, ColumnMode
    PROVE  TermInv'
  <1>1. PICK a : a = Deselect(term)
    OBVIOUS
  <1>2. Term(a, scene) /\ a.rows = term.rows /\ a.cols = term.cols
    BY <1>1, Now, Unselected DEF Alike, Kin
  <1>3. PICK b : b = [a EXCEPT !.mt = 0, !.mb = term.rows - 1, !.other.mt = 0, !.other.mb = term.rows - 1]
    OBVIOUS
  <1>4. Term(b, scene)
    <2>1. /\ DOMAIN b = DOMAIN a /\ b.rows = a.rows /\ b.cols = a.cols /\ b.savelines = a.savelines
          /\ b.which = a.which /\ b.screen = a.screen /\ b.alt = a.alt /\ b.sb = a.sb
          /\ b.temps = a.temps /\ b.altsb = a.altsb /\ b.save = a.save /\ b.sel = a.sel
          /\ b.tabs = a.tabs /\ b.x = a.x /\ b.y = a.y /\ b.mt = 0 /\ b.mb = term.rows - 1
          /\ b.other = [a.other EXCEPT !.mt = 0, !.mb = term.rows - 1]
      BY <1>2, <1>3 DEF Term, Shaped
    <2>2. /\ DOMAIN b.other = DOMAIN a.other /\ b.other.mt = 0 /\ b.other.mb = term.rows - 1
          /\ b.other.x = a.other.x /\ b.other.y = a.other.y
      BY <1>2, <2>1 DEF Term, Shaped
    <2>3. Shaped(b)
      BY <1>2, <2>1, <2>2 DEF Term, Shaped
    <2>4. Sized(b, scene) /\ Paged(b, scene)
      BY <1>2, <2>1 DEF Term, Sized, Paged
    <2>5. OnScreen(a, a) /\ OnScreen(a, a.other) /\ term.rows \in Nat \ {0}
      BY <1>2, Now DEF Term, Pointed
    <2>6. OnScreen(b, b) /\ OnScreen(b, b.other)
      BY <1>2, <2>1, <2>2, <2>5 DEF OnScreen
    <2>7. /\ b.save.x \in Nat /\ b.save.y \in Nat /\ b.tabs \subseteq 0 .. b.cols - 1
          /\ b.sel.state \in {"none", "about", "drag", "selected"}
      BY <1>2, <2>1 DEF Term, Pointed
    <2> QED BY <2>3, <2>4, <2>6, <2>7, Assembled
  <1>5. PICK c : c = Move(b, 0, 0, 0)
    OBVIOUS
  <1>6. Term(c, scene)
    BY <1>4, <1>5, Now, Moved
  <1>7. PICK d : d = EraseLots(c, FALSE, TRUE, TRUE)
    OBVIOUS
  <1>8. Term(d, scene)
    BY <1>6, <1>7, Now, LotsErased
  <1>9. Out("margins", d)
    BY <1>1, <1>3, <1>5, <1>7 DEF ColumnMode
  <1> QED BY <1>8, <1>9, OutIs

LEMMA StepAltScreen ==
    ASSUME TermInv, AltScreen
    PROVE  TermInv'
  <1>1. PICK on \in BOOLEAN, mode \in {47, 1047, 1049} :
            LET which == IF on /\ ~term.cfg.noalt THEN 1 ELSE 0
                move == mode = 1049 /\ ~term.cfg.noalt
                t1 == IF move /\ on THEN SaveCursor(term) ELSE term
                t2 == SwapScreen(Deselect(t1), which, mode # 47, mode = 1047)
                t3 == IF move /\ ~on THEN RestoreCursor(t2) ELSE t2
            IN  Out("alt", [t3 EXCEPT !.disp = 0, !.seen = @ \/ (mode = 1049 /\ ~on)])
    BY DEF AltScreen
  <1>2. PICK which, t1 : /\ which = IF on /\ ~term.cfg.noalt THEN 1 ELSE 0
                         /\ t1 = IF mode = 1049 /\ ~term.cfg.noalt /\ on THEN SaveCursor(term) ELSE term
    OBVIOUS
  <1>3. which \in {0, 1} /\ Term(t1, scene)
    BY <1>2, Now, Saved
  <1>4. PICK d : d = Deselect(t1)
    OBVIOUS
  <1>5. Term(d, scene)
    BY <1>3, <1>4, Unselected
  <1>6. PICK t2 : t2 = SwapScreen(d, which, mode # 47, mode = 1047)
    OBVIOUS
  <1>7. Term(t2, scene)
    <2>1. ASSUME NEW reset, NEW keepPos PROVE Term(SwapScreen(d, which, reset, keepPos), scene)
      BY <1>3, <1>5, Now, ScreenSwapped
    <2> QED BY <1>6, <2>1
  <1>8. PICK t3 : t3 = IF mode = 1049 /\ ~term.cfg.noalt /\ ~on THEN RestoreCursor(t2) ELSE t2
    OBVIOUS
  <1>9. Term(t3, scene)
    BY <1>7, <1>8, Now, Restored
  <1>10. PICK u : u = [t3 EXCEPT !.disp = 0, !.seen = @ \/ (mode = 1049 /\ ~on)]
    OBVIOUS
  <1>11. Term(u, scene)
    <2>1. /\ Besides(t3, u) /\ u.x = t3.x /\ u.y = t3.y /\ u.mt = t3.mt /\ u.mb = t3.mb
          /\ u.tabs = t3.tabs
      BY <1>9, <1>10 DEF Besides, Term, Shaped
    <2>2. OnScreen(t3, u) /\ u.tabs \subseteq 0 .. t3.cols - 1
      BY <1>9, <2>1 DEF Term, Pointed, OnScreen
    <2> QED BY <1>9, <2>1, <2>2, Sited
  <1>12. Out("alt", u)
    BY <1>1, <1>2, <1>4, <1>6, <1>8, <1>10
  <1> QED BY <1>11, <1>12, OutIs

LEMMA StepReset ==
    ASSUME TermInv, ResetByServer \/ ResetByUser
    PROVE  TermInv'
  <1>1. PICK u, v : u = [PowerOn(term) EXCEPT !.disp = v] /\ v = 0
    OBVIOUS
  <1>2. Term(u, scene)
    BY <1>1, Now, PoweredOn, Settled
  <1>3. CASE ResetByServer
    <2>1. Out("reset", Seen(u))
      BY <1>1, <1>3 DEF ResetByServer
    <2> QED BY <1>2, <2>1, SeenIs, OutIs
  <1>4. CASE ResetByUser
    <2>1. User("reset", Update(Deselect(u)))
      BY <1>1, <1>4 DEF ResetByUser
    <2>2. Term(Update(Deselect(u)), scene)
      BY <1>2, Now, Unselected, Updated
    <2> QED BY <2>1, <2>2, UserIs
  <1> QED BY <1>3, <1>4

LEMMA StepView ==
    ASSUME TermInv, Refresh \/ KeyPressed \/ ScrollBar
    PROVE  TermInv'
  <1>1. CASE Refresh
    <2>1. Term(Update(term), scene)
      BY Now, Updated
    <2> QED BY <1>1, <2>1, UserIs DEF Refresh
  <1>2. CASE KeyPressed
    <2>1. PICK a, v : a = [term EXCEPT !.disp = v] /\ v = 0
      OBVIOUS
    <2>2. Term(a, scene)
      BY <2>1, Now, Settled
    <2>3. PICK b, f : b = [a EXCEPT !.seen = f] /\ f = TRUE
      OBVIOUS
    <2>4. Term(b, scene)
      BY <2>2, <2>3, Settled
    <2>5. User("view", b)
      BY <1>2, <2>1, <2>3 DEF KeyPressed
    <2> QED BY <2>4, <2>5, UserIs
  <1>3. CASE ScrollBar
    <2>1. PICK rel \in {-1, 0, 1}, where \in {-1, 0, 1} : User("view", ScrollView(term, rel, where))
      BY <1>3 DEF ScrollBar
    <2>2. Term(ScrollView(term, rel, where), scene)
      BY Now, ViewScrolled
    <2> QED BY <2>1, <2>2, UserIs
  <1> QED BY <1>1, <1>2, <1>3

LEMMA StepClearScrollback ==
    ASSUME TermInv, ClearScrollback
    PROVE  TermInv'
  <1>1. PICK u : u = [term EXCEPT !.sb = <<>>, !.temps = 0, !.altsb = 0, !.disp = 0]
    OBVIOUS
  <1>2. /\ Shaped(u) /\ u.rows = term.rows /\ u.cols = term.cols /\ u.savelines = term.savelines
        /\ u.which = term.which /\ u.screen = term.screen /\ u.alt = term.alt /\ u.sb = <<>>
        /\ u.temps = 0 /\ u.altsb = 0
        /\ u.other = term.other /\ u.save = term.save /\ u.tabs = term.tabs /\ u.sel = term.sel
        /\ u.x = term.x /\ u.y = term.y /\ u.mt = term.mt /\ u.mb = term.mb
    BY <1>1, Now DEF Term, Shaped
  <1>3. <<>> \in Seq(Lines(scene)) /\ Len(<<>>) = 0
    OBVIOUS
  <1>4. term.savelines \in Nat /\ term.rows \in Nat
    BY Now, Numbers
  <1>5. Paged(u, scene)
    BY <1>2, <1>3, <1>4, Now DEF Term, Paged
  <1>6. Sized(u, scene) /\ Pointed(u)
    BY <1>2, Now DEF Term, Sized, Pointed, OnScreen
  <1>7. Term(u, scene)
    BY <1>2, <1>5, <1>6 DEF Term
  <1>8. User("clear", u)
    BY <1>1 DEF ClearScrollback
  <1> QED BY <1>7, <1>8, UserIs

LEMMA StepNewSize ==
    ASSUME TermInv, NewSize
    PROVE  TermInv'
  <1>1. PICK r \in scene.heights, c \in scene.widths, l \in scene.limits :
            User("size", Update(Resize(term, r, c, l)))
    BY DEF NewSize
  <1>2. Term(Resize(term, r, c, l), scene)
    BY Now, SizedAnew
  <1>3. Term(Update(Resize(term, r, c, l)), scene)
    BY <1>2, Now, Updated
  <1> QED BY <1>1, <1>3, UserIs

LEMMA StepReconfigure ==
    ASSUME TermInv, Reconfigure
    PROVE  TermInv'
  <1>1. PICK cfg \in scene.configs :
            LET t == [term EXCEPT !.cfg = cfg]
            IN  User("config", IF cfg.noalt THEN SwapScreen(t, 0, FALSE, FALSE) ELSE t)
    BY DEF Reconfigure
  <1>2. PICK t : t = [term EXCEPT !.cfg = cfg]
    OBVIOUS
  <1>3. Term(t, scene)
    BY <1>2, Now, Settled
  <1>4. PICK w, f, u : w = 0 /\ f = FALSE /\ u = SwapScreen(t, w, f, f)
    OBVIOUS
  <1>5. Term(u, scene)
    <2>1. w \in {0, 1}
      BY <1>4
    <2> QED BY <1>3, <1>4, <2>1, Now, ScreenSwapped
  <1>6. User("config", IF cfg.noalt THEN u ELSE t)
    BY <1>1, <1>2, <1>4
  <1>7. Term(IF cfg.noalt THEN u ELSE t, scene)
    BY <1>3, <1>5
  <1> QED BY <1>6, <1>7, UserIs

LEMMA StepMouse ==
    ASSUME TermInv, MousePress \/ MouseDrag \/ DragOff \/ MouseRelease
    PROVE  TermInv'
  <1>0. \A t : Term(t, scene) => Term(Update(t), scene)
    BY Now, Updated
  <1>1. CASE MousePress
    <2>1. PICK p \in Places :
              \/ User("mouse", Update(Click(term, p)))
              \/ \E mode \in {"word", "line"} : User("mouse", Update(MultiClick(term, p, mode)))
      BY <1>1 DEF MousePress
    <2>2. CASE User("mouse", Update(Click(term, p)))
      <3>1. Term(Update(Click(term, p)), scene)
        BY <1>0, Now, Clicked
      <3> QED BY <2>2, <3>1, UserIs
    <2>3. ASSUME NEW mode \in {"word", "line"}, User("mouse", Update(MultiClick(term, p, mode)))
          PROVE  TermInv'
      <3>1. Term(Update(MultiClick(term, p, mode)), scene)
        BY <1>0, Now, Clicked
      <3> QED BY <2>3, <3>1, UserIs
    <2> QED BY <2>1, <2>2, <2>3
  <1>2. CASE MouseDrag
    <2>1. PICK p \in Places, extend \in BOOLEAN : User("mouse", Update(Drag(term, p, extend)))
      BY <1>2 DEF MouseDrag
    <2>2. Term(Drag(term, p, extend), scene)
      BY Now, Dragged
    <2> QED BY <1>0, <2>1, <2>2, UserIs
  <1>3. CASE DragOff
    <2>1. PICK dir \in {-1, 1} :
              LET t == ScrollView(term, 0, dir)
                  y == IF dir = -1 THEN t.disp ELSE t.disp + t.rows - 1
              IN  User("mouse", Update(Drag(t, At(0, y), FALSE)))
      BY <1>3 DEF DragOff
    <2>2. PICK t : t = ScrollView(term, 0, dir)
      OBVIOUS
    <2>3. Term(t, scene)
      BY <2>2, Now, ViewScrolled
    <2>4. PICK p, f : User("mouse", Update(Drag(t, p, f)))
      BY <2>1, <2>2
    <2>5. Term(Drag(t, p, f), scene)
      BY <2>3, Now, Dragged
    <2> QED BY <1>0, <2>4, <2>5, UserIs
  <1>4. CASE MouseRelease
    <2>1. Do("mouse", Update(Release(term)))
      BY <1>4 DEF MouseRelease
    <2>2. Term(Update(Release(term)), scene)
      BY <1>0, Now, Released
    <2> QED BY <2>1, <2>2, DoneIs
  <1> QED BY <1>1, <1>2, <1>3, <1>4

-----------------------------------------------------------------------------
(* The invariant holds                                                       *)

LEMMA FreshIs ==
    ASSUME NEW s \in Scenarios, NEW r \in s.heights, NEW c \in s.widths, NEW l \in s.limits,
           NEW cfg, NEW mode
    PROVE  Term(Fresh(r, c, l, cfg, mode), s)
  <1>1. PICK u : u = Fresh(r, c, l, cfg, mode)
    OBVIOUS
  <1>2. r \in Nat \ {0} /\ c \in Nat \ {0} /\ l \in Nat
    BY TerminalAssumption
  <1>3. PICK p, other, save, tabs, sel :
            /\ p = [i \in 1 .. r |-> BlankLine(c)]
            /\ other = [Kept EXCEPT !.mb = r - 1]
            /\ save = [x |-> 0, y |-> 0, wn |-> FALSE]
            /\ tabs = {i \in 0 .. (c - 1) : i % 8 = 0}
            /\ sel = [state |-> "none", from |-> None, to |-> None, anchor |-> None, mode |-> mode]
    OBVIOUS
  <1>4. p \in Pages(s, r)
    <2>1. p \in [1 .. r -> Lines(s)] /\ r \in Nat
      BY <1>2, <1>3, Blanks
    <2> QED BY <2>1, Made DEF Pages
  <1>5. /\ u.rows = r /\ u.cols = c /\ u.savelines = l /\ u.which = 0 /\ u.screen = p /\ u.alt = p
        /\ u.sb = <<>> /\ u.temps = 0 /\ u.altsb = 0
        /\ u.x = 0 /\ u.y = 0 /\ u.mt = 0 /\ u.mb = r - 1
        /\ u.other = other /\ u.save = save /\ u.tabs = tabs /\ u.sel = sel
    BY <1>1, <1>3 DEF Fresh
  <1>6. DOMAIN u = {"rows", "cols", "savelines", "cfg", "screen", "alt", "sb", "temps", "altsb",
                    "disp", "which", "seen", "x", "y", "mt", "mb", "om", "wrap", "wn", "ins",
                    "other", "save", "tabs", "sel"}
    BY <1>1 DEF Fresh
  <1>7. /\ DOMAIN other = {"x", "y", "mt", "mb", "om", "wrap", "wn", "ins"}
        /\ other.x = 0 /\ other.y = 0 /\ other.mt = 0 /\ other.mb = r - 1
    BY <1>3 DEF Kept
  <1>8. /\ DOMAIN save = {"x", "y", "wn"} /\ save.x = 0 /\ save.y = 0
        /\ DOMAIN sel = {"state", "from", "to", "anchor", "mode"} /\ sel.state = "none"
    BY <1>3
  <1>9. Shaped(u)
    BY <1>5, <1>6, <1>7, <1>8 DEF Shaped
  <1>10. Sized(u, s)
    BY <1>5 DEF Sized
  <1>11. Paged(u, s)
    <2>1. <<>> \in Seq(Lines(s)) /\ Len(<<>>) = 0
      OBVIOUS
    <2> QED BY <1>2, <1>4, <1>5, <2>1 DEF Paged
  <1>12. OnScreen(u, u) /\ OnScreen(u, u.other)
    BY <1>2, <1>5, <1>7 DEF OnScreen
  <1>13. /\ u.save.x \in Nat /\ u.save.y \in Nat /\ u.tabs \subseteq 0 .. u.cols - 1
         /\ u.sel.state \in {"none", "about", "drag", "selected"}
    BY <1>3, <1>5, <1>8
  <1>14. Term(u, s)
    BY <1>9, <1>10, <1>11, <1>12, <1>13, Assembled
  <1> QED BY <1>1, <1>14

LEMMA InitIs ==
    ASSUME Init
    PROVE  TermInv
  <1>1. scene \in Scenarios /\ steps = 0
    BY DEF Init
  <1>2. PICK r \in scene.heights, c \in scene.widths, l \in scene.limits, cfg \in scene.configs,
             mode \in IF "mouse" \in scene.groups THEN {"char", "word", "line", "unset"} ELSE {"unset"} :
                 term = Fresh(r, c, l, cfg, mode)
    BY DEF Init
  <1>3. Term(term, scene)
    BY <1>1, <1>2, FreshIs
  <1>4. scene.length \in Nat
    BY <1>1, TerminalAssumption
  <1> QED BY <1>1, <1>3, <1>4 DEF TermInv

LEMMA StepIs ==
    ASSUME TermInv, [Next]_vars
    PROVE  TermInv'
  <1>1. CASE UNCHANGED vars
    BY <1>1 DEF vars, TermInv, Term
  <1>2. CASE \/ ShowChar \/ CarriageReturn \/ LineFeed \/ NextLine \/ ReverseIndex
             \/ Backspace \/ MoveBy \/ MoveTo
    BY <1>2, StepShowChar, StepCarriageReturn, StepLineFeed, StepReverseIndex, StepBackspace, StepMove
  <1>3. CASE \/ Tab \/ BackTab \/ SetTab \/ ClearTab \/ ClearTabs
             \/ SetMargins \/ InsertLines \/ DeleteLines \/ ScrollRegion
    BY <1>3, StepTab, StepBackTab, StepTabs, StepMargins, StepRegion
  <1>4. CASE \/ EraseDisplay \/ EraseLine \/ EraseBefore \/ DeleteChar
             \/ InsertBlanks \/ RemoveCells \/ EraseCell \/ FillScreen \/ DoubleSize
    BY <1>4, StepErase, StepCells, StepFillScreen, StepDoubleSize
  <1>5. CASE \/ Save \/ Restore \/ InsertMode \/ WrapMode \/ OriginMode \/ ColumnMode
             \/ AltScreen \/ ResetByServer \/ ResetByUser
    BY <1>5, StepModes, StepColumnMode, StepAltScreen, StepReset
  <1>6. CASE \/ Refresh \/ KeyPressed \/ ScrollBar \/ ClearScrollback \/ NewSize \/ Reconfigure
             \/ MousePress \/ MouseDrag \/ DragOff \/ MouseRelease
    BY <1>6, StepView, StepClearScrollback, StepNewSize, StepReconfigure, StepMouse
  <1> QED BY <1>1, <1>2, <1>3, <1>4, <1>5, <1>6 DEF Next

LEMMA TermInvHolds == Spec => []TermInv
  <1>1. Init => TermInv
    BY InitIs
  <1>2. TermInv /\ [Next]_vars => TermInv'
    BY StepIs
  <1> QED BY <1>1, <1>2, PTL DEF Spec

-----------------------------------------------------------------------------
(* The theorems                                                              *)

\* A page's lines.
LEMMA PageLine ==
    ASSUME NEW s, NEW n \in Nat, NEW p \in Pages(s, n), NEW i \in 1 .. n
    PROVE  p[i] \in Lines(s)
  <1>1. p \in Seq(Lines(s)) /\ Len(p) = n
    BY DEF Pages
  <1> QED BY <1>1, ElementOfSeq

LEMMA InvTypes == TermInv => TypeOK
  <1> SUFFICES ASSUME TermInv PROVE TypeOK
    OBVIOUS
  <1>1. scene \in Scenarios /\ steps \in 0 .. scene.length /\ Term(term, scene)
    BY DEF TermInv
  <1>2. /\ term.rows \in Nat /\ term.screen \in Pages(scene, term.rows)
        /\ term.tabs \subseteq 0 .. term.cols - 1
        /\ term.sel.state \in {"none", "about", "drag", "selected"} /\ term.which \in {0, 1}
    <2>1. term.rows \in Nat
      BY <1>1, Scenario DEF Term
    <2> QED BY <1>1, <2>1 DEF Term, Sized, Paged, Pointed
  <1>3. DOMAIN term.screen = 1 .. term.rows
    <2>1. term.screen \in Seq(Lines(scene)) /\ Len(term.screen) = term.rows
      BY <1>2 DEF Pages
    <2> QED BY <2>1, LenProperties
  <1>4. ASSUME NEW i \in DOMAIN term.screen, NEW j \in DOMAIN term.screen[i].c
        PROVE  term.screen[i].c[j] \in Cells
    <2>1. term.screen[i] \in Lines(scene)
      BY <1>2, <1>3, <1>4, PageLine
    <2>2. term.screen[i].c \in Texts(scene)
      BY <2>1, LineIs
    <2> DEFINE c == term.screen[i].c
    <2>3. c \in Texts(scene) /\ j \in DOMAIN c
      BY <2>2, <1>4
    <2> HIDE DEF c
    <2>4. c \in Seq(Alphabet(scene))
      BY <2>3, TextIs
    <2>5. j \in 1 .. Len(c)
      BY <2>3, <2>4, LenProperties
    <2>6. c[j] \in Alphabet(scene)
      BY <2>3, <2>5, TextIs
    <2> QED BY <2>6 DEF Alphabet, Cells, c
  <1> QED BY <1>1, <1>2, <1>4 DEF TypeOK

LEMMA InvLines == TermInv => LinesSound
  <1> SUFFICES ASSUME TermInv PROVE LinesSound
    OBVIOUS
  <1>1. Term(term, scene) /\ scene \in Scenarios
    BY DEF TermInv
  <1>2. term.rows \in Nat /\ term.cols \in Nat /\ term.savelines \in Nat
    BY <1>1, Scenario DEF Term
  <1>3. Len(term.screen) = term.rows /\ Len(term.alt) = term.rows
    BY <1>1 DEF Term, Paged, Pages
  <1>4. Len(term.sb) <= term.savelines /\ term.temps <= Len(term.sb) /\ term.altsb <= term.rows
    <2>1. Len(term.sb) \in Nat
      BY <1>1, LenProperties DEF Term, Paged
    <2> QED BY <1>1, <1>2, <2>1 DEF Term, Paged
  <1>5. /\ 0 <= term.x /\ term.x < term.cols /\ 0 <= term.y /\ term.y < term.rows
        /\ 0 <= term.mt /\ term.mt <= term.mb /\ term.mb < term.rows
    BY <1>1, <1>2 DEF Term, Pointed, OnScreen
  <1>6. /\ 0 <= term.other.mt /\ term.other.mt <= term.other.mb /\ term.other.mb < term.rows
        /\ term.other.x < term.cols /\ term.other.y < term.rows
    BY <1>1, <1>2 DEF Term, Pointed, OnScreen
  <1> QED BY <1>3, <1>4, <1>5, <1>6 DEF LinesSound

\* Every line that can be fetched is one of the scenario's lines.
LEMMA StoredIs ==
    ASSUME TermInv, NEW y \in -SbLines(term) .. (term.rows - 1)
    PROVE  Stored(term, y) \in Lines(scene)
  <1>1. Term(term, scene) /\ scene \in Scenarios
    BY DEF TermInv
  <1>2. term.rows \in Nat
    BY <1>1, Scenario DEF Term
  <1>3. /\ term.screen \in Pages(scene, term.rows) /\ term.alt \in Pages(scene, term.rows)
        /\ term.sb \in Seq(Lines(scene)) /\ Len(term.sb) \in Nat
        /\ term.altsb \in 0 .. term.rows
    BY <1>1, LenProperties DEF Term, Paged
  <1>4. AltLines(term) \in {0, term.altsb} /\ AltLines(term) \in Nat
    BY <1>3 DEF AltLines
  <1>5. y \in Int /\ y >= -(Len(term.sb) + AltLines(term)) /\ y < term.rows
    BY <1>2, <1>3, <1>4 DEF SbLines
  <1>6. CASE y >= 0
    <2>1. y + 1 \in 1 .. term.rows
      BY <1>2, <1>5, <1>6
    <2> QED BY <1>2, <1>3, <1>6, <2>1, PageLine DEF Stored
  <1>7. CASE y < 0 /\ y < -AltLines(term)
    <2>1. y + AltLines(term) + Len(term.sb) + 1 \in 1 .. Len(term.sb)
      BY <1>3, <1>4, <1>5, <1>7
    <2>2. term.sb[y + AltLines(term) + Len(term.sb) + 1] \in Lines(scene)
      BY <1>3, <2>1, ElementOfSeq
    <2>3. ~(y >= 0)
      BY <1>5, <1>7
    <2> QED BY <1>7, <2>2, <2>3 DEF Stored
  <1>8. CASE y < 0 /\ ~(y < -AltLines(term))
    <2>1. y + term.altsb + 1 \in 1 .. term.rows
      BY <1>2, <1>3, <1>4, <1>5, <1>8
    <2>2. ~(y >= 0)
      BY <1>5, <1>8
    <2>3. term.alt[y + term.altsb + 1] \in Lines(scene)
      BY <1>2, <1>3, <2>1, PageLine
    <2> QED BY <1>8, <2>2, <2>3 DEF Stored
  <1> QED BY <1>5, <1>6, <1>7, <1>8

LEMMA InvWide == TermInv => WideSound
  <1> SUFFICES ASSUME TermInv, NEW y \in -SbLines(term) .. (term.rows - 1)
               PROVE  LET c == LineAt(term, y).c
                      IN  NoTwoRights(c) /\ ("before" \in scene.groups \/ WideWhole(c))
    BY DEF WideSound
  <1>1. Stored(term, y) \in Lines(scene) /\ term.cols \in Nat
    BY StoredIs, Scenario DEF TermInv, Term
  <1>2. LineAt(term, y) \in Lines(scene)
    BY <1>1, Refitted DEF LineAt
  <1> DEFINE c == LineAt(term, y).c
  <1>3. c \in Texts(scene)
    BY <1>2, LineIs
  <1> HIDE DEF c
  <1>4. /\ DOMAIN c = 1 .. Len(c)
        /\ \A j \in 1 .. Len(c) :
               c[j] = "R" => j > 1 /\ c[j - 1] # "R" /\ ("before" \in scene.groups \/ c[j - 1] = "W")
    BY <1>3, TextIs, LenProperties
  <1>5. NoTwoRights(c)
    BY <1>4 DEF NoTwoRights
  <1>6. "before" \in scene.groups \/ WideWhole(c)
    BY <1>4 DEF WideWhole
  <1> QED BY <1>5, <1>6 DEF c

\* The cells, the tabs and the selection have their types, whatever the server
\* prints and the user does (Terminal in terminal.h).
THEOREM ScreenIsTyped == Spec => []TypeOK
  BY TermInvHolds, InvTypes, PTL

\* In windows of every size and scrollbacks of every length, both screens have
\* as many lines as the window has rows, through swap_screen, scroll_region and
\* term_size; the scrollback stays within its limit and counts the lines that
\* may come back; and the cursors and margins of both lie on the screen.
THEOREM LinesAreCounted == Spec => []LinesSound
  BY TermInvHolds, InvLines, PTL

\* No operation on part of a line leaves two right halves side by side, and none
\* but those of the group "before" leaves a right half without its left one:
\* check_boundary (terminal.c:1053) is called wherever it has to be, and lines
\* in the scrollback and under an alternate screen keep it as they are cut to
\* another width.
THEOREM WideCharactersAreWhole == Spec => []WideSound
  BY TermInvHolds, InvWide, PTL
=============================================================================
