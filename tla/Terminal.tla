------------------------------ MODULE Terminal ------------------------------
(***************************************************************************)
(* The terminal emulator's screen (terminal.c): the main and the alternate *)
(* screen, the scrollback, the cursor with its margins, tabs and wrap      *)
(* flag, what part of it all the window shows, and the selection.          *)
(*                                                                         *)
(* Every operation is a function from one terminal to the next, as every   *)
(* function of terminal.c takes a Terminal *.  A cell is blank (the erase  *)
(* character), a narrow character, or one half of a wide one: the left     *)
(* half holds the character, the right half is UCSWIDE.  Colours and other *)
(* attributes are left out.  Control sequences arrive here already parsed  *)
(* (TermParser); printing, the bell and the display cache (disptext) are   *)
(* left out.                                                               *)
(***************************************************************************)
EXTENDS Integers, FiniteSets, SequencesExt

\* What takes part is bounded by a scenario, a record of: heights and widths,
\* the rows and columns the window may be given; limits, the lengths of the
\* scrollback the user may configure; glyphs, what the server prints (narrow
\* characters and "W"); configs, settings [ets, noalt, ondisp, onkey], all
\* BOOLEAN; groups, the groups of operations; and length, how many there are.
CONSTANT Scenarios

\* Nothing prints the right half of a wide character by itself.  A window of
\* one column is left out where the code has no room for it: a wide character
\* takes two cells there too (terminal.c:1847), and a tab on a line of double
\* size goes to column -1 (terminal.c:1802).
ASSUME TerminalAssumption ==
    \A s \in Scenarios :
        /\ s.heights \subseteq Nat \ {0} /\ s.widths \subseteq Nat \ {0}
        /\ s.limits \subseteq Nat /\ s.length \in Nat
        /\ s.configs \subseteq
              [ets : BOOLEAN, noalt : BOOLEAN, ondisp : BOOLEAN, onkey : BOOLEAN]
        /\ "R" \notin s.glyphs
        /\ 1 \in s.widths =>
              "W" \notin s.glyphs /\ ("tabs" \notin s.groups \/ "cells" \notin s.groups)

VARIABLES term,   \* the Terminal structure
          picked, \* the text of the selection when it was made
          steps,
          scene   \* the scenario
vars == <<term, picked, steps, scene>>

None == [x |-> 0, y |-> 0]
At(x, y) == [x |-> x, y |-> y]
Least(a, b) == IF a < b THEN a ELSE b
Most(a, b) == IF a > b THEN a ELSE b

(***************************************************************************)
(* Positions.  x = cols stands for the place after the last column, where  *)
(* the line's attributes are kept.                                         *)
(***************************************************************************)
Before(p, q) == p.y < q.y \/ (p.y = q.y /\ p.x < q.x)
After1(t, p) == IF p.x = t.cols THEN At(0, p.y + 1) ELSE At(p.x + 1, p.y)
Back1(t, p) == IF p.x = 0 THEN At(t.cols, p.y - 1) ELSE At(p.x - 1, p.y)
Cursor(t) == At(t.x, t.y)

(***************************************************************************)
(* Lines: cells, the two wrap flags (1: LATTR_WRAPPED, 2: LATTR_WRAPPED2)  *)
(* and whether characters are of double size.                              *)
(***************************************************************************)
BlankLine(cols) == [c |-> [i \in 1..cols |-> "blank"], w |-> {}, d |-> FALSE]

\* Lines keep the width they had until they are looked at again.
Resized(l, cols) ==
    IF Len(l.c) = cols THEN l
    ELSE [c |-> [i \in 1..cols |-> IF i <= Len(l.c) THEN l.c[i] ELSE "blank"],
          w |-> {}, d |-> l.d]

\* Lines of the main screen shown above an alternate screen.
AltLines(t) == IF t.cfg.ets /\ t.which = 1 THEN t.altsb ELSE 0
SbLines(t) == Len(t.sb) + AltLines(t)

Stored(t, y) ==
    IF y >= 0 THEN t.screen[y + 1]
    ELSE IF y < -AltLines(t) THEN t.sb[y + AltLines(t) + Len(t.sb) + 1]
    ELSE t.alt[y + t.altsb + 1]
LineAt(t, y) == Resized(Stored(t, y), t.cols)
WithLine(t, y, l) == [t EXCEPT !.screen[y + 1] = l]

\* The last line with any content; 0 stands for none.
LastUsed(screen) ==
    LET used == {i \in DOMAIN screen :
                    \E j \in DOMAIN screen[i].c : screen[i].c[j] # "blank"}
    IN  IF used = {} THEN 0 ELSE CHOOSE i \in used : \A k \in used : k <= i

(***************************************************************************)
(* The selection.                                                          *)
(***************************************************************************)
Deselect(t) == [t EXCEPT !.sel.state = "none", !.sel.from = None, !.sel.to = None]

CheckSelection(t, from, to) ==
    IF Before(from, t.sel.to) /\ Before(t.sel.from, to) THEN Deselect(t) ELSE t

\* A character from the server comes to the cursor or has been handled:
\* whatever is selected under the cursor is deselected.
Shown(t) ==
    IF t.sel.state = "none" THEN t
    ELSE CheckSelection(t, Cursor(t), After1(t, Cursor(t)))

(***************************************************************************)
(* Scrolling by one line.                                                  *)
(***************************************************************************)
\* Mutant: the view does not follow the line the user looks at.
ScrollUpBlind(t, top, bot, sb) ==
    LET keep == sb /\ top = 0 /\ t.which = 0 /\ t.savelines > 0
        full == Len(t.sb) = t.savelines
        old == IF keep /\ full THEN Tail(t.sb) ELSE t.sb
    IN  [t EXCEPT
          !.screen = InsertAt(RemoveAt(@, top + 1), bot + 1, BlankLine(t.cols)),
          !.sb = IF keep THEN Append(old, t.screen[top + 1]) ELSE @,
          !.temps = IF keep /\ ~full THEN @ + 1 ELSE @]

\* Where a position goes whose line scrolls.
LineUp(p, top, bot) ==
    IF p.y < top \/ p.y > bot THEN p
    ELSE IF p.y = top THEN At(0, top) ELSE At(p.x, p.y - 1)
LineBack(p, top, bot) ==
    IF p.y < top \/ p.y > bot THEN p
    ELSE IF p.y = bot THEN At(0, bot + 1) ELSE At(p.x, p.y + 1)

ScrollUp(t, top, bot, sb) ==
    LET save == sb /\ top = 0 /\ t.which = 0
        keep == save /\ t.savelines > 0
        full == Len(t.sb) = t.savelines
        old == IF keep /\ full THEN Tail(t.sb) ELSE t.sb
        Shift(p) == LineUp(p, IF save THEN -t.savelines ELSE top, bot)
    IN  [t EXCEPT
          !.screen = InsertAt(RemoveAt(@, top + 1), bot + 1, BlankLine(t.cols)),
          !.sb = IF keep THEN Append(old, t.screen[top + 1]) ELSE @,
          !.temps = IF keep /\ ~full THEN @ + 1 ELSE @,
          !.disp = IF keep /\ @ > -t.savelines /\ @ < 0 THEN @ - 1 ELSE @,
          !.sel.from = Shift(@), !.sel.to = Shift(@), !.sel.anchor = Shift(@)]

\* The anchor of a selection being made does not move.
ScrollDown(t, top, bot) ==
    [t EXCEPT
        !.screen = InsertAt(RemoveAt(@, bot + 1), top + 1, BlankLine(t.cols)),
        !.sel.from = LineBack(@, top, bot), !.sel.to = LineBack(@, top, bot)]

\* n is positive to scroll forward and negative to scroll back.
Scroll(t, top, bot, n, sb) ==
    LET times == IF n < 0 THEN -n ELSE n
        Once(s) == IF n < 0 THEN ScrollDown(s, top, bot) ELSE ScrollUp(s, top, bot, sb)
        after[i \in 0..times] == IF i = 0 THEN t ELSE Once(after[i - 1])
    IN  after[times]

LineDown(t) ==
    IF t.y = t.mb THEN Scroll(t, t.mt, t.mb, 1, TRUE)
    ELSE IF t.y < t.rows - 1 THEN [t EXCEPT !.y = @ + 1] ELSE t

(***************************************************************************)
(* The cursor.                                                             *)
(***************************************************************************)
Clamp(v, low, high) == Most(low, Least(v, high))

\* clip = 1: not past the margins; clip = 2: not outside them either.
Move(t, x, y, clip) ==
    LET y1 == IF clip # 0 /\ (t.y >= t.mt \/ clip = 2) THEN Most(y, t.mt) ELSE y
        y2 == IF clip # 0 /\ (t.y <= t.mb \/ clip = 2) THEN Least(y1, t.mb) ELSE y1
    IN  [t EXCEPT !.x = Clamp(x, 0, t.cols - 1), !.y = Clamp(y2, 0, t.rows - 1),
                  !.wn = FALSE]

SaveCursor(t) == [t EXCEPT !.save = [x |-> t.x, y |-> t.y, wn |-> t.wn]]

RestoreCursor(t) ==
    LET x == Least(t.save.x, t.cols - 1)
    IN  [t EXCEPT !.x = x, !.y = Least(t.save.y, t.rows - 1),
                  !.wn = t.save.wn /\ x >= t.cols - 1]

(***************************************************************************)
(* Changing part of a line.                                                *)
(***************************************************************************)
\* A wide character that straddles the boundary before column x becomes two
\* blanks; at the right edge, the line no longer ends in a filler.
Cut(l, x) == [l EXCEPT !.c[x] = "blank", !.c[x + 1] = "blank"]
Unfilled(l) == [l EXCEPT !.w = @ \ {2}]

CheckBoundary(t, x, y) ==
    LET l == LineAt(t, y)
    IN  IF x = 0 \/ x > t.cols THEN t
        ELSE IF x = t.cols THEN WithLine(t, y, Unfilled(l))
        ELSE IF l.c[x + 1] = "R" THEN WithLine(t, y, Cut(l, x))
        ELSE t

\* Cells from one position up to another; the place after the last column
\* holds the attributes of the line.
EraseCells(t, from, to, lattr) ==
    LET In(x, y) == ~Before(At(x, y), from) /\ Before(At(x, y), to)
        Erased(y, l) ==
            [c |-> [i \in 1..t.cols |-> IF In(i - 1, y) THEN "blank" ELSE l.c[i]],
             w |-> IF In(t.cols, y) THEN {} ELSE l.w,
             d |-> l.d /\ ~(lattr /\ In(t.cols, y))]
    IN  [t EXCEPT !.screen = [i \in 1..t.rows |->
            IF i - 1 < from.y \/ i - 1 > to.y THEN @[i]
            ELSE Erased(i - 1, Resized(@[i], t.cols))]]

\* Erased lines at the top may go to the scrollback instead (ets), and are
\* not brought back when the window grows.
Emptied(t, from, to, lineOnly) ==
    LET top == from = None /\ to.x = 0 /\ ~lineOnly
        n == IF to.y = t.rows THEN LastUsed(t.screen) ELSE to.y
        t1 == IF t.cfg.ets /\ top
              THEN IF n > 0 THEN Scroll(t, 0, n - 1, n, TRUE) ELSE t
              ELSE EraseCells(t, from, to, ~lineOnly)
    IN  IF top /\ t.which = 0 THEN [t1 EXCEPT !.temps = 0] ELSE t1

EraseLots(t, lineOnly, fromBegin, toEnd) ==
    LET from == IF ~fromBegin THEN Cursor(t) ELSE At(0, IF lineOnly THEN t.y ELSE 0)
        to == IF ~toEnd THEN After1(t, Cursor(t))
              ELSE At(0, IF lineOnly THEN t.y + 1 ELSE t.rows)
        t1 == IF fromBegin /\ toEnd THEN t ELSE CheckBoundary(t, t.x, t.y)
    IN  Emptied(CheckSelection(t1, from, to), from, to, lineOnly)

\* Insert (n > 0) or delete (n < 0) cells at the cursor.
Shifted(t, m, n) ==
    LET l == LineAt(t, t.y)
        From(i) == IF i <= t.x THEN l.c[i]
                   ELSE IF n < 0 THEN IF i + m <= t.cols THEN l.c[i + m] ELSE "blank"
                   ELSE IF i <= t.x + m THEN "blank" ELSE l.c[i - m]
    IN  WithLine(t, t.y, [l EXCEPT !.c = [i \in 1..t.cols |-> From(i)]])

InsertCells(t, n) ==
    LET m == Least(IF n < 0 THEN -n ELSE n, t.cols - t.x)
        t1 == CheckSelection(t, Cursor(t), At(t.x + m, t.y))
        t2 == CheckBoundary(t1, t.x, t.y)
    IN  Shifted(IF n < 0 THEN CheckBoundary(t2, t.x + m, t.y) ELSE t2, m, n)

\* ECH: blanks over the next n cells.
Blanked(t, m) ==
    LET l == LineAt(t, t.y)
    IN  WithLine(t, t.y, [l EXCEPT !.c = [i \in 1..t.cols |->
            IF i > t.x /\ i <= t.x + m THEN "blank" ELSE @[i]]])

EraseChars(t, n) ==
    LET m == Least(n, t.cols - t.x)
        t1 == CheckBoundary(CheckBoundary(t, t.x, t.y), t.x + m, t.y)
    IN  Blanked(CheckSelection(t1, Cursor(t), At(t.x + m, t.y)), m)

\* DEL: the character before the cursor, with no check of the boundaries.
Delete(t) ==
    LET x == IF t.x > 0 /\ ~t.wn THEN t.x - 1 ELSE t.x
        l == LineAt(t, t.y)
    IN  WithLine([t EXCEPT !.x = x, !.wn = FALSE], t.y, [l EXCEPT !.c[x + 1] = "blank"])

(***************************************************************************)
(* Printing a character.                                                   *)
(***************************************************************************)
\* One cell written, and its two boundaries looked at before that.
Cell(t, x, g) ==
    LET l == LineAt(t, t.y) IN WithLine(t, t.y, [l EXCEPT !.c[x + 1] = g])
Room(t, width) == CheckBoundary(CheckBoundary(t, t.x, t.y), t.x + width, t.y)

\* Mutant: the cell after a wide character is not looked at.
PutNarrowCareless(t, g) == Cell(CheckBoundary(t, t.x, t.y), t.x, g)

PutNarrow(t, g) == Cell(Room(t, 1), t.x, g)

\* A wide character that does not fit leaves a filler and starts a new line.
Filled(t) ==
    LET l == LineAt(t, t.y)
    IN  WithLine(t, t.y, [l EXCEPT !.c[t.cols] = "blank", !.w = {1, 2}])

PutWide(t, g) ==
    LET t1 == IF t.x = t.cols - 1
              THEN Room([LineDown(Filled(Room(t, 2))) EXCEPT !.x = 0], 2)
              ELSE Room(t, 2)
    IN  [Cell(Cell(t1, t1.x, g), t1.x + 1, "R") EXCEPT !.x = @ + 1]

WrapLine(t) ==
    LET l == LineAt(t, t.y)
    IN  [LineDown(WithLine(t, t.y, [l EXCEPT !.w = @ \cup {1}]))
            EXCEPT !.x = 0, !.wn = FALSE]

\* The cursor stays on the last column, to wrap before the next character.
Onward(t) ==
    LET u == [t EXCEPT !.seen = TRUE]
    IN  IF t.x + 1 = t.cols THEN [u EXCEPT !.wn = TRUE] ELSE [u EXCEPT !.x = @ + 1]

Printed(t, g) ==
    LET t1 == IF t.wn /\ t.wrap THEN WrapLine(t) ELSE t
        t2 == Shown(IF t1.ins THEN InsertCells(t1, 1) ELSE t1)
    IN  Onward(IF g = "W" THEN PutWide(t2, g) ELSE PutNarrow(t2, g))

(***************************************************************************)
(* The two screens, and power on.                                          *)
(***************************************************************************)
Kept == [x |-> 0, y |-> 0, mt |-> 0, mb |-> 0, om |-> FALSE, wrap |-> TRUE,
         wn |-> FALSE, ins |-> FALSE]

Swapped(t, which, wipe, stay) ==
    LET o == t.other
    IN  [t EXCEPT !.which = which, !.screen = t.alt, !.alt = t.screen,
           !.altsb = LastUsed(t.screen),
           !.x = IF stay THEN @ ELSE o.x, !.y = IF stay THEN @ ELSE o.y,
           !.mt = IF wipe THEN @ ELSE o.mt, !.mb = IF wipe THEN @ ELSE o.mb,
           !.om = IF wipe THEN @ ELSE o.om, !.wrap = IF wipe THEN @ ELSE o.wrap,
           !.wn = IF wipe THEN @ ELSE o.wn, !.ins = IF wipe THEN @ ELSE o.ins,
           !.other = [f \in DOMAIN o |-> t[f]]]

\* With reset, the alternate screen starts with the main one's settings and
\* is erased; the cursor moves only without reset and keepPos.
SwapScreen(t, which, reset, keepPos) ==
    LET wipe == reset /\ which = 1
        t1 == IF which = t.which THEN t ELSE Swapped(t, which, wipe, wipe \/ keepPos)
    IN  IF wipe THEN EraseLots(t1, FALSE, TRUE, TRUE) ELSE t1

PowerOn(t) ==
    LET t1 == [t EXCEPT !.x = 0, !.y = 0, !.mt = 0, !.mb = t.rows - 1,
                 !.om = FALSE, !.ins = FALSE, !.wrap = TRUE, !.wn = FALSE,
                 !.save = [x |-> 0, y |-> 0, wn |-> FALSE], !.which = 0,
                 !.other = [Kept EXCEPT !.mb = t.rows - 1],
                 !.tabs = {i \in 0..(t.cols - 1) : i % 8 = 0}]
        t2 == EraseLots(SwapScreen(t1, 1, FALSE, FALSE), FALSE, TRUE, TRUE)
    IN  EraseLots(SwapScreen(t2, 0, FALSE, FALSE), FALSE, TRUE, TRUE)

(***************************************************************************)
(* A new size or a new limit of the scrollback.  Growing brings back lines *)
(* that were scrolled away, unless they were erased; shrinking drops lines *)
(* below the cursor first.                                                 *)
(***************************************************************************)
Refit(t, rows, cols, savelines) ==
    LET back == Least(Most(rows - t.rows, 0), t.temps)
        dropped == Least(Most(t.rows - rows, 0), t.rows - 1 - t.y)
        pushed == Most(t.rows - rows, 0) - dropped
        all == t.sb \o t.screen
        cut == Len(t.sb) - back + pushed
        fresh == [i \in 1..Most(rows - t.rows - back, 0) |-> BlankLine(cols)]
        first == Most(cut - savelines, 0)
    IN  [t EXCEPT !.rows = rows, !.cols = cols, !.savelines = savelines,
           !.screen = SubSeq(all, cut + 1, Len(all) - dropped) \o fresh,
           !.sb = SubSeq(all, first + 1, cut),
           !.temps = Least(@ - back + pushed, cut - first),
           !.disp = 0, !.altsb = 0,
           !.alt = [i \in 1..rows |-> BlankLine(cols)],
           !.mt = 0, !.mb = rows - 1,
           !.tabs = {i \in @ : i < cols} \cup {i \in t.cols..(cols - 1) : i % 8 = 0},
           !.save.y = Clamp(@ + back - pushed, 0, rows - 1),
           !.y = Clamp(@ + back - pushed, 0, rows - 1),
           !.x = Least(@, cols - 1), !.wn = FALSE,
           !.other = [@ EXCEPT !.x = 0, !.y = 0, !.mt = 0, !.mb = rows - 1, !.wn = FALSE]]

\* The main screen is the one refitted.
Resize(t, rows, cols, savelines) ==
    IF rows = t.rows /\ cols = t.cols /\ savelines = t.savelines THEN t
    ELSE SwapScreen(Refit(SwapScreen(Deselect(t), 0, FALSE, FALSE), rows, cols, savelines),
                    t.which, FALSE, FALSE)

\* The lines in view are painted, and brought to the present width.
Painted(t) ==
    LET InView(y) == t.disp <= y /\ y < t.disp + t.rows
        Fit(s, low) == [i \in DOMAIN s |-> IF InView(low + i) THEN Resized(s[i], t.cols)
                                                               ELSE s[i]]
    IN  [t EXCEPT !.screen = Fit(@, -1), !.sb = Fit(@, -SbLines(t) - 1),
                  !.alt = [i \in DOMAIN @ |-> IF i <= AltLines(t) /\ InView(i - t.altsb - 1)
                                              THEN Resized(@[i], t.cols) ELSE @[i]]]

\* term_update
Update(t) ==
    Painted(IF t.seen /\ t.cfg.ondisp THEN [t EXCEPT !.disp = 0, !.seen = FALSE] ELSE t)

\* rel: -1 from the end, 1 from the beginning, 0 from where the view is.
ScrollView(t, rel, where) ==
    LET base == IF rel < 0 THEN 0 ELSE IF rel > 0 THEN -SbLines(t) ELSE t.disp
    IN  Update([t EXCEPT !.disp = Least(Most(base + where, -SbLines(t)), 0)])

(***************************************************************************)
(* Selecting with the mouse.                                               *)
(***************************************************************************)
\* The kind of character for selecting words; a right half belongs to the
\* left one, and the place of the attributes reads like a blank.
WordType(l, x) ==
    LET g == IF x = Len(l.c) THEN "blank"
             ELSE IF x > 0 /\ l.c[x + 1] = "R" THEN l.c[x] ELSE l.c[x + 1]
    IN  IF g = "blank" THEN 0 ELSE IF g = "W" THEN 3 ELSE 2

\* Where a line ends for the purpose of continuing on the next one.
LineEnd(t, l) == IF 2 \in l.w THEN t.cols - 1 ELSE t.cols

WordSpread(t, p, dir) ==
    LET kind == WordType(LineAt(t, p.y), p.x)
        Next1(q) ==
            LET l == LineAt(t, q.y)
            IN  IF dir = 1
                THEN IF q.x < LineEnd(t, l) - 1 THEN {At(q.x + 1, q.y)}
                     ELSE IF 1 \in l.w /\ q.y + 1 < t.rows THEN {At(0, q.y + 1)} ELSE {}
                ELSE IF q.x > 0 THEN {At(q.x - 1, q.y)}
                     ELSE IF q.y > -SbLines(t) /\ 1 \in LineAt(t, q.y - 1).w
                          THEN {At(LineEnd(t, LineAt(t, q.y - 1)) - 1, q.y - 1)} ELSE {}
        Step(q, i) ==
            LET more == {r \in Next1(q) : WordType(LineAt(t, r.y), r.x) = kind}
            IN  IF more = {} THEN q ELSE CHOOSE r \in more : TRUE
    IN  FoldLeft(Step, p, [i \in 1..((SbLines(t) + t.rows) * t.cols) |-> i])

\* Blanks at the end of a line that does not wrap count as one unit.
CharSpread(t, p, dir) ==
    LET l == LineAt(t, p.y)
        used == {i \in 1..t.cols : l.c[i] # "blank"}
        n == IF used = {} THEN 0 ELSE CHOOSE i \in used : \A k \in used : k <= i
        q == Least(n, t.cols - 1)
    IN  IF 1 \in l.w \/ p.x < q THEN p
        ELSE At(IF dir = -1 THEN q ELSE t.cols - 1, p.y)

SpreadHalf(t, p, dir) ==
    CASE t.sel.mode = "char" -> CharSpread(t, p, dir)
      [] t.sel.mode = "word" -> WordSpread(t, p, dir)
      [] t.sel.mode = "line" -> At(IF dir = -1 THEN 0 ELSE t.cols - 1, p.y)
      [] OTHER -> p

\* Selecting from a to b, in the order they have on the screen.
Spread(t, a, b) ==
    LET from == IF Before(b, a) THEN b ELSE a
        to == IF Before(b, a) THEN a ELSE b
    IN  [t EXCEPT !.sel.from = SpreadHalf(t, from, -1),
                  !.sel.to = After1(t, SpreadHalf(t, to, 1))]

Click(t, p) ==
    [Deselect(t) EXCEPT !.sel.state = "about", !.sel.anchor = p, !.sel.mode = "char"]

MultiClick(t, p, mode) ==
    Spread([Deselect(t) EXCEPT !.sel.state = "drag", !.sel.anchor = p,
                               !.sel.mode = mode], p, p)

\* Extending moves the end of the selection that is nearer.
Drag(t, p, extend) ==
    LET Far(a, b) == (a.y - b.y) * (t.cols + 1) + a.x - b.x
        s == t.sel
        anchor == IF extend /\ s.state = "selected"
                  THEN IF Far(p, s.from) < Far(s.to, s.from) \div 2
                       THEN Back1(t, s.to) ELSE s.from
                  ELSE IF s.state \in {"about", "drag"} THEN s.anchor ELSE p
    IN  IF s.state = "about" /\ s.anchor = p THEN t
        ELSE Spread([t EXCEPT !.sel.state = "drag", !.sel.anchor = anchor], anchor, p)

\* A finished selection goes to the clipboard.
Release(t) ==
    [t EXCEPT !.sel.state = IF @ = "drag" THEN "selected" ELSE "none"]

\* The cells from one position up to another.
Text(t, from, to) ==
    LET Row(y) == SubSeq(LineAt(t, y).c, 1 + IF y = from.y THEN from.x ELSE 0,
                         IF y = to.y THEN to.x ELSE t.cols)
        rows == (IF to.x = 0 THEN to.y ELSE to.y + 1) - from.y
    IN  IF Before(from, to) THEN [i \in 1..rows |-> Row(from.y + i - 1)] ELSE <<>>
InReach(t, y) == -SbLines(t) <= y /\ y < t.rows
Selected(t) == Text(t, t.sel.from, t.sel.to)

(***************************************************************************)
(* The steps.                                                              *)
(***************************************************************************)
Fresh(rows, cols, savelines, cfg, mode) ==
    [rows |-> rows, cols |-> cols, savelines |-> savelines, cfg |-> cfg,
     screen |-> [i \in 1..rows |-> BlankLine(cols)],
     alt |-> [i \in 1..rows |-> BlankLine(cols)], sb |-> <<>>,
     temps |-> 0, altsb |-> 0, disp |-> 0, which |-> 0, seen |-> FALSE,
     x |-> 0, y |-> 0, mt |-> 0, mb |-> rows - 1, om |-> FALSE, wrap |-> TRUE,
     wn |-> FALSE, ins |-> FALSE, other |-> [Kept EXCEPT !.mb = rows - 1],
     save |-> [x |-> 0, y |-> 0, wn |-> FALSE],
     tabs |-> {i \in 0..(cols - 1) : i % 8 = 0},
     sel |-> [state |-> "none", from |-> None, to |-> None, anchor |-> None,
              mode |-> mode]]

\* The mode of selecting has no value before the first click.
Init ==
    /\ scene \in Scenarios
    /\ \E r \in scene.heights, c \in scene.widths, l \in scene.limits, cfg \in scene.configs,
          mode \in IF "mouse" \in scene.groups THEN {"char", "word", "line", "unset"} ELSE {"unset"} :
            term = Fresh(r, c, l, cfg, mode)
    /\ picked = <<>>
    /\ steps = 0

Do(group, t) ==
    /\ group \in scene.groups /\ steps < scene.length
    /\ steps' = steps + 1 /\ term' = t /\ UNCHANGED scene

Out(group, t) == Do(group, Shown(t)) /\ UNCHANGED picked
Seen(t) == [t EXCEPT !.seen = TRUE]

ShowChar == \E g \in scene.glyphs : Out("print", Printed(term, g))

CarriageReturn == Out("print", Seen([term EXCEPT !.x = 0, !.wn = FALSE]))
LineFeed == Out("lines", Seen([LineDown(term) EXCEPT !.wn = FALSE]))
NextLine == Out("lines", Seen([LineDown(term) EXCEPT !.x = 0, !.wn = FALSE]))
ReverseIndex ==
    Out("lines", Seen([IF term.y = term.mt THEN Scroll(term, term.mt, term.mb, -1, TRUE)
                       ELSE IF term.y > 0 THEN [term EXCEPT !.y = @ - 1] ELSE term
                        EXCEPT !.wn = FALSE]))

Backspace ==
    Out("move", Seen(IF term.x = 0 /\ (term.y = 0 \/ ~term.wrap) THEN term
                     ELSE IF term.x = 0 THEN [term EXCEPT !.x = term.cols - 1, !.y = @ - 1]
                     ELSE IF term.wn THEN [term EXCEPT !.wn = FALSE]
                     ELSE [term EXCEPT !.x = @ - 1]))

\* CUU, CUD, CUF and CUB stop at the margins; CUP and the like obey the
\* origin mode.
MoveBy ==
    \E d \in {At(0, 1), At(0, -1), At(1, 0), At(-1, 0)} :
        Out("move", Seen(Move(term, term.x + d.x, term.y + d.y, 1)))
MoveTo ==
    \E y \in 0..(term.rows - 1), x \in {0, term.cols - 1} :
        Out("move", Seen(Move(term, x, (IF term.om THEN term.mt ELSE 0) + y,
                              IF term.om THEN 2 ELSE 0)))

\* Over a line of double size only half the columns are used.
Tab ==
    LET stops == {i \in (term.x + 1)..(term.cols - 1) :
                     i \in term.tabs \/ i = term.cols - 1}
        next == IF stops = {} THEN term.cols - 1
                ELSE CHOOSE i \in stops : \A k \in stops : i <= k
        x == IF LineAt(term, term.y).d THEN Least(next, term.cols \div 2 - 1) ELSE next
    IN  Out("tabs", Seen(CheckSelection([term EXCEPT !.x = x], Cursor(term),
                                        At(x, term.y))))
BackTab ==
    LET stops == {i \in 0..(term.x - 1) : i \in term.tabs \/ i = 0}
        x == IF stops = {} THEN term.x
             ELSE CHOOSE i \in stops : \A k \in stops : k <= i
    IN  Out("backtab", CheckSelection([term EXCEPT !.x = x], Cursor(term), At(x, term.y)))
\* Mutant: the tab goes to the column after the cursor.
SetTabNext == Out("tabs", [term EXCEPT !.tabs = @ \cup {term.x + 1}])
SetTab == Out("tabs", [term EXCEPT !.tabs = @ \cup {term.x}])
ClearTab == Out("tabs", [term EXCEPT !.tabs = @ \ {term.x}])
ClearTabs == Out("tabs", [term EXCEPT !.tabs = {}])

\* DECSTBM; a region of less than two lines changes nothing.
SetMargins ==
    \E top \in 0..(term.rows - 1), bot \in 0..(term.rows - 1) :
        /\ bot > top
        /\ Out("margins", Seen([term EXCEPT !.mt = top, !.mb = bot, !.x = 0,
                                            !.y = IF term.om THEN top ELSE 0]))

InsertLines ==
    /\ term.y <= term.mb
    /\ Out("region", Seen(Scroll(term, term.y, term.mb, -1, FALSE)))
DeleteLines ==
    /\ term.y <= term.mb
    /\ \E n \in {1, 2} : Out("region", Seen(Scroll(term, term.y, term.mb, n, TRUE)))
ScrollRegion ==
    \E n \in {-1, 1} :
        Out("region", Seen([Scroll(term, term.mt, term.mb, n, TRUE) EXCEPT !.wn = FALSE]))

EraseDisplay ==
    \E k \in {<<FALSE, TRUE>>, <<TRUE, TRUE>>} :
        Out("erase", Seen([EraseLots(term, FALSE, k[1], k[2]) EXCEPT !.disp = 0]))
EraseLine ==
    \E k \in {<<FALSE, TRUE>>, <<TRUE, TRUE>>} :
        Out("erase", Seen(EraseLots(term, TRUE, k[1], k[2])))
\* Up to and including the cursor.
EraseBefore ==
    \E line \in BOOLEAN :
        LET t == EraseLots(term, line, TRUE, FALSE)
        IN  Out("before", Seen(IF line THEN t ELSE [t EXCEPT !.disp = 0]))
DeleteChar == Out("before", Delete(term))

InsertBlanks == \E n \in {1, 2} : Out("cells", Seen(InsertCells(term, n)))
RemoveCells == \E n \in {1, 2} : Out("cells", Seen(InsertCells(term, -n)))
EraseCell == \E n \in {1, 2} : Out("cells", Seen(EraseChars(term, n)))
\* DECALN
AllFilled(t) ==
    LET full == [BlankLine(t.cols) EXCEPT !.c = [j \in 1..t.cols |-> "a"]]
    IN  [t EXCEPT !.screen = [i \in 1..t.rows |-> full], !.disp = 0]
FillScreen ==
    Out("cells", Seen(CheckSelection(AllFilled(term), None, At(0, term.rows))))
DoubleSize ==
    \E d \in BOOLEAN :
        Out("cells", WithLine(term, term.y, [LineAt(term, term.y) EXCEPT !.d = d]))

Save == Out("save", SaveCursor(term))
Restore == Out("save", Seen(RestoreCursor(term)))
InsertMode == \E b \in BOOLEAN : Out("modes", [term EXCEPT !.ins = b])
WrapMode == \E b \in BOOLEAN : Out("modes", [term EXCEPT !.wrap = b])
OriginMode == \E b \in BOOLEAN : Out("margins", [term EXCEPT !.om = b])
\* DECCOLM: the window is not resized here.
ColumnMode ==
    Out("margins", EraseLots(Move([Deselect(term) EXCEPT
            !.mt = 0, !.mb = term.rows - 1, !.other.mt = 0, !.other.mb = term.rows - 1],
            0, 0, 0), FALSE, TRUE, TRUE))

\* Modes 47 (no reset), 1047 (reset, keep the position) and 1049 (reset,
\* with the cursor saved and restored).
AltScreen ==
    \E on \in BOOLEAN, mode \in {47, 1047, 1049} :
        LET which == IF on /\ ~term.cfg.noalt THEN 1 ELSE 0
            move == mode = 1049 /\ ~term.cfg.noalt
            t1 == IF move /\ on THEN SaveCursor(term) ELSE term
            t2 == SwapScreen(Deselect(t1), which, mode # 47, mode = 1047)
            t3 == IF move /\ ~on THEN RestoreCursor(t2) ELSE t2
        IN  Out("alt", [t3 EXCEPT !.disp = 0, !.seen = @ \/ (mode = 1049 /\ ~on)])

\* RIS
ResetByServer == Out("reset", Seen([PowerOn(term) EXCEPT !.disp = 0]))

(***************************************************************************)
(* What the user does.                                                     *)
(***************************************************************************)
User(group, t) == Do(group, t) /\ UNCHANGED picked

Refresh == User("view", Update(term))
KeyPressed ==
    /\ term.cfg.onkey
    /\ User("view", [term EXCEPT !.disp = 0, !.seen = TRUE])
ScrollBar ==
    \E rel \in {-1, 0, 1}, where \in {-1, 0, 1} : User("view", ScrollView(term, rel, where))

ResetByUser == User("reset", Update(Deselect([PowerOn(term) EXCEPT !.disp = 0])))
\* Mutant: the lines that may be brought back are still counted.
ClearScrollbackCounted ==
    User("clear", [term EXCEPT !.sb = <<>>, !.altsb = 0, !.disp = 0])
ClearScrollback ==
    User("clear", [term EXCEPT !.sb = <<>>, !.temps = 0, !.altsb = 0, !.disp = 0])
NewSize ==
    \E r \in scene.heights, c \in scene.widths, l \in scene.limits :
        User("size", Update(Resize(term, r, c, l)))
\* Settings changed in a running session.
Reconfigure ==
    \E cfg \in scene.configs :
        LET t == [term EXCEPT !.cfg = cfg]
        IN  User("config", IF cfg.noalt THEN SwapScreen(t, 0, FALSE, FALSE) ELSE t)

Places ==
    {At(IF LineAt(term, y).d THEN x \div 2 ELSE x, y) :
        x \in 0..(term.cols - 1), y \in term.disp..(term.disp + term.rows - 1)}
MousePress ==
    \E p \in Places :
        \/ User("mouse", Update(Click(term, p)))
        \/ \E mode \in {"word", "line"} : User("mouse", Update(MultiClick(term, p, mode)))
MouseDrag ==
    \E p \in Places, extend \in BOOLEAN : User("mouse", Update(Drag(term, p, extend)))
\* Dragging past an edge scrolls the view.
DragOff ==
    \E dir \in {-1, 1} :
        LET t == ScrollView(term, 0, dir)
            y == IF dir = -1 THEN t.disp ELSE t.disp + t.rows - 1
        IN  User("mouse", Update(Drag(t, At(0, y), FALSE)))
MouseRelease ==
    /\ Do("mouse", Update(Release(term)))
    /\ picked' = IF term.sel.state = "drag" THEN Selected(term) ELSE picked

Next ==
    \/ ShowChar \/ CarriageReturn \/ LineFeed \/ NextLine \/ ReverseIndex
    \/ Backspace \/ MoveBy \/ MoveTo \/ Tab \/ BackTab \/ SetTab \/ ClearTab \/ ClearTabs
    \/ SetMargins \/ InsertLines \/ DeleteLines \/ ScrollRegion
    \/ EraseDisplay \/ EraseLine \/ EraseBefore \/ DeleteChar
    \/ InsertBlanks \/ RemoveCells \/ EraseCell \/ FillScreen \/ DoubleSize
    \/ Save \/ Restore \/ InsertMode \/ WrapMode \/ OriginMode \/ ColumnMode
    \/ AltScreen \/ ResetByServer
    \/ Refresh \/ KeyPressed \/ ScrollBar \/ ResetByUser \/ ClearScrollback
    \/ NewSize \/ Reconfigure
    \/ MousePress \/ MouseDrag \/ DragOff \/ MouseRelease

Spec == Init /\ [][Next]_vars

-----------------------------------------------------------------------------
Cells == {"blank", "R"} \cup scene.glyphs \cup {"a"}

\* Types, over the lines kept and the numbers that index them.
TypeOK ==
    /\ \A i \in DOMAIN term.screen : \A j \in DOMAIN term.screen[i].c :
            term.screen[i].c[j] \in Cells
    /\ term.tabs \subseteq 0..(term.cols - 1)
    /\ term.sel.state \in {"none", "about", "drag", "selected"}
    /\ term.which \in {0, 1} /\ steps \in 0..scene.length

\* The screens have as many lines as the window has rows, the scrollback
\* stays in its limit, and no more lines wait to be brought back than there
\* are; cursor and margins, those saved for the other screen too, lie on it.
LinesSound ==
    /\ Len(term.screen) = term.rows /\ Len(term.alt) = term.rows
    /\ Len(term.sb) <= term.savelines /\ term.temps <= Len(term.sb)
    /\ term.altsb <= term.rows
    /\ 0 <= term.x /\ term.x < term.cols /\ 0 <= term.y /\ term.y < term.rows
    /\ 0 <= term.mt /\ term.mt <= term.mb /\ term.mb < term.rows
    /\ LET o == term.other
       IN  /\ 0 <= o.mt /\ o.mt <= o.mb /\ o.mb < term.rows
           /\ o.x < term.cols /\ o.y < term.rows

\* A right half always has its left half: everything that affects only part
\* of a line deals with the wide characters it cuts (terminal.c:1039).
WideWhole(c) == \A j \in DOMAIN c : c[j] = "R" => j > 1 /\ c[j - 1] = "W"

\* do_paint (terminal.c:3550) asserts that the cursor, moved left from a
\* right half, is not on another one.
NoTwoRights(c) == \A j \in DOMAIN c : c[j] = "R" => j > 1 /\ c[j - 1] # "R"

\* Both, in every line the window can show, but for the operations that do
\* cut wide characters: erasing up to the cursor looks at the boundary before
\* the cursor and not the one after it, and DEL at none.
WideSound ==
    \A y \in -SbLines(term)..(term.rows - 1) :
        LET c == LineAt(term, y).c
        IN  NoTwoRights(c) /\ ("before" \in scene.groups \/ WideWhole(c))

\* Every line that the window shows, or that a selection names, can be
\* fetched: lineptr (terminal.c:166) asserts that it is given no position out
\* of range.  Two operations break it: ClearScrollback leaves a selection in
\* lines that are gone, and Reconfigure a view of lines that the new settings
\* do not show.
LinesInReach ==
    /\ InReach(term, term.disp)
    /\ Before(term.sel.from, term.sel.to) =>
            InReach(term, term.sel.from.y) /\ InReach(term, Back1(term, term.sel.to).y)

\* While a selection is shown inverted, what it covers is what went to the
\* clipboard, or as much of it as is left, wherever scrolling, resetting or
\* swapping the screens has moved the lines.
PartOf(s, t) == \E k \in 0..(Len(t) - Len(s)) : s = SubSeq(t, k + 1, k + Len(s))
SelectionKept ==
    term.sel.state = "selected" => PartOf(Selected(term), picked)

\* Output does not move the text that a user who scrolled back is reading.
ViewKept ==
    [][(/\ term.disp < 0 /\ term'.disp < 0 /\ ~UNCHANGED term.sb
        /\ term.rows = term'.rows /\ Len(term.sb) < term.savelines)
       => LineAt(term', term'.disp) = LineAt(term, term.disp)]_vars
=============================================================================
