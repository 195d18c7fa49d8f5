----------------------------- MODULE TermParser -----------------------------
(***************************************************************************)
(* The state machine of term_out (terminal.c:1405-3320) that takes control *)
(* sequences apart: which characters are controls at once, which belong to *)
(* a sequence, and which operation a complete one calls, with which        *)
(* arguments.  The operations on the screen are in module Terminal; here   *)
(* an operation is its name.  Characters are names as well: "CR", "ESC",   *)
(* "CSI" (one of the 8-bit controls), a digit, a letter.                   *)
(***************************************************************************)
EXTENDS Integers, FiniteSets, SequencesExt

CONSTANTS
    Alphabets, \* each a set of characters; the server sends those of one
    MaxArgs,   \* bound: arguments of a sequence (the array holds 32)
    MaxValue,  \* bound: value of an argument (62 is the largest that matters)
    MaxOsc     \* room for a string (OSC_STR_MAX)

VARIABLES parse, chars
\* The state: st (termstate), q (esc_query: none, an intermediate character,
\* or bad for several of them), args (esc_args up to esc_nargs), osc
\* (osc_strlen), word (osc_w), vt52, level (compatibility_level), set and g
\* (the locking shift and the two character sets), utf, sco, and op: the
\* operation the last character led to.

\* An argument that is not given counts as 0.
Digits == [c \in {"0", "1", "2", "4", "6"} |->
              CASE c = "0" -> 0 [] c = "1" -> 1 [] c = "2" -> 2 [] c = "4" -> 4 [] c = "6" -> 6]
C0 == {"CR", "LF", "BEL", "BS", "HT", "FF", "ENQ", "SO", "SI", "ESC"}
\* The 8-bit controls, and the letter that ESC needs for the same.
C1 == [c \in {"CSI", "OSC", "ST"} |->
          CASE c = "CSI" -> "[" [] c = "OSC" -> "]" [] c = "ST" -> "backslash"]
Between == {"#", "(", ")", "%", "quote"}
Private == {"?", ">", "="}

Everything == {"ANSIMIN", "VT100", "VT220", "ANSI", "SCOANSI", "OTHER"}
Scoansi == {"ANSIMIN", "SCOANSI"}
Vt102 == {"ANSIMIN", "VT100"}
Vtxxx == {"ANSIMIN", "VT100", "VT220"}

Start == [st |-> "TOPLEVEL", q |-> "none", args |-> <<0>>, osc |-> 0, word |-> FALSE,
          vt52 |-> FALSE, level |-> Everything, set |-> 0,
          g |-> [i \in {0, 1} |-> "ASCII"], utf |-> FALSE, sco |-> 0, op |-> <<>>]

\* States in which controls are obeyed at once (below DO_CTRLS).
Obeying == {"TOPLEVEL", "SEEN_ESC", "SEEN_CSI", "SEEN_OSC", "SEEN_OSC_W"}

Top(p) == [p EXCEPT !.st = "TOPLEVEL"]
Op(p, name) == [p EXCEPT !.op = <<name>>]
OpArgs(p, name) == [p EXCEPT !.op = <<name, p.args>>]
\* compatibility(x): nothing but a return to the top below that level.
At(p, need, q) == IF need \cap p.level = {} THEN Top(p) ELSE q

(***************************************************************************)
(* Controls of one character.                                              *)
(***************************************************************************)
Control(p, c) ==
    CASE c = "SO" -> At(p, {"VT100"}, [p EXCEPT !.set = 1])
      [] c = "SI" -> At(p, {"VT100"}, [p EXCEPT !.set = 0])
      [] c = "ESC" -> IF p.vt52 THEN [p EXCEPT !.st = "VT52_ESC"]
                      ELSE [p EXCEPT !.st = "SEEN_ESC", !.q = "none"]
      [] c = "FF" -> IF "SCOANSI" \in p.level THEN Op(p, "clear")
                     ELSE At(p, {"VT100"}, Op(p, "LF"))
      [] OTHER -> Op(p, c)

(***************************************************************************)
(* After ESC.                                                              *)
(***************************************************************************)
Vt100Letters == {"7", "8", "D", "E", "M", "Z", "c", "H", "=", ">"}
Charset == [c \in {"A", "B", "0", "U"} |->
               CASE c = "A" -> "GBCHR" [] c = "B" -> "ASCII"
                 [] c = "0" -> "LINEDRW" [] c = "U" -> "SCOACS"]

PowerOn(p) == [p EXCEPT !.g = [i \in {0, 1} |-> "ASCII"], !.set = 0, !.utf = FALSE,
                        !.sco = 0, !.op = <<"reset">>]

Escape(p, c) ==
    LET t == Top(p)
        half == IF p.q = "(" THEN 0 ELSE 1
    IN  IF c \in Between
        THEN [p EXCEPT !.q = IF @ = "none" THEN c ELSE "bad"]
        ELSE IF p.q = "none"
        THEN CASE c = "[" -> [p EXCEPT !.st = "SEEN_CSI", !.args = <<0>>]
               [] c = "]" -> At(p, {"OTHER"}, [p EXCEPT !.st = "SEEN_OSC", !.args[1] = 0])
               [] c = "c" -> At(p, {"VT100"}, PowerOn(t))
               [] c \in Vt100Letters \ {"c"} -> At(p, {"VT100"}, Op(t, <<"ESC", c>>))
               [] OTHER -> t
        ELSE IF p.q \in {"(", ")"} /\ c \in DOMAIN Charset
        THEN At(p, IF c = "U" THEN {"OTHER"} ELSE {"VT100"}, [t EXCEPT !.g[half] = Charset[c]])
        ELSE IF p.q = "%" /\ c \in {"8", "G", "@"}
        THEN At(p, {"OTHER"}, [t EXCEPT !.utf = (c # "@")])
        ELSE IF p.q = "#" /\ c \in {"8", "4"} THEN At(p, {"VT100"}, Op(t, <<"#", c>>))
        ELSE t

(***************************************************************************)
(* After CSI.                                                              *)
(***************************************************************************)
\* DECSCL: what the terminal claims to be.
Level(p) ==
    CASE p.args[1] = 61 -> (p.level \ Vtxxx) \cup Vt102
      [] p.args[1] = 62 -> p.level \cup Vtxxx
      [] p.args[1] = 40 -> p.level \cap Vtxxx
      [] p.args[1] \in {0, 41} -> Everything
      [] p.args[1] = 42 -> Scoansi
      [] OTHER -> p.level

\* ?2 is VT52 mode; the mode that is reset is the one that turns it on.
Modes(p, on) ==
    [p EXCEPT !.vt52 = IF p.q = "?" /\ \E i \in DOMAIN p.args : p.args[i] = 2
                       THEN ~on ELSE @]

\* Mutant: SGR 10 does not switch back.
SgrStays(p) ==
    LET Sco(s, a) == IF a \in {10, 11, 12} /\ "SCOANSI" \in p.level THEN a ELSE s
    IN  [p EXCEPT !.sco = FoldLeft(Sco, @, p.args)]

\* SGR 10, 11 and 12 switch the SCO character set.
Sgr(p) ==
    LET Sco(s, a) == IF a \in {10, 11, 12} /\ "SCOANSI" \in p.level THEN a - 10 ELSE s
    IN  [p EXCEPT !.sco = FoldLeft(Sco, @, p.args)]

AnsiLetters == {"a", "e", "E", "F", "G", "backquote", "d"}
ScoLetters == {"S", "T"}

Final(p, c) ==
    LET t == Top(p)
    IN  CASE c \in {"h", "l"} /\ p.q \in {"none", "?"} ->
                At(p, {"VT100"}, OpArgs(Modes(t, c = "h"), c))
          [] c = "p" /\ p.q = "quote" -> [t EXCEPT !.level = Level(p)]
          [] c = "m" /\ p.q = "none" -> OpArgs(Sgr(t), c)
          [] c \in AnsiLetters /\ p.q = "none" -> At(p, {"ANSI"}, OpArgs(t, c))
          [] c \in ScoLetters /\ p.q = "none" -> At(p, {"SCOANSI"}, OpArgs(t, c))
          [] c \in {"r", "g", "c", "x"} /\ p.q = "none" -> At(p, {"VT100"}, OpArgs(t, c))
          [] c = "c" /\ p.q = ">" -> At(p, {"OTHER"}, OpArgs(t, ">c"))
          [] OTHER -> IF p.q = "none" THEN OpArgs(t, c) ELSE t

Csi(p, c) ==
    IF c \in DOMAIN Digits
    THEN [p EXCEPT !.args[Len(p.args)] = 10 * @ + Digits[c]]
    ELSE IF c = ";" THEN [p EXCEPT !.args = Append(@, 0)]
    ELSE IF c \in Private \cup Between
    THEN [p EXCEPT !.q = IF @ = "none" THEN c ELSE "bad"]
    ELSE Final(p, c)

(***************************************************************************)
(* Operating system commands: a number, then a string up to ST or BEL; the *)
(* Linux palette; and the classes of characters.                           *)
(***************************************************************************)
\* do_osc: the loop over a word set leaves the length at -1.
DoOsc(p) ==
    IF p.word THEN [Top(p) EXCEPT !.osc = -1, !.op = <<"wordness", p.args[1]>>]
    ELSE [Top(p) EXCEPT !.op = <<"title", p.args[1], p.osc>>]

Osc(p, c) ==
    LET t == [p EXCEPT !.word = FALSE]
    IN  CASE c = "P" -> [t EXCEPT !.st = "SEEN_OSC_P", !.osc = 0]
          [] c = "R" -> Op(Top(t), "palette")
          [] c = "W" -> [t EXCEPT !.st = "SEEN_OSC_W", !.word = TRUE]
          [] c \in DOMAIN Digits -> [t EXCEPT !.args[1] = 10 * @ + Digits[c]]
          [] c = "L" /\ p.args[1] = 2 -> [t EXCEPT !.args[1] = 1]
          [] OTHER -> [t EXCEPT !.st = "OSC_STRING", !.osc = 0]

OscString(p, c) ==
    IF c \in {"LF", "CR"} THEN Top(p)
    ELSE IF c \in {"ST", "BEL"} THEN DoOsc(p)
    ELSE IF c = "ESC" THEN [p EXCEPT !.st = "OSC_MAYBE_ST"]
    ELSE [p EXCEPT !.osc = IF @ < MaxOsc THEN @ + 1 ELSE @]

\* Seven hexadecimal digits set a colour.
OscPalette(p, c) ==
    IF c \notin DOMAIN Digits \cup {"A", "B", "D", "E", "F", "a", "b", "c", "d", "e", "f"}
    THEN Top(p)
    ELSE IF p.osc = 6 THEN [Top(p) EXCEPT !.osc = 7, !.op = <<"palette">>]
    ELSE [p EXCEPT !.osc = @ + 1]

OscWord(p, c) ==
    IF c \in DOMAIN Digits THEN [p EXCEPT !.args[1] = 10 * @ + Digits[c]]
    ELSE [p EXCEPT !.st = "OSC_STRING", !.osc = 0]

(***************************************************************************)
(* VT52 mode.                                                              *)
(***************************************************************************)
Vt52(p, c) ==
    LET t == Top(p)
    IN  CASE c = "F" -> [t EXCEPT !.set = 0, !.g[0] = "LINEDRW"]
          [] c = "G" -> [t EXCEPT !.set = 0, !.g[0] = "ASCII"]
          [] c = "Y" -> [p EXCEPT !.st = "VT52_Y1"]
          [] c = "b" -> [p EXCEPT !.st = "VT52_FG"]
          [] c = "c" -> [p EXCEPT !.st = "VT52_BG"]
          [] c = "<" -> [t EXCEPT !.vt52 = FALSE]
          [] OTHER -> Op(t, <<"VT52", c>>)

\* The character set a graphic character is taken from.
Glyph(p) == IF p.utf THEN "UTF" ELSE IF p.sco # 0 THEN "SCOACS" ELSE p.g[p.set]

InState(p, c) ==
    CASE p.st = "TOPLEVEL" -> [p EXCEPT !.op = <<"put", c, Glyph(p)>>]
      [] p.st = "OSC_MAYBE_ST" -> IF c = "backslash" THEN DoOsc(p) ELSE Escape(p, c)
      [] p.st = "SEEN_ESC" -> Escape(p, c)
      [] p.st = "SEEN_CSI" -> Csi(p, c)
      [] p.st = "SEEN_OSC" -> Osc(p, c)
      [] p.st = "SEEN_OSC_W" -> OscWord(p, c)
      [] p.st = "SEEN_OSC_P" -> OscPalette(p, c)
      [] p.st = "OSC_STRING" -> OscString(p, c)
      [] p.st = "VT52_ESC" -> Vt52(p, c)
      [] p.st = "VT52_Y1" -> [p EXCEPT !.st = "VT52_Y2", !.op = <<"row", c>>]
      [] p.st = "VT52_Y2" -> Op(Top(p), <<"column", c>>)
      [] OTHER -> Op(Top(p), "colour")

\* With SCO characters on, most controls are characters too; with the SCO
\* character set designated, the high ones and DEL; in UTF-8 a high control
\* is part of a character, if a bad one.
Graphic(p, c) ==
    /\ p.st = "TOPLEVEL"
    /\ IF p.utf THEN c \in DOMAIN C1
       ELSE IF p.sco # 0 THEN c \notin {"ESC", "LF", "CR", "BS"}
       ELSE p.g[p.set] = "SCOACS" /\ c \notin C0

Feed(p0, c0) ==
    LET p == [p0 EXCEPT !.op = <<>>]
        high == c0 \in DOMAIN C1 /\ p.st \in Obeying /\ ~p.vt52 /\ "VT220" \in p.level
        p1 == IF high THEN [p EXCEPT !.st = "SEEN_ESC", !.q = "none"] ELSE p
        c == IF high THEN C1[c0] ELSE c0
    IN  IF Graphic(p, c0) THEN InState(p, c0)
        ELSE IF c = "DEL" /\ p1.st \in Obeying /\ "OTHER" \in p.level THEN Op(p1, "DEL")
        ELSE IF c \in C0 /\ p1.st \in Obeying THEN Control(p1, c)
        ELSE InState(p1, c)

-----------------------------------------------------------------------------
PInit == parse = Start /\ chars \in Alphabets
InBounds(p) == Len(p.args) <= MaxArgs /\ \A i \in DOMAIN p.args : p.args[i] <= MaxValue
\* The operation is carried out and forgotten.
Fed(c) == [Feed(parse, c) EXCEPT !.op = <<>>]
Receive == \E c \in chars : InBounds(Fed(c)) /\ parse' = Fed(c) /\ UNCHANGED chars
PNext == Receive
PSpec == PInit /\ [][PNext]_<<parse, chars>>

PTypeOK ==
    /\ parse.st \in Obeying \cup {"SEEN_OSC_P", "OSC_STRING", "OSC_MAYBE_ST",
                                  "VT52_ESC", "VT52_Y1", "VT52_Y2", "VT52_FG", "VT52_BG"}
    /\ parse.level \subseteq Everything /\ Len(parse.args) >= 1
    /\ parse.sco \in 0..2 /\ parse.set \in {0, 1}

\* A string never has a negative length or more than there is room for, and
\* no sequence is under way with the length a word set left behind.
OscBounded ==
    parse.st \in {"OSC_STRING", "OSC_MAYBE_ST", "SEEN_OSC_P"} =>
        parse.osc \in 0..(IF parse.st = "SEEN_OSC_P" THEN 6 ELSE MaxOsc)

\* A control in the middle of a sequence is obeyed and the sequence goes on
\* as if it had not been there.
ControlsTransparent ==
    (parse.st \in Obeying \ {"TOPLEVEL"}) =>
        \A c \in {"CR", "LF", "BEL", "BS", "HT"} :
            /\ Fed(c) = parse
            /\ Feed(parse, c).op # <<>>

\* However far a sequence has got, a carriage return and RIS reset the
\* terminal, except in VT52 mode and below VT100.
ResetReached ==
    ~parse.vt52 /\ "VT100" \in parse.level =>
        LET p == FoldLeft(Feed, parse, <<"CR", "ESC", "c">>)
        IN  p.st = "TOPLEVEL" /\ p.op = <<"reset">>
=============================================================================
