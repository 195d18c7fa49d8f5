-------------------------------- MODULE Ldisc --------------------------------
(* The line discipline (ldisc.c, ldiscucs.c): what is typed goes to the backend *)
(* at once or is edited first, while the backend and the terminal change their  *)
(* minds about who echoes and who edits.  The screen is what stands before the  *)
(* cursor: text that is not of the line (a prompt, the line above), and the     *)
(* columns the line discipline has written of the line.                         *)
EXTENDS Integers, Sequences, SequencesExt

CONSTANTS MaxKeys, MaxModes \* bounds of the model: keys typed, changes of mode

VARIABLES
    ld,         \* the Ldisc structure: buf, quotenext
    lcfg,       \* the Config: protocol, telnet_keyboard, telnet_newline
    echo, edit, \* ECHOING, EDITING
    keys, modes,\* keys typed, changes of mode
    columns,    \* on the screen, before the cursor
    margin,     \* how many of them stand before the line that is edited
    toBack,     \* what the backend was given for the last key
    sentUpTo,   \* the last key it was given before
    mixed       \* echo changed in the middle of the line

vars == <<ld, lcfg, echo, edit, keys, modes, columns, margin, toBack, sentUpTo, mixed>>

\* Bound of the model: the columns that are kept of the text before a line.
Other == [i \in 1 .. 4 |-> "other"]

\* A key: plain, space, control and high characters, and the editing keys; "CR" and "BS" are
\* magic (KCTRL: from the keyboard), "m" a plain ^M.
Plain == {"x", "sp", "hi", "m"}
Editing == {"BS", "^W", "^U", "^C", "^R", "^V", "^D", "^J", "CR"}

\* plen; pwrite writes as many columns.
Plen(c) == IF c \in {"x", "sp"} THEN 1 ELSE IF c = "hi" THEN 4 ELSE 2
Columns(buf) == FlattenSeq([i \in DOMAIN buf |-> [j \in 1 .. Plen(buf[i].c) |-> buf[i].c]])

\* What one key does: the line discipline, the screen, the output to the backend.
At == [buf |-> ld.buf, quote |-> ld.quote, screen |-> columns, margin |-> margin, out |-> <<>>]

\* bsb: whatever stands there is erased, up to the edge of the screen.
Bsb(w, n) == [w EXCEPT !.screen = IF n <= Len(@) THEN SubSeq(@, 1, Len(@) - n) ELSE <<>>]
\* pwrite and c_write.
Show(w, cols) == [w EXCEPT !.screen = @ \o cols]
NewLine(w) == [w EXCEPT !.screen = Other, !.margin = Len(Other)]
\* What has been sent is not edited any more, and what is shown of it stays.
Gone(w) == [w EXCEPT !.buf = <<>>, !.margin = Len(w.screen)]
Send(w, items) == [w EXCEPT !.out = @ \o items]
Special(w, ts) == Send(w, <<[c |-> ts, id |-> 0]>>)

\* Deleting back to n characters, with or without a look at ECHOING.
EraseTo(w, n, shown) ==
    LET gone == SubSeq(w.buf, n + 1, Len(w.buf))
        u == IF shown THEN Bsb(w, Len(Columns(gone))) ELSE w
    IN  [u EXCEPT !.buf = SubSeq(@, 1, n)]

\* Mutant: a character is erased as one column.
EraseOne(w) ==
    IF w.buf = <<>> THEN w
    ELSE [(IF echo THEN Bsb(w, 1) ELSE w) EXCEPT !.buf = Front(@)]

\* Mutant: a character is erased that may not have been shown.
EraseBlind(w) == IF w.buf = <<>> THEN w ELSE EraseTo(w, Len(w.buf) - 1, TRUE)

EraseChar(w) == IF w.buf = <<>> THEN w ELSE EraseTo(w, Len(w.buf) - 1, echo)

\* ^W: back to a character that begins a word.
Spaces == {"sp", "m", "^J"}
WordStart(buf) ==
    LET stops == {k \in 0 .. Len(buf) - 1 : k > 0 => buf[k].c \in Spaces /\ buf[k + 1].c \notin Spaces}
    IN  IF buf = <<>> THEN 0 ELSE CHOOSE k \in stops : \A j \in stops : j <= k

\* The default case; a magic key is stored as the character it stands for.
Insert(w, key) ==
    LET stored == IF key.c = "CR" THEN [key EXCEPT !.c = "m"] ELSE key
        u == [w EXCEPT !.buf = Append(@, stored), !.quote = FALSE]
    IN  IF echo THEN Show(u, Columns(<<stored>>)) ELSE u

\* The end of a line.
Eol ==
    IF lcfg.protocol = "raw" THEN "CRLF"
    ELSE IF lcfg.protocol = "telnet" /\ lcfg.newline THEN "TS_EOL" ELSE "CR"
SendLine(w) ==
    LET u == Special(Send(w, w.buf), Eol)
    IN  Gone(IF echo THEN NewLine(u) ELSE u)

\* ^C (for ^Z and ^\ too): without telnet keys it is typed as well.
Interrupt(w, key) ==
    LET u == Special(EraseTo(w, 0, echo), "TS_EL")
    IN  IF lcfg.keyboard THEN Special(u, "TS_IP") ELSE Insert(u, key)

\* ldisc_send, editing.
Edit(w, key) ==
    CASE w.quote \/ key.c \in Plain -> Insert(w, key)
      [] key.c = "BS" -> EraseChar(w)
      [] key.c = "^W" -> EraseTo(w, WordStart(w.buf), echo)
      [] key.c = "^U" -> LET u == Special(EraseTo(w, 0, echo), "TS_EL")
                         IN  IF lcfg.keyboard THEN u ELSE Insert(u, key)
      [] key.c = "^C" -> Interrupt(w, key)
      [] key.c = "^R" -> IF echo THEN Show(NewLine(w), Columns(w.buf)) ELSE w
      [] key.c = "^V" -> [w EXCEPT !.quote = TRUE]
      [] key.c = "^D" -> IF w.buf = <<>> THEN Special(w, "TS_EOF") ELSE Gone(Send(w, w.buf))
      [] key.c = "^J" -> IF lcfg.protocol = "raw" /\ w.buf # <<>> /\ Last(w.buf).c = "m"
                           THEN SendLine(EraseChar(w)) ELSE Insert(w, key)
      [] key.c = "CR" -> SendLine(w)

\* Mutant: what is still being edited waits for the end of the line.
FlushLate(w) == w

\* Not editing any more: what was edited is sent first and erased, echoed or not.
Flush(w) == EraseTo(Send(w, w.buf), 0, TRUE)

\* ldisc_send, not editing: a single magic key may stand for a Telnet command.  What it echoes is
\* text before the next line, and left out.
Pass(w, key) ==
    LET v == IF w.buf = <<>> THEN w ELSE Flush(w)
    IN  CASE lcfg.protocol = "telnet" /\ key.c = "CR" /\ lcfg.newline -> Special(v, "TS_EOL")
          [] lcfg.protocol = "telnet" /\ key.c = "BS" /\ lcfg.keyboard -> Special(v, "TS_EC")
          [] OTHER -> Send(v, <<key>>)

Init ==
    /\ ld = [buf |-> <<>>, quote |-> FALSE]
    /\ lcfg \in [protocol : {"raw", "telnet", "ssh"}, keyboard : BOOLEAN, newline : BOOLEAN]
    /\ lcfg.protocol # "telnet" => ~lcfg.newline
    /\ echo \in BOOLEAN /\ edit \in BOOLEAN
    /\ keys = 0 /\ modes = 0 /\ toBack = <<>> /\ sentUpTo = 0 /\ mixed = FALSE
    /\ columns = Other /\ margin = Len(Other)

\* The line that is flushed may not have been shown: bsb then takes other text away.
FlushedBlind == ~edit /\ ~echo /\ ld.buf # <<>>

\* A key is typed.
Type(c) ==
    /\ keys < MaxKeys /\ keys' = keys + 1
    /\ LET key == [c |-> c, id |-> keys + 1]
           w == IF edit THEN Edit(At, key) ELSE Pass(At, key)
       IN  /\ ld' = [buf |-> w.buf, quote |-> w.quote]
           /\ columns' = w.screen /\ toBack' = w.out
           /\ sentUpTo' = FoldLeft(LAMBDA a, k : IF k.id = 0 THEN a ELSE k.id, sentUpTo, toBack)
           /\ mixed' = (mixed /\ w.buf # <<>>)
           /\ margin' = (IF w.buf = <<>> /\ (mixed \/ FlushedBlind) THEN Len(w.screen) ELSE w.margin)
    /\ UNCHANGED <<lcfg, echo, edit, modes>>

\* The backend or the terminal changes its mind: telnet options, SSH-2 pseudo-terminals,
\* an escape sequence, the settings.
Mode ==
    /\ modes < MaxModes /\ modes' = modes + 1
    /\ echo' \in BOOLEAN /\ edit' \in BOOLEAN
    /\ mixed' = (ld.buf # <<>> /\ (mixed \/ echo' # echo))
    /\ UNCHANGED <<ld, lcfg, keys, columns, margin, toBack, sentUpTo>>

Next == (\E c \in Plain \cup Editing : Type(c)) \/ Mode
Spec == Init /\ [][Next]_vars
-----------------------------------------------------------------------------
TypeOK ==
    /\ ld.quote \in BOOLEAN /\ Len(ld.buf) <= MaxKeys
    /\ echo \in BOOLEAN /\ edit \in BOOLEAN /\ mixed \in BOOLEAN
    /\ keys \in 0 .. MaxKeys /\ modes \in 0 .. MaxModes

\* After the text that was there before it the screen shows the line that is being edited, in its
\* columns, or nothing of it without echo: erasing takes away what was shown of the line and no
\* other text.  Two lines are excepted: one that is echoed in part, because echo changed in the
\* middle of it, and one that was not echoed when editing ended, for which the code takes as many
\* columns away from the text before it.
ScreenShowsLine ==
    LET shown == IF echo THEN Columns(ld.buf) ELSE <<>>
    IN  ~mixed => Len(columns) = margin + Len(shown) /\ IsSuffix(shown, columns)

\* Everything typed reaches the backend in the order it was typed, or is still being edited:
\* a change of mode in the middle of a line loses nothing and reorders nothing.
SentInOrder ==
    LET all == SelectSeq(toBack \o ld.buf, LAMBDA k : k.id > 0)
    IN  /\ \A i, j \in DOMAIN all : i < j => all[i].id < all[j].id
        /\ \A i \in DOMAIN all : all[i].id > sentUpTo
=============================================================================
