------------------------------ MODULE EntryText ------------------------------
(***************************************************************************)
(* The text of an entry and its lines (src/engine/entry.c), and how the    *)
(* editor, the history dialog and the HOTP row put lines together again.   *)
(* A text is a sequence of symbols: a newline, a NUL byte, and symbols for *)
(* what has neither, of which a URI of a one-time password is one.         *)
(***************************************************************************)
EXTENDS Integers, SequencesExt

CONSTANTS
  NL,   \* the newline
  Nul   \* a NUL byte: gpg encrypts any file

Symbols(text) == {text[i] : i \in DOMAIN text}

\* (mutant) all bytes of the line
CStringWhole(bytes) == bytes

\* passfl_entry_line: a C string, it ends at the first NUL
CString(bytes) ==
  LET stops == {i \in DOMAIN bytes : bytes[i] = Nul}
  IN  IF stops = {} THEN bytes ELSE SubSeq(bytes, 1, Min(stops) - 1)

\* where the line that begins at s ends: at a newline, or with the text
LineEnd(text, s) == Min({i \in s .. Len(text) + 1 : i <= Len(text) => text[i] = NL})

FinalNewline(text) == text # <<>> /\ Last(text) = NL

\* (mutant) a line only where a newline ends it
ParseTerminated(text) ==
  LET lines[s \in 1 .. Len(text) + 2] ==
        IF LineEnd(text, s) > Len(text) THEN <<>>
        ELSE <<CString(SubSeq(text, s, LineEnd(text, s) - 1))>> \o lines[LineEnd(text, s) + 1]
  IN  [lines |-> lines[1], final_newline |-> FinalNewline(text)]

\* passfl_entry_parse: every newline ends a line, and so does the end of the
\* text when something is left
Parse(text) ==
  LET lines[s \in 1 .. Len(text) + 2] ==
        IF s > Len(text) THEN <<>>
        ELSE <<CString(SubSeq(text, s, LineEnd(text, s) - 1))>> \o lines[LineEnd(text, s) + 1]
  IN  [lines |-> lines[1], final_newline |-> FinalNewline(text)]

\* passfl_entry_password: an empty text has an empty one
Password(entry) == IF entry.lines = <<>> THEN <<>> ELSE Head(entry.lines)

\* (mutant) every line gets its newline
AssembleEnded(lines, final_newline) ==
  LET text[k \in 1 .. Len(lines) + 1] ==
        IF k > Len(lines) THEN <<>> ELSE lines[k] \o <<NL>> \o text[k + 1]
  IN  text[1]

\* passfl_entry_edit_content, on_restore_clicked, on_hotp_generate: a newline
\* after each line, but for the last one if the text had none
Assemble(lines, final_newline) ==
  LET text[k \in 1 .. Len(lines) + 1] ==
        IF k > Len(lines) THEN <<>>
        ELSE lines[k] \o (IF k < Len(lines) \/ final_newline THEN <<NL>> ELSE <<>>)
                      \o text[k + 1]
  IN  text[1]
=============================================================================
