------------------------------ MODULE LineDiff ------------------------------
(***************************************************************************)
(* The line diff of the history dialog (diff_lines in src/app/history.c):  *)
(* a table of longest common subsequences, filled from the end, and a walk *)
(* through it from the start.  A row is a kind and a line.                 *)
(***************************************************************************)
EXTENDS Integers, SequencesExt

Row(kind, line) == [kind |-> kind, line |-> line]

\* places in both: before line i + 1 of old and before line j + 1 of new
Places(old, new) == (0 .. Len(old)) \X (0 .. Len(new))

\* the table: how much of old from i and new from j can be kept
Lcs(old, new) ==
  LET lcs[p \in Places(old, new)] ==
        LET i == p[1]
            j == p[2]
        IN  IF i = Len(old) \/ j = Len(new) THEN 0
            ELSE IF old[i + 1] = new[j + 1] THEN lcs[<<i + 1, j + 1>>] + 1
            ELSE Max({lcs[<<i + 1, j>>], lcs[<<i, j + 1>>]})
  IN  lcs

\* (mutant) the table is read the wrong way round
DiffLinesSwapped(old, new) ==
  LET lcs == Lcs(old, new)
      rows[p \in Places(old, new)] ==
        LET i == p[1]
            j == p[2]
        IN  CASE i = Len(old) /\ j = Len(new) -> <<>>
              [] i < Len(old) /\ j < Len(new) /\ old[i + 1] = new[j + 1] ->
                   <<Row(" ", old[i + 1])>> \o rows[<<i + 1, j + 1>>]
              [] i < Len(old) /\ (j < Len(new) =>
                   old[i + 1] # new[j + 1] /\ lcs[<<i + 1, j>>] < lcs[<<i, j + 1>>]) ->
                   <<Row("-", old[i + 1])>> \o rows[<<i + 1, j>>]
              [] OTHER -> <<Row("+", new[j + 1])>> \o rows[<<i, j + 1>>]
  IN  rows[<<0, 0>>]

\* the walk: equal lines are kept; else the side goes on that loses nothing
DiffLines(old, new) ==
  LET lcs == Lcs(old, new)
      rows[p \in Places(old, new)] ==
        LET i == p[1]
            j == p[2]
        IN  CASE i = Len(old) /\ j = Len(new) -> <<>>
              [] i < Len(old) /\ j < Len(new) /\ old[i + 1] = new[j + 1] ->
                   <<Row(" ", old[i + 1])>> \o rows[<<i + 1, j + 1>>]
              [] i < Len(old) /\ (j < Len(new) =>
                   old[i + 1] # new[j + 1] /\ lcs[<<i + 1, j>>] >= lcs[<<i, j + 1>>]) ->
                   <<Row("-", old[i + 1])>> \o rows[<<i + 1, j>>]
              [] OTHER -> <<Row("+", new[j + 1])>> \o rows[<<i, j + 1>>]
  IN  rows[<<0, 0>>]

(* What a diff is: the definition the algorithm is held against. *)

\* the lines of the rows of some kinds
Side(rows, kinds) ==
  LET lines[k \in 1 .. Len(rows) + 1] ==
        IF k > Len(rows) THEN <<>>
        ELSE IF rows[k].kind \in kinds THEN <<rows[k].line>> \o lines[k + 1]
        ELSE lines[k + 1]
  IN  lines[1]

\* n places of a sequence, one after the other
Picked(seq, n) ==
  {p \in [1 .. n -> 1 .. Len(seq)] : \A j, k \in 1 .. n : j < k => p[j] < p[k]}

\* n lines are in both, in that order
IsCommon(old, new, n) ==
  \E p \in Picked(old, n), q \in Picked(new, n) : \A k \in 1 .. n : old[p[k]] = new[q[k]]

LongestCommon(old, new) == Max({n \in 0 .. Len(old) : IsCommon(old, new, n)})

IsDiff(rows, old, new) ==
  /\ Side(rows, {" ", "-"}) = old
  /\ Side(rows, {" ", "+"}) = new
  /\ Len(Side(rows, {" "})) = LongestCommon(old, new)
=============================================================================
