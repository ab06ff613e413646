------------------------------ MODULE Generator ------------------------------
(***************************************************************************)
(* The password generator (src/engine/generate.c): the character set of    *)
(* the environment becomes an alphabet, and random bytes become            *)
(* characters of it.  A set is a sequence of characters, by code, and of   *)
(* classes such as [:alnum:], as the parser takes it apart: in 0-[:digit:] *)
(* the bracket ends a range, and what follows it is characters, no class.  *)
(***************************************************************************)
EXTENDS Integers, FiniteSets, SequencesExt

Char(code)  == [class |-> "none", code |-> code]
Class(name) == [class |-> name, code |-> 0]
Dash    == 45
Bracket == 91

\* the characters from one to another
FromTo(lo, hi) == [k \in 1 .. hi - lo + 1 |-> lo + k - 1]

Digit == FromTo(48, 57)
Upper == FromTo(65, 90)
Lower == FromTo(97, 122)

\* the characters of a class, in their order
ClassChars(name) ==
  CASE name = "digit"  -> Digit
    [] name = "upper"  -> Upper
    [] name = "lower"  -> Lower
    [] name = "alpha"  -> Upper \o Lower
    [] name = "alnum"  -> Digit \o Upper \o Lower
    [] name = "punct"  -> FromTo(33, 47) \o FromTo(58, 64) \o FromTo(91, 96) \o FromTo(123, 126)
    [] name = "graph"  -> FromTo(33, 126)
    [] name = "xdigit" -> Digit \o FromTo(65, 70) \o FromTo(97, 102)

\* the loop over a range counts with a signed character: nothing from ASCII
\* up to a byte of UTF-8.  A range up to 127 would never end; no input has it.
RangeChars(lo, hi) == IF lo < 128 /\ hi >= 128 THEN <<>> ELSE FromTo(lo, hi)

\* what the pieces of the set stand for, one after the other
Expansion(set) ==
  LET isRange(i) ==
        /\ i + 2 <= Len(set)
        /\ set[i + 1] = Char(Dash)
        /\ set[i].class = "none" /\ set[i + 2].class = "none"
        /\ set[i].code # Bracket
        /\ set[i].code <= set[i + 2].code
      rest[i \in 1 .. Len(set) + 1] ==
        CASE i > Len(set) -> <<>>
          [] i <= Len(set) /\ set[i].class # "none" ->
               ClassChars(set[i].class) \o rest[i + 1]
          [] i <= Len(set) /\ isRange(i) ->
               RangeChars(set[i].code, set[i + 2].code) \o rest[i + 3]
          [] OTHER -> <<set[i].code>> \o rest[i + 1]
  IN  rest[1]

\* passfl_generate_expand_set: set_add takes an ASCII character, and only when
\* it was not seen before
ExpandSet(set) ==
  LET all == Expansion(set)
      seen(i) == \E j \in 1 .. i - 1 : all[j] = all[i]
      out[i \in 1 .. Len(all) + 1] ==
        IF i > Len(all) THEN <<>>
        ELSE IF all[i] >= 128 \/ seen(i) THEN out[i + 1] ELSE <<all[i]>> \o out[i + 1]
  IN  out[1]

\* (mutant) every byte is taken
LimitNone(n) == 256

\* passfl_generate_password: bytes from here on are drawn again
Limit(n) == 256 - (256 % n)

\* the characters a byte gives: one, or none
Draw(byte, alphabet) ==
  LET n == Len(alphabet)
  IN  IF byte < Limit(n) THEN <<alphabet[(byte % n) + 1]>> ELSE <<>>

\* what a password of an alphabet should be: the same number of bytes for
\* every character, and at least one
IsFair(alphabet, chars) ==
  /\ alphabet # <<>>
  /\ Range(alphabet) = chars
  /\ \A c \in chars :
       Cardinality({b \in 0 .. 255 : Draw(b, alphabet) = <<c>>}) =
         256 \div Cardinality(chars)
=============================================================================
