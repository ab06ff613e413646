--------------------------- MODULE MCEntryScreens ---------------------------
(* An instance of EntryScreens: texts that differ in their lines, their order, *)
(* their last newline, a NUL byte and their HOTP counters.                     *)
EXTENDS EntryScreens, TLC

CONSTANTS nl, nul, a, b, s

MCPlain == {nl, nul, a, b}
MCChars == 0 .. 9 \cup {s}

Hotp(query) == [type |-> "hotp", query |-> query]
Secret      == [key |-> "secret", value |-> <<s>>]
CounterOf(digits) == [key |-> "counter", value |-> digits]

Counted == <<a, nl, Hotp(<<Secret, CounterOf(<<9>>)>>), nl>>

MCTexts ==
  { Counted,
    <<b, nl, Hotp(<<Secret, CounterOf(<<2>>)>>), nl, Hotp(<<Secret, CounterOf(<<1, 1>>)>>)>>,
    <<a, nl, b, nl, a, nl, nl>>,
    <<nl, Hotp(<<CounterOf(<<1>>), Secret>>), nl, a, nul, b>> }

MCForeign == {Counted, <<>>, Gone}

MCTyped == {<<>>, <<b>>}

Dashed(lo, hi) == <<Char(lo), Char(Dash), Char(hi)>>
MCCharSets ==
  { [set |-> <<Class("punct"), Class("alnum")>>, chars |-> 33 .. 126],
    [set |-> <<Class("alnum")>>, chars |-> 48 .. 57 \cup 65 .. 90 \cup 97 .. 122],
    [set |-> Dashed(97, 104) \o Dashed(101, 107), chars |-> 97 .. 107],
    [set |-> Dashed(48, 200) \o <<Char(97), Char(Dash)>>, chars |-> {97, Dash}],
    [set |-> <<Class("digit"), Char(53), Char(Dash), Class("xdigit")>>,
     chars |-> {Dash} \cup 48 .. 57 \cup 65 .. 70 \cup 97 .. 102] }
=============================================================================
