--------------------------------- MODULE Otp ---------------------------------
(***************************************************************************)
(* The otpauth:// URIs of one-time passwords (src/engine/otp.c): how their *)
(* parameters are read, and how the counter of a HOTP URI is raised in the *)
(* text.  A URI is its type and its query; a parameter has a key and a     *)
(* value, a sequence of characters of which 0 to 9 are the digits.  The    *)
(* label, the other parameters and the HMAC are left out: a code is known  *)
(* by the counter it is made with.                                         *)
(***************************************************************************)
EXTENDS Integers, SequencesExt

CONSTANTS
  MaxCounter,  \* the largest guint64
  Chars        \* what a value is made of

ASSUME OtpAssumption == MaxCounter \in Nat \ {0} /\ 0 .. 9 \subseteq Chars

\* URIs: a type, and parameters with a key and a value
OtpUris ==
  [type : {"totp", "hotp"}, query : Seq([key : STRING, value : Seq(Chars)])]

AllDigits(value) == value # <<>> /\ Range(value) \subseteq 0 .. 9

\* g_ascii_strtoull, which stops at the largest value
Number(digits) ==
  LET n[i \in 0 .. Len(digits)] ==
        IF i = 0 THEN 0 ELSE Min({10 * n[i - 1] + digits[i], MaxCounter})
  IN  n[Len(digits)]

Digits(n) ==
  LET digits[k \in 0 .. n] ==
        IF k < 10 THEN <<k>> ELSE Append(digits[k \div 10], k % 10)
  IN  digits[n]

\* passfl_otp_parse: the last parameter of that key counts, empty ones do not
Param(uri, key) ==
  LET hits == {i \in DOMAIN uri.query :
                 uri.query[i].key = key /\ uri.query[i].value # <<>>}
  IN  IF hits = {} THEN <<>> ELSE uri.query[Max(hits)].value

IsHotp(uri) ==
  /\ uri.type = "hotp"
  /\ Param(uri, "secret") # <<>>
  /\ AllDigits(Param(uri, "counter"))

Counter(uri) == Number(Param(uri, "counter"))

\* guint64: the largest counter is followed by 0
NextCounter(uri) == (Counter(uri) + 1) % (MaxCounter + 1)

\* (mutant) the counter the code was made from is written back
IncrementedUriStale(uri) == uri

\* passfl_otp_incremented_uri: the first "&counter=<old>" in the text; the
\* first parameter follows a question mark, and what goes on after the old
\* digits stays behind the new ones
IncrementedUri(uri) ==
  LET old  == Param(uri, "counter")
      hits == {i \in DOMAIN uri.query :
                 i > 1 /\ uri.query[i].key = "counter" /\ IsPrefix(old, uri.query[i].value)}
  IN  IF hits = {} THEN uri
      ELSE [uri EXCEPT !.query[Min(hits)].value =
              Digits(NextCounter(uri)) \o SubSeq(@, Len(old) + 1, Len(@))]

\* one counter, and not as the first parameter
IsUsual(uri) ==
  \E i \in DOMAIN uri.query :
     /\ i > 1
     /\ \A j \in DOMAIN uri.query :
          (uri.query[j].key = "counter" /\ uri.query[j].value # <<>>) <=> i = j
=============================================================================
