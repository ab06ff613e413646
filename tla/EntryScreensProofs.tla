------------------------- MODULE EntryScreensProofs -------------------------
(***************************************************************************)
(* Proofs about EntryScreens and the algorithms it uses, for every text,   *)
(* alphabet and bound.                                                     *)
(***************************************************************************)
EXTENDS EntryScreens, Recursion, FiniteSetTheorems, SequenceTheorems, TLAPS

-----------------------------------------------------------------------------
(* The text of an entry and its lines. *)

LEMMA LineEndIs ==
  ASSUME NEW S, NEW text \in Seq(S), NEW s \in 1 .. Len(text) + 1
  PROVE  /\ LineEnd(text, s) \in s .. Len(text) + 1
         /\ LineEnd(text, s) <= Len(text) => text[LineEnd(text, s)] = NL
         /\ \A i \in s .. LineEnd(text, s) - 1 : text[i] # NL
  <1> DEFINE T == {i \in s .. Len(text) + 1 : i <= Len(text) => text[i] = NL}
  <1>1. Len(text) \in Nat
    OBVIOUS
  <1>2. T \in SUBSET Nat /\ Len(text) + 1 \in T
    BY <1>1
  <1>3. LineEnd(text, s) = CHOOSE x \in T : \A y \in T : x =< y
    BY DEF LineEnd, Min
  <1> HIDE DEF T
  <1>4. PICK e \in T : \A y \in T : e <= y
    BY <1>2, LeastElement
  <1>5. LineEnd(text, s) \in T /\ \A y \in T : LineEnd(text, s) <= y
    BY <1>3, <1>4
  <1>6. PICK n \in Nat : n = LineEnd(text, s) /\ n \in T
    BY <1>2, <1>5
  <1>7. \A i \in s .. n - 1 : i \notin T
    BY <1>5, <1>6
  <1>8. \A i \in s .. n - 1 : text[i] # NL
    BY <1>1, <1>6, <1>7 DEF T
  <1> QED  BY <1>6, <1>8 DEF T

LEMMA CStringWithoutNul ==
  ASSUME NEW S, NEW bytes \in Seq(S), Nul \notin Symbols(bytes)
  PROVE  CString(bytes) = bytes
  BY DEF CString, Symbols

LEMMA CStringHasNoNul ==
  ASSUME NEW S, NEW bytes \in Seq(S)
  PROVE  /\ CString(bytes) \in Seq(S)
         /\ Nul \notin Symbols(CString(bytes))
         /\ Symbols(CString(bytes)) \subseteq Symbols(bytes)
  <1> DEFINE T == {i \in DOMAIN bytes : bytes[i] = Nul}
  <1>1. CASE T = {}
    BY <1>1 DEF CString, Symbols
  <1>2. CASE T # {}
    <2>1. T \in SUBSET Nat
      OBVIOUS
    <2>2. CString(bytes) = SubSeq(bytes, 1, Min(T) - 1)
      BY <1>2 DEF CString
    <2> HIDE DEF T
    <2>3. PICK e \in T : \A y \in T : e <= y
      BY <1>2, <2>1, LeastElement
    <2>4. Min(T) \in T /\ \A y \in T : Min(T) <= y
      BY <2>3 DEF Min
    <2>5. PICK n \in 1 .. Len(bytes) : n = Min(T) /\ \A i \in 1 .. n - 1 : bytes[i] # Nul
      <3>1. T \subseteq 1 .. Len(bytes)
        BY DEF T
      <3>2. PICK n \in 1 .. Len(bytes) : n = Min(T)
        BY <2>4, <3>1
      <3>3. \A i \in 1 .. n - 1 : i \notin T
        BY <2>4, <3>2
      <3>4. \A i \in 1 .. n - 1 : bytes[i] # Nul
        BY <3>3 DEF T
      <3> QED  BY <3>2, <3>4
    <2>6. /\ CString(bytes) \in Seq(S)
          /\ Len(CString(bytes)) = n - 1
          /\ \A i \in 1 .. n - 1 : CString(bytes)[i] = bytes[i]
      BY <2>2, <2>5
    <2> QED  BY <2>5, <2>6 DEF Symbols
  <1> QED  BY <1>1, <1>2

LEMMA ConcatIs ==
  ASSUME NEW S, NEW s \in Seq(S), NEW t \in Seq(S), NEW a, a = Len(s), NEW b, b = Len(t)
  PROVE  /\ s \o t \in Seq(S)
         /\ Len(s \o t) = a + b
         /\ \A i \in 1 .. a : (s \o t)[i] = s[i]
         /\ \A i \in 1 .. b : (s \o t)[a + i] = t[i]
  <1>1. a \in Nat /\ b \in Nat
    OBVIOUS
  <1>2. s \o t \in Seq(S) /\ Len(s \o t) = a + b
    OBVIOUS
  <1>3. ASSUME NEW i \in 1 .. a PROVE (s \o t)[i] = s[i]
    BY <1>1
  <1>4. ASSUME NEW i \in 1 .. b PROVE (s \o t)[a + i] = t[i]
    BY <1>1
  <1> QED  BY <1>2, <1>3, <1>4

LEMMA SameSeq ==
  ASSUME NEW S, NEW s \in Seq(S), NEW t \in Seq(S), NEW n, n = Len(s), n = Len(t),
         \A i \in 1 .. n : s[i] = t[i]
  PROVE  s = t
  BY SeqEqual

LEMMA ConsIs ==
  ASSUME NEW S, NEW x \in S, NEW seq \in Seq(S)
  PROVE  /\ Cons(x, seq) \in Seq(S) /\ Cons(x, seq) # <<>>
         /\ Len(Cons(x, seq)) = Len(seq) + 1
         /\ Cons(x, seq)[1] = x
         /\ \A k \in 1 .. Len(seq) : Cons(x, seq)[k + 1] = seq[k]
  <1>1. PICK one \in Seq(S) : one = <<x>> /\ Len(one) = 1 /\ one[1] = x
    <2>1. <<x>> \in Seq(S)
      OBVIOUS
    <2> QED  BY <2>1
  <1>2. /\ one \o seq \in Seq(S)
        /\ Len(one \o seq) = Len(seq) + 1
        /\ (one \o seq)[1] = x
    BY <1>1
  <1>3. \A k \in 1 .. Len(seq) : (one \o seq)[k + 1] = seq[k]
    BY <1>1
  <1>4. one \o seq # <<>>
    BY <1>2
  <1> QED  BY <1>1, <1>2, <1>3, <1>4 DEF Cons

\* Induction over a sequence from its end: T is the set of those that have the
\* property.
LEMMA SeqInduction ==
  ASSUME NEW S, NEW T, <<>> \in T,
         \A x \in S, r \in Seq(S) : r \in T => Cons(x, r) \in T
  PROVE  \A seq \in Seq(S) : seq \in T
  <1> DEFINE U == {n \in Nat : \A seq \in Seq(S) : Len(seq) = n => seq \in T}
  <1>1. ASSUME NEW n \in Nat, \A k \in Nat : k < n => k \in U PROVE n \in U
    <2> SUFFICES ASSUME NEW seq \in Seq(S), Len(seq) = n PROVE seq \in T
      OBVIOUS
    <2>1. CASE seq = <<>>
      BY <2>1
    <2>2. CASE seq # <<>>
      <3>1. 1 \in 1 .. Len(seq) /\ Len(seq) \in 1 .. Len(seq)
        BY <2>2, EmptySeq
      <3>2. /\ SubSeq(seq, 1, Len(seq)) = <<seq[1]>> \o SubSeq(seq, 2, Len(seq))
        BY <3>1, SubSeqRecursiveFirst
      <3>3. SubSeq(seq, 1, Len(seq)) = seq
        BY SubSeqFull
      <3>4. SubSeq(seq, 2, Len(seq)) \in Seq(S) /\ Len(SubSeq(seq, 2, Len(seq))) = n - 1
        <4>1. 2 \in Int /\ Len(seq) \in Int /\ \A i \in 2 .. Len(seq) : seq[i] \in S
          BY <3>1
        <4>2. /\ SubSeq(seq, 2, Len(seq)) \in Seq(S)
              /\ Len(SubSeq(seq, 2, Len(seq)))
                   = IF 2 <= Len(seq) THEN Len(seq) - 2 + 1 ELSE 0
          BY <4>1, SubSeqProperties
        <4> QED  BY <2>2, <3>1, <4>2
      <3>5. PICK r \in Seq(S) : r = SubSeq(seq, 2, Len(seq)) /\ Len(r) = n - 1
        BY <3>4
      <3>6. n - 1 \in Nat /\ n - 1 < n
        BY <3>1
      <3>7. n - 1 \in U
        BY <1>1, <3>6
      <3>8. r \in T
        BY <3>5, <3>7
      <3>9. seq[1] \in S
        BY <3>1
      <3>10. Cons(seq[1], r) \in T
        BY <3>8, <3>9
      <3> QED  BY <3>2, <3>3, <3>5, <3>10 DEF Cons
    <2> QED  BY <2>1, <2>2
  <1> HIDE DEF U
  <1>2. \A n \in Nat : n \in U
    BY <1>1, Induction
  <1> SUFFICES ASSUME NEW seq \in Seq(S) PROVE seq \in T
    OBVIOUS
  <1>3. Len(seq) \in U
    BY <1>2
  <1> QED  BY <1>3 DEF U

\* The same over the places of a sequence.
LEMMA PlaceInduction ==
  ASSUME NEW n \in Nat, NEW T,
         \A s \in 1 .. n : (\A r \in s + 1 .. n : r \in T) => s \in T
  PROVE  \A s \in 1 .. n : s \in T
  <1> DEFINE P == 1 .. n
             m == [s \in P |-> n - s]
  <1>1. m \in [P -> Nat]
    OBVIOUS
  <1>2. ASSUME NEW s \in P, \A t \in P : m[t] < m[s] => t \in T PROVE s \in T
    <2>1. ASSUME NEW r \in s + 1 .. n PROVE r \in T
      <3>1. r \in P /\ m[r] < m[s]
        OBVIOUS
      <3> QED  BY <1>2, <3>1
    <2> QED  BY <2>1
  <1> HIDE DEF P, m
  <1>3. Inductive(P, m, T)
    BY <1>1, <1>2 DEF Inductive
  <1>4. \A s \in P : s \in T
    BY ONLY <1>3, MeasureInduction
  <1> QED  BY <1>4 DEF P

\* lines[s] are the lines of the text from s on
Parses(lines, text) ==
  /\ Parse(text) = [lines |-> lines[1], final_newline |-> FinalNewline(text)]
  /\ \A s \in 1 .. Len(text) + 2 :
       lines[s] = IF s > Len(text) THEN <<>>
                  ELSE Cons(CString(SubSeq(text, s, LineEnd(text, s) - 1)),
                            lines[LineEnd(text, s) + 1])

LEMMA ParseUnfolds ==
  ASSUME NEW S, NEW text \in Seq(S)
  PROVE  \E lines \in [1 .. Len(text) + 2 -> Seq(Seq(S))] : Parses(lines, text)
  <1> PICK n \in Nat : n = Len(text)
    OBVIOUS
  <1> DEFINE A == 1 .. n + 2
             D == Seq(Seq(S))
             line(s) == CString(SubSeq(text, s, LineEnd(text, s) - 1))
             Eq(g, s) == IF s > n THEN <<>> ELSE <<line(s)>> \o g[LineEnd(text, s) + 1]
             m == [s \in A |-> n + 2 - s]
             step == [x \in [A -> D] \X A |-> Eq(x[1], x[2])]
  <1>1. ASSUME NEW s \in A, ~ s > n
        PROVE  line(s) \in Seq(S) /\ LineEnd(text, s) + 1 \in A /\ LineEnd(text, s) \in s .. n + 1
    <2>1. s \in 1 .. Len(text) + 1
      BY <1>1
    <2>2. LineEnd(text, s) \in s .. n + 1
      BY <2>1, LineEndIs
    <2>3. SubSeq(text, s, LineEnd(text, s) - 1) \in Seq(S)
      BY <1>1, <2>2
    <2>4. CString(SubSeq(text, s, LineEnd(text, s) - 1)) \in Seq(S)
      BY <2>3, CStringHasNoNul
    <2> QED  BY <2>2, <2>4
  <1>2. ASSUME NEW g \in [A -> D], NEW s \in A PROVE Eq(g, s) \in D
    <2> HIDE DEF line
    <2>1. CASE s > n
      BY <2>1
    <2>2. CASE ~ s > n
      <3>1. g[LineEnd(text, s) + 1] \in D /\ <<line(s)>> \in D
        BY <1>1, <2>2
      <3> QED  BY <2>2, <3>1
    <2> QED  BY <2>1, <2>2
  <1>3. ASSUME NEW g, NEW h, NEW s \in A, \A t \in A : m[t] < m[s] => g[t] = h[t]
        PROVE  Eq(g, s) = Eq(h, s)
    <2> HIDE DEF line
    <2>1. CASE ~ s > n
      <3>1. LineEnd(text, s) + 1 \in A /\ m[LineEnd(text, s) + 1] < m[s]
        BY <1>1, <2>1
      <3> QED  BY <1>3, <3>1
    <2> QED  BY <2>1
  <1> DEFINE F(g) == [s \in A |-> Eq(g, s)]
             lines == CHOOSE g : g = F(g)
  <1>4. Parse(text) = [lines |-> lines[1], final_newline |-> FinalNewline(text)]
    BY DEF Parse
  <1>5. D # {} /\ m \in [A -> Nat] /\ 1 \in A
    <2>1. <<>> \in D
      OBVIOUS
    <2>2. m \in [A -> Nat] /\ 1 \in A
      OBVIOUS
    <2> QED  BY <2>1, <2>2
  <1> HIDE DEF A, D, m, Eq
  <1>6. PICK f \in [A -> D] : \A s \in A : f[s] = Eq(f, s)
    <2>1. step \in [[A -> D] \X A -> D]
      BY <1>2
    <2>2. \A g \in [A -> D], s \in A : step[<<g, s>>] = Eq(g, s)
      OBVIOUS
    <2> HIDE DEF step
    <2>3. ASSUME NEW g \in [A -> D], NEW h \in [A -> D], NEW s \in A,
                 \A t \in A : m[t] < m[s] => g[t] = h[t]
          PROVE  step[<<g, s>>] = step[<<h, s>>]
      <3>1. Eq(g, s) = Eq(h, s)
        BY <1>3, <2>3
      <3> QED  BY <2>2, <3>1
    <2>4. Recursive(A, D, m, step)
      BY <1>5, <2>1, <2>3 DEF Recursive
    <2>5. PICK f \in [A -> D] : \A s \in A : f[s] = step[<<f, s>>]
      BY ONLY <2>4, RecursiveFunction
    <2> QED  BY <2>2, <2>5
  <1>7. f = F(f)
    BY <1>6
  <1> HIDE DEF F
  <1>8. lines = F(lines)
    BY <1>7
  <1> DEFINE T == {s \in A : lines[s] = f[s]}
  <1> HIDE DEF lines
  <1>9. ASSUME NEW s \in A, \A t \in A : m[t] < m[s] => t \in T PROVE s \in T
    <2>1. Eq(lines, s) = Eq(f, s)
      BY <1>3, <1>9
    <2> QED  BY <1>6, <1>8, <2>1 DEF F
  <1> HIDE DEF T
  <1>10. \A s \in A : lines[s] = f[s]
    <2>1. Inductive(A, m, T)
      BY <1>5, <1>9 DEF Inductive
    <2>2. \A s \in A : s \in T
      BY ONLY <2>1, MeasureInduction
    <2> QED  BY <2>2 DEF T
  <1>11. Parse(text) = [lines |-> f[1], final_newline |-> FinalNewline(text)]
    BY <1>4, <1>5, <1>10
  <1>12. Parses(f, text)
    BY <1>6, <1>11 DEF A, Eq, Parses, Cons
  <1> QED  BY <1>6, <1>12 DEF A, D

\* what ends a line that is followed by more, or not
EndOf(more, fin) == IF more \/ fin THEN <<NL>> ELSE <<>>

\* a line before the text of the lines after it
Put(line, more, fin, text) == line \o EndOf(more, fin) \o text

\* text[k] is the text of the lines from k on
Assembles(text, lines, fin) ==
  /\ Assemble(lines, fin) = text[1]
  /\ \A k \in 1 .. Len(lines) + 1 :
       text[k] = IF k > Len(lines) THEN <<>>
                 ELSE lines[k] \o EndOf(k < Len(lines), fin) \o text[k + 1]

LEMMA AssembleUnfolds ==
  ASSUME NEW S, NL \in S, NEW lines \in Seq(Seq(S)), NEW fin \in BOOLEAN
  PROVE  \E text \in [1 .. Len(lines) + 1 -> Seq(S)] : Assembles(text, lines, fin)
  <1> PICK n \in Nat : n = Len(lines)
    OBVIOUS
  <1> DEFINE A == 1 .. n + 1
             D == Seq(S)
             end(k) == IF k < n \/ fin THEN <<NL>> ELSE <<>>
             Eq(g, k) == IF k > n THEN <<>> ELSE lines[k] \o end(k) \o g[k + 1]
             m == [k \in A |-> n + 1 - k]
             step == [x \in [A -> D] \X A |-> Eq(x[1], x[2])]
             F(g) == [k \in A |-> Eq(g, k)]
             text == CHOOSE g : g = F(g)
  <1>1. Assemble(lines, fin) = text[1]
    BY DEF Assemble
  <1>2. ASSUME NEW g \in [A -> D], NEW k \in A PROVE Eq(g, k) \in D
    <2>1. CASE ~ k > n
      <3>1. k \in 1 .. n /\ k + 1 \in A
        BY <2>1
      <3>2. end(k) \in D
        OBVIOUS
      <3> HIDE DEF end
      <3>3. lines[k] \in D /\ g[k + 1] \in D
        <4>1. lines[k] \in D
          BY ONLY <3>1, lines \in Seq(Seq(S)), n = Len(lines)
        <4>2. g[k + 1] \in D
          BY ONLY <3>1, g \in [A -> D]
        <4> QED  BY ONLY <4>1, <4>2
      <3>4. lines[k] \o end(k) \o g[k + 1] \in D
        BY <3>2, <3>3
      <3> QED  BY <2>1, <3>4
    <2> QED  BY <2>1
  <1>3. ASSUME NEW g, NEW h, NEW k \in A, \A j \in A : m[j] < m[k] => g[j] = h[j]
        PROVE  Eq(g, k) = Eq(h, k)
    <2>1. CASE ~ k > n
      <3>1. k + 1 \in A /\ m[k + 1] < m[k]
        BY <2>1
      <3> HIDE DEF m, end
      <3> QED  BY <1>3, <3>1
    <2> QED  BY <2>1
  <1>4. D # {} /\ m \in [A -> Nat] /\ 1 \in A
    <2>1. <<>> \in D
      OBVIOUS
    <2>2. m \in [A -> Nat] /\ 1 \in A
      OBVIOUS
    <2> QED  BY <2>1, <2>2
  <1> HIDE DEF A, D, m, Eq
  <1>5. PICK f \in [A -> D] : \A k \in A : f[k] = Eq(f, k)
    <2>1. step \in [[A -> D] \X A -> D]
      BY <1>2
    <2>2. \A g \in [A -> D], k \in A : step[<<g, k>>] = Eq(g, k)
      OBVIOUS
    <2> HIDE DEF step
    <2>3. ASSUME NEW g \in [A -> D], NEW h \in [A -> D], NEW k \in A,
                 \A j \in A : m[j] < m[k] => g[j] = h[j]
          PROVE  step[<<g, k>>] = step[<<h, k>>]
      <3>1. Eq(g, k) = Eq(h, k)
        BY <1>3, <2>3
      <3> QED  BY <2>2, <3>1
    <2>4. Recursive(A, D, m, step)
      BY <1>4, <2>1, <2>3 DEF Recursive
    <2>5. PICK f \in [A -> D] : \A k \in A : f[k] = step[<<f, k>>]
      BY ONLY <2>4, RecursiveFunction
    <2> QED  BY <2>2, <2>5
  <1>6. f = F(f)
    BY <1>5
  <1> HIDE DEF F
  <1>7. text = F(text)
    BY <1>6
  <1> DEFINE T == {k \in A : text[k] = f[k]}
  <1> HIDE DEF text
  <1>8. ASSUME NEW k \in A, \A j \in A : m[j] < m[k] => j \in T PROVE k \in T
    <2>1. Eq(text, k) = Eq(f, k)
      BY <1>3, <1>8
    <2> QED  BY <1>5, <1>7, <2>1 DEF F
  <1> HIDE DEF T
  <1>9. \A k \in A : text[k] = f[k]
    <2>1. Inductive(A, m, T)
      BY <1>4, <1>8 DEF Inductive
    <2>2. \A k \in A : k \in T
      BY ONLY <2>1, MeasureInduction
    <2> QED  BY <2>2 DEF T
  <1>10. Assemble(lines, fin) = f[1]
    BY <1>1, <1>4, <1>9
  <1>11. Assembles(f, lines, fin)
    BY <1>5, <1>10 DEF A, Eq, Assembles, EndOf
  <1> QED  BY <1>5, <1>11 DEF A, D

\* Assembled line by line.
LEMMA AssembleEmpty ==
  ASSUME NEW fin \in BOOLEAN
  PROVE  Assemble(<<>>, fin) = <<>>
  <1>1. PICK lines \in Seq(Seq({NL})) : lines = <<>> /\ Len(lines) = 0
    <2>1. <<>> \in Seq(Seq({NL})) /\ Len(<<>>) = 0
      BY EmptySeq
    <2> QED  BY <2>1
  <1>2. PICK text \in [1 .. Len(lines) + 1 -> Seq({NL})] : Assembles(text, lines, fin)
    BY AssembleUnfolds
  <1>3. 1 \in 1 .. Len(lines) + 1 /\ 1 > Len(lines)
    BY <1>1
  <1>4. text[1] = <<>>
    BY <1>2, <1>3 DEF Assembles
  <1> QED  BY <1>1, <1>2, <1>4 DEF Assembles

LEMMA AssembleLine ==
  ASSUME NEW S, NL \in S, NEW line \in Seq(S), NEW rest \in Seq(Seq(S)),
         NEW fin \in BOOLEAN
  PROVE  /\ Assemble(rest, fin) \in Seq(S)
         /\ Assemble(Cons(line, rest), fin)
              = Put(line, rest # <<>>, fin, Assemble(rest, fin))
  <1> PICK n \in Nat : n = Len(rest)
    OBVIOUS
  <1>1. PICK lines \in Seq(Seq(S)) :
          /\ lines = Cons(line, rest)
          /\ Len(lines) = n + 1
          /\ lines[1] = line
          /\ \A k \in 1 .. n : lines[k + 1] = rest[k]
    <2>1. PICK D : D = Seq(S)
      OBVIOUS
    <2>2. line \in D /\ rest \in Seq(D)
      BY <2>1
    <2>3. /\ Cons(line, rest) \in Seq(D)
          /\ Len(Cons(line, rest)) = n + 1
          /\ Cons(line, rest)[1] = line
          /\ \A k \in 1 .. n : Cons(line, rest)[k + 1] = rest[k]
      BY <2>2, ConsIs
    <2> QED  BY <2>1, <2>3
  <1>2. PICK t \in [1 .. n + 1 -> Seq(S)] : Assembles(t, rest, fin)
    BY AssembleUnfolds
  <1>3. PICK u \in [1 .. n + 2 -> Seq(S)] : Assembles(u, lines, fin)
    <2>1. \A ls \in Seq(Seq(S)) :
             \E u \in [1 .. Len(ls) + 1 -> Seq(S)] : Assembles(u, ls, fin)
      BY AssembleUnfolds
    <2>2. PICK u \in [1 .. Len(lines) + 1 -> Seq(S)] : Assembles(u, lines, fin)
      BY <2>1
    <2>3. 1 .. Len(lines) + 1 = 1 .. n + 2
      BY <1>1
    <2>4. u \in [1 .. n + 2 -> Seq(S)]
      BY <2>3
    <2> QED  BY <2>2, <2>4
  <1>4. \A k \in 1 .. n :
          /\ t[k] = rest[k] \o EndOf(k < n, fin) \o t[k + 1]
          /\ u[k + 1] = rest[k] \o EndOf(k < n, fin) \o u[k + 2]
    <2> SUFFICES ASSUME NEW k \in 1 .. n
                 PROVE  /\ t[k] = rest[k] \o EndOf(k < n, fin) \o t[k + 1]
                        /\ u[k + 1] = rest[k] \o EndOf(k < n, fin) \o u[k + 2]
      OBVIOUS
    <2>1. t[k] = rest[k] \o EndOf(k < n, fin) \o t[k + 1]
      <3>1. k \in 1 .. Len(rest) + 1 /\ ~ k > Len(rest)
        OBVIOUS
      <3>2. t[k] = rest[k] \o EndOf(k < Len(rest), fin) \o t[k + 1]
        BY <1>2, <3>1 DEF Assembles
      <3> QED  BY <3>2
    <2>2. /\ k + 1 \in 1 .. Len(lines) + 1 /\ ~ k + 1 > Len(lines)
          /\ (k + 1 < Len(lines)) = (k < n) /\ k + 1 + 1 = k + 2
      <3>1. Len(lines) = n + 1
        BY <1>1
      <3>2. /\ k + 1 \in 1 .. n + 1 + 1 /\ ~ k + 1 > n + 1
            /\ (k + 1 < n + 1) = (k < n) /\ k + 1 + 1 = k + 2
        BY ONLY k \in 1 .. n, n \in Nat
      <3> QED  BY ONLY <3>1, <3>2
    <2>3. u[k + 1] = lines[k + 1] \o EndOf(k + 1 < Len(lines), fin) \o u[k + 1 + 1]
      BY <1>3, <2>2 DEF Assembles
    <2> QED  BY <1>1, <2>1, <2>2, <2>3
  <1>5. t[n + 1] = <<>> /\ u[n + 2] = <<>>
    <2>1. n + 1 \in 1 .. n + 1 /\ n + 1 > n /\ n + 2 \in 1 .. n + 2 /\ n + 2 > n + 1
      OBVIOUS
    <2>2. t[n + 1] = <<>>
      BY <1>2, <2>1 DEF Assembles
    <2>3. u[n + 2] = <<>>
      <3>1. n + 2 \in 1 .. Len(lines) + 1 /\ n + 2 > Len(lines)
        BY <1>1
      <3> QED  BY <1>3, <3>1 DEF Assembles
    <2> QED  BY <2>2, <2>3
  <1>6. u[1] = line \o EndOf(rest # <<>>, fin) \o u[2]
    <2>1. 1 \in 1 .. Len(lines) + 1 /\ ~ 1 > Len(lines) /\ 1 + 1 = 2
      BY <1>1
    <2>2. u[1] = lines[1] \o EndOf(1 < Len(lines), fin) \o u[2]
      BY <1>3, <2>1 DEF Assembles
    <2>3. (1 < Len(lines)) = (rest # <<>>)
      BY <1>1
    <2> QED  BY <1>1, <2>2, <2>3
  <1> DEFINE T == {d \in 0 .. n : u[n - d + 2] = t[n - d + 1]}
  <1>7. ASSUME NEW d \in Nat, \A e \in Nat : e < d => (e <= n => e \in T)
        PROVE  d <= n => d \in T
    <2> SUFFICES ASSUME d <= n PROVE u[n - d + 2] = t[n - d + 1]
      OBVIOUS
    <2>1. CASE d = 0
      BY <1>5, <2>1
    <2>2. CASE d # 0
      <3>0. n - d + 1 \in 1 .. n
        BY <2>2
      <3> PICK k \in 1 .. n : k = n - d + 1
        BY <3>0
      <3>1. n - (d - 1) + 2 = k + 2 /\ n - (d - 1) + 1 = k + 1 /\ n - d + 2 = k + 1
        OBVIOUS
      <3>2. d - 1 \in T
        <4>1. d - 1 \in Nat /\ d - 1 < d /\ d - 1 <= n
          BY <2>2
        <4> HIDE DEF T
        <4> QED  BY <1>7, <4>1
      <3>3. u[k + 2] = t[k + 1]
        BY <3>1, <3>2
      <3>4. u[k + 1] = t[k]
        BY ONLY <1>4, <3>3
      <3> QED  BY ONLY <3>0, <3>1, <3>4, k = n - d + 1
    <2> QED  BY <2>1, <2>2
  <1>8. u[2] = t[1]
    <2> DEFINE U == {d \in Nat : d <= n => d \in T}
    <2> HIDE DEF T
    <2>1. ASSUME NEW d \in Nat, \A e \in Nat : e < d => e \in U PROVE d \in U
      BY <1>7, <2>1
    <2> HIDE DEF U
    <2>2. \A d \in Nat : d \in U
      BY <2>1, Induction
    <2>3. n \in T
      BY <2>2 DEF U
    <2>4. n - n + 2 = 2 /\ n - n + 1 = 1
      OBVIOUS
    <2> QED  BY <2>3, <2>4 DEF T
  <1>9. Assemble(rest, fin) = t[1] /\ Assemble(lines, fin) = u[1]
    BY <1>2, <1>3 DEF Assembles
  <1>10. t[1] \in Seq(S)
    OBVIOUS
  <1>11. u[1] = Put(line, rest # <<>>, fin, t[1])
    BY <1>6, <1>8 DEF Put
  <1> QED  BY <1>1, <1>9, <1>10, <1>11

LEMMA SubSeqInside ==
  ASSUME NEW S, NEW seq \in Seq(S), NEW m \in 1 .. Len(seq) + 1, NEW e \in m - 1 .. Len(seq)
  PROVE  /\ SubSeq(seq, m, e) \in Seq(S)
         /\ Len(SubSeq(seq, m, e)) = e - m + 1
         /\ \A i \in 1 .. e - m + 1 : SubSeq(seq, m, e)[i] = seq[m + i - 1]
  <1>1. m \in Int /\ e \in Int /\ \A i \in m .. e : seq[i] \in S
    OBVIOUS
  <1> QED  BY <1>1, SubSeqProperties

\* A sequence around one of its elements.
LEMMA SubSeqAround ==
  ASSUME NEW S, NEW seq \in Seq(S), NEW m \in 1 .. Len(seq), NEW e \in m .. Len(seq)
  PROVE  SubSeq(seq, m, e - 1) \o <<seq[e]>> \o SubSeq(seq, e + 1, Len(seq))
           = SubSeq(seq, m, Len(seq))
  <1>1. PICK n \in Nat : n = Len(seq)
    OBVIOUS
  <1>2. /\ m \in 1 .. Len(seq) + 1 /\ e - 1 \in m - 1 .. Len(seq) /\ n \in e - 1 .. Len(seq)
        /\ e - 1 + 1 = e
    BY <1>1
  <1>3. SubSeq(seq, m, e - 1) \o SubSeq(seq, e, n) = SubSeq(seq, m, n)
    BY <1>2, ConcatAdjacentSubSeq
  <1>4. SubSeq(seq, e, n) = <<seq[e]>> \o SubSeq(seq, e + 1, n)
    BY <1>1, SubSeqRecursiveFirst
  <1>5. PICK s \in Seq(S) : s = SubSeq(seq, m, e - 1)
    BY <1>2, SubSeqInside
  <1>6. PICK t \in Seq(S) : t = <<seq[e]>>
    <2>1. <<seq[e]>> \in Seq(S)
      BY <1>1
    <2> QED  BY <2>1
  <1>7. PICK u \in Seq(S) : u = SubSeq(seq, e + 1, n)
    <2>1. e + 1 \in 1 .. Len(seq) + 1 /\ n \in e + 1 - 1 .. Len(seq)
      BY <1>1
    <2>2. SubSeq(seq, e + 1, n) \in Seq(S)
      BY <2>1, SubSeqInside
    <2> QED  BY <2>2
  <1>8. (s \o t) \o u = s \o (t \o u)
    OBVIOUS
  <1> QED  BY <1>1, <1>3, <1>4, <1>5, <1>6, <1>7, <1>8

\* Every byte of a text without a NUL comes back from its lines, with or without
\* a newline at the end, empty lines and an empty text included
\* (passfl_entry_parse, passfl_entry_edit_content, on_restore_clicked).
THEOREM AssembleOfParse ==
  ASSUME NEW S, NL \in S, NEW text \in Seq(S), Nul \notin Symbols(text)
  PROVE  Assemble(Parse(text).lines, Parse(text).final_newline) = text
  <1> PICK n \in Nat : n = Len(text)
    OBVIOUS
  <1> PICK fin \in BOOLEAN : fin = FinalNewline(text)
    BY DEF FinalNewline
  <1>1. PICK L \in [1 .. n + 2 -> Seq(Seq(S))] : Parses(L, text)
    BY ParseUnfolds
  <1>2. \A s \in 1 .. n + 2 : s > n => L[s] = <<>>
    BY <1>1 DEF Parses
  <1>3. ASSUME NEW s \in 1 .. n
        PROVE  \E e \in s .. n + 1 :
                 /\ e <= n => text[e] = NL
                 /\ \A i \in s .. e - 1 : text[i] # NL
                 /\ SubSeq(text, s, e - 1) \in Seq(S)
                 /\ L[s] = Cons(SubSeq(text, s, e - 1), L[e + 1])
    <2>1. s \in 1 .. Len(text) + 1 /\ s \in 1 .. Len(text) + 2 /\ ~ s > Len(text)
      OBVIOUS
    <2>2. PICK e \in s .. n + 1 :
            /\ e = LineEnd(text, s)
            /\ e <= n => text[e] = NL
            /\ \A i \in s .. e - 1 : text[i] # NL
      BY <2>1, LineEndIs
    <2>3. PICK bytes \in Seq(S) :
            /\ bytes = SubSeq(text, s, e - 1)
            /\ Len(bytes) = e - s
            /\ \A i \in 1 .. e - s : bytes[i] = text[s + i - 1]
      <3>1. e - 1 \in s - 1 .. Len(text) /\ e - 1 - s + 1 = e - s
        OBVIOUS
      <3>2. s \in 1 .. Len(text) + 1
        OBVIOUS
      <3>3. /\ SubSeq(text, s, e - 1) \in Seq(S)
            /\ Len(SubSeq(text, s, e - 1)) = e - s
            /\ \A i \in 1 .. e - s : SubSeq(text, s, e - 1)[i] = text[s + i - 1]
        BY <3>1, <3>2, SubSeqInside
      <3> QED  BY <3>3
    <2>4. Nul \notin Symbols(bytes)
      BY <2>3 DEF Symbols
    <2>5. CString(bytes) = bytes
      BY <2>4, CStringWithoutNul
    <2>6. L[s] = Cons(CString(SubSeq(text, s, LineEnd(text, s) - 1)), L[LineEnd(text, s) + 1])
      BY <1>1, <2>1 DEF Parses
    <2> QED  BY <2>2, <2>3, <2>5, <2>6
  <1>4. \A s \in 1 .. n : L[s] # <<>>
    <2> SUFFICES ASSUME NEW s \in 1 .. n PROVE L[s] # <<>>
      OBVIOUS
    <2>1. PICK e \in s .. n + 1 :
            /\ SubSeq(text, s, e - 1) \in Seq(S)
            /\ L[s] = Cons(SubSeq(text, s, e - 1), L[e + 1])
      BY <1>3
    <2>2. PICK rest \in Seq(Seq(S)) : rest = L[e + 1]
      <3>1. e + 1 \in 1 .. n + 2
        OBVIOUS
      <3> QED  BY <3>1
    <2>3. PICK D : D = Seq(S)
      OBVIOUS
    <2>4. SubSeq(text, s, e - 1) \in D /\ rest \in Seq(D)
      BY <2>1, <2>3
    <2>5. Cons(SubSeq(text, s, e - 1), rest) # <<>>
      BY <2>4, ConsIs
    <2> QED  BY <2>1, <2>2, <2>5
  <1> DEFINE good(s) == Assemble(L[s], fin) = SubSeq(text, s, n)
             T == {d \in Nat : d <= n + 1 => good(n + 2 - d)}
  <1>5. ASSUME NEW s \in 1 .. n + 2, s > n PROVE good(s)
    <2>1. SubSeq(text, s, n) = <<>>
      BY <1>5
    <2> QED  BY <1>2, <1>5, <2>1, AssembleEmpty
  <1>6. ASSUME NEW s \in 1 .. n, \A r \in s + 1 .. n + 2 : good(r) PROVE good(s)
    <2>1. PICK e \in s .. n + 1 :
            /\ e <= n => text[e] = NL
            /\ \A i \in s .. e - 1 : text[i] # NL
            /\ SubSeq(text, s, e - 1) \in Seq(S)
            /\ L[s] = Cons(SubSeq(text, s, e - 1), L[e + 1])
      BY <1>3
    <2>2. PICK line \in Seq(S) : line = SubSeq(text, s, e - 1)
      BY <2>1
    <2>3. e + 1 \in 1 .. n + 2 /\ e + 1 \in s + 1 .. n + 2
      OBVIOUS
    <2>4. PICK rest \in Seq(Seq(S)) : rest = L[e + 1]
      BY <2>3
    <2>5. Assemble(rest, fin) = SubSeq(text, e + 1, n)
      BY <1>6, <2>3, <2>4
    <2>6. Assemble(Cons(line, rest), fin) = Put(line, rest # <<>>, fin, Assemble(rest, fin))
      BY AssembleLine
    <2>7. Assemble(L[s], fin) = line \o EndOf(rest # <<>>, fin) \o SubSeq(text, e + 1, n)
      BY <2>1, <2>2, <2>4, <2>5, <2>6 DEF Put
    <2>8. CASE e <= n
      <3>1. rest # <<>> \/ fin
        <4>1. CASE e < n
          <5>1. e + 1 \in 1 .. n
            BY <4>1
          <5> QED  BY <1>4, <2>4, <5>1
        <4>2. CASE e = n
          <5>1. text[n] = NL /\ text # <<>>
            BY <2>1, <4>2
          <5> QED  BY <5>1 DEF FinalNewline, Last
        <4> QED  BY <2>8, <4>1, <4>2
      <3>2. EndOf(rest # <<>>, fin) = <<text[e]>>
        BY <2>1, <2>8, <3>1 DEF EndOf
      <3>3. SubSeq(text, s, e - 1) \o <<text[e]>> \o SubSeq(text, e + 1, n) = SubSeq(text, s, n)
        <4>1. s \in 1 .. Len(text) /\ e \in s .. Len(text)
          BY <2>8
        <4> QED  BY <4>1, SubSeqAround
      <3> QED  BY <2>2, <2>7, <3>2, <3>3
    <2>9. CASE e = n + 1
      <3>1. rest = <<>>
        <4>1. n + 2 \in 1 .. n + 2 /\ n + 2 > n /\ e + 1 = n + 2
          BY <2>9
        <4> QED  BY <1>2, <2>4, <4>1
      <3>2. SubSeq(text, e + 1, n) = <<>>
        BY <2>9, SubSeqEmpty
      <3>3. ~ fin
        <4>1. n \in s .. e - 1
          BY <2>9
        <4>2. text[n] # NL
          BY <2>1, <4>1
        <4> QED  BY <4>2 DEF FinalNewline, Last
      <3>4. EndOf(rest # <<>>, fin) = <<>>
        BY <3>1, <3>3 DEF EndOf
      <3>5. e - 1 = n
        BY <2>9
      <3>6. line = SubSeq(text, s, n)
        BY <2>2, <3>5
      <3>7. line \o <<>> \o <<>> = line
        BY ConcatEmptySeq
      <3>8. Assemble(L[s], fin) = line
        BY <2>7, <3>2, <3>4, <3>7
      <3>9. Assemble(L[s], fin) = SubSeq(text, s, n)
        BY <3>6, <3>8
      <3> QED  BY <3>9
    <2>10. e <= n \/ e = n + 1
      OBVIOUS
    <2> QED  BY <2>8, <2>9, <2>10, Zenon
  <1> HIDE DEF good
  <1>7. ASSUME NEW d \in Nat, \A c \in Nat : c < d => c \in T PROVE d \in T
    <2> SUFFICES ASSUME d <= n + 1 PROVE good(n + 2 - d)
      OBVIOUS
    <2>0. n + 2 - d \in 1 .. n + 2
      OBVIOUS
    <2> PICK s \in 1 .. n + 2 : s = n + 2 - d
      BY <2>0
    <2>1. CASE s > n
      BY <1>5, <2>1
    <2>2. CASE ~ s > n
      <3>1. ASSUME NEW r \in s + 1 .. n + 2 PROVE good(r)
        <4>1. n + 2 - r \in Nat /\ n + 2 - r < d /\ n + 2 - r <= n + 1 /\ n + 2 - (n + 2 - r) = r
          OBVIOUS
        <4> QED  BY <1>7, <4>1
      <3> QED  BY <1>6, <2>2, <3>1
    <2> QED  BY <2>1, <2>2
  <1> HIDE DEF T
  <1>8. \A d \in Nat : d \in T
    BY <1>7, Induction
  <1>9. good(1)
    <2>1. n + 1 \in T /\ n + 2 - (n + 1) = 1
      BY <1>8
    <2> QED  BY <2>1 DEF T
  <1>10. SubSeq(text, 1, n) = text
    BY SubSeqFull
  <1>11. Parse(text).lines = L[1]
    BY <1>1 DEF Parses
  <1>12. Assemble(L[1], fin) = SubSeq(text, 1, n)
    BY ONLY <1>9 DEF good
  <1>13. SubSeq(text, 1, n) = text /\ Parse(text).final_newline = fin
    BY <1>1, <1>10 DEF Parses
  <1> QED  BY ONLY <1>11, <1>12, <1>13

\* at s there is a line, whatever ends it, and then the rest
BeginsWith(text, s, line, more, fin, rest) ==
  /\ SubSeq(text, s, Len(text)) = Put(line, more, fin, rest)
  /\ more \/ fin \/ (rest = <<>> /\ line # <<>>)

\* that line is found, and what comes after it
FirstLine(text, s, line, rest) ==
  /\ s \in 1 .. Len(text)
  /\ LineEnd(text, s) \in s .. Len(text) + 1
  /\ SubSeq(text, s, LineEnd(text, s) - 1) = line
  /\ SubSeq(text, LineEnd(text, s) + 1, Len(text)) = rest

LEMMA LineOfPut ==
  ASSUME NEW S, NL \in S, NEW text \in Seq(S), NEW s \in 1 .. Len(text) + 2,
         NEW line \in Seq(S), IsLine(line), NEW rest \in Seq(S),
         NEW more \in BOOLEAN, NEW fin \in BOOLEAN
  PROVE  BeginsWith(text, s, line, more, fin, rest) => FirstLine(text, s, line, rest)
  <1>0. SUFFICES ASSUME /\ SubSeq(text, s, Len(text)) = Put(line, more, fin, rest)
                        /\ more \/ fin \/ (rest = <<>> /\ line # <<>>)
                 PROVE  /\ s \in 1 .. Len(text)
                        /\ LineEnd(text, s) \in s .. Len(text) + 1
                        /\ SubSeq(text, s, LineEnd(text, s) - 1) = line
                        /\ SubSeq(text, LineEnd(text, s) + 1, Len(text)) = rest
    BY DEF BeginsWith, FirstLine
  <1> PICK n \in Nat : n = Len(text)
    OBVIOUS
  <1> PICK k \in Nat : k = Len(line)
    OBVIOUS
  <1> PICK r \in Nat : r = Len(rest)
    OBVIOUS
  <1>1. PICK end \in Seq(S) : end = EndOf(more, fin)
    <2>1. <<NL>> \in Seq(S) /\ <<>> \in Seq(S)
      OBVIOUS
    <2> QED  BY <2>1 DEF EndOf
  <1>2. PICK d \in {0, 1} :
          /\ d = Len(end)
          /\ more \/ fin => d = 1 /\ end[1] = NL
          /\ ~ (more \/ fin) => d = 0 /\ rest = <<>> /\ r = 0 /\ k >= 1
    <2>1. CASE more \/ fin
      <3>1. end = <<NL>> /\ Len(end) = 1 /\ end[1] = NL
        BY <1>1, <2>1 DEF EndOf
      <3> QED  BY <2>1, <3>1
    <2>2. CASE ~ (more \/ fin)
      <3>1. end = <<>> /\ Len(end) = 0
        BY <1>1, <2>2 DEF EndOf
      <3>2. rest = <<>> /\ r = 0 /\ k >= 1
        BY <1>0, <2>2, EmptySeq
      <3> QED  BY <2>2, <3>1, <3>2
    <2> QED  BY <2>1, <2>2
  <1>3. PICK b \in Seq(S) :
          /\ b = line \o end \o rest
          /\ Len(b) = k + d + r
          /\ \A i \in 1 .. k : b[i] = line[i]
          /\ d = 1 => b[k + 1] = end[1]
          /\ \A i \in 1 .. r : b[k + d + i] = rest[i]
    <2>1. PICK c \in Seq(S) :
            /\ c = line \o end
            /\ Len(c) = k + d
            /\ \A i \in 1 .. k : c[i] = line[i]
            /\ \A i \in 1 .. d : c[k + i] = end[i]
      <3>1. line \in Seq(S) /\ end \in Seq(S) /\ k = Len(line) /\ d = Len(end)
        BY <1>2
      <3>2. /\ line \o end \in Seq(S)
            /\ Len(line \o end) = k + d
            /\ \A i \in 1 .. k : (line \o end)[i] = line[i]
            /\ \A i \in 1 .. d : (line \o end)[k + i] = end[i]
        BY ONLY <3>1, ConcatIs
      <3> QED  BY <3>2
    <2>2. PICK a \in Nat : a = k + d
      OBVIOUS
    <2>3. /\ c \o rest \in Seq(S)
          /\ Len(c \o rest) = a + r
          /\ \A i \in 1 .. a : (c \o rest)[i] = c[i]
          /\ \A i \in 1 .. r : (c \o rest)[a + i] = rest[i]
      <3>1. c \in Seq(S) /\ rest \in Seq(S) /\ a = Len(c) /\ r = Len(rest)
        BY <2>1, <2>2
      <3> QED  BY ONLY <3>1, ConcatIs
    <2>4. \A i \in 1 .. k : (c \o rest)[i] = line[i]
      BY <2>1, <2>2, <2>3
    <2>5. d = 1 => (c \o rest)[k + 1] = end[1]
      BY <2>1, <2>2, <2>3
    <2> QED  BY <2>1, <2>2, <2>3, <2>4, <2>5
  <1>4. SubSeq(text, s, n) = b
    BY <1>0, <1>1, <1>3 DEF Put
  <1>5. ASSUME NEW i \in 1 .. k PROVE line[i] # NL
    <2>1. i \in DOMAIN line
      OBVIOUS
    <2>2. line[i] \in Symbols(line)
      BY <2>1 DEF Symbols
    <2> QED  BY <2>2 DEF IsLine
  <1>6. k + d + r >= 1
    BY <1>2
  <1>7. s \in 1 .. n
    <2>1. CASE s > n
      <3>1. SubSeq(text, s, n) = <<>>
        BY <2>1
      <3>2. Len(b) = 0
        BY <1>4, <3>1
      <3> QED  BY <1>3, <1>6, <3>2
    <2> QED  BY <2>1
  <1>8. k + d + r = n - s + 1 /\ \A i \in 1 .. n - s + 1 : b[i] = text[s + i - 1]
    <2>1. s \in 1 .. Len(text) + 1 /\ n \in s - 1 .. Len(text)
      BY <1>7
    <2>2. /\ Len(SubSeq(text, s, n)) = n - s + 1
          /\ \A i \in 1 .. n - s + 1 : SubSeq(text, s, n)[i] = text[s + i - 1]
      BY <2>1, SubSeqInside
    <2> QED  BY <1>3, <1>4, <2>2
  <1>9. k + d + r = n - s + 1
    BY <1>8
  <1>10. \A i \in s .. s + k - 1 : text[i] # NL
    <2> SUFFICES ASSUME NEW i \in s .. s + k - 1 PROVE text[i] # NL
      OBVIOUS
    <2>1. PICK j \in 1 .. k : s + j - 1 = i
      <3>1. i - s + 1 \in 1 .. k /\ s + (i - s + 1) - 1 = i
        BY <1>7
      <3> QED  BY <3>1
    <2>2. j \in 1 .. n - s + 1
      BY <1>2, <1>7, <1>9
    <2>3. b[j] = text[i] /\ b[j] = line[j]
      BY <1>3, <1>8, <2>1, <2>2
    <2> QED  BY <1>5, <2>3
  <1>11. more \/ fin => s + k <= n /\ text[s + k] = NL
    <2> SUFFICES ASSUME more \/ fin PROVE s + k <= n /\ text[s + k] = NL
      OBVIOUS
    <2>1. d = 1
      BY <1>2
    <2>2. s + k <= n /\ k + 1 \in 1 .. n - s + 1 /\ s + (k + 1) - 1 = s + k
      BY <1>7, <1>9, <2>1
    <2>3. b[k + 1] = text[s + k]
      BY <1>8, <2>2
    <2> QED  BY <1>2, <1>3, <2>1, <2>2, <2>3
  <1>12. ~ (more \/ fin) => s + k = n + 1
    BY <1>2, <1>7, <1>9
  <1>13. PICK e \in s .. n + 1 :
           /\ e = LineEnd(text, s)
           /\ e <= n => text[e] = NL
           /\ \A i \in s .. e - 1 : text[i] # NL
    <2>1. s \in 1 .. Len(text) + 1
      BY <1>7
    <2> QED  BY <2>1, LineEndIs
  <1>14. e = s + k
    <2>1. ~ e < s + k
      <3>1. SUFFICES ASSUME e < s + k PROVE FALSE
        OBVIOUS
      <3>2. e <= n /\ e \in s .. s + k - 1
        BY <1>2, <1>7, <1>9, <3>1
      <3> QED  BY <1>10, <1>13, <3>2
    <2>2. ~ s + k < e
      <3>1. SUFFICES ASSUME s + k < e PROVE FALSE
        OBVIOUS
      <3>2. s + k \in s .. e - 1 /\ s + k # n + 1
        BY <1>7, <3>1
      <3>3. text[s + k] # NL
        BY <1>13, <3>2
      <3> QED  BY <1>11, <1>12, <3>2, <3>3
    <2>3. e \in Nat /\ s + k \in Nat
      BY <1>7
    <2> QED  BY ONLY <2>1, <2>2, <2>3
  <1>15. SubSeq(text, s, e - 1) = line
    <2>1. s \in 1 .. Len(text) + 1 /\ e - 1 \in s - 1 .. Len(text) /\ e - 1 - s + 1 = k
      BY <1>7, <1>14
    <2>2. /\ SubSeq(text, s, e - 1) \in Seq(S)
          /\ Len(SubSeq(text, s, e - 1)) = k
          /\ \A i \in 1 .. k : SubSeq(text, s, e - 1)[i] = text[s + i - 1]
      BY <2>1, SubSeqInside
    <2>3. ASSUME NEW i \in 1 .. k PROVE SubSeq(text, s, e - 1)[i] = line[i]
      <3>1. i \in 1 .. n - s + 1
        BY <1>2, <1>7, <1>9
      <3>2. text[s + i - 1] = b[i] /\ b[i] = line[i]
        BY <1>3, <1>8, <3>1
      <3> QED  BY <2>2, <3>2
    <2> QED  BY <2>2, <2>3, SameSeq
  <1>16. SubSeq(text, e + 1, n) = rest
    <2>1. CASE more \/ fin
      <3>1. d = 1
        BY <1>2, <2>1
      <3>2. r = n - e /\ e <= n
        <4>1. n \in Nat /\ k \in Nat /\ r \in Nat /\ s \in Nat
          BY <1>7
        <4> QED  BY ONLY <1>9, <1>14, <3>1, <4>1
      <3>3. PICK f \in 1 .. n + 1 : f = e + 1 /\ n - f + 1 = r /\ n \in f - 1 .. n
        <4>1. e + 1 \in 1 .. n + 1 /\ n - (e + 1) + 1 = r /\ n \in e + 1 - 1 .. n
          BY <1>7, <3>2
        <4> QED  BY <4>1
      <3>4. /\ SubSeq(text, f, n) \in Seq(S)
            /\ Len(SubSeq(text, f, n)) = r
            /\ \A i \in 1 .. r : SubSeq(text, f, n)[i] = text[f + i - 1]
        <4>1. f \in 1 .. Len(text) + 1 /\ n \in f - 1 .. Len(text) /\ text \in Seq(S)
          BY <3>3
        <4>2. /\ SubSeq(text, f, n) \in Seq(S)
              /\ Len(SubSeq(text, f, n)) = n - f + 1
              /\ \A i \in 1 .. n - f + 1 : SubSeq(text, f, n)[i] = text[f + i - 1]
          BY ONLY <4>1, SubSeqInside
        <4> QED  BY <3>3, <4>2
      <3>5. ASSUME NEW i \in 1 .. r PROVE SubSeq(text, f, n)[i] = rest[i]
        <4>1. b[k + d + i] = rest[i]
          BY <1>3
        <4>2. k + d + i \in 1 .. n - s + 1 /\ s + (k + d + i) - 1 = f + i - 1
          BY <1>7, <1>9, <1>14, <3>1, <3>3
        <4>3. b[k + d + i] = text[s + (k + d + i) - 1]
          BY <1>8, <4>2
        <4> QED  BY <3>4, <4>1, <4>2, <4>3
      <3>6. SubSeq(text, f, n) = rest
        BY <3>4, <3>5, SameSeq
      <3> QED  BY <3>3, <3>6
    <2>2. CASE ~ (more \/ fin)
      <3>1. e = n + 1
        BY <1>12, <1>14, <2>2
      <3>2. SubSeq(text, e + 1, n) = <<>>
        BY <3>1, SubSeqEmpty
      <3> QED  BY <1>2, <2>2, <3>2
    <2> QED  BY <2>1, <2>2
  <1> QED  BY <1>7, <1>13, <1>15, <1>16

\* lines that come back from their text: an empty last one needs its newline
Returnable(lines, fin) ==
  /\ \A k \in DOMAIN lines : IsLine(lines[k])
  /\ fin \/ (lines # <<>> => lines[Len(lines)] # <<>>)

LEMMA ReturnableRest ==
  ASSUME NEW S, NEW line \in Seq(S), NEW rest \in Seq(Seq(S)), NEW fin \in BOOLEAN,
         Returnable(Cons(line, rest), fin)
  PROVE  /\ IsLine(line) /\ Returnable(rest, fin)
         /\ rest # <<>> \/ fin \/ line # <<>>
  <1> PICK D : D = Seq(S)
    OBVIOUS
  <1> PICK n \in Nat : n = Len(rest)
    OBVIOUS
  <1>1. PICK lines \in Seq(D) :
          /\ lines = Cons(line, rest)
          /\ lines # <<>> /\ Len(lines) = n + 1 /\ lines[1] = line
          /\ \A k \in 1 .. n : lines[k + 1] = rest[k]
    <2>1. line \in D /\ rest \in Seq(D) /\ n = Len(rest)
      OBVIOUS
    <2> QED  BY ONLY <2>1, ConsIs
  <1>2. /\ \A k \in 1 .. n + 1 : IsLine(lines[k])
        /\ fin \/ lines[n + 1] # <<>>
    <2>1. DOMAIN lines = 1 .. n + 1
      BY ONLY <1>1, n \in Nat
    <2> QED  BY <1>1, <2>1 DEF Returnable
  <1>3. IsLine(line) /\ \A k \in 1 .. n : IsLine(rest[k])
    <2>1. \A k \in 1 .. n : k + 1 \in 1 .. n + 1
      OBVIOUS
    <2>2. 1 \in 1 .. n + 1
      OBVIOUS
    <2> QED  BY ONLY <1>1, <1>2, <2>1, <2>2
  <1>4. ASSUME ~ fin, rest # <<>> PROVE rest[n] # <<>>
    <2>1. n \in 1 .. n
      BY <1>4, EmptySeq
    <2> QED  BY ONLY <1>1, <1>2, <1>4, <2>1
  <1>5. rest # <<>> \/ fin \/ line # <<>>
    <2>1. rest = <<>> => n = 0
      OBVIOUS
    <2> QED  BY ONLY <1>1, <1>2, <2>1
  <1>6. DOMAIN rest = 1 .. n
    OBVIOUS
  <1>7. Returnable(rest, fin)
    BY <1>3, <1>4, <1>6 DEF Returnable
  <1> QED  BY <1>3, <1>5, <1>7

\* The text of some lines has a newline at the end when it should.
LEMMA AssembleEnds ==
  ASSUME NEW S, NL \in S, NEW fin \in BOOLEAN
  PROVE  \A lines \in Seq(Seq(S)) :
           lines # <<>> /\ Returnable(lines, fin)
             => FinalNewline(Assemble(lines, fin)) = fin /\ Assemble(lines, fin) # <<>>
  <1> PICK D : D = Seq(S)
    OBVIOUS
  <1> DEFINE Good(ls) == ls # <<>> /\ Returnable(ls, fin)
                           => /\ FinalNewline(Assemble(ls, fin)) = fin
                              /\ Assemble(ls, fin) # <<>>
             T == {ls \in Seq(D) : Good(ls)}
  <1>1. <<>> \in T
    OBVIOUS
  <1>2. ASSUME NEW line \in D, NEW rest \in Seq(D), rest \in T PROVE Cons(line, rest) \in T
    <2>1. Cons(line, rest) \in Seq(D)
      BY ONLY line \in D, rest \in Seq(D), ConsIs
    <2> SUFFICES ASSUME Returnable(Cons(line, rest), fin)
                 PROVE  /\ FinalNewline(Assemble(Cons(line, rest), fin)) = fin
                        /\ Assemble(Cons(line, rest), fin) # <<>>
      BY <2>1
    <2>2. IsLine(line) /\ Returnable(rest, fin) /\ (rest # <<>> \/ fin \/ line # <<>>)
      BY ReturnableRest
    <2>3. /\ Assemble(rest, fin) \in Seq(S)
          /\ Assemble(Cons(line, rest), fin) = Put(line, rest # <<>>, fin, Assemble(rest, fin))
      BY AssembleLine
    <2>4. PICK t \in Seq(S) : t = Assemble(rest, fin)
      BY <2>3
    <2>5. rest # <<>> => FinalNewline(t) = fin /\ t # <<>>
      BY <1>2, <2>2, <2>4
    <2>6. rest = <<>> => t = <<>>
      BY <2>4, AssembleEmpty
    <2>7. PICK end \in Seq(S) : end = EndOf(rest # <<>>, fin)
      <3>1. <<NL>> \in Seq(S) /\ <<>> \in Seq(S)
        OBVIOUS
      <3> QED  BY <3>1 DEF EndOf
    <2>8. PICK c \in Seq(S) : c = line \o end
      <3>1. line \in Seq(S) /\ end \in Seq(S)
        OBVIOUS
      <3>2. line \o end \in Seq(S)
        BY ONLY <3>1
      <3> QED  BY <3>2
    <2>9. Assemble(Cons(line, rest), fin) = c \o t
      BY <2>3, <2>4, <2>7, <2>8 DEF Put
    <2>10. CASE rest # <<>>
      <3>1. c \o t # <<>> /\ Last(c \o t) = Last(t)
        <4>1. t # <<>> /\ c \in Seq(S) /\ t \in Seq(S)
          BY <2>5, <2>10
        <4>2. PICK a \in Nat, b \in Nat : a = Len(c) /\ b = Len(t)
          BY <4>1
        <4>3. b \in 1 .. b
          BY ONLY <4>1, <4>2, EmptySeq
        <4>4. Len(c \o t) = a + b /\ (c \o t)[a + b] = t[b]
          BY ONLY <4>1, <4>2, <4>3, ConcatIs
        <4>5. c \o t # <<>>
          BY ONLY <4>2, <4>3, <4>4
        <4> QED  BY ONLY <4>2, <4>4, <4>5 DEF Last
      <3> QED  BY <2>5, <2>9, <2>10, <3>1 DEF FinalNewline
    <2>11. CASE rest = <<>>
      <3>1. c \o t = c
        BY ONLY <2>6, <2>11, c \in Seq(S), ConcatEmptySeq
      <3>2. CASE fin
        <4>1. c = line \o <<NL>>
          BY <2>7, <2>8, <3>2 DEF EndOf
        <4>2. c # <<>> /\ Last(c) = NL
          BY <4>1 DEF Last
        <4> QED  BY <2>9, <3>1, <3>2, <4>2 DEF FinalNewline
      <3>3. CASE ~ fin
        <4>1. c = line /\ line # <<>>
          BY <2>2, <2>7, <2>8, <2>11, <3>3 DEF EndOf
        <4>2. Len(line) \in DOMAIN line
          BY ONLY <4>1, line \in Seq(S), EmptySeq
        <4>3. Last(line) # NL
          BY <2>2, <4>2 DEF IsLine, Symbols, Last
        <4> QED  BY <2>9, <3>1, <3>3, <4>1, <4>3 DEF FinalNewline
      <3> QED  BY <3>2, <3>3
    <2> QED  BY <2>10, <2>11
  <1> HIDE DEF T
  <1>3. \A ls \in Seq(D) : ls \in T
    BY <1>1, <1>2, SeqInduction
  <1> QED  BY <1>3 DEF T

\* Lines come back from their text: as many as there were, each as it was, but
\* for an empty last line that no newline ends (passfl_entry_edit_content,
\* passfl_entry_parse).
THEOREM ParseOfAssemble ==
  ASSUME NEW S, NL \in S, NEW lines \in Seq(Seq(S)), NEW fin \in BOOLEAN,
         lines # <<>>, Returnable(lines, fin)
  PROVE  Parse(Assemble(lines, fin)) = [lines |-> lines, final_newline |-> fin]
  <1> PICK D : D = Seq(S)
    OBVIOUS
  <1>1. PICK text \in Seq(S) : text = Assemble(lines, fin)
    <2>1. PICK t \in [1 .. Len(lines) + 1 -> Seq(S)] : Assembles(t, lines, fin)
      BY AssembleUnfolds
    <2>2. 1 \in 1 .. Len(lines) + 1
      OBVIOUS
    <2>3. t[1] \in Seq(S)
      BY <2>2
    <2> QED  BY <2>1, <2>3 DEF Assembles
  <1> PICK n \in Nat : n = Len(text)
    OBVIOUS
  <1>2. PICK L \in [1 .. n + 2 -> Seq(Seq(S))] : Parses(L, text)
    BY ParseUnfolds
  <1> DEFINE Good(ls) ==
               Returnable(ls, fin) =>
                 \A s \in 1 .. n + 2 : SubSeq(text, s, n) = Assemble(ls, fin) => L[s] = ls
             T == {ls \in Seq(D) : Good(ls)}
  <1>3. <<>> \in T
    <2> SUFFICES ASSUME NEW s \in 1 .. n + 2, SubSeq(text, s, n) = <<>>
                 PROVE  L[s] = <<>>
      BY AssembleEmpty
    <2>1. CASE s > n
      BY <1>2, <2>1 DEF Parses
    <2>2. CASE s <= n
      <3>1. s \in 1 .. Len(text) + 1 /\ n \in s - 1 .. Len(text) /\ text \in Seq(S)
        BY <2>2
      <3>2. Len(SubSeq(text, s, n)) = n - s + 1
        BY ONLY <3>1, SubSeqInside
      <3>3. n - s + 1 # 0 /\ Len(<<>>) = 0
        BY <2>2
      <3> QED  BY <3>2, <3>3
    <2>3. s > n \/ s <= n
      OBVIOUS
    <2> QED  BY <2>1, <2>2, <2>3
  <1>4. ASSUME NEW line \in D, NEW rest \in Seq(D), rest \in T PROVE Cons(line, rest) \in T
    <2>1. Cons(line, rest) \in Seq(D)
      BY ONLY line \in D, rest \in Seq(D), ConsIs
    <2>2. SUFFICES ASSUME Returnable(Cons(line, rest), fin), NEW s \in 1 .. n + 2,
                          SubSeq(text, s, n) = Assemble(Cons(line, rest), fin)
                   PROVE  L[s] = Cons(line, rest)
      BY <2>1
    <2>3. IsLine(line) /\ Returnable(rest, fin) /\ (rest # <<>> \/ fin \/ line # <<>>)
      BY <2>2, ReturnableRest
    <2>4. /\ Assemble(rest, fin) \in Seq(S)
          /\ Assemble(Cons(line, rest), fin) = Put(line, rest # <<>>, fin, Assemble(rest, fin))
      BY AssembleLine
    <2>5. PICK t \in Seq(S) : t = Assemble(rest, fin)
      BY <2>4
    <2>6. rest # <<>> \/ fin \/ (t = <<>> /\ line # <<>>)
      <3>1. rest = <<>> => t = <<>>
        BY <2>5, AssembleEmpty
      <3> QED  BY <2>3, <3>1
    <2>7. PICK more \in BOOLEAN : more = (rest # <<>>)
      OBVIOUS
    <2>8. /\ s \in 1 .. Len(text)
          /\ LineEnd(text, s) \in s .. Len(text) + 1
          /\ SubSeq(text, s, LineEnd(text, s) - 1) = line
          /\ SubSeq(text, LineEnd(text, s) + 1, Len(text)) = t
      <3>1. /\ NL \in S /\ text \in Seq(S) /\ s \in 1 .. Len(text) + 2 /\ line \in Seq(S)
            /\ t \in Seq(S) /\ more \in BOOLEAN /\ fin \in BOOLEAN
        OBVIOUS
      <3>2. SubSeq(text, s, Len(text)) = Put(line, more, fin, t)
        BY <2>2, <2>4, <2>5, <2>7
      <3>3. more \/ fin \/ (t = <<>> /\ line # <<>>)
        BY <2>6, <2>7
      <3>4. BeginsWith(text, s, line, more, fin, t)
        BY ONLY <3>2, <3>3 DEF BeginsWith
      <3>5. FirstLine(text, s, line, t)
        BY ONLY <2>3, <3>1, <3>4, LineOfPut, Zenon
      <3> QED  BY ONLY <3>5 DEF FirstLine
    <2>9. PICK e \in 1 .. n + 2 : e = LineEnd(text, s) + 1
      <3>1. LineEnd(text, s) + 1 \in 1 .. n + 2
        BY ONLY <2>8, n = Len(text), n \in Nat
      <3> QED  BY <3>1
    <2>10. L[e] = rest
      <3>1. SubSeq(text, e, n) = Assemble(rest, fin)
        BY <2>5, <2>8, <2>9
      <3> QED  BY <1>4, <2>3, <3>1
    <2>11. L[s] = Cons(CString(SubSeq(text, s, LineEnd(text, s) - 1)), L[LineEnd(text, s) + 1])
      <3>1. ~ s > Len(text) /\ s \in 1 .. Len(text) + 2
        BY ONLY <2>8, n = Len(text), n \in Nat
      <3> QED  BY ONLY <1>2, <3>1 DEF Parses
    <2>12. CString(line) = line
      <3>1. Nul \notin Symbols(line) /\ line \in Seq(S)
        BY <2>3 DEF IsLine
      <3> QED  BY ONLY <3>1, CStringWithoutNul
    <2> QED  BY <2>8, <2>9, <2>10, <2>11, <2>12
  <1> HIDE DEF T
  <1>5. \A ls \in Seq(D) : ls \in T
    BY <1>3, <1>4, SeqInduction
  <1>6. L[1] = lines
    <2>1. SubSeq(text, 1, n) = text
      BY SubSeqFull
    <2>2. lines \in T
      BY <1>5
    <2> QED  BY <1>1, <2>1, <2>2 DEF T
  <1>7. FinalNewline(text) = fin
    BY <1>1, AssembleEnds
  <1> QED  BY <1>1, <1>2, <1>6, <1>7 DEF Parses

\* What is parsed is an entry.
LEMMA ParseIsEntry ==
  ASSUME NEW S, NEW text \in Seq(S)
  PROVE  /\ IsEntry(Parse(text))
         /\ Parse(text).lines \in Seq(Seq(S))
         /\ Parse(text) = [lines |-> Parse(text).lines,
                           final_newline |-> Parse(text).final_newline]
  <1> PICK n \in Nat : n = Len(text)
    OBVIOUS
  <1>1. PICK L \in [1 .. n + 2 -> Seq(Seq(S))] : Parses(L, text)
    BY ParseUnfolds
  <1> DEFINE Good(ls) == \A k \in 1 .. Len(ls) : IsLine(ls[k])
             T == {s \in 1 .. n + 2 : Good(L[s])}
  <1>2. ASSUME NEW s \in 1 .. n + 2, \A r \in s + 1 .. n + 2 : r \in T PROVE s \in T
    <2>1. CASE s > n
      <3>1. L[s] = <<>>
        BY <1>1, <2>1 DEF Parses
      <3>2. Good(<<>>)
        OBVIOUS
      <3> QED  BY <3>1, <3>2
    <2>2. CASE s <= n
      <3>1. PICK e \in s .. n + 1 : e = LineEnd(text, s) /\ \A i \in s .. e - 1 : text[i] # NL
        <4>1. s \in 1 .. Len(text) + 1
          BY <2>2
        <4> QED  BY <4>1, LineEndIs
      <3>2. PICK bytes \in Seq(S) :
              bytes = SubSeq(text, s, e - 1) /\ NL \notin Symbols(bytes)
        <4>1. s \in 1 .. Len(text) + 1 /\ e - 1 \in s - 1 .. Len(text) /\ text \in Seq(S)
          BY <2>2
        <4>2. /\ SubSeq(text, s, e - 1) \in Seq(S)
              /\ Len(SubSeq(text, s, e - 1)) = e - 1 - s + 1
              /\ \A i \in 1 .. e - 1 - s + 1 : SubSeq(text, s, e - 1)[i] = text[s + i - 1]
          BY ONLY <4>1, SubSeqInside
        <4>3. PICK b \in Seq(S) : b = SubSeq(text, s, e - 1)
          BY <4>2
        <4>4. ASSUME NEW i \in DOMAIN b PROVE b[i] # NL
          <5>1. i \in 1 .. e - 1 - s + 1
            BY <4>2, <4>3
          <5>2. s + i - 1 \in s .. e - 1
            BY <5>1
          <5> QED  BY <3>1, <4>2, <4>3, <5>1, <5>2
        <4> QED  BY <4>3, <4>4 DEF Symbols
      <3>3. CString(bytes) \in Seq(S) /\ IsLine(CString(bytes))
        <4>1. bytes \in Seq(S)
          OBVIOUS
        <4>2. /\ CString(bytes) \in Seq(S)
              /\ Nul \notin Symbols(CString(bytes))
              /\ Symbols(CString(bytes)) \subseteq Symbols(bytes)
          BY ONLY <4>1, CStringHasNoNul
        <4> QED  BY <3>2, <4>2 DEF IsLine
      <3>4. e + 1 \in 1 .. n + 2 /\ e + 1 \in s + 1 .. n + 2
        BY <2>2
      <3>5. PICK rest \in Seq(Seq(S)) : rest = L[e + 1] /\ Good(rest)
        BY <1>2, <3>4
      <3>6. L[s] = Cons(CString(bytes), rest)
        <4>1. ~ s > Len(text) /\ s \in 1 .. Len(text) + 2
          BY <2>2
        <4>2. L[s] = Cons(CString(SubSeq(text, s, LineEnd(text, s) - 1)),
                          L[LineEnd(text, s) + 1])
          BY ONLY <1>1, <4>1 DEF Parses
        <4> QED  BY <3>1, <3>2, <3>5, <4>2
      <3>7. PICK D : D = Seq(S)
        OBVIOUS
      <3>8. PICK m \in Nat : m = Len(rest)
        OBVIOUS
      <3>9. CString(bytes) \in D /\ rest \in Seq(D)
        BY <3>3, <3>7
      <3>10. /\ Len(L[s]) = m + 1 /\ L[s][1] = CString(bytes)
             /\ \A k \in 1 .. m : L[s][k + 1] = rest[k]
        <4>1. PICK x \in D : x = CString(bytes)
          BY <3>9
        <4>2. /\ Len(Cons(x, rest)) = Len(rest) + 1 /\ Cons(x, rest)[1] = x
              /\ \A k \in 1 .. Len(rest) : Cons(x, rest)[k + 1] = rest[k]
          BY ONLY <3>9, x \in D, ConsIs
        <4> QED  BY ONLY <3>6, <3>8, <4>1, <4>2
      <3>11. ASSUME NEW k \in 1 .. m + 1 PROVE IsLine(L[s][k])
        <4>1. CASE k = 1
          BY <3>3, <3>10, <4>1
        <4>2. CASE k # 1
          <5>1. PICK j \in 1 .. m : k = j + 1
            <6>1. k - 1 \in 1 .. m /\ k = (k - 1) + 1
              BY <4>2
            <6> QED  BY <6>1
          <5> QED  BY <3>5, <3>8, <3>10, <5>1
        <4> QED  BY <4>1, <4>2
      <3> QED  BY <3>10, <3>11
    <2>3. s > n \/ s <= n
      OBVIOUS
    <2> QED  BY <2>1, <2>2, <2>3
  <1> HIDE DEF T
  <1>3. 1 \in T
    <2>1. n + 2 \in Nat /\ 1 \in 1 .. n + 2
      OBVIOUS
    <2> QED  BY ONLY <1>2, <2>1, PlaceInduction
  <1>4. PICK ls \in Seq(Seq(S)) : ls = L[1]
    <2>1. 1 \in 1 .. n + 2
      OBVIOUS
    <2> QED  BY <2>1
  <1>5. Parse(text) = [lines |-> ls, final_newline |-> FinalNewline(text)]
    BY <1>1, <1>4 DEF Parses
  <1>6. \A k \in DOMAIN ls : IsLine(ls[k])
    BY <1>3, <1>4 DEF T
  <1>7. FinalNewline(text) => ls # <<>>
    <2> SUFFICES ASSUME text # <<>> PROVE ls # <<>>
      BY DEF FinalNewline
    <2>1. ~ 1 > Len(text) /\ 1 \in 1 .. Len(text) + 1 /\ 1 \in 1 .. Len(text) + 2
      OBVIOUS
    <2>2. PICK e \in 1 .. n + 1 : e = LineEnd(text, 1)
      BY <2>1, LineEndIs
    <2>3. L[1] = Cons(CString(SubSeq(text, 1, LineEnd(text, 1) - 1)), L[LineEnd(text, 1) + 1])
      BY ONLY <1>1, <2>1 DEF Parses
    <2>4. PICK D : D = Seq(S)
      OBVIOUS
    <2>5. SubSeq(text, 1, e - 1) \in Seq(S)
      <3>1. e - 1 \in 1 - 1 .. Len(text) /\ text \in Seq(S)
        OBVIOUS
      <3> QED  BY ONLY <2>1, <3>1, SubSeqInside
    <2>6. CString(SubSeq(text, 1, e - 1)) \in Seq(S)
      BY ONLY <2>5, CStringHasNoNul
    <2>7. e + 1 \in 1 .. n + 2
      OBVIOUS
    <2>8. CString(SubSeq(text, 1, e - 1)) \in D /\ L[e + 1] \in Seq(D)
      BY <2>4, <2>6, <2>7
    <2>9. Cons(CString(SubSeq(text, 1, e - 1)), L[e + 1]) # <<>>
      BY ONLY <2>8, ConsIs
    <2> QED  BY ONLY <1>4, <2>2, <2>3, <2>9
  <1>8. Parse(text).lines = ls /\ Parse(text).final_newline = FinalNewline(text)
    BY <1>5
  <1>9. FinalNewline(text) \in BOOLEAN
    BY DEF FinalNewline
  <1>10. IsEntry(Parse(text))
    BY <1>6, <1>7, <1>8, <1>9 DEF IsEntry
  <1> QED  BY <1>5, <1>8, <1>10

-----------------------------------------------------------------------------
(* The counters of one-time passwords. *)

LEMMA MinOfTwo ==
  ASSUME NEW a \in Int, NEW b \in Int
  PROVE  Min({a, b}) = IF a <= b THEN a ELSE b
  <1>1. Min({a, b}) = CHOOSE x \in {a, b} : \A y \in {a, b} : x <= y
    BY DEF Min
  <1>2. \E x \in {a, b} : \A y \in {a, b} : x <= y
    <2>1. CASE a <= b
      BY <2>1
    <2>2. CASE ~ a <= b
      BY <2>2
    <2> QED  BY <2>1, <2>2
  <1>3. Min({a, b}) \in {a, b} /\ \A y \in {a, b} : Min({a, b}) <= y
    BY ONLY <1>1, <1>2
  <1> QED  BY <1>3

\* number[i] is the number of the first i digits
Counts(number, digits) ==
  /\ Number(digits) = number[Len(digits)]
  /\ \A i \in 0 .. Len(digits) :
       number[i] = IF i = 0 THEN 0 ELSE Min({10 * number[i - 1] + digits[i], MaxCounter})

LEMMA NumberUnfolds ==
  ASSUME NEW digits \in Seq(0 .. 9)
  PROVE  \E number \in [0 .. Len(digits) -> 0 .. MaxCounter] : Counts(number, digits)
  <1> PICK len \in Nat : len = Len(digits)
    OBVIOUS
  <1> DEFINE A == 0 .. len
             D == 0 .. MaxCounter
             Eq(g, i) == IF i = 0 THEN 0 ELSE Min({10 * g[i - 1] + digits[i], MaxCounter})
             m == [i \in A |-> i]
             step == [x \in [A -> D] \X A |-> Eq(x[1], x[2])]
             F(g) == [i \in A |-> Eq(g, i)]
             n == CHOOSE g : g = F(g)
  <1>1. Number(digits) = n[len]
    BY DEF Number
  <1>2. ASSUME NEW g \in [A -> D], NEW i \in A PROVE Eq(g, i) \in D
    <2>1. MaxCounter \in Nat
      BY OtpAssumption
    <2>2. CASE i = 0
      BY <2>1, <2>2
    <2>3. CASE i # 0
      <3>1. PICK a \in Nat : a = g[i - 1]
        <4>1. i - 1 \in A
          BY <2>3
        <4>2. g[i - 1] \in Nat
          BY <2>1, <4>1
        <4> QED  BY <4>2
      <3>2. PICK b \in Nat : b = digits[i]
        <4>1. i \in 1 .. Len(digits)
          BY <2>3
        <4>2. digits[i] \in 0 .. 9
          BY <4>1
        <4> QED  BY <4>2
      <3>3. 10 * a + b \in Nat
        OBVIOUS
      <3>4. Min({10 * a + b, MaxCounter}) \in 0 .. MaxCounter
        <4>1. 10 * a + b \in Int /\ MaxCounter \in Int
          BY <2>1, <3>3
        <4>2. Min({10 * a + b, MaxCounter})
                = IF 10 * a + b <= MaxCounter THEN 10 * a + b ELSE MaxCounter
          BY ONLY <4>1, MinOfTwo
        <4> QED  BY ONLY <2>1, <3>3, <4>2
      <3> QED  BY <2>3, <3>1, <3>2, <3>4
    <2> QED  BY <2>2, <2>3
  <1>3. ASSUME NEW g, NEW h, NEW i \in A, \A j \in A : m[j] < m[i] => g[j] = h[j]
        PROVE  Eq(g, i) = Eq(h, i)
    <2>1. CASE i # 0
      <3>1. i - 1 \in A /\ m[i - 1] < m[i]
        BY <2>1
      <3>2. g[i - 1] = h[i - 1]
        BY <1>3, <3>1
      <3> QED  BY <3>2
    <2> QED  BY <2>1
  <1>4. D # {} /\ m \in [A -> Nat] /\ len \in A
    <2>1. 0 \in D
      BY OtpAssumption
    <2>2. m \in [A -> Nat] /\ len \in A
      OBVIOUS
    <2> QED  BY <2>1, <2>2
  <1> HIDE DEF A, D, m, Eq
  <1>5. PICK f \in [A -> D] : \A i \in A : f[i] = Eq(f, i)
    <2>1. step \in [[A -> D] \X A -> D]
      BY <1>2
    <2>2. \A g \in [A -> D], i \in A : step[<<g, i>>] = Eq(g, i)
      OBVIOUS
    <2> HIDE DEF step
    <2>3. ASSUME NEW g \in [A -> D], NEW h \in [A -> D], NEW i \in A,
                 \A j \in A : m[j] < m[i] => g[j] = h[j]
          PROVE  step[<<g, i>>] = step[<<h, i>>]
      <3>1. Eq(g, i) = Eq(h, i)
        BY <1>3, <2>3
      <3> QED  BY <2>2, <3>1
    <2>4. Recursive(A, D, m, step)
      BY <1>4, <2>1, <2>3 DEF Recursive
    <2>5. PICK f \in [A -> D] : \A i \in A : f[i] = step[<<f, i>>]
      BY ONLY <2>4, RecursiveFunction
    <2> QED  BY <2>2, <2>5
  <1>6. f = F(f)
    BY <1>5
  <1> HIDE DEF F
  <1>7. n = F(n)
    BY <1>6
  <1> DEFINE T == {i \in A : n[i] = f[i]}
  <1> HIDE DEF n
  <1>8. ASSUME NEW i \in A, \A j \in A : m[j] < m[i] => j \in T PROVE i \in T
    <2>1. Eq(n, i) = Eq(f, i)
      BY <1>3, <1>8
    <2> QED  BY <1>5, <1>7, <2>1 DEF F
  <1> HIDE DEF T
  <1>9. \A i \in A : n[i] = f[i]
    <2>1. Inductive(A, m, T)
      BY <1>4, <1>8 DEF Inductive
    <2>2. \A i \in A : i \in T
      BY ONLY <2>1, MeasureInduction
    <2> QED  BY <2>2 DEF T
  <1>10. Number(digits) = f[len]
    BY <1>1, <1>4, <1>9
  <1>11. Counts(f, digits)
    BY <1>5, <1>10 DEF A, Eq, Counts
  <1> QED  BY <1>5, <1>11 DEF A, D

LEMMA NumberIs ==
  ASSUME NEW digits \in Seq(0 .. 9)
  PROVE  Number(digits) \in 0 .. MaxCounter
  <1>1. PICK number \in [0 .. Len(digits) -> 0 .. MaxCounter] : Counts(number, digits)
    BY NumberUnfolds
  <1>2. Len(digits) \in 0 .. Len(digits)
    OBVIOUS
  <1> QED  BY <1>1, <1>2 DEF Counts

LEMMA AppendNotEmpty ==
  ASSUME NEW S, NEW seq \in Seq(S), NEW x \in S
  PROVE  Append(seq, x) # <<>>
  <1>1. Len(Append(seq, x)) = Len(seq) + 1 /\ Len(seq) \in Nat
    OBVIOUS
  <1> QED  BY <1>1

\* A digit more.
LEMMA NumberAppend ==
  ASSUME NEW digits \in Seq(0 .. 9), NEW d \in 0 .. 9
  PROVE  /\ Number(<<d>>) = Min({d, MaxCounter})
         /\ Number(Append(digits, d)) = Min({10 * Number(digits) + d, MaxCounter})
  <1> PICK len \in Nat : len = Len(digits)
    OBVIOUS
  <1>1. PICK n \in [0 .. len -> 0 .. MaxCounter] : Counts(n, digits)
    BY NumberUnfolds
  <1>2. PICK more \in Seq(0 .. 9) :
          /\ more = Append(digits, d) /\ Len(more) = len + 1
          /\ \A i \in 1 .. len : more[i] = digits[i]
          /\ more[len + 1] = d
    <2>1. Append(digits, d) \in Seq(0 .. 9)
      OBVIOUS
    <2> QED  BY <2>1
  <1>3. PICK u \in [0 .. Len(more) -> 0 .. MaxCounter] : Counts(u, more)
    BY NumberUnfolds
  <1> DEFINE P == 0 .. len
             m == [i \in P |-> i]
             T == {i \in P : u[i] = n[i]}
  <1>4. ASSUME NEW i \in P, \A j \in P : m[j] < m[i] => j \in T PROVE i \in T
    <2>1. i \in 0 .. Len(digits) /\ i \in 0 .. Len(more)
      BY <1>2
    <2>2. CASE i = 0
      <3>1. u[i] = 0 /\ n[i] = 0
        BY ONLY <1>1, <1>3, <2>1, <2>2 DEF Counts
      <3> QED  BY <3>1
    <2>3. CASE i # 0
      <3>1. i - 1 \in P /\ m[i - 1] < m[i]
        BY <2>3
      <3>2. u[i - 1] = n[i - 1]
        BY <1>4, <3>1
      <3>3. more[i] = digits[i]
        BY <1>2, <2>3
      <3>4. /\ n[i] = Min({10 * n[i - 1] + digits[i], MaxCounter})
            /\ u[i] = Min({10 * u[i - 1] + more[i], MaxCounter})
        BY ONLY <1>1, <1>3, <2>1, <2>3 DEF Counts
      <3> QED  BY <3>2, <3>3, <3>4
    <2> QED  BY <2>2, <2>3
  <1>5. m \in [P -> Nat] /\ len \in P
    OBVIOUS
  <1> HIDE DEF P, m, T
  <1>6. \A i \in P : i \in T
    <2>1. Inductive(P, m, T)
      BY <1>4, <1>5 DEF Inductive
    <2> QED  BY ONLY <2>1, MeasureInduction
  <1>7. u[len] = n[len]
    BY <1>5, <1>6 DEF T
  <1>8. len + 1 \in 0 .. Len(more) /\ len + 1 # 0 /\ len + 1 - 1 = len
    BY <1>2
  <1>9. u[len + 1] = Min({10 * u[len + 1 - 1] + more[len + 1], MaxCounter})
    <2>1. \A i \in 0 .. Len(more) :
             i # 0 => u[i] = Min({10 * u[i - 1] + more[i], MaxCounter})
      BY <1>3 DEF Counts
    <2>2. PICK i \in 0 .. Len(more) : i = len + 1 /\ i # 0
      BY ONLY <1>8
    <2>3. u[i] = Min({10 * u[i - 1] + more[i], MaxCounter})
      BY ONLY <2>1, <2>2
    <2> QED  BY ONLY <2>2, <2>3
  <1>10. Number(more) = u[len + 1] /\ Number(digits) = n[len]
    BY <1>1, <1>2, <1>3 DEF Counts
  <1>11. Number(more) = Min({10 * Number(digits) + d, MaxCounter})
    BY ONLY <1>2, <1>7, <1>8, <1>9, <1>10
  <1>12. Number(<<d>>) = Min({d, MaxCounter})
    <2>1. PICK one \in Seq(0 .. 9) : one = <<d>> /\ Len(one) = 1 /\ one[1] = d
      <3>1. <<d>> \in Seq(0 .. 9)
        OBVIOUS
      <3> QED  BY <3>1
    <2>2. PICK v \in [0 .. Len(one) -> 0 .. MaxCounter] : Counts(v, one)
      BY NumberUnfolds
    <2>3. 0 \in 0 .. Len(one) /\ 1 \in 0 .. Len(one) /\ 1 - 1 = 0 /\ 1 # 0
      BY <2>1
    <2>4. /\ Number(one) = v[Len(one)]
          /\ v[0] = 0
          /\ v[1] = Min({10 * v[1 - 1] + one[1], MaxCounter})
      BY ONLY <2>2, <2>3 DEF Counts
    <2>5. 10 * 0 + d = d
      OBVIOUS
    <2> QED  BY ONLY <2>1, <2>3, <2>4, <2>5
  <1> QED  BY <1>2, <1>11, <1>12

LEMMA Euclid ==
  ASSUME NEW a \in Nat, NEW n \in Nat \ {0}
  PROVE  /\ a \div n \in Nat /\ a % n \in 0 .. n - 1
         /\ a = n * (a \div n) + (a % n)
  BY SMT

\* The last digit, and those before it.
LEMMA LastDigit ==
  ASSUME NEW k \in Nat
  PROVE  k \div 10 \in Nat /\ k % 10 \in 0 .. 9 /\ 10 * (k \div 10) + (k % 10) = k
  <1>1. 10 \in Nat \ {0} /\ 0 .. 10 - 1 = 0 .. 9
    OBVIOUS
  <1>2. /\ k \div 10 \in Nat /\ k % 10 \in 0 .. 10 - 1
        /\ k = 10 * (k \div 10) + (k % 10)
    BY ONLY <1>1, k \in Nat, Euclid
  <1> QED  BY ONLY <1>1, <1>2

\* digits[k] are the digits of k
Spells(digits, n) ==
  /\ Digits(n) = digits[n]
  /\ \A k \in 0 .. n :
       digits[k] = IF k < 10 THEN <<k>> ELSE Append(digits[k \div 10], k % 10)

LEMMA DigitsUnfold ==
  ASSUME NEW n \in Nat
  PROVE  \E digits \in [0 .. n -> Seq(0 .. 9)] : Spells(digits, n)
  <1> DEFINE A == 0 .. n
             D == Seq(0 .. 9)
             Eq(g, k) == IF k < 10 THEN <<k>> ELSE Append(g[k \div 10], k % 10)
             m == [k \in A |-> k]
             step == [x \in [A -> D] \X A |-> Eq(x[1], x[2])]
             F(g) == [k \in A |-> Eq(g, k)]
             d == CHOOSE g : g = F(g)
  <1>1. Digits(n) = d[n]
    BY DEF Digits
  <1>2. ASSUME NEW k \in A, ~ k < 10
        PROVE  k \div 10 \in A /\ m[k \div 10] < m[k] /\ k % 10 \in 0 .. 9
    <2>1. k \in Nat /\ k <= n
      OBVIOUS
    <2>2. k \div 10 \in Nat /\ k % 10 \in 0 .. 9 /\ 10 * (k \div 10) + (k % 10) = k
      BY <2>1, LastDigit
    <2>3. k \div 10 < k
      BY ONLY <1>2, <2>1, <2>2
    <2>4. k \div 10 \in A
      BY <2>1, <2>2, <2>3
    <2> QED  BY <2>2, <2>3, <2>4
  <1>3. ASSUME NEW g \in [A -> D], NEW k \in A PROVE Eq(g, k) \in D
    <2>1. CASE k < 10
      <3>1. k \in 0 .. 9
        BY <2>1
      <3>2. <<k>> \in D
        BY <3>1
      <3> QED  BY <2>1, <3>2
    <2>2. CASE ~ k < 10
      <3>1. k \div 10 \in A /\ k % 10 \in 0 .. 9
        BY <1>2, <2>2
      <3>2. g[k \div 10] \in D
        BY <3>1
      <3>3. Append(g[k \div 10], k % 10) \in D
        BY <3>1, <3>2
      <3> QED  BY <2>2, <3>3
    <2> QED  BY <2>1, <2>2
  <1>4. ASSUME NEW g, NEW h, NEW k \in A, \A j \in A : m[j] < m[k] => g[j] = h[j]
        PROVE  Eq(g, k) = Eq(h, k)
    <2>1. CASE ~ k < 10
      <3>1. k \div 10 \in A /\ m[k \div 10] < m[k]
        BY <1>2, <2>1
      <3>2. g[k \div 10] = h[k \div 10]
        BY <1>4, <3>1
      <3> QED  BY <3>2
    <2> QED  BY <2>1
  <1>5. D # {} /\ m \in [A -> Nat] /\ n \in A
    <2>1. <<>> \in D
      OBVIOUS
    <2>2. m \in [A -> Nat] /\ n \in A
      OBVIOUS
    <2> QED  BY <2>1, <2>2
  <1> HIDE DEF A, D, m, Eq
  <1>6. PICK f \in [A -> D] : \A k \in A : f[k] = Eq(f, k)
    <2>1. step \in [[A -> D] \X A -> D]
      BY <1>3
    <2>2. \A g \in [A -> D], k \in A : step[<<g, k>>] = Eq(g, k)
      OBVIOUS
    <2> HIDE DEF step
    <2>3. ASSUME NEW g \in [A -> D], NEW h \in [A -> D], NEW k \in A,
                 \A j \in A : m[j] < m[k] => g[j] = h[j]
          PROVE  step[<<g, k>>] = step[<<h, k>>]
      <3>1. Eq(g, k) = Eq(h, k)
        BY <1>4, <2>3
      <3> QED  BY <2>2, <3>1
    <2>4. Recursive(A, D, m, step)
      BY <1>5, <2>1, <2>3 DEF Recursive
    <2>5. PICK f \in [A -> D] : \A k \in A : f[k] = step[<<f, k>>]
      BY ONLY <2>4, RecursiveFunction
    <2> QED  BY <2>2, <2>5
  <1>7. f = F(f)
    BY <1>6
  <1> HIDE DEF F
  <1>8. d = F(d)
    BY <1>7
  <1> DEFINE T == {k \in A : d[k] = f[k]}
  <1> HIDE DEF d
  <1>9. ASSUME NEW k \in A, \A j \in A : m[j] < m[k] => j \in T PROVE k \in T
    <2>1. Eq(d, k) = Eq(f, k)
      BY <1>4, <1>9
    <2> QED  BY <1>6, <1>8, <2>1 DEF F
  <1> HIDE DEF T
  <1>10. \A k \in A : d[k] = f[k]
    <2>1. Inductive(A, m, T)
      BY <1>5, <1>9 DEF Inductive
    <2>2. \A k \in A : k \in T
      BY ONLY <2>1, MeasureInduction
    <2> QED  BY <2>2 DEF T
  <1>11. Digits(n) = f[n]
    BY <1>1, <1>5, <1>10
  <1>12. Spells(f, n)
    BY <1>6, <1>11 DEF A, Eq, Spells
  <1> QED  BY <1>6, <1>12 DEF A, D

\* What is written is read again: a counter, and the number its digits are.
LEMMA NumberOfDigits ==
  ASSUME NEW n \in 0 .. MaxCounter
  PROVE  Digits(n) \in Seq(0 .. 9) /\ Digits(n) # <<>> /\ Number(Digits(n)) = n
  <1>0. MaxCounter \in Nat /\ n \in Nat
    BY OtpAssumption
  <1>1. PICK d \in [0 .. n -> Seq(0 .. 9)] : Spells(d, n)
    BY <1>0, DigitsUnfold
  <1> DEFINE A == 0 .. n
             m == [k \in A |-> k]
             T == {k \in A : d[k] # <<>> /\ Number(d[k]) = k}
  <1>2. ASSUME NEW k \in A, \A j \in A : m[j] < m[k] => j \in T PROVE k \in T
    <2>0. k \in Nat /\ k <= MaxCounter /\ k \in 0 .. n
      BY <1>0
    <2>1. CASE k < 10
      <3>1. d[k] = <<k>> /\ k \in 0 .. 9
        BY <1>1, <2>0, <2>1 DEF Spells
      <3>2. <<>> \in Seq(0 .. 9)
        OBVIOUS
      <3>3. Number(<<k>>) = Min({k, MaxCounter})
        BY <3>1, <3>2, NumberAppend
      <3>4. Min({k, MaxCounter}) = k
        <4>1. k \in Int /\ MaxCounter \in Int
          BY <1>0, <2>0
        <4>2. Min({k, MaxCounter}) = IF k <= MaxCounter THEN k ELSE MaxCounter
          BY ONLY <4>1, MinOfTwo
        <4> QED  BY <2>0, <4>2
      <3>5. <<k>> # <<>>
        OBVIOUS
      <3> QED  BY <3>1, <3>3, <3>4, <3>5
    <2>2. CASE ~ k < 10
      <3>1. k \div 10 \in Nat /\ k % 10 \in 0 .. 9 /\ 10 * (k \div 10) + (k % 10) = k
        BY <2>0, LastDigit
      <3>2. k \div 10 \in A /\ m[k \div 10] < m[k]
        <4>1. k \div 10 < k
          BY ONLY <2>0, <2>2, <3>1
        <4> QED  BY <2>0, <3>1, <4>1
      <3>3. PICK a \in Seq(0 .. 9) : a = d[k \div 10]
        BY <3>2
      <3>4. Number(a) = k \div 10
        BY <1>2, <3>2, <3>3
      <3>5. d[k] = Append(a, k % 10)
        BY <1>1, <2>0, <2>2, <3>3 DEF Spells
      <3>6. Number(Append(a, k % 10)) = Min({10 * Number(a) + (k % 10), MaxCounter})
        <4>1. \A b \in 0 .. 9 : Number(Append(a, b)) = Min({10 * Number(a) + b, MaxCounter})
          BY NumberAppend
        <4> QED  BY <3>1, <4>1
      <3>7. Min({k, MaxCounter}) = k
        <4>1. k \in Int /\ MaxCounter \in Int
          BY <1>0, <2>0
        <4>2. Min({k, MaxCounter}) = IF k <= MaxCounter THEN k ELSE MaxCounter
          BY ONLY <4>1, MinOfTwo
        <4> QED  BY <2>0, <4>2
      <3>8. Append(a, k % 10) # <<>>
        BY ONLY <3>1, AppendNotEmpty, a \in Seq(0 .. 9)
      <3>9. Number(d[k]) = k
        BY ONLY <3>1, <3>4, <3>5, <3>6, <3>7
      <3> QED  BY <3>5, <3>8, <3>9
    <2> QED  BY <2>1, <2>2
  <1>3. m \in [A -> Nat] /\ n \in A
    BY <1>0
  <1> HIDE DEF A, m, T
  <1>4. \A k \in A : k \in T
    <2>1. Inductive(A, m, T)
      BY <1>2, <1>3 DEF Inductive
    <2> QED  BY ONLY <2>1, MeasureInduction
  <1>5. d[n] # <<>> /\ Number(d[n]) = n
    BY <1>3, <1>4 DEF T
  <1>6. Digits(n) = d[n] /\ d[n] \in Seq(0 .. 9)
    BY <1>0, <1>1 DEF Spells
  <1> QED  BY <1>5, <1>6

LEMMA GreatestPlace ==
  ASSUME NEW n \in Nat, NEW T \in SUBSET (1 .. n), T # {}
  PROVE  Max(T) \in T /\ \A i \in T : i <= Max(T)
  <1> DEFINE U == {n - i : i \in T}
  <1>1. U \in SUBSET Nat /\ U # {}
    <2>1. \A i \in T : i \in 1 .. n
      OBVIOUS
    <2>2. \A i \in 1 .. n : n - i \in Nat
      BY ONLY n \in Nat
    <2>3. PICK i \in T : TRUE
      OBVIOUS
    <2> QED  BY ONLY <2>1, <2>2, <2>3, Zenon
  <1>2. PICK u \in U : \A v \in U : u <= v
    BY ONLY <1>1, LeastElement
  <1>3. PICK t \in T : u = n - t
    BY <1>2
  <1>4. ASSUME NEW i \in T PROVE t >= i
    <2>1. n - t <= n - i
      BY <1>2, <1>3
    <2> QED  BY <2>1
  <1> HIDE DEF U
  <1>5. Max(T) = CHOOSE x \in T : \A y \in T : x >= y
    BY DEF Max
  <1>6. Max(T) \in T /\ \A i \in T : Max(T) >= i
    BY <1>4, <1>5
  <1> QED  BY <1>6

LEMMA LeastPlace ==
  ASSUME NEW T \in SUBSET Nat, T # {}
  PROVE  Min(T) \in T /\ \A i \in T : Min(T) <= i
  <1>1. \E x \in T : \A y \in T : x <= y
    BY LeastElement
  <1>2. Min(T) = CHOOSE x \in T : \A y \in T : x <= y
    BY DEF Min
  <1> QED  BY ONLY <1>1, <1>2

LEMMA ValueIs ==
  ASSUME NEW uri \in OtpUris, NEW i \in 1 .. Len(uri.query)
  PROVE  /\ uri.query[i] \in [key : STRING, value : Seq(Chars)]
         /\ uri.query[i].value \in Seq(Chars)
  <1>1. PICK R : R = [key : STRING, value : Seq(Chars)]
    OBVIOUS
  <1>2. uri.query \in Seq(R)
    BY <1>1 DEF OtpUris
  <1>3. uri.query[i] \in R
    BY ONLY <1>2, i \in 1 .. Len(uri.query)
  <1> QED  BY <1>1, <1>3

\* The value of a parameter.
LEMMA ParamIs ==
  ASSUME NEW uri \in OtpUris, NEW key
  PROVE  Param(uri, key) \in Seq(Chars)
  <1> DEFINE hits == {i \in DOMAIN uri.query :
                        uri.query[i].key = key /\ uri.query[i].value # <<>>}
  <1>1. PICK n \in Nat : n = Len(uri.query)
    BY DEF OtpUris
  <1>2. hits \in SUBSET (1 .. n)
    BY <1>1 DEF OtpUris
  <1>3. CASE hits = {}
    BY <1>3 DEF Param
  <1>4. CASE hits # {}
    <2>1. Max(hits) \in 1 .. Len(uri.query)
      <3> HIDE DEF hits
      <3> QED  BY <1>1, <1>2, <1>4, GreatestPlace
    <2>2. uri.query[Max(hits)].value \in Seq(Chars)
      <3> HIDE DEF hits
      <3> QED  BY <2>1, ValueIs
    <2> QED  BY <1>4, <2>2 DEF Param
  <1> QED  BY <1>3, <1>4

LEMMA CounterIs ==
  ASSUME NEW uri \in OtpUris, IsHotp(uri)
  PROVE  /\ Param(uri, "counter") \in Seq(0 .. 9) /\ Param(uri, "counter") # <<>>
         /\ Counter(uri) \in 0 .. MaxCounter
         /\ NextCounter(uri) \in 0 .. MaxCounter
  <1>1. PICK old : old = Param(uri, "counter")
    OBVIOUS
  <1>2. old \in Seq(Chars) /\ old # <<>> /\ Range(old) \subseteq 0 .. 9
    BY <1>1, ParamIs DEF IsHotp, AllDigits
  <1>3. old \in Seq(0 .. 9)
    <2>1. \A i \in 1 .. Len(old) : old[i] \in 0 .. 9
      BY <1>2 DEF Range
    <2> QED  BY <1>2, <2>1
  <1>4. Counter(uri) \in 0 .. MaxCounter
    BY <1>1, <1>3, NumberIs DEF Counter
  <1>5. MaxCounter + 1 \in Nat \ {0} /\ Counter(uri) + 1 \in Nat
    BY <1>4, OtpAssumption
  <1>6. (Counter(uri) + 1) % (MaxCounter + 1) \in 0 .. (MaxCounter + 1) - 1
    BY ONLY <1>5, Euclid
  <1>7. (MaxCounter + 1) - 1 = MaxCounter
    BY OtpAssumption
  <1>8. NextCounter(uri) \in 0 .. MaxCounter
    BY <1>6, <1>7 DEF NextCounter
  <1> QED  BY <1>1, <1>2, <1>3, <1>4, <1>8

\* the parameters whose text may be replaced
Hits(uri) ==
  {i \in DOMAIN uri.query :
     /\ i > 1 /\ uri.query[i].key = "counter"
     /\ IsPrefix(Param(uri, "counter"), uri.query[i].value)}

\* the digits after those of the counter stay
Raised(uri, i) ==
  Digits(NextCounter(uri)) \o SubSeq(uri.query[i].value, Len(Param(uri, "counter")) + 1,
                                     Len(uri.query[i].value))

\* A URI stays one when its counter is raised.
LEMMA IncrementedIs ==
  ASSUME NEW uri \in OtpUris, IsHotp(uri)
  PROVE  /\ IncrementedUri(uri) \in OtpUris
         /\ Hits(uri) = {} => IncrementedUri(uri) = uri
         /\ Hits(uri) # {} =>
              \E i \in Hits(uri) :
                /\ Raised(uri, i) \in Seq(Chars)
                /\ IncrementedUri(uri) =
                     [uri EXCEPT !.query = [uri.query EXCEPT ![i].value = Raised(uri, i)]]
  <1> DEFINE old  == Param(uri, "counter")
             hits == {i \in DOMAIN uri.query :
                        i > 1 /\ uri.query[i].key = "counter" /\ IsPrefix(old, uri.query[i].value)}
  <1>0. hits = Hits(uri)
    BY DEF Hits
  <1>1. CASE hits = {}
    BY <1>0, <1>1 DEF IncrementedUri
  <1>2. CASE hits # {}
    <2>1. PICK query \in Seq([key : STRING, value : Seq(Chars)]) : query = uri.query
      BY DEF OtpUris
    <2>2. hits \in SUBSET Nat
      BY <2>1
    <2>3. Min(hits) \in hits
      <3> HIDE DEF hits
      <3> QED  BY <1>2, <2>2, LeastPlace
    <2>4. PICK i : i = Min(hits)
      OBVIOUS
    <2>5. i \in 1 .. Len(query) /\ IsPrefix(old, query[i].value)
      <3>1. i \in hits
        BY ONLY <2>3, <2>4
      <3> QED  BY <2>1, <3>1
    <2>6. PICK value \in Seq(Chars) : value = query[i].value
      <3>1. query[i].value \in Seq(Chars)
        BY <2>1, <2>5, ValueIs
      <3> QED  BY <3>1
    <2>7. Len(old) \in Nat /\ Len(old) <= Len(value)
      <3>1. old \in Seq(Chars)
        BY ParamIs
      <3>2. IsPrefix(old, value)
        BY <2>5, <2>6
      <3> HIDE DEF old
      <3> QED  BY ONLY <3>1, <3>2 DEF IsPrefix
    <2>8. SubSeq(value, Len(old) + 1, Len(value)) \in Seq(Chars)
      <3> HIDE DEF old
      <3> QED  BY <2>7
    <2>9. Digits(NextCounter(uri)) \in Seq(Chars)
      <3>1. NextCounter(uri) \in 0 .. MaxCounter
        BY CounterIs
      <3>2. PICK d \in Seq(0 .. 9) : d = Digits(NextCounter(uri))
        BY <3>1, NumberOfDigits
      <3>3. 0 .. 9 \subseteq Chars
        BY OtpAssumption
      <3>4. d \in Seq(Chars)
        <4>1. PICK N : N = 0 .. 9
          OBVIOUS
        <4>2. d \in Seq(N) /\ N \subseteq Chars
          BY ONLY <3>3, <4>1, d \in Seq(0 .. 9)
        <4> QED  BY ONLY <4>2
      <3> QED  BY <3>2, <3>4
    <2>10. PICK new \in Seq(Chars) :
            new = Digits(NextCounter(uri)) \o SubSeq(value, Len(old) + 1, Len(value))
      <3>1. Digits(NextCounter(uri)) \o SubSeq(value, Len(old) + 1, Len(value)) \in Seq(Chars)
        BY ONLY <2>8, <2>9
      <3> QED  BY <3>1
    <2>11. IncrementedUri(uri) = [uri EXCEPT !.query[i].value = new]
      BY <1>2, <2>1, <2>4, <2>6, <2>10 DEF IncrementedUri
    <2>12. [query EXCEPT ![i].value = new] \in Seq([key : STRING, value : Seq(Chars)])
      <3>1. [query[i] EXCEPT !.value = new] \in [key : STRING, value : Seq(Chars)]
        <4>1. query[i] \in [key : STRING, value : Seq(Chars)]
          BY <2>1, <2>5, ValueIs
        <4> QED  BY ONLY <4>1, new \in Seq(Chars)
      <3>2. PICK R : R = [key : STRING, value : Seq(Chars)]
        OBVIOUS
      <3>3. [query EXCEPT ![i] = [query[i] EXCEPT !.value = new]] \in Seq(R)
        BY ONLY <2>5, <3>1, <3>2, query \in Seq([key : STRING, value : Seq(Chars)])
      <3> QED  BY <3>2, <3>3
    <2>13. [uri EXCEPT !.query[i].value = new] = [uri EXCEPT !.query = [query EXCEPT ![i].value = new]]
      BY <2>1
    <2>14. IncrementedUri(uri) \in OtpUris
      BY <2>11, <2>12, <2>13 DEF OtpUris
    <2>15. new = Raised(uri, i)
      BY <2>1, <2>6, <2>10 DEF Raised
    <2>16. i \in Hits(uri)
      BY <1>0, <2>3, <2>4
    <2>17. IncrementedUri(uri) = [uri EXCEPT !.query = [uri.query EXCEPT ![i].value = new]]
      BY <2>1, <2>11, <2>13
    <2> HIDE DEF hits
    <2> QED  BY <1>0, <1>2, <2>14, <2>15, <2>16, <2>17
  <1> QED  BY <1>1, <1>2

\* The only counter of a URI that is usual after it was raised is the next one:
\* its length may have changed, and it is 0 after the largest.
LEMMA RaisedIs ==
  ASSUME NEW uri \in OtpUris, IsHotp(uri), IsUsual(IncrementedUri(uri))
  PROVE  IsUsual(uri) /\ Counter(IncrementedUri(uri)) = NextCounter(uri)
  <1> DEFINE IsCounter(u, j) == u.query[j].key = "counter" /\ u.query[j].value # <<>>
             C == {j \in DOMAIN uri.query : IsCounter(uri, j)}
  <1>1. PICK n \in Nat : n = Len(uri.query) /\ DOMAIN uri.query = 1 .. n
    BY DEF OtpUris
  <1>2. PICK old \in Seq(Chars) : old = Param(uri, "counter") /\ old # <<>>
    BY CounterIs, ParamIs
  <1>3. C # {} /\ C \in SUBSET (1 .. n) /\ old = uri.query[Max(C)].value
    <2>1. Param(uri, "counter") = IF C = {} THEN <<>> ELSE uri.query[Max(C)].value
      BY DEF Param
    <2>2. C \in SUBSET (1 .. n)
      BY <1>1
    <2> HIDE DEF C
    <2> QED  BY <1>2, <2>1, <2>2
  <1>4. Max(C) \in C
    <2> HIDE DEF C
    <2> QED  BY <1>3, GreatestPlace
  <1>5. PICK c \in 1 .. n : c = Max(C) /\ c \in C /\ uri.query[c].key = "counter"
                           /\ uri.query[c].value = old
    BY <1>3, <1>4
  <1>6. IsPrefix(old, old)
    BY DEF IsPrefix
  <1>7. ASSUME IsUsual(uri) PROVE Hits(uri) # {}
    <2>1. PICK i \in 1 .. n : i > 1 /\ \A j \in 1 .. n : IsCounter(uri, j) <=> i = j
      BY <1>1, <1>7 DEF IsUsual
    <2>2. i = c
      BY <1>5, <2>1
    <2> QED  BY <1>1, <1>2, <1>5, <1>6, <2>1, <2>2 DEF Hits
  <1>8. CASE Hits(uri) = {}
    BY <1>7, <1>8, IncrementedIs
  <1>9. CASE Hits(uri) # {}
    <2>1. PICK i \in Hits(uri) :
            /\ Raised(uri, i) \in Seq(Chars)
            /\ IncrementedUri(uri) =
                 [uri EXCEPT !.query = [uri.query EXCEPT ![i].value = Raised(uri, i)]]
      BY <1>9, IncrementedIs
    <2>2. /\ i \in 1 .. n /\ i > 1 /\ uri.query[i].key = "counter"
          /\ IsPrefix(old, uri.query[i].value)
      BY <1>1, <1>2 DEF Hits
    <2>3. PICK value \in Seq(Chars) : value = uri.query[i].value
      BY <1>1, <2>2, ValueIs
    <2>4. value # <<>>
      <3>1. Len(old) # 0 /\ Len(old) <= Len(value)
        BY <1>2, <2>2, <2>3 DEF IsPrefix
      <3> QED  BY <3>1
    <2>5. PICK d \in Seq(Chars) : d = Digits(NextCounter(uri)) /\ d # <<>>
      <3>1. NextCounter(uri) \in 0 .. MaxCounter
        BY CounterIs
      <3>2. Digits(NextCounter(uri)) \in Seq(0 .. 9) /\ Digits(NextCounter(uri)) # <<>>
        BY <3>1, NumberOfDigits
      <3>3. 0 .. 9 \subseteq Chars
        BY OtpAssumption
      <3>4. Digits(NextCounter(uri)) \in Seq(Chars)
        <4>1. PICK N, e : N = 0 .. 9 /\ e = Digits(NextCounter(uri))
          OBVIOUS
        <4>2. e \in Seq(N) /\ N \subseteq Chars
          BY ONLY <3>2, <3>3, <4>1
        <4>3. e \in Seq(Chars)
          BY ONLY <4>2
        <4> QED  BY <4>1, <4>3
      <3> QED  BY <3>2, <3>4
    <2>6. PICK new \in Seq(Chars) : new = Raised(uri, i) /\ new # <<>>
      <3>1. Len(old) \in Nat /\ SubSeq(value, Len(old) + 1, Len(value)) \in Seq(Chars)
        <4>1. Len(old) \in 0 .. Len(value)
          BY <2>2, <2>3 DEF IsPrefix
        <4>2. Len(old) + 1 \in 1 .. Len(value) + 1 /\ Len(value) \in Len(old) + 1 - 1 .. Len(value)
          BY <4>1
        <4> QED  BY <4>2, SubSeqInside
      <3>2. PICK t \in Seq(Chars) : t = SubSeq(value, Len(old) + 1, Len(value))
        BY <3>1
      <3>3. d \o t # <<>>
        BY <2>5
      <3>4. Raised(uri, i) = d \o t
        BY <1>2, <2>3, <2>5, <3>2 DEF Raised
      <3> QED  BY <2>1, <3>3, <3>4
    <2>7. PICK uri2 \in OtpUris : uri2 = IncrementedUri(uri)
      BY IncrementedIs
    <2>8. /\ DOMAIN uri2.query = 1 .. n
          /\ uri2.query[i].value = new
          /\ \A j \in 1 .. n : uri2.query[j].key = uri.query[j].key
                               /\ (j # i => uri2.query[j].value = uri.query[j].value)
      <3>1. uri2.query = [uri.query EXCEPT ![i].value = new]
        <4>1. uri2 = [uri EXCEPT !.query = [uri.query EXCEPT ![i].value = new]]
          BY <2>1, <2>6, <2>7
        <4> QED  BY <4>1 DEF OtpUris
      <3>2. \A j \in 1 .. n : uri.query[j] \in [key : STRING, value : Seq(Chars)]
        BY <1>1, ValueIs
      <3>3. PICK q : q = uri.query
        OBVIOUS
      <3>4. DOMAIN q = 1 .. n /\ q = [j \in 1 .. n |-> q[j]]
        BY <1>1, <3>3 DEF OtpUris
      <3> QED  BY <1>1, <2>2, <3>1, <3>2, <3>3, <3>4
    <2>9. \A j \in 1 .. n : IsCounter(uri2, j) <=> IsCounter(uri, j)
      BY <2>2, <2>3, <2>4, <2>6, <2>8
    <2>10. PICK k \in 1 .. n : k > 1 /\ \A j \in 1 .. n : IsCounter(uri2, j) <=> k = j
      <3>1. IsUsual(uri2)
        BY <2>7
      <3>2. PICK k \in DOMAIN uri2.query :
              k > 1 /\ \A j \in DOMAIN uri2.query : IsCounter(uri2, j) <=> k = j
        BY ONLY <3>1 DEF IsUsual
      <3>3. DOMAIN uri2.query = 1 .. n
        BY <2>8
      <3> HIDE DEF IsCounter
      <3> QED  BY ONLY <3>2, <3>3
    <2>11. IsUsual(uri)
      <3>1. \A j \in DOMAIN uri.query : IsCounter(uri, j) <=> k = j
        BY <1>1, <2>9, <2>10
      <3>2. k \in DOMAIN uri.query /\ k > 1
        BY <1>1, <2>10
      <3> QED  BY ONLY <3>1, <3>2 DEF IsUsual
    <2>12. k = i /\ k = c
      BY <1>5, <2>2, <2>3, <2>4, <2>9, <2>10
    <2>13. new = d
      <3>1. value = old
        BY <1>5, <2>3, <2>12
      <3>2. Len(value) \in Int /\ Len(old) + 1 \in Int /\ Len(value) < Len(old) + 1
        BY <3>1
      <3>3. SubSeq(value, Len(old) + 1, Len(value)) = <<>>
        BY <3>2, SubSeqEmpty
      <3>4. new = d \o <<>>
        BY <1>2, <2>3, <2>5, <2>6, <3>3 DEF Raised
      <3> QED  BY <3>4
    <2>14. Param(uri2, "counter") = d
      <3> DEFINE C2 == {j \in DOMAIN uri2.query : IsCounter(uri2, j)}
      <3>1. C2 = {i}
        BY <2>8, <2>10, <2>12
      <3>2. Max(C2) \in C2
        <4>1. {i} \in SUBSET (1 .. n) /\ {i} # {}
          BY <2>2
        <4> HIDE DEF C2
        <4> QED  BY <3>1, <4>1, GreatestPlace
      <3>3. Param(uri2, "counter") = IF C2 = {} THEN <<>> ELSE uri2.query[Max(C2)].value
        BY DEF Param
      <3> HIDE DEF C2
      <3> QED  BY <2>8, <2>13, <3>1, <3>2, <3>3
    <2>15. Counter(uri2) = NextCounter(uri)
      BY <2>5, <2>14, CounterIs, NumberOfDigits DEF Counter
    <2> QED  BY <2>7, <2>11, <2>15
  <1> QED  BY <1>8, <1>9

-----------------------------------------------------------------------------
(* The password generator: alphabets of every size. *)

LEMMA Multiples ==
  ASSUME NEW n \in Nat \ {0}, NEW x \in Nat, NEW y \in Nat, x < y
  PROVE  n * x + n <= n * y
  <1>1. x + 1 <= y
    OBVIOUS
  <1>2. n * (x + 1) = n * x + n
    BY SMT
  <1>3. n * (x + 1) <= n * y
    BY <1>1, SMT
  <1> QED  BY <1>2, <1>3

LEMMA OneQuotient ==
  ASSUME NEW n \in Nat \ {0}, NEW x \in Nat, NEW y \in Nat,
         NEW r \in 0 .. n - 1, NEW s \in 0 .. n - 1,
         n * x + r = n * y + s
  PROVE  x = y /\ r = s
  <1>0. n * x \in Nat /\ n * y \in Nat
    BY SMT
  <1>1. ~ x < y
    BY <1>0, Multiples
  <1>2. ~ y < x
    BY <1>0, Multiples
  <1>3. x = y
    BY <1>1, <1>2
  <1> QED  BY <1>0, <1>3

\* a byte that is accepted and gives the character at i
GivesPlace(b, n, i) == b < Limit(n) /\ b % n = i - 1

\* a multiple of n below the limit, and i - 1 more
IsStep(b, n, i) == \E k \in 1 .. 256 \div n : b = n * (k - 1) + (i - 1)

\* those are the same bytes
LEMMA AcceptedBytes ==
  ASSUME NEW n \in 1 .. 256, NEW i \in 1 .. n, NEW b \in 0 .. 255
  PROVE  GivesPlace(b, n, i) <=> IsStep(b, n, i)
  <1> DEFINE q == 256 \div n
             r == 256 % n
  <1>1. q \in Nat /\ r \in 0 .. n - 1 /\ 256 = n * q + r
    BY Euclid
  <1>2. Limit(n) = n * q
    <2>1. n * q \in Nat
      BY <1>1, SMT
    <2> QED  BY <1>1, <2>1 DEF Limit
  <1>3. b \div n \in Nat /\ b % n \in 0 .. n - 1 /\ b = n * (b \div n) + (b % n)
    <2>1. b \in Nat /\ n \in Nat \ {0}
      OBVIOUS
    <2> QED  BY <2>1, Euclid
  <1> HIDE DEF q, r
  <1>4. ASSUME b < Limit(n), b % n = i - 1
        PROVE  \E k \in 1 .. q : b = n * (k - 1) + (i - 1)
    <2>1. b \div n < q
      <3>1. CASE q < b \div n
        <4>1. n * q + n <= n * (b \div n)
          BY <1>1, <1>3, <3>1, Multiples
        <4>2. n * q \in Nat /\ n * (b \div n) \in Nat
          BY <1>1, <1>3, SMT
        <4> QED  BY <1>2, <1>3, <1>4, <4>1, <4>2
      <3>2. CASE q = b \div n
        <4>1. n * q \in Nat
          BY <1>1, SMT
        <4> QED  BY <1>2, <1>3, <1>4, <3>2, <4>1
      <3> QED  BY <1>1, <1>3, <3>1, <3>2
    <2>2. (b \div n) + 1 \in 1 .. q /\ ((b \div n) + 1) - 1 = b \div n
      BY <1>1, <1>3, <2>1
    <2>3. b = n * (((b \div n) + 1) - 1) + (i - 1)
      BY <1>3, <1>4, <2>2
    <2> QED  BY <2>2, <2>3
  <1>5. ASSUME NEW k \in 1 .. q, b = n * (k - 1) + (i - 1)
        PROVE  b < Limit(n) /\ b % n = i - 1
    <2>1. k - 1 \in Nat /\ i - 1 \in 0 .. n - 1 /\ k - 1 < q
      BY <1>1
    <2>2. b \div n = k - 1 /\ b % n = i - 1
      BY <1>3, <1>5, <2>1, OneQuotient
    <2>3. n * (k - 1) + n <= n * q
      BY <1>1, <2>1, Multiples
    <2>4. n * (k - 1) \in Nat /\ n * q \in Nat
      BY <1>1, <2>1, SMT
    <2> QED  BY <1>2, <1>5, <2>1, <2>2, <2>3, <2>4
  <1> QED  BY <1>4, <1>5 DEF q, GivesPlace, IsStep

\* there are as many of them as n goes into 256
LEMMA AcceptedCount ==
  ASSUME NEW n \in 1 .. 256, NEW i \in 1 .. n
  PROVE  /\ Cardinality({b \in 0 .. 255 : GivesPlace(b, n, i)}) = 256 \div n
         /\ 256 \div n >= 1
  <1> DEFINE q == 256 \div n
             B == {b \in 0 .. 255 : GivesPlace(b, n, i)}
             f == [k \in 1 .. q |-> n * (k - 1) + (i - 1)]
  <1>0. n \in Nat \ {0} /\ i - 1 \in 0 .. n - 1
    OBVIOUS
  <1>1. q \in Nat /\ 256 % n \in 0 .. n - 1 /\ 256 = n * q + (256 % n)
    BY <1>0, Euclid
  <1>2. \A b \in 0 .. 255 : b \in B <=> IsStep(b, n, i)
    <2> SUFFICES ASSUME NEW b \in 0 .. 255 PROVE b \in B <=> IsStep(b, n, i)
      OBVIOUS
    <2>1. b \in B <=> GivesPlace(b, n, i)
      BY ONLY b \in 0 .. 255 DEF B
    <2>2. GivesPlace(b, n, i) <=> IsStep(b, n, i)
      BY ONLY AcceptedBytes, b \in 0 .. 255, n \in 1 .. 256, i \in 1 .. n
    <2> HIDE DEF B
    <2> QED  BY ONLY <2>1, <2>2
  <1> HIDE DEF q, B
  <1>3. q >= 1
    <2>1. CASE q = 0
      <3>1. n * q = 0
        BY <1>0, <2>1, SMT
      <3> QED  BY <1>0, <1>1, <3>1
    <2> QED  BY <1>1, <2>1
  <1>4. ASSUME NEW k \in 1 .. q
        PROVE  n * (k - 1) + (i - 1) \in B
    <2>1. k - 1 \in Nat /\ k - 1 < q
      BY <1>1
    <2>2. n * (k - 1) \in Nat /\ n * q \in Nat
      BY <1>0, <1>1, <2>1, SMT
    <2>3. n * (k - 1) + n <= n * q
      BY <1>0, <1>1, <2>1, Multiples
    <2>4. n * (k - 1) + (i - 1) \in 0 .. 255
      BY <1>0, <1>1, <2>2, <2>3
    <2>5. IsStep(n * (k - 1) + (i - 1), n, i)
      BY ONLY k \in 1 .. q DEF IsStep, q
    <2> QED  BY ONLY <1>2, <2>4, <2>5
  <1>5. f \in [1 .. q -> B]
    BY <1>4
  <1>6. ASSUME NEW j \in 1 .. q, NEW k \in 1 .. q, f[j] = f[k] PROVE j = k
    <2>1. j - 1 \in Nat /\ k - 1 \in Nat
      BY <1>1
    <2>2. n * (j - 1) + (i - 1) = n * (k - 1) + (i - 1)
      BY <1>6
    <2>3. j - 1 = k - 1
      BY <1>0, <2>1, <2>2, OneQuotient
    <2> QED  BY <1>1, <2>3
  <1>7. ASSUME NEW b \in B PROVE \E k \in 1 .. q : f[k] = b
    <2>1. b \in 0 .. 255
      BY DEF B
    <2>2. IsStep(b, n, i)
      BY ONLY <1>2, <1>7, <2>1
    <2>3. PICK k \in 1 .. q : b = n * (k - 1) + (i - 1)
      BY ONLY <2>2 DEF IsStep, q
    <2> QED  BY <2>3
  <1>8. f \in Bijection(1 .. q, B)
    <2>1. \A j, k \in 1 .. q : f[j] = f[k] => j = k
      BY <1>6
    <2>2. \A b \in B : \E k \in 1 .. q : f[k] = b
      BY <1>7
    <2> HIDE DEF f
    <2>3. f \in Injection(1 .. q, B)
      BY <1>5, <2>1 DEF Injection, IsInjective
    <2>4. f \in Surjection(1 .. q, B)
      BY <1>5, <2>2 DEF Surjection
    <2> QED  BY <2>3, <2>4 DEF Bijection
  <1>9. IsFiniteSet(1 .. q) /\ Cardinality(1 .. q) = q
    <2>1. 1 \in Int /\ q \in Int /\ ~ 1 > q /\ q - 1 + 1 = q
      BY <1>1, <1>3
    <2> QED  BY <2>1, FS_Interval
  <1>10. Cardinality(B) = q
    <2>1. ExistsBijection(1 .. q, B)
      BY <1>8 DEF ExistsBijection
    <2> QED  BY <1>9, <2>1, FS_Bijection
  <1> QED  BY <1>3, <1>10 DEF q, B

\* the place in the alphabet a byte gives
PlaceOf(b, n) == (b % n) + 1

LEMMA PlaceOfByte ==
  ASSUME NEW n \in 1 .. 256, NEW i \in 1 .. n, NEW b \in 0 .. 255
  PROVE  PlaceOf(b, n) \in 1 .. n /\ (GivesPlace(b, n, i) <=> b < Limit(n) /\ PlaceOf(b, n) = i)
  <1>1. b \in Nat /\ n \in Nat \ {0}
    OBVIOUS
  <1>2. PICK r \in 0 .. n - 1 : r = b % n
    BY ONLY <1>1, Euclid
  <1>3. r + 1 \in 1 .. n /\ (r + 1 = i <=> r = i - 1)
    OBVIOUS
  <1> QED  BY ONLY <1>2, <1>3 DEF PlaceOf, GivesPlace

\* Every character of an alphabet without duplicates is drawn from the same
\* number of bytes, and that is at least one: no character is likelier than
\* another and none never comes (the rejection in passfl_generate_password).
THEOREM DrawIsUniform ==
  ASSUME NEW C, NEW alphabet \in Seq(C), Len(alphabet) \in 1 .. 256,
         \A j, k \in 1 .. Len(alphabet) : alphabet[j] = alphabet[k] => j = k,
         NEW i \in 1 .. Len(alphabet)
  PROVE  /\ Cardinality({b \in 0 .. 255 : Draw(b, alphabet) = <<alphabet[i]>>})
              = 256 \div Len(alphabet)
         /\ 256 \div Len(alphabet) >= 1
  <1>0. PICK n \in 1 .. 256 : n = Len(alphabet)
    OBVIOUS
  <1>1. i \in 1 .. n
    BY ONLY <1>0, i \in 1 .. Len(alphabet)
  <1>2. ASSUME NEW b \in 0 .. 255
        PROVE  Draw(b, alphabet) = <<alphabet[i]>> <=> GivesPlace(b, n, i)
    <2>0. /\ PlaceOf(b, n) \in 1 .. n
          /\ GivesPlace(b, n, i) <=> b < Limit(n) /\ PlaceOf(b, n) = i
      BY ONLY <1>1, PlaceOfByte, n \in 1 .. 256, b \in 0 .. 255, Zenon
    <2>1. PICK m \in 1 .. n : m = PlaceOf(b, n)
      BY ONLY <2>0
    <2>2. <<alphabet[m]>> = <<alphabet[i]>> <=> m = i
      <3>1. m \in 1 .. Len(alphabet)
        BY ONLY <1>0, m \in 1 .. n
      <3>2. alphabet[m] = alphabet[i] => m = i
        BY <3>1, Zenon
      <3>3. <<alphabet[m]>> = <<alphabet[i]>> <=> alphabet[m] = alphabet[i]
        BY ONLY TRUE
      <3> QED  BY ONLY <3>2, <3>3
    <2>3. <<>> # <<alphabet[i]>>
      BY ONLY TRUE
    <2>4. Draw(b, alphabet) = IF b < Limit(n) THEN <<alphabet[m]>> ELSE <<>>
      BY ONLY <1>0, <2>1 DEF Draw, PlaceOf
    <2>5. Draw(b, alphabet) = <<alphabet[i]>> <=> b < Limit(n) /\ m = i
      BY ONLY <2>2, <2>3, <2>4
    <2> QED  BY ONLY <2>0, <2>1, <2>5
  <1>3. {b \in 0 .. 255 : Draw(b, alphabet) = <<alphabet[i]>>} =
          {b \in 0 .. 255 : GivesPlace(b, n, i)}
    BY ONLY <1>2
  <1>4. /\ Cardinality({b \in 0 .. 255 : GivesPlace(b, n, i)}) = 256 \div n
        /\ 256 \div n >= 1
    BY ONLY <1>1, n \in 1 .. 256, AcceptedCount
  <1> QED  BY ONLY <1>0, <1>3, <1>4

\* what a set is written with: characters by code, and classes
Pieces ==
  [class : {"none", "digit", "upper", "lower", "alpha", "alnum", "punct", "graph", "xdigit"},
   code : Nat]

LEMMA FromToIs ==
  ASSUME NEW lo \in Nat, NEW hi \in Nat, lo <= hi
  PROVE  FromTo(lo, hi) \in Seq(Nat)
  <1>1. PICK n \in Nat : n = hi - lo + 1
    <2>1. hi - lo + 1 \in Nat
      OBVIOUS
    <2> QED  BY <2>1
  <1>2. \A k \in 1 .. n : lo + k - 1 \in Nat
    BY ONLY n \in Nat, lo \in Nat
  <1>3. [k \in 1 .. n |-> lo + k - 1] \in Seq(Nat)
    BY ONLY <1>2, n \in Nat
  <1>4. FromTo(lo, hi) = [k \in 1 .. n |-> lo + k - 1]
    BY ONLY <1>1 DEF FromTo
  <1> QED  BY ONLY <1>3, <1>4

LEMMA ClassCharsIs ==
  ASSUME NEW piece \in Pieces, piece.class # "none"
  PROVE  ClassChars(piece.class) \in Seq(Nat)
  <1>1. /\ Digit \in Seq(Nat) /\ Upper \in Seq(Nat) /\ Lower \in Seq(Nat)
        /\ FromTo(33, 47) \in Seq(Nat) /\ FromTo(58, 64) \in Seq(Nat)
        /\ FromTo(91, 96) \in Seq(Nat) /\ FromTo(123, 126) \in Seq(Nat)
        /\ FromTo(33, 126) \in Seq(Nat)
        /\ FromTo(65, 70) \in Seq(Nat) /\ FromTo(97, 102) \in Seq(Nat)
    <2>1. \A lo, hi \in Nat : lo <= hi => FromTo(lo, hi) \in Seq(Nat)
      BY FromToIs
    <2>2. FromTo(33, 47) \in Seq(Nat) /\ FromTo(58, 64) \in Seq(Nat)
      BY ONLY <2>1
    <2>3. FromTo(91, 96) \in Seq(Nat) /\ FromTo(123, 126) \in Seq(Nat)
      BY ONLY <2>1
    <2>4. FromTo(65, 70) \in Seq(Nat) /\ FromTo(97, 102) \in Seq(Nat)
      BY ONLY <2>1
    <2>5. /\ FromTo(48, 57) \in Seq(Nat) /\ FromTo(65, 90) \in Seq(Nat)
          /\ FromTo(97, 122) \in Seq(Nat)
      <3>1. FromTo(48, 57) \in Seq(Nat)
        BY ONLY <2>1
      <3>2. FromTo(65, 90) \in Seq(Nat)
        BY ONLY <2>1
      <3>3. FromTo(97, 122) \in Seq(Nat)
        BY ONLY <2>1
      <3> QED  BY ONLY <3>1, <3>2, <3>3
    <2>6. FromTo(33, 126) \in Seq(Nat)
      BY ONLY <2>1
    <2> QED  BY <2>2, <2>3, <2>4, <2>5, <2>6 DEF Digit, Upper, Lower
  <1>2. \A r, s \in Seq(Nat) : r \o s \in Seq(Nat)
    OBVIOUS
  <1>3. /\ Upper \o Lower \in Seq(Nat)
        /\ Digit \o Upper \o Lower \in Seq(Nat)
        /\ FromTo(33, 47) \o FromTo(58, 64) \o FromTo(91, 96) \o FromTo(123, 126) \in Seq(Nat)
        /\ Digit \o FromTo(65, 70) \o FromTo(97, 102) \in Seq(Nat)
    <2>1. Upper \o Lower \in Seq(Nat)
      BY ONLY <1>1, <1>2
    <2>2. Digit \o Upper \in Seq(Nat)
      BY ONLY <1>1, <1>2
    <2>3. Digit \o Upper \o Lower \in Seq(Nat)
      BY ONLY <1>1, <1>2, <2>2
    <2>4. FromTo(33, 47) \o FromTo(58, 64) \in Seq(Nat)
      BY ONLY <1>1, <1>2
    <2>5. FromTo(33, 47) \o FromTo(58, 64) \o FromTo(91, 96) \in Seq(Nat)
      BY ONLY <1>1, <1>2, <2>4
    <2>6. FromTo(33, 47) \o FromTo(58, 64) \o FromTo(91, 96) \o FromTo(123, 126) \in Seq(Nat)
      BY ONLY <1>1, <1>2, <2>5
    <2>7. Digit \o FromTo(65, 70) \in Seq(Nat)
      BY ONLY <1>1, <1>2
    <2>8. Digit \o FromTo(65, 70) \o FromTo(97, 102) \in Seq(Nat)
      BY ONLY <1>1, <1>2, <2>7
    <2> QED  BY ONLY <2>1, <2>3, <2>6, <2>8
  <1>4. piece.class \in {"digit", "upper", "lower", "alpha", "alnum", "punct", "graph", "xdigit"}
    BY DEF Pieces
  <1> QED  BY <1>1, <1>3, <1>4 DEF ClassChars

LEMMA RangeCharsIs ==
  ASSUME NEW lo \in Nat, NEW hi \in Nat, lo <= hi
  PROVE  RangeChars(lo, hi) \in Seq(Nat)
  <1>1. <<>> \in Seq(Nat)
    OBVIOUS
  <1> QED  BY <1>1, FromToIs DEF RangeChars

\* What a set is expanded to, before characters are left out.
LEMMA ExpansionIs ==
  ASSUME NEW set \in Seq(Pieces)
  PROVE  Expansion(set) \in Seq(Nat)
  <1> PICK n \in Nat : n = Len(set)
    OBVIOUS
  <1> DEFINE A == 1 .. n + 1
             D == Seq(Nat)
             isRange(i) ==
               /\ i + 2 <= Len(set)
               /\ set[i + 1] = Char(Dash)
               /\ set[i].class = "none" /\ set[i + 2].class = "none"
               /\ set[i].code # Bracket
               /\ set[i].code <= set[i + 2].code
             Eq(g, i) ==
               CASE i > Len(set) -> <<>>
                 [] i <= Len(set) /\ set[i].class # "none" ->
                      ClassChars(set[i].class) \o g[i + 1]
                 [] i <= Len(set) /\ isRange(i) ->
                      RangeChars(set[i].code, set[i + 2].code) \o g[i + 3]
                 [] OTHER -> <<set[i].code>> \o g[i + 1]
             m == [i \in A |-> n + 1 - i]
             step == [x \in [A -> D] \X A |-> Eq(x[1], x[2])]
             F(g) == [i \in A |-> Eq(g, i)]
             rest == CHOOSE g : g = F(g)
  <1>1. Expansion(set) = rest[1]
    BY DEF Expansion
  <1>2. ASSUME NEW i \in A
        PROVE  \/ i > n /\ \A g : Eq(g, i) = <<>>
               \/ /\ i <= n /\ i + 1 \in A /\ m[i + 1] < m[i]
                  /\ \E head \in D : \A g : Eq(g, i) = head \o g[i + 1]
               \/ /\ i <= n /\ i + 3 \in A /\ m[i + 3] < m[i]
                  /\ \E head \in D : \A g : Eq(g, i) = head \o g[i + 3]
    <2>1. CASE i > n
      <3>1. i > Len(set) /\ ~ i <= Len(set)
        BY <2>1
      <3>2. \A g : Eq(g, i) = <<>>
        <4> HIDE DEF isRange
        <4> QED  BY <3>1
      <3> QED  BY <2>1, <3>2
    <2>2. CASE ~ i > n
      <3>1. i \in 1 .. Len(set) /\ ~ i > Len(set) /\ i <= Len(set)
        BY <2>2
      <3>2. set[i] \in Pieces
        BY <3>1
      <3>3. i + 1 \in A /\ m[i + 1] < m[i]
        BY <2>2
      <3>4. CASE set[i].class # "none"
        <4>1. PICK head \in D : head = ClassChars(set[i].class)
          BY <3>2, <3>4, ClassCharsIs
        <4>2. \A g : Eq(g, i) = ClassChars(set[i].class) \o g[i + 1]
          <5>1. ~isRange(i)
            BY <3>4
          <5> HIDE DEF isRange
          <5> QED  BY <3>1, <3>4, <5>1
        <4> HIDE DEF Eq
        <4> QED  BY <3>1, <3>3, <4>1, <4>2
      <3>5. CASE set[i].class = "none" /\ isRange(i)
        <4>1. i + 2 \in 1 .. Len(set) /\ set[i].code <= set[i + 2].code
          BY <3>1, <3>5
        <4>2. set[i + 2] \in Pieces
          BY <4>1
        <4>3. set[i].code \in Nat /\ set[i + 2].code \in Nat
          BY <3>2, <4>2 DEF Pieces
        <4>4. PICK head \in D : head = RangeChars(set[i].code, set[i + 2].code)
          BY <4>1, <4>3, RangeCharsIs
        <4>5. \A g : Eq(g, i) = RangeChars(set[i].code, set[i + 2].code) \o g[i + 3]
          <5> HIDE DEF isRange
          <5> QED  BY <3>1, <3>5
        <4>6. i + 3 \in A /\ m[i + 3] < m[i]
          BY <4>1
        <4> HIDE DEF Eq
        <4> QED  BY <3>1, <4>4, <4>5, <4>6
      <3>6. CASE set[i].class = "none" /\ ~isRange(i)
        <4>1. PICK head \in D : head = <<set[i].code>>
          <5>1. set[i].code \in Nat
            BY <3>2 DEF Pieces
          <5>2. <<set[i].code>> \in D
            BY <5>1
          <5> QED  BY <5>2
        <4>2. \A g : Eq(g, i) = <<set[i].code>> \o g[i + 1]
          <5> HIDE DEF isRange
          <5> QED  BY <3>1, <3>6
        <4> HIDE DEF Eq
        <4> QED  BY <3>1, <3>3, <4>1, <4>2
      <3> HIDE DEF isRange
      <3> QED  BY <3>4, <3>5, <3>6
    <2> QED  BY <2>1, <2>2
  <1>3. D # {} /\ m \in [A -> Nat] /\ 1 \in A /\ <<>> \in D
    <2>1. <<>> \in D
      OBVIOUS
    <2>2. m \in [A -> Nat] /\ 1 \in A
      OBVIOUS
    <2> QED  BY <2>1, <2>2
  <1>4. \A r, s \in D : r \o s \in D
    OBVIOUS
  <1> HIDE DEF A, D, m, Eq
  <1>5. ASSUME NEW g \in [A -> D], NEW i \in A PROVE Eq(g, i) \in D
    <2>1. \A j \in A : g[j] \in D
      OBVIOUS
    <2>2. CASE \A k : Eq(k, i) = <<>>
      BY <1>3, <2>2
    <2>3. ASSUME NEW j \in A, NEW head \in D, \A k : Eq(k, i) = head \o k[j]
          PROVE  Eq(g, i) \in D
      BY <1>4, <2>1, <2>3
    <2> QED  BY <1>2, <2>2, <2>3
  <1>6. ASSUME NEW g, NEW h, NEW i \in A, \A j \in A : m[j] < m[i] => g[j] = h[j]
        PROVE  Eq(g, i) = Eq(h, i)
    <2>1. CASE i > n /\ \A k : Eq(k, i) = <<>>
      BY <2>1
    <2>2. CASE /\ i <= n /\ i + 1 \in A /\ m[i + 1] < m[i]
               /\ \E head \in D : \A k : Eq(k, i) = head \o k[i + 1]
      <3>1. g[i + 1] = h[i + 1]
        BY <1>6, <2>2
      <3> QED  BY <2>2, <3>1
    <2>3. CASE /\ i <= n /\ i + 3 \in A /\ m[i + 3] < m[i]
               /\ \E head \in D : \A k : Eq(k, i) = head \o k[i + 3]
      <3>1. g[i + 3] = h[i + 3]
        BY <1>6, <2>3
      <3> QED  BY <2>3, <3>1
    <2> QED  BY <1>2, <2>1, <2>2, <2>3
  <1>7. PICK f \in [A -> D] : \A i \in A : f[i] = Eq(f, i)
    <2>1. step \in [[A -> D] \X A -> D]
      BY <1>5
    <2>2. \A g \in [A -> D], i \in A : step[<<g, i>>] = Eq(g, i)
      OBVIOUS
    <2> HIDE DEF step
    <2>3. ASSUME NEW g \in [A -> D], NEW h \in [A -> D], NEW i \in A,
                 \A j \in A : m[j] < m[i] => g[j] = h[j]
          PROVE  step[<<g, i>>] = step[<<h, i>>]
      <3>1. Eq(g, i) = Eq(h, i)
        BY <1>6, <2>3
      <3> QED  BY <2>2, <3>1
    <2>4. Recursive(A, D, m, step)
      BY <1>3, <2>1, <2>3 DEF Recursive
    <2>5. PICK f \in [A -> D] : \A i \in A : f[i] = step[<<f, i>>]
      BY ONLY <2>4, RecursiveFunction
    <2> QED  BY <2>2, <2>5
  <1>8. f = F(f)
    BY <1>7
  <1> HIDE DEF F
  <1>9. rest = F(rest)
    BY <1>8
  <1> DEFINE T == {i \in A : rest[i] = f[i]}
  <1> HIDE DEF rest
  <1>10. ASSUME NEW i \in A, \A j \in A : m[j] < m[i] => j \in T PROVE i \in T
    <2>1. Eq(rest, i) = Eq(f, i)
      BY <1>6, <1>10
    <2> QED  BY <1>7, <1>9, <2>1 DEF F
  <1> HIDE DEF T
  <1>11. \A i \in A : rest[i] = f[i]
    <2>1. Inductive(A, m, T)
      BY <1>3, <1>10 DEF Inductive
    <2>2. \A i \in A : i \in T
      BY ONLY <2>1, MeasureInduction
    <2> QED  BY <2>2 DEF T
  <1> QED  BY <1>1, <1>3, <1>11 DEF D

Distinct(seq) == \A j, k \in 1 .. Len(seq) : seq[j] = seq[k] => j = k

LEMMA ConsDistinct ==
  ASSUME NEW S, NEW x \in S, NEW seq \in Seq(S), Distinct(seq), x \notin Range(seq)
  PROVE  Distinct(Cons(x, seq)) /\ Range(Cons(x, seq)) = Range(seq) \cup {x}
  <1>1. PICK n \in Nat : n = Len(seq)
    OBVIOUS
  <1>2. PICK more \in Seq(S) : /\ more = Cons(x, seq) /\ Len(more) = n + 1 /\ more[1] = x
                               /\ \A k \in 1 .. n : more[k + 1] = seq[k]
    <2>1. /\ Cons(x, seq) \in Seq(S) /\ Len(Cons(x, seq)) = n + 1
          /\ Cons(x, seq)[1] = x
          /\ \A k \in 1 .. n : Cons(x, seq)[k + 1] = seq[k]
      BY <1>1, ConsIs
    <2> QED  BY ONLY <2>1
  <1>3. ASSUME NEW j \in 1 .. n + 1
        PROVE  j = 1 \/ \E k \in 1 .. n : j = k + 1 /\ more[j] = seq[k]
    <2>1. CASE j # 1
      <3>1. j - 1 \in 1 .. n /\ j = (j - 1) + 1
        BY <2>1
      <3> QED  BY <1>2, <3>1
    <2> QED  BY <2>1
  <1>4. \A k \in 1 .. n : seq[k] # x
    BY <1>1 DEF Range
  <1>5. \A j, k \in 1 .. n : seq[j] = seq[k] => j = k
    BY <1>1 DEF Distinct
  <1>6. ASSUME NEW j \in 1 .. n + 1, NEW k \in 1 .. n + 1, more[j] = more[k] PROVE j = k
    <2>1. CASE j = 1 \/ k = 1
      <3>1. more[j] = x /\ more[k] = x
        BY ONLY <1>2, <1>6, <2>1
      <3>2. ~(\E i \in 1 .. n : more[j] = seq[i]) /\ ~(\E i \in 1 .. n : more[k] = seq[i])
        BY ONLY <1>4, <3>1
      <3> QED  BY ONLY <1>3, <3>2
    <2>2. CASE j # 1 /\ k # 1
      <3>1. PICK a \in 1 .. n : j = a + 1 /\ more[j] = seq[a]
        BY ONLY <1>3, <2>2
      <3>2. PICK b \in 1 .. n : k = b + 1 /\ more[k] = seq[b]
        BY ONLY <1>3, <2>2
      <3>3. a = b
        BY ONLY <1>5, <1>6, <3>1, <3>2
      <3> QED  BY ONLY <3>1, <3>2, <3>3
    <2> QED  BY ONLY <2>1, <2>2
  <1>7. Distinct(more)
    BY <1>2, <1>6 DEF Distinct
  <1>8. Range(more) = {more[j] : j \in 1 .. n + 1} /\ Range(seq) = {seq[k] : k \in 1 .. n}
    <2>1. DOMAIN more = 1 .. n + 1 /\ DOMAIN seq = 1 .. n
      BY <1>1, <1>2
    <2> QED  BY ONLY <2>1 DEF Range
  <1>9. ASSUME NEW c \in Range(seq) \cup {x} PROVE c \in Range(more)
    <2>1. CASE c = x
      <3>1. 1 \in 1 .. n + 1
        OBVIOUS
      <3>2. more[1] = x
        BY <1>2
      <3> QED  BY ONLY <1>8, <2>1, <3>1, <3>2
    <2>2. CASE c \in Range(seq)
      <3>1. PICK k \in 1 .. n : c = seq[k]
        BY ONLY <1>8, <2>2
      <3>2. k + 1 \in 1 .. n + 1 /\ more[k + 1] = c
        BY <1>2, <3>1
      <3> QED  BY ONLY <1>8, <3>2
    <2> QED  BY <2>1, <2>2
  <1>10. Range(more) \subseteq Range(seq) \cup {x}
    <2>1. ASSUME NEW c \in Range(more) PROVE c \in Range(seq) \cup {x}
      <3>1. PICK j \in 1 .. n + 1 : c = more[j]
        BY ONLY <1>8, <2>1
      <3>2. c = x \/ \E k \in 1 .. n : c = seq[k]
        BY ONLY <1>2, <1>3, <3>1
      <3> QED  BY ONLY <1>8, <3>2
    <2> QED  BY ONLY <2>1
  <1> QED  BY <1>2, <1>7, <1>9, <1>10

\* the ASCII characters of a set
Ascii(set) == {c \in 0 .. 127 : \E k \in 1 .. Len(Expansion(set)) : Expansion(set)[k] = c}

\* The alphabet has each ASCII character of the set once.
LEMMA AlphabetIs ==
  ASSUME NEW set \in Seq(Pieces)
  PROVE  /\ ExpandSet(set) \in Seq(0 .. 127)
         /\ Distinct(ExpandSet(set))
         /\ Range(ExpandSet(set)) = Ascii(set)
  <1>1. PICK all \in Seq(Nat) : all = Expansion(set)
    BY ExpansionIs
  <1> PICK n \in Nat : n = Len(all)
    OBVIOUS
  <1>2. PICK S : S = 0 .. 127
    OBVIOUS
  <1> DEFINE A == 1 .. n + 1
             D == Seq(S)
             seen(i) == \E j \in 1 .. i - 1 : all[j] = all[i]
             drop(i) == all[i] >= 128 \/ seen(i)
             Eq(g, i) == IF i > n THEN <<>>
                         ELSE IF drop(i) THEN g[i + 1] ELSE <<all[i]>> \o g[i + 1]
             m == [i \in A |-> n + 1 - i]
             step == [x \in [A -> D] \X A |-> Eq(x[1], x[2])]
             F(g) == [i \in A |-> Eq(g, i)]
             out == CHOOSE g : g = F(g)
             first(c, k) == all[k] = c /\ \A j \in 1 .. k - 1 : all[j] # c
  <1>3. ExpandSet(set) = out[1]
    BY <1>1 DEF ExpandSet
  <1>4. D # {} /\ m \in [A -> Nat] /\ 1 \in A /\ <<>> \in D
    <2>1. <<>> \in D
      OBVIOUS
    <2>2. m \in [A -> Nat] /\ 1 \in A
      OBVIOUS
    <2> QED  BY <2>1, <2>2
  <1>5. ASSUME NEW i \in A, i <= n
        PROVE  /\ i + 1 \in A /\ m[i + 1] < m[i] /\ i \in 1 .. n /\ ~ i > n
               /\ all[i] \in Nat /\ (~drop(i) => all[i] \in S)
    <2>1. i + 1 \in A /\ m[i + 1] < m[i] /\ i \in 1 .. n /\ ~ i > n
      BY <1>5
    <2>2. all[i] \in Nat
      BY <2>1
    <2>3. ~drop(i) => ~ all[i] >= 128
      OBVIOUS
    <2>4. ~drop(i) => all[i] \in 0 .. 127
      <3>1. ASSUME ~drop(i) PROVE all[i] \in 0 .. 127
        <4>1. PICK c \in Nat : c = all[i]
          BY <2>2
        <4>2. ~ c >= 128
          BY <2>3, <3>1, <4>1
        <4>3. c \in 0 .. 127
          BY ONLY <4>2, c \in Nat
        <4> QED  BY <4>1, <4>3
      <3> QED  BY <3>1
    <2> HIDE DEF drop, A, m
    <2> QED  BY ONLY <1>2, <2>1, <2>2, <2>4
  <1>6. \A i \in A : i > n \/ i <= n
    OBVIOUS
  <1>7. \A x \in S, seq \in D : <<x>> \o seq = Cons(x, seq) /\ Cons(x, seq) \in D
    BY ConsIs DEF Cons
  <1>8. ASSUME NEW i \in A, i <= n
        PROVE  \A c : (\E k \in i .. n : first(c, k))
                        <=> first(c, i) \/ \E k \in i + 1 .. n : first(c, k)
    <2>1. i \in i .. n /\ i + 1 .. n \subseteq i .. n
      BY <1>8
    <2>2. \A k \in i .. n : k = i \/ k \in i + 1 .. n
      BY <1>8
    <2> HIDE DEF first, A
    <2> QED  BY <2>1, <2>2
  <1>9. ASSUME NEW i \in A, i <= n
        PROVE  \A c : first(c, i) => \A k \in i + 1 .. n : ~first(c, k)
    <2>1. \A k \in i + 1 .. n : i \in 1 .. k - 1
      BY <1>9
    <2> QED  BY <2>1
  <1>10. ASSUME NEW i \in A, i <= n
         PROVE  \A c \in S : first(c, i) <=> ~drop(i) /\ c = all[i]
    <2>1. all[i] \in Nat
      BY <1>5, <1>10
    <2>2. \A c \in S : ~ c >= 128
      BY <1>2
    <2> QED  BY <2>1, <2>2
  <1> HIDE DEF A, D, m, drop, first
  <1>11. ASSUME NEW g \in [A -> D], NEW i \in A PROVE Eq(g, i) \in D
    <2>1. CASE i <= n /\ ~drop(i)
      <3>1. all[i] \in S /\ g[i + 1] \in D /\ ~ i > n
        BY <1>5, <2>1
      <3> QED  BY <1>7, <2>1, <3>1
    <2>2. CASE i <= n /\ drop(i)
      <3>1. g[i + 1] \in D /\ ~ i > n
        BY <1>5, <2>2
      <3> QED  BY <2>2, <3>1
    <2>3. CASE i > n
      BY <1>4, <2>3
    <2> QED  BY <1>6, <2>1, <2>2, <2>3
  <1>12. ASSUME NEW g, NEW h, NEW i \in A, \A j \in A : m[j] < m[i] => g[j] = h[j]
         PROVE  Eq(g, i) = Eq(h, i)
    <2>1. CASE i <= n
      <3>1. g[i + 1] = h[i + 1]
        BY <1>5, <1>12, <2>1
      <3> QED  BY <3>1
    <2>2. CASE i > n
      BY <2>2
    <2> QED  BY <1>6, <2>1, <2>2
  <1> HIDE DEF Eq
  <1>13. PICK f \in [A -> D] : \A i \in A : f[i] = Eq(f, i)
    <2>1. step \in [[A -> D] \X A -> D]
      BY <1>11
    <2>2. \A g \in [A -> D], i \in A : step[<<g, i>>] = Eq(g, i)
      OBVIOUS
    <2> HIDE DEF step
    <2>3. ASSUME NEW g \in [A -> D], NEW h \in [A -> D], NEW i \in A,
                 \A j \in A : m[j] < m[i] => g[j] = h[j]
          PROVE  step[<<g, i>>] = step[<<h, i>>]
      <3>1. Eq(g, i) = Eq(h, i)
        BY <1>12, <2>3
      <3> QED  BY <2>2, <3>1
    <2>4. Recursive(A, D, m, step)
      BY <1>4, <2>1, <2>3 DEF Recursive
    <2>5. PICK f \in [A -> D] : \A i \in A : f[i] = step[<<f, i>>]
      BY ONLY <2>4, RecursiveFunction
    <2> QED  BY <2>2, <2>5
  <1>14. f = F(f)
    BY <1>13
  <1> HIDE DEF F
  <1>15. out = F(out)
    BY <1>14
  <1> DEFINE T == {i \in A : out[i] = f[i]}
             U == {i \in A : /\ Distinct(f[i])
                             /\ \A c \in S : c \in Range(f[i]) <=> \E k \in i .. n : first(c, k)}
  <1> HIDE DEF out
  <1>16. ASSUME NEW i \in A, \A j \in A : m[j] < m[i] => j \in T PROVE i \in T
    <2>1. Eq(out, i) = Eq(f, i)
      BY <1>12, <1>16
    <2> QED  BY <1>13, <1>15, <2>1 DEF F
  <1>17. ASSUME NEW i \in A, \A j \in A : m[j] < m[i] => j \in U PROVE i \in U
    <2>1. CASE i > n
      <3>1. f[i] = <<>>
        BY <1>13, <2>1 DEF Eq
      <3>2. \A k : k \notin i .. n
        BY <2>1 DEF A
      <3>3. Distinct(<<>>) /\ Range(<<>>) = {}
        BY DEF Distinct, Range
      <3> QED  BY <3>1, <3>2, <3>3
    <2>2. CASE i <= n
      <3>1. i + 1 \in U /\ i + 1 \in A /\ ~ i > n
        BY <1>5, <1>17, <2>2
      <3>2. CASE drop(i)
        <4>1. f[i] = f[i + 1]
          BY <1>13, <3>1, <3>2 DEF Eq
        <4>2. \A c \in S : (\E k \in i .. n : first(c, k)) <=> \E k \in i + 1 .. n : first(c, k)
          BY <1>8, <1>10, <2>2, <3>2
        <4> QED  BY <3>1, <4>1, <4>2
      <3>3. CASE ~drop(i)
        <4>1. all[i] \in S /\ f[i + 1] \in D
          BY <1>5, <2>2, <3>1, <3>3
        <4>2. f[i] = Cons(all[i], f[i + 1])
          BY <1>7, <1>13, <3>1, <3>3, <4>1 DEF Eq
        <4>3. all[i] \notin Range(f[i + 1])
          <5>1. first(all[i], i)
            BY <1>10, <2>2, <3>3, <4>1
          <5>2. \A k \in i + 1 .. n : ~first(all[i], k)
            BY <1>9, <2>2, <5>1
          <5> QED  BY <3>1, <4>1, <5>2
        <4>4. Distinct(f[i]) /\ Range(f[i]) = Range(f[i + 1]) \cup {all[i]}
          <5>1. f[i + 1] \in Seq(S) /\ Distinct(f[i + 1])
            BY <3>1, <4>1 DEF D
          <5> QED  BY <4>1, <4>2, <4>3, <5>1, ConsDistinct
        <4>5. \A c \in S : (\E k \in i .. n : first(c, k))
                              <=> c = all[i] \/ \E k \in i + 1 .. n : first(c, k)
          BY <1>8, <1>10, <2>2, <3>3
        <4> QED  BY <3>1, <4>4, <4>5
      <3> QED  BY <3>2, <3>3
    <2> QED  BY <1>6, <2>1, <2>2
  <1> HIDE DEF T, U
  <1>18. \A i \in A : i \in T
    <2>1. Inductive(A, m, T)
      BY <1>4, <1>16 DEF Inductive
    <2> QED  BY ONLY <2>1, MeasureInduction
  <1>19. \A i \in A : i \in U
    <2>1. Inductive(A, m, U)
      BY <1>4, <1>17 DEF Inductive
    <2> QED  BY ONLY <2>1, MeasureInduction
  <1>20. PICK alphabet \in Seq(S) : alphabet = ExpandSet(set)
    <2>1. out[1] = f[1]
      BY <1>4, <1>18 DEF T
    <2>2. f[1] \in Seq(S)
      BY <1>4 DEF D
    <2> QED  BY <1>3, <2>1, <2>2
  <1>21. alphabet = f[1]
    BY <1>3, <1>4, <1>18, <1>20 DEF T
  <1>22. /\ Distinct(alphabet)
         /\ \A c \in S : c \in Range(alphabet) <=> \E k \in 1 .. n : first(c, k)
    BY <1>4, <1>19, <1>21 DEF U
  <1>23. ASSUME NEW c \in S
         PROVE  (\E k \in 1 .. n : first(c, k)) <=> \E k \in 1 .. n : all[k] = c
    <2>1. ASSUME NEW k \in 1 .. n, all[k] = c PROVE \E j \in 1 .. n : first(c, j)
      <3> DEFINE K == {j \in 1 .. n : all[j] = c}
      <3>1. K \in SUBSET Nat /\ K # {}
        <4>1. k \in K
          BY ONLY <2>1
        <4>2. \A j \in 1 .. n : j \in Nat
          BY ONLY n \in Nat
        <4> QED  BY ONLY <4>1, <4>2
      <3>2. PICK j \in K : \A i \in K : j <= i
        BY ONLY <3>1, LeastElement
      <3>3. \A i \in 1 .. j - 1 : i \in 1 .. n /\ i < j
        BY <3>2
      <3>4. j \in 1 .. n /\ all[j] = c /\ \A i \in 1 .. n : all[i] = c => j <= i
        BY <3>2
      <3> HIDE DEF K
      <3>5. \A i \in 1 .. j - 1 : all[i] # c
        BY <3>3, <3>4
      <3> QED  BY <3>4, <3>5 DEF first
    <2> QED  BY <2>1 DEF first
  <1>24. Range(alphabet) \subseteq S
    BY DEF Range
  <1>25. Ascii(set) = {c \in S : \E k \in 1 .. n : all[k] = c}
    BY <1>1, <1>2 DEF Ascii
  <1>26. Range(alphabet) = Ascii(set)
    BY <1>22, <1>23, <1>24, <1>25
  <1> QED  BY <1>2, <1>20, <1>22, <1>26

\* A password of any character set that stands for some ASCII character has just
\* the ASCII characters the set stands for, each of them equally likely, in
\* whatever order and however often the set names them (set_add,
\* passfl_generate_expand_set, passfl_generate_password).
THEOREM AlphabetIsFair ==
  ASSUME NEW set \in Seq(Pieces), Ascii(set) # {}
  PROVE  IsFair(ExpandSet(set), Ascii(set))
  <1>1. PICK C : C = 0 .. 127
    OBVIOUS
  <1>2. PICK alphabet \in Seq(C) :
          alphabet = ExpandSet(set) /\ Distinct(alphabet) /\ Range(alphabet) = Ascii(set)
    BY <1>1, AlphabetIs
  <1>3. PICK n \in Nat : n = Len(alphabet)
    OBVIOUS
  <1>4. PICK chars : chars = Ascii(set)
    OBVIOUS
  <1>5. chars = {alphabet[k] : k \in 1 .. n} /\ chars \subseteq C
    BY <1>2, <1>3, <1>4 DEF Range
  <1>6. Cardinality(chars) = n
    <2>1. alphabet \in [1 .. n -> chars]
      BY <1>3, <1>5
    <2>2. \A j, k \in 1 .. n : alphabet[j] = alphabet[k] => j = k
      BY <1>2, <1>3 DEF Distinct
    <2>3. \A c \in chars : \E k \in 1 .. n : alphabet[k] = c
      BY <1>5
    <2>4. alphabet \in Injection(1 .. n, chars) /\ alphabet \in Surjection(1 .. n, chars)
      BY ONLY <2>1, <2>2, <2>3 DEF Injection, IsInjective, Surjection
    <2>5. ExistsBijection(1 .. n, chars)
      BY <2>4 DEF ExistsBijection, Bijection
    <2> QED  BY <2>5, FS_CountingElements
  <1>7. n \in 1 .. 256
    <2>1. IsFiniteSet(C) /\ Cardinality(C) = 128
      <3>1. PICK lo \in Int, hi \in Int : lo = 0 /\ hi = 127
        OBVIOUS
      <3>2. /\ IsFiniteSet(lo .. hi)
            /\ Cardinality(lo .. hi) = IF lo > hi THEN 0 ELSE hi - lo + 1
        BY ONLY lo \in Int, hi \in Int, FS_Interval
      <3>3. Cardinality(lo .. hi) = 128
        BY ONLY <3>1, <3>2
      <3> QED  BY ONLY <1>1, <3>1, <3>2, <3>3
    <2>2. n <= 128
      BY <1>5, <1>6, <2>1, FS_Subset
    <2>3. n # 0
      BY <1>4, <1>5
    <2> QED  BY <2>2, <2>3
  <1>8. ASSUME NEW c \in chars
        PROVE  Cardinality({b \in 0 .. 255 : Draw(b, alphabet) = <<c>>})
                 = 256 \div Cardinality(chars)
    <2>1. PICK k \in 1 .. n : c = alphabet[k]
      BY <1>5
    <2>2. \A i, j \in 1 .. Len(alphabet) : alphabet[i] = alphabet[j] => i = j
      BY <1>2 DEF Distinct
    <2>3. Len(alphabet) \in 1 .. 256 /\ k \in 1 .. Len(alphabet)
      BY <1>3, <1>7
    <2>4. Cardinality({b \in 0 .. 255 : Draw(b, alphabet) = <<alphabet[k]>>})
            = 256 \div Len(alphabet)
      BY ONLY <2>2, <2>3, alphabet \in Seq(C), DrawIsUniform
    <2> QED  BY <1>3, <1>6, <2>1, <2>4
  <1>9. alphabet # <<>>
    <2>1. n # 0
      BY <1>7
    <2>2. Len(<<>>) = 0
      OBVIOUS
    <2> QED  BY ONLY <1>3, <2>1, <2>2, Zenon
  <1> QED  BY <1>2, <1>4, <1>8, <1>9 DEF IsFair

\* A password generated in the editor is fair, for any character sets that stand
\* for ASCII characters at all (on_generate, passfl_generate_password).
THEOREM EditorIsFair ==
  ASSUME \A charset \in CharSets :
           /\ charset.set \in Seq(Pieces)
           /\ charset.chars = Ascii(charset.set)
           /\ charset.chars # {}
  PROVE  Spec => []GeneratorIsFair
  <1>1. FairSets = CharSets
    <2>1. ASSUME NEW charset \in CharSets PROVE IsFair(ExpandSet(charset.set), charset.chars)
      BY AlphabetIsFair
    <2> QED  BY <2>1 DEF FairSets
  <1>2. GeneratorIsFair
    BY <1>1 DEF GeneratorIsFair
  <1>3. Init => GeneratorIsFair
    BY <1>2
  <1>4. GeneratorIsFair /\ [Next]_vars => GeneratorIsFair'
    BY <1>1 DEF GeneratorIsFair
  <1> QED  BY <1>3, <1>4, PTL DEF Spec

-----------------------------------------------------------------------------
(* The diff of two revisions. *)

\* the rows of a diff of lines from D
RowsOf(D) == [kind : {" ", "-", "+"}, line : D]

\* lines[k] are the lines of the rows from k on
Sides(lines, rws, kinds) ==
  /\ Side(rws, kinds) = lines[1]
  /\ \A k \in 1 .. Len(rws) + 1 :
       lines[k] = IF k > Len(rws) THEN <<>>
                  ELSE IF rws[k].kind \in kinds THEN Cons(rws[k].line, lines[k + 1])
                  ELSE lines[k + 1]

LEMMA SideUnfolds ==
  ASSUME NEW D, NEW rws \in Seq(RowsOf(D)), NEW kinds
  PROVE  \E lines \in [1 .. Len(rws) + 1 -> Seq(D)] : Sides(lines, rws, kinds)
  <1> PICK n \in Nat : n = Len(rws)
    OBVIOUS
  <1> DEFINE A == 1 .. n + 1
             V == Seq(D)
             Eq(g, k) == IF k > n THEN <<>>
                         ELSE IF rws[k].kind \in kinds THEN <<rws[k].line>> \o g[k + 1]
                         ELSE g[k + 1]
             m == [k \in A |-> n + 1 - k]
             step == [x \in [A -> V] \X A |-> Eq(x[1], x[2])]
             F(g) == [k \in A |-> Eq(g, k)]
             lines == CHOOSE g : g = F(g)
  <1>1. Side(rws, kinds) = lines[1]
    BY DEF Side
  <1>2. ASSUME NEW g \in [A -> V], NEW k \in A PROVE Eq(g, k) \in V
    <2>1. CASE ~ k > n
      <3>1. k \in 1 .. Len(rws) /\ k + 1 \in A
        BY <2>1
      <3>2. rws[k] \in RowsOf(D)
        BY <3>1
      <3>3. rws[k].line \in D
        BY <3>2 DEF RowsOf
      <3>4. PICK one \in V : one = <<rws[k].line>>
        <4>1. <<rws[k].line>> \in V
          BY <3>3
        <4> QED  BY <4>1
      <3>5. g[k + 1] \in V
        BY <3>1
      <3>6. one \o g[k + 1] \in V
        BY <3>5
      <3> QED  BY <2>1, <3>4, <3>5, <3>6
    <2>2. <<>> \in V
      OBVIOUS
    <2> QED  BY <2>1, <2>2
  <1>3. ASSUME NEW g, NEW h, NEW k \in A, \A j \in A : m[j] < m[k] => g[j] = h[j]
        PROVE  Eq(g, k) = Eq(h, k)
    <2>1. CASE ~ k > n
      <3>1. k + 1 \in A /\ m[k + 1] < m[k]
        BY <2>1
      <3>2. g[k + 1] = h[k + 1]
        BY <1>3, <3>1
      <3> QED  BY <3>2
    <2> QED  BY <2>1
  <1>4. V # {} /\ m \in [A -> Nat] /\ 1 \in A
    <2>1. <<>> \in V
      OBVIOUS
    <2>2. m \in [A -> Nat] /\ 1 \in A
      OBVIOUS
    <2> QED  BY <2>1, <2>2
  <1> HIDE DEF A, V, m, Eq
  <1>5. PICK f \in [A -> V] : \A k \in A : f[k] = Eq(f, k)
    <2>1. step \in [[A -> V] \X A -> V]
      BY <1>2
    <2>2. \A g \in [A -> V], k \in A : step[<<g, k>>] = Eq(g, k)
      OBVIOUS
    <2> HIDE DEF step
    <2>3. ASSUME NEW g \in [A -> V], NEW h \in [A -> V], NEW k \in A,
                 \A j \in A : m[j] < m[k] => g[j] = h[j]
          PROVE  step[<<g, k>>] = step[<<h, k>>]
      <3>1. Eq(g, k) = Eq(h, k)
        BY <1>3, <2>3
      <3> QED  BY <2>2, <3>1
    <2>4. Recursive(A, V, m, step)
      BY <1>4, <2>1, <2>3 DEF Recursive
    <2>5. PICK f \in [A -> V] : \A k \in A : f[k] = step[<<f, k>>]
      BY ONLY <2>4, RecursiveFunction
    <2> QED  BY <2>2, <2>5
  <1>6. f = F(f)
    BY <1>5
  <1> HIDE DEF F
  <1>7. lines = F(lines)
    BY <1>6
  <1> DEFINE T == {k \in A : lines[k] = f[k]}
  <1> HIDE DEF lines
  <1>8. ASSUME NEW k \in A, \A j \in A : m[j] < m[k] => j \in T PROVE k \in T
    <2>1. Eq(lines, k) = Eq(f, k)
      BY <1>3, <1>8
    <2> QED  BY <1>5, <1>7, <2>1 DEF F
  <1> HIDE DEF T
  <1>9. \A k \in A : lines[k] = f[k]
    <2>1. Inductive(A, m, T)
      BY <1>4, <1>8 DEF Inductive
    <2>2. \A k \in A : k \in T
      BY ONLY <2>1, MeasureInduction
    <2> QED  BY <2>2 DEF T
  <1>10. Side(rws, kinds) = f[1]
    BY <1>1, <1>4, <1>9
  <1>11. Sides(f, rws, kinds)
    BY <1>5, <1>10 DEF A, Eq, Sides, Cons
  <1> QED  BY <1>5, <1>11 DEF A, V

LEMMA SideEmpty ==
  ASSUME NEW kinds
  PROVE  Side(<<>>, kinds) = <<>>
  <1>1. PICK D : D = {}
    OBVIOUS
  <1>2. <<>> \in Seq(RowsOf(D)) /\ Len(<<>>) = 0
    OBVIOUS
  <1>3. PICK none \in Seq(RowsOf(D)) : none = <<>> /\ Len(none) = 0
    BY <1>2
  <1>4. PICK lines \in [1 .. Len(none) + 1 -> Seq(D)] : Sides(lines, none, kinds)
    BY SideUnfolds
  <1>5. 1 \in 1 .. Len(none) + 1 /\ 1 > Len(none)
    BY <1>3
  <1>6. lines[1] = <<>>
    BY <1>4, <1>5 DEF Sides
  <1> QED  BY <1>3, <1>4, <1>6 DEF Sides

\* A row more.
LEMMA SideCons ==
  ASSUME NEW D, NEW row \in RowsOf(D), NEW rws \in Seq(RowsOf(D)), NEW kinds
  PROVE  /\ Side(rws, kinds) \in Seq(D)
         /\ Side(Cons(row, rws), kinds) =
              IF row.kind \in kinds THEN Cons(row.line, Side(rws, kinds))
              ELSE Side(rws, kinds)
  <1> PICK n \in Nat : n = Len(rws)
    OBVIOUS
  <1>1. PICK more \in Seq(RowsOf(D)) :
          /\ more = Cons(row, rws) /\ Len(more) = n + 1 /\ more[1] = row
          /\ \A k \in 1 .. n : more[k + 1] = rws[k]
    <2>1. PICK R : R = RowsOf(D)
      OBVIOUS
    <2>2. row \in R /\ rws \in Seq(R)
      BY <2>1
    <2>3. /\ Cons(row, rws) \in Seq(R) /\ Len(Cons(row, rws)) = Len(rws) + 1
          /\ Cons(row, rws)[1] = row
          /\ \A k \in 1 .. Len(rws) : Cons(row, rws)[k + 1] = rws[k]
      BY ONLY <2>2, ConsIs
    <2> QED  BY <2>1, <2>3
  <1>2. PICK f \in [1 .. n + 1 -> Seq(D)] : Sides(f, rws, kinds)
    BY SideUnfolds
  <1>3. PICK g \in [1 .. n + 2 -> Seq(D)] : Sides(g, more, kinds)
    <2>1. Len(more) + 1 = n + 2
      BY <1>1
    <2>2. \E h \in [1 .. Len(more) + 1 -> Seq(D)] : Sides(h, more, kinds)
      BY SideUnfolds
    <2> QED  BY <2>1, <2>2
  <1>4. /\ Side(rws, kinds) = f[1]
        /\ \A k \in 1 .. n + 1 :
             f[k] = IF k > n THEN <<>>
                    ELSE IF rws[k].kind \in kinds THEN Cons(rws[k].line, f[k + 1])
                    ELSE f[k + 1]
    BY <1>2 DEF Sides
  <1>5. /\ Side(more, kinds) = g[1]
        /\ \A k \in 1 .. n + 2 :
             g[k] = IF k > n + 1 THEN <<>>
                    ELSE IF more[k].kind \in kinds THEN Cons(more[k].line, g[k + 1])
                    ELSE g[k + 1]
    <2>1. Len(more) + 1 = n + 2 /\ Len(more) = n + 1
      BY <1>1
    <2> QED  BY <1>3, <2>1 DEF Sides
  <1> DEFINE T == {k \in 1 .. n + 1 : g[k + 1] = f[k]}
  <1>6. ASSUME NEW k \in 1 .. n + 1, \A j \in k + 1 .. n + 1 : j \in T PROVE k \in T
    <2>1. k + 1 \in 1 .. n + 2
      OBVIOUS
    <2>2. CASE k > n
      <3>1. g[k + 1] = <<>> /\ f[k] = <<>>
        BY <1>4, <1>5, <2>1, <2>2
      <3> QED  BY <3>1
    <2>3. CASE ~ k > n
      <3>1. k \in 1 .. n /\ k + 1 \in k + 1 .. n + 1 /\ ~ k + 1 > n + 1
        BY <2>3
      <3>2. g[k + 1 + 1] = f[k + 1]
        BY <1>6, <3>1
      <3>3. more[k + 1] = rws[k]
        BY <1>1, <3>1
      <3>4. g[k + 1] = IF more[k + 1].kind \in kinds THEN Cons(more[k + 1].line, g[k + 1 + 1])
                       ELSE g[k + 1 + 1]
        BY <1>5, <2>1, <3>1
      <3>5. f[k] = IF rws[k].kind \in kinds THEN Cons(rws[k].line, f[k + 1])
                   ELSE f[k + 1]
        BY <1>4, <2>3
      <3> QED  BY <3>2, <3>3, <3>4, <3>5
    <2> QED  BY <2>2, <2>3
  <1> HIDE DEF T
  <1>7. \A k \in 1 .. n + 1 : k \in T
    <2>1. PICK l \in Nat : l = n + 1
      OBVIOUS
    <2>2. \A k \in 1 .. l : (\A j \in k + 1 .. l : j \in T) => k \in T
      BY <1>6, <2>1
    <2>3. \A k \in 1 .. l : k \in T
      BY ONLY <2>2, l \in Nat, PlaceInduction
    <2> QED  BY <2>1, <2>3
  <1>8. 1 \in 1 .. n + 1 /\ 1 \in 1 .. n + 2 /\ ~ 1 > n + 1 /\ 1 + 1 = 2
    OBVIOUS
  <1>9. g[1 + 1] = f[1]
    BY <1>7, <1>8 DEF T
  <1>10. g[1] = IF row.kind \in kinds THEN Cons(row.line, f[1]) ELSE f[1]
    BY <1>1, <1>5, <1>8, <1>9
  <1>11. f[1] \in Seq(D)
    BY <1>8
  <1> QED  BY <1>1, <1>4, <1>5, <1>10, <1>11

LEMMA MaxOfTwo ==
  ASSUME NEW x \in Int, NEW y \in Int
  PROVE  Max({x, y}) = IF x >= y THEN x ELSE y
  <1>1. Max({x, y}) = CHOOSE z \in {x, y} : \A u \in {x, y} : z >= u
    BY DEF Max
  <1>2. \E z \in {x, y} : \A u \in {x, y} : z >= u
    <2>1. CASE x >= y
      BY <2>1
    <2>2. CASE ~ x >= y
      BY <2>2
    <2> QED  BY <2>1, <2>2
  <1>3. Max({x, y}) \in {x, y} /\ \A u \in {x, y} : Max({x, y}) >= u
    BY ONLY <1>1, <1>2
  <1> QED  BY <1>3

\* What is left of two sequences after a place.
Left(la, lb) == [p \in (0 .. la) \X (0 .. lb) |-> (la - p[1]) + (lb - p[2])]

LEMMA LeftIs ==
  ASSUME NEW la \in Nat, NEW lb \in Nat
  PROVE  Left(la, lb) \in [(0 .. la) \X (0 .. lb) -> Nat]
  <1>1. ASSUME NEW p \in (0 .. la) \X (0 .. lb) PROVE (la - p[1]) + (lb - p[2]) \in Nat
    <2>1. p[1] \in 0 .. la /\ p[2] \in 0 .. lb
      OBVIOUS
    <2> QED  BY <2>1
  <1> QED  BY <1>1 DEF Left

LEMMA LeftGoesDown ==
  ASSUME NEW la \in Nat, NEW lb \in Nat, NEW i \in 0 .. la, NEW j \in 0 .. lb
  PROVE  /\ i # la => /\ <<i + 1, j>> \in (0 .. la) \X (0 .. lb)
                      /\ Left(la, lb)[<<i + 1, j>>] < Left(la, lb)[<<i, j>>]
         /\ j # lb => /\ <<i, j + 1>> \in (0 .. la) \X (0 .. lb)
                      /\ Left(la, lb)[<<i, j + 1>>] < Left(la, lb)[<<i, j>>]
         /\ i # la /\ j # lb =>
              /\ <<i + 1, j + 1>> \in (0 .. la) \X (0 .. lb)
              /\ Left(la, lb)[<<i + 1, j + 1>>] < Left(la, lb)[<<i, j>>]
  <1>2. ASSUME NEW k \in 0 .. la, NEW l \in 0 .. lb
        PROVE  /\ <<k, l>> \in (0 .. la) \X (0 .. lb)
               /\ Left(la, lb)[<<k, l>>] = (la - k) + (lb - l)
    BY DEF Left
  <1>3. i # la => i + 1 \in 0 .. la /\ (la - (i + 1)) + (lb - j) < (la - i) + (lb - j)
    OBVIOUS
  <1>4. j # lb => j + 1 \in 0 .. lb /\ (la - i) + (lb - (j + 1)) < (la - i) + (lb - j)
    OBVIOUS
  <1>5. i # la /\ j # lb => (la - (i + 1)) + (lb - (j + 1)) < (la - i) + (lb - j)
    OBVIOUS
  <1>6. i # la => /\ <<i + 1, j>> \in (0 .. la) \X (0 .. lb)
                  /\ Left(la, lb)[<<i + 1, j>>] < Left(la, lb)[<<i, j>>]
    BY <1>2, <1>3
  <1>7. j # lb => /\ <<i, j + 1>> \in (0 .. la) \X (0 .. lb)
                  /\ Left(la, lb)[<<i, j + 1>>] < Left(la, lb)[<<i, j>>]
    BY <1>2, <1>4
  <1>8. i # la /\ j # lb =>
          /\ <<i + 1, j + 1>> \in (0 .. la) \X (0 .. lb)
          /\ Left(la, lb)[<<i + 1, j + 1>>] < Left(la, lb)[<<i, j>>]
    BY <1>2, <1>3, <1>4, <1>5
  <1> QED  BY <1>6, <1>7, <1>8

\* An induction over the places of two sequences, from their ends.
LEMMA LeftInduction ==
  ASSUME NEW la \in Nat, NEW lb \in Nat, NEW T,
         \A i \in 0 .. la, j \in 0 .. lb :
           /\ i # la => <<i + 1, j>> \in T
           /\ j # lb => <<i, j + 1>> \in T
           /\ i # la /\ j # lb => <<i + 1, j + 1>> \in T
           => <<i, j>> \in T
  PROVE  \A i \in 0 .. la, j \in 0 .. lb : <<i, j>> \in T
  <1> DEFINE P == (0 .. la) \X (0 .. lb)
             m == Left(la, lb)
  <1>1. m \in [P -> Nat]
    BY LeftIs
  <1>2. ASSUME NEW p \in P, \A q \in P : m[q] < m[p] => q \in T PROVE p \in T
    <2>1. PICK i \in 0 .. la, j \in 0 .. lb : p = <<i, j>>
      OBVIOUS
    <2>2. /\ i # la => <<i + 1, j>> \in P /\ m[<<i + 1, j>>] < m[<<i, j>>]
          /\ j # lb => <<i, j + 1>> \in P /\ m[<<i, j + 1>>] < m[<<i, j>>]
          /\ i # la /\ j # lb =>
               <<i + 1, j + 1>> \in P /\ m[<<i + 1, j + 1>>] < m[<<i, j>>]
      BY LeftGoesDown
    <2> HIDE DEF P, m
    <2>3. /\ i # la => <<i + 1, j>> \in T
          /\ j # lb => <<i, j + 1>> \in T
          /\ i # la /\ j # lb => <<i + 1, j + 1>> \in T
      BY <1>2, <2>1, <2>2
    <2> QED  BY <2>1, <2>3
  <1> HIDE DEF P, m
  <1>3. \A p \in P : p \in T
    <2>1. Inductive(P, m, T)
      BY <1>1, <1>2 DEF Inductive
    <2> QED  BY ONLY <2>1, MeasureInduction
  <1> QED  BY <1>3 DEF P

\* lcs is the table of old and new
Table(lcs, old, new) ==
  \A i \in 0 .. Len(old), j \in 0 .. Len(new) :
    lcs[<<i, j>>] =
      IF i = Len(old) \/ j = Len(new) THEN 0
      ELSE IF old[i + 1] = new[j + 1] THEN lcs[<<i + 1, j + 1>>] + 1
      ELSE Max({lcs[<<i + 1, j>>], lcs[<<i, j + 1>>]})

LEMMA LcsIs ==
  ASSUME NEW D, NEW old \in Seq(D), NEW new \in Seq(D)
  PROVE  /\ Lcs(old, new) \in [Places(old, new) -> Nat]
         /\ Table(Lcs(old, new), old, new)
  <1> PICK la \in Nat : la = Len(old)
    OBVIOUS
  <1> PICK lb \in Nat : lb = Len(new)
    OBVIOUS
  <1> DEFINE A == (0 .. la) \X (0 .. lb)
             V == Nat
             At(g, i, j) ==
               IF i = la \/ j = lb THEN 0
               ELSE IF old[i + 1] = new[j + 1] THEN g[<<i + 1, j + 1>>] + 1
               ELSE Max({g[<<i + 1, j>>], g[<<i, j + 1>>]})
             Eq(g, p) == At(g, p[1], p[2])
             m == Left(la, lb)
             step == [x \in [A -> V] \X A |-> Eq(x[1], x[2])]
             F(g) == [p \in A |-> Eq(g, p)]
             lcs == CHOOSE g : g = F(g)
  <1>1. Lcs(old, new) = lcs
    BY DEF Lcs, Places
  <1>2. ASSUME NEW g \in [A -> V], NEW p \in A PROVE Eq(g, p) \in V
    <2>1. PICK i \in 0 .. la, j \in 0 .. lb : p = <<i, j>>
      OBVIOUS
    <2>2. Eq(g, p) = At(g, i, j)
      BY <2>1
    <2>3. CASE i = la \/ j = lb
      BY <2>2, <2>3
    <2>4. CASE i # la /\ j # lb
      <3>1. <<i + 1, j>> \in A /\ <<i, j + 1>> \in A /\ <<i + 1, j + 1>> \in A
        BY <2>4, LeftGoesDown
      <3>2. PICK x \in Nat, y \in Nat, z \in Nat :
              x = g[<<i + 1, j>>] /\ y = g[<<i, j + 1>>] /\ z = g[<<i + 1, j + 1>>]
        BY <3>1
      <3>3. z + 1 \in Nat
        OBVIOUS
      <3>4. Max({x, y}) \in Nat
        <4>1. x \in Int /\ y \in Int
          OBVIOUS
        <4>2. Max({x, y}) = IF x >= y THEN x ELSE y
          BY ONLY <4>1, MaxOfTwo
        <4> QED  BY <4>2
      <3> QED  BY <2>2, <2>4, <3>2, <3>3, <3>4
    <2> QED  BY <2>3, <2>4
  <1>3. ASSUME NEW g, NEW h, NEW p \in A, \A q \in A : m[q] < m[p] => g[q] = h[q]
        PROVE  Eq(g, p) = Eq(h, p)
    <2>1. PICK i \in 0 .. la, j \in 0 .. lb : p = <<i, j>>
      OBVIOUS
    <2>2. Eq(g, p) = At(g, i, j) /\ Eq(h, p) = At(h, i, j)
      BY <2>1
    <2>3. CASE i = la \/ j = lb
      BY <2>2, <2>3
    <2>4. CASE i # la /\ j # lb
      <3>1. /\ <<i + 1, j>> \in A /\ m[<<i + 1, j>>] < m[p]
            /\ <<i, j + 1>> \in A /\ m[<<i, j + 1>>] < m[p]
            /\ <<i + 1, j + 1>> \in A /\ m[<<i + 1, j + 1>>] < m[p]
        BY <2>1, <2>4, LeftGoesDown
      <3> HIDE DEF A, m
      <3>2. /\ g[<<i + 1, j>>] = h[<<i + 1, j>>]
            /\ g[<<i, j + 1>>] = h[<<i, j + 1>>]
            /\ g[<<i + 1, j + 1>>] = h[<<i + 1, j + 1>>]
        BY <1>3, <3>1
      <3> QED  BY <2>2, <3>2
    <2> QED  BY <2>3, <2>4
  <1>4. V # {} /\ m \in [A -> Nat]
    BY LeftIs
  <1>5. ASSUME NEW g, NEW i \in 0 .. la, NEW j \in 0 .. lb
        PROVE  <<i, j>> \in A /\ Eq(g, <<i, j>>) = At(g, i, j)
    OBVIOUS
  <1>6. A = Places(old, new)
    BY DEF Places
  <1> HIDE DEF A, V, m, Eq
  <1>7. PICK f \in [A -> V] : \A p \in A : f[p] = Eq(f, p)
    <2>1. step \in [[A -> V] \X A -> V]
      BY <1>2
    <2>2. \A g \in [A -> V], p \in A : step[<<g, p>>] = Eq(g, p)
      OBVIOUS
    <2> HIDE DEF step
    <2>3. ASSUME NEW g \in [A -> V], NEW h \in [A -> V], NEW p \in A,
                 \A q \in A : m[q] < m[p] => g[q] = h[q]
          PROVE  step[<<g, p>>] = step[<<h, p>>]
      <3>1. Eq(g, p) = Eq(h, p)
        BY <1>3, <2>3
      <3> QED  BY <2>2, <3>1
    <2>4. Recursive(A, V, m, step)
      BY <1>4, <2>1, <2>3 DEF Recursive
    <2>5. PICK f \in [A -> V] : \A p \in A : f[p] = step[<<f, p>>]
      BY ONLY <2>4, RecursiveFunction
    <2> QED  BY <2>2, <2>5
  <1>8. f = F(f)
    BY <1>7
  <1>9. \A g : g = F(g) => g = [p \in A |-> g[p]]
    OBVIOUS
  <1> HIDE DEF F
  <1>10. lcs = F(lcs)
    BY <1>8
  <1> DEFINE T == {p \in A : lcs[p] = f[p]}
  <1> HIDE DEF lcs
  <1>11. ASSUME NEW p \in A, \A q \in A : m[q] < m[p] => q \in T PROVE p \in T
    <2>1. Eq(lcs, p) = Eq(f, p)
      BY <1>3, <1>11
    <2> QED  BY <1>7, <1>10, <2>1 DEF F
  <1> HIDE DEF T
  <1>12. \A p \in A : lcs[p] = f[p]
    <2>1. Inductive(A, m, T)
      BY <1>4, <1>11 DEF Inductive
    <2>2. \A p \in A : p \in T
      BY ONLY <2>1, MeasureInduction
    <2> QED  BY <2>2 DEF T
  <1>13. lcs = f
    <2>1. lcs = [p \in A |-> lcs[p]]
      BY <1>9, <1>10
    <2>2. f = [p \in A |-> f[p]]
      OBVIOUS
    <2> QED  BY <1>12, <2>1, <2>2
  <1>14. Table(f, old, new)
    <2>1. ASSUME NEW i \in 0 .. la, NEW j \in 0 .. lb
          PROVE  f[<<i, j>>] = At(f, i, j)
      <3> HIDE DEF At
      <3>1. <<i, j>> \in A
        BY <1>5
      <3>2. Eq(f, <<i, j>>) = At(f, i, j)
        BY <1>5
      <3> QED  BY <1>7, <3>1, <3>2
    <2> QED  BY <2>1 DEF Table
  <1> QED  BY <1>1, <1>6, <1>13, <1>14 DEF V

\* p and q are n places in old after i and in new after j, one after the other,
\* with the same lines
Matches(old, new, i, j, n, p, q) ==
  /\ \A k \in 1 .. n : /\ p[k] \in i + 1 .. Len(old) /\ q[k] \in j + 1 .. Len(new)
                       /\ old[p[k]] = new[q[k]]
  /\ \A k, l \in 1 .. n : k < l => p[k] < p[l] /\ q[k] < q[l]

Common(old, new, i, j, n) ==
  \E p, q \in [1 .. n -> Nat] : Matches(old, new, i, j, n, p, q)

LEMMA CommonFromStart ==
  ASSUME NEW D, NEW old \in Seq(D), NEW new \in Seq(D), NEW n \in Nat
  PROVE  IsCommon(old, new, n) <=> Common(old, new, 0, 0, n)
  <1> PICK la \in Nat : la = Len(old)
    OBVIOUS
  <1> PICK lb \in Nat : lb = Len(new)
    OBVIOUS
  <1>1. ASSUME NEW p \in Picked(old, n), NEW q \in Picked(new, n),
               \A k \in 1 .. n : old[p[k]] = new[q[k]]
        PROVE  Common(old, new, 0, 0, n)
    <2>1. /\ p \in [1 .. n -> 1 .. la] /\ q \in [1 .. n -> 1 .. lb]
          /\ \A k, l \in 1 .. n : k < l => p[k] < p[l] /\ q[k] < q[l]
      BY DEF Picked
    <2>2. p \in [1 .. n -> Nat] /\ q \in [1 .. n -> Nat]
      BY <2>1
    <2>3. Matches(old, new, 0, 0, n, p, q)
      BY <1>1, <2>1 DEF Matches
    <2> QED  BY <2>2, <2>3 DEF Common
  <1>2. ASSUME NEW p \in [1 .. n -> Nat], NEW q \in [1 .. n -> Nat],
               Matches(old, new, 0, 0, n, p, q)
        PROVE  IsCommon(old, new, n)
    <2>1. /\ \A k \in 1 .. n : p[k] \in 1 .. la /\ q[k] \in 1 .. lb /\ old[p[k]] = new[q[k]]
          /\ \A k, l \in 1 .. n : k < l => p[k] < p[l] /\ q[k] < q[l]
      BY <1>2 DEF Matches
    <2>2. p \in Picked(old, n) /\ q \in Picked(new, n)
      BY <2>1 DEF Picked
    <2> QED  BY <2>1, <2>2 DEF IsCommon
  <1> QED  BY <1>1, <1>2 DEF Common, IsCommon

LEMMA CommonNone ==
  ASSUME NEW old, NEW new, NEW i, NEW j
  PROVE  Common(old, new, i, j, 0)
  <1> DEFINE p == [k \in 1 .. 0 |-> 0]
  <1>1. p \in [1 .. 0 -> Nat]
    OBVIOUS
  <1>2. Matches(old, new, i, j, 0, p, p)
    BY DEF Matches
  <1> QED  BY <1>1, <1>2 DEF Common

LEMMA CommonEarlier ==
  ASSUME NEW D, NEW old \in Seq(D), NEW new \in Seq(D), NEW n \in Nat,
         NEW i \in Nat, NEW j \in Nat, NEW e \in Nat, NEW f \in Nat, e <= i, f <= j,
         Common(old, new, i, j, n)
  PROVE  Common(old, new, e, f, n)
  <1> PICK la \in Nat : la = Len(old)
    OBVIOUS
  <1> PICK lb \in Nat : lb = Len(new)
    OBVIOUS
  <1>1. PICK p \in [1 .. n -> Nat], q \in [1 .. n -> Nat] : Matches(old, new, i, j, n, p, q)
    BY DEF Common
  <1>2. ASSUME NEW k \in 1 .. n PROVE p[k] \in e + 1 .. la /\ q[k] \in f + 1 .. lb
    <2>1. p[k] \in i + 1 .. la /\ q[k] \in j + 1 .. lb
      BY <1>1 DEF Matches
    <2>2. p[k] \in e + 1 .. la
      BY ONLY <2>1, i \in Nat, e \in Nat, e <= i, la \in Nat
    <2>3. q[k] \in f + 1 .. lb
      BY ONLY <2>1, j \in Nat, f \in Nat, f <= j, lb \in Nat
    <2> QED  BY ONLY <2>2, <2>3
  <1>3. Matches(old, new, e, f, n, p, q)
    BY <1>1, <1>2 DEF Matches
  <1> QED  BY <1>3 DEF Common

\* Places behind the next one are behind this one.
LEMMA Narrower ==
  ASSUME NEW i \in Nat, NEW m \in Nat, NEW x, x \in i + 2 .. m
  PROVE  x \in i + 1 .. m /\ i + 1 < x
  OBVIOUS

\* The same line at both places is one more.
LEMMA CommonPrepend ==
  ASSUME NEW D, NEW old \in Seq(D), NEW new \in Seq(D), NEW n \in Nat,
         NEW i \in Nat, NEW j \in Nat, i < Len(old), j < Len(new),
         old[i + 1] = new[j + 1], Common(old, new, i + 1, j + 1, n)
  PROVE  Common(old, new, i, j, n + 1)
  <1> PICK la \in Nat : la = Len(old)
    OBVIOUS
  <1> PICK lb \in Nat : lb = Len(new)
    OBVIOUS
  <1>1. PICK p \in [1 .. n -> Nat], q \in [1 .. n -> Nat] :
          Matches(old, new, i + 1, j + 1, n, p, q)
    BY DEF Common
  <1>2. /\ \A k \in 1 .. n : /\ p[k] \in i + 2 .. la /\ q[k] \in j + 2 .. lb
                             /\ old[p[k]] = new[q[k]]
        /\ \A k, l \in 1 .. n : k < l => p[k] < p[l] /\ q[k] < q[l]
    <2>1. i + 1 + 1 = i + 2 /\ j + 1 + 1 = j + 2
      OBVIOUS
    <2> QED  BY <1>1, <2>1 DEF Matches
  <1> DEFINE u == [k \in 1 .. n + 1 |-> IF k = 1 THEN i + 1 ELSE p[k - 1]]
             v == [k \in 1 .. n + 1 |-> IF k = 1 THEN j + 1 ELSE q[k - 1]]
  <1>3. ASSUME NEW k \in 1 .. n + 1
        PROVE  \/ k = 1 /\ u[k] = i + 1 /\ v[k] = j + 1
               \/ k - 1 \in 1 .. n /\ u[k] = p[k - 1] /\ v[k] = q[k - 1]
    BY ONLY k \in 1 .. n + 1, n \in Nat
  <1>4. u \in [1 .. n + 1 -> Nat] /\ v \in [1 .. n + 1 -> Nat]
    <2>1. \A k \in 1 .. n + 1 : k = 1 \/ k - 1 \in 1 .. n
      BY ONLY n \in Nat
    <2> QED  BY ONLY <2>1, p \in [1 .. n -> Nat], q \in [1 .. n -> Nat], i \in Nat, j \in Nat
  <1> HIDE DEF u, v
  <1>5. ASSUME NEW k \in 1 .. n + 1
        PROVE  u[k] \in i + 1 .. la /\ v[k] \in j + 1 .. lb /\ old[u[k]] = new[v[k]]
    <2>1. CASE k = 1 /\ u[k] = i + 1 /\ v[k] = j + 1
      BY <2>1
    <2>2. CASE k - 1 \in 1 .. n /\ u[k] = p[k - 1] /\ v[k] = q[k - 1]
      <3>1. p[k - 1] \in i + 2 .. la /\ q[k - 1] \in j + 2 .. lb /\ old[p[k - 1]] = new[q[k - 1]]
        BY ONLY <1>2, <2>2
      <3>2. p[k - 1] \in i + 1 .. la
        BY ONLY <3>1, Narrower, i \in Nat, la \in Nat
      <3>3. q[k - 1] \in j + 1 .. lb
        BY ONLY <3>1, Narrower, j \in Nat, lb \in Nat
      <3> QED  BY ONLY <2>2, <3>1, <3>2, <3>3
    <2> QED  BY <1>3, <2>1, <2>2
  <1>6. ASSUME NEW k \in 1 .. n + 1, NEW l \in 1 .. n + 1, k < l
        PROVE  u[k] < u[l] /\ v[k] < v[l]
    <2>1. l - 1 \in 1 .. n /\ u[l] = p[l - 1] /\ v[l] = q[l - 1]
      <3>1. l # 1
        BY <1>6
      <3> QED  BY <1>3, <3>1
    <2>2. p[l - 1] \in i + 2 .. la /\ q[l - 1] \in j + 2 .. lb
      BY <1>2, <2>1
    <2>3. CASE k = 1 /\ u[k] = i + 1 /\ v[k] = j + 1
      <3>1. i + 1 < p[l - 1]
        BY ONLY <2>2, Narrower, i \in Nat, la \in Nat
      <3>2. j + 1 < q[l - 1]
        BY ONLY <2>2, Narrower, j \in Nat, lb \in Nat
      <3> QED  BY ONLY <2>1, <2>3, <3>1, <3>2
    <2>4. CASE k - 1 \in 1 .. n /\ u[k] = p[k - 1] /\ v[k] = q[k - 1]
      <3>1. k - 1 < l - 1
        BY <1>6
      <3>2. p[k - 1] < p[l - 1] /\ q[k - 1] < q[l - 1]
        BY <1>2, <2>1, <2>4, <3>1
      <3> QED  BY <2>1, <2>4, <3>2
    <2> QED  BY <1>3, <2>3, <2>4
  <1>7. Matches(old, new, i, j, n + 1, u, v)
    BY <1>5, <1>6 DEF Matches
  <1> QED  BY <1>4, <1>7 DEF Common

\* Without the first of them, the others are after both places.
LEMMA CommonTail ==
  ASSUME NEW D, NEW old \in Seq(D), NEW new \in Seq(D), NEW n \in Nat, n # 0,
         NEW i \in Nat, NEW j \in Nat, Common(old, new, i, j, n)
  PROVE  /\ i < Len(old) /\ j < Len(new)
         /\ Common(old, new, i + 1, j + 1, n - 1)
  <1> PICK la \in Nat : la = Len(old)
    OBVIOUS
  <1> PICK lb \in Nat : lb = Len(new)
    OBVIOUS
  <1>1. PICK p \in [1 .. n -> Nat], q \in [1 .. n -> Nat] :
          /\ \A k \in 1 .. n : /\ p[k] \in i + 1 .. la /\ q[k] \in j + 1 .. lb
                               /\ old[p[k]] = new[q[k]]
          /\ \A k, l \in 1 .. n : k < l => p[k] < p[l] /\ q[k] < q[l]
    BY DEF Common, Matches
  <1>2. 1 \in 1 .. n
    OBVIOUS
  <1>3. p[1] \in i + 1 .. la /\ q[1] \in j + 1 .. lb
    BY <1>1, <1>2
  <1> DEFINE u == [k \in 1 .. n - 1 |-> p[k + 1]]
             v == [k \in 1 .. n - 1 |-> q[k + 1]]
  <1>4. \A k \in 1 .. n - 1 : k + 1 \in 1 .. n /\ 1 < k + 1 /\ u[k] = p[k + 1] /\ v[k] = q[k + 1]
    OBVIOUS
  <1>5. u \in [1 .. n - 1 -> Nat] /\ v \in [1 .. n - 1 -> Nat]
    BY <1>4
  <1> HIDE DEF u, v
  <1>6. ASSUME NEW k \in 1 .. n - 1
        PROVE  u[k] \in i + 2 .. la /\ v[k] \in j + 2 .. lb /\ old[u[k]] = new[v[k]]
    <2>1. /\ p[k + 1] \in i + 1 .. la /\ q[k + 1] \in j + 1 .. lb
          /\ old[p[k + 1]] = new[q[k + 1]]
          /\ p[1] < p[k + 1] /\ q[1] < q[k + 1]
      BY <1>1, <1>2, <1>4
    <2>2. p[k + 1] \in i + 2 .. la /\ q[k + 1] \in j + 2 .. lb
      <3>1. PICK x \in Nat, y \in Nat, z \in Nat, w \in Nat :
              x = p[1] /\ y = p[k + 1] /\ z = q[1] /\ w = q[k + 1]
        BY <1>2, <1>4
      <3>2. x \in i + 1 .. la /\ y \in i + 1 .. la /\ x < y
        BY <1>3, <2>1, <3>1
      <3>3. z \in j + 1 .. lb /\ w \in j + 1 .. lb /\ z < w
        BY <1>3, <2>1, <3>1
      <3>4. y \in i + 2 .. la /\ w \in j + 2 .. lb
        BY <3>2, <3>3
      <3> QED  BY <3>1, <3>4
    <2> QED  BY <1>4, <2>1, <2>2
  <1>7. ASSUME NEW k \in 1 .. n - 1, NEW l \in 1 .. n - 1, k < l
        PROVE  u[k] < u[l] /\ v[k] < v[l]
    <2>1. k + 1 < l + 1
      BY <1>7
    <2> QED  BY <1>1, <1>4, <2>1
  <1>8. i + 1 + 1 = i + 2 /\ j + 1 + 1 = j + 2
    OBVIOUS
  <1>9. Matches(old, new, i + 1, j + 1, n - 1, u, v)
    BY <1>6, <1>7, <1>8 DEF Matches
  <1>10. i < la /\ j < lb
    BY <1>3
  <1> QED  BY <1>5, <1>9, <1>10 DEF Common

\* One of two lines that differ is left out.
LEMMA CommonSkip ==
  ASSUME NEW D, NEW old \in Seq(D), NEW new \in Seq(D), NEW n \in Nat, n # 0,
         NEW i \in Nat, NEW j \in Nat, Common(old, new, i, j, n), old[i + 1] # new[j + 1]
  PROVE  Common(old, new, i + 1, j, n) \/ Common(old, new, i, j + 1, n)
  <1> PICK la \in Nat : la = Len(old)
    OBVIOUS
  <1> PICK lb \in Nat : lb = Len(new)
    OBVIOUS
  <1>1. PICK p \in [1 .. n -> Nat], q \in [1 .. n -> Nat] :
          /\ \A k \in 1 .. n : /\ p[k] \in i + 1 .. la /\ q[k] \in j + 1 .. lb
                               /\ old[p[k]] = new[q[k]]
          /\ \A k, l \in 1 .. n : k < l => p[k] < p[l] /\ q[k] < q[l]
    BY DEF Common, Matches
  <1>2. 1 \in 1 .. n /\ \A k \in 1 .. n : k = 1 \/ 1 < k
    OBVIOUS
  <1>3. p[1] \in i + 1 .. la /\ q[1] \in j + 1 .. lb /\ old[p[1]] = new[q[1]]
    BY <1>1, <1>2
  <1>4. p[1] # i + 1 \/ q[1] # j + 1
    BY <1>3
  <1>5. i + 1 + 1 = i + 2 /\ j + 1 + 1 = j + 2
    OBVIOUS
  <1>6. CASE p[1] # i + 1
    <2>1. ASSUME NEW k \in 1 .. n PROVE p[k] \in i + 2 .. la
      <3>1. p[k] \in i + 1 .. la /\ (k = 1 \/ p[1] < p[k])
        BY <1>1, <1>2
      <3> QED  BY <1>3, <1>6, <3>1
    <2>2. Matches(old, new, i + 1, j, n, p, q)
      BY <1>1, <1>5, <2>1 DEF Matches
    <2> QED  BY <2>2 DEF Common
  <1>7. CASE q[1] # j + 1
    <2>1. ASSUME NEW k \in 1 .. n PROVE q[k] \in j + 2 .. lb
      <3>1. q[k] \in j + 1 .. lb /\ (k = 1 \/ q[1] < q[k])
        BY <1>1, <1>2
      <3> QED  BY <1>3, <1>7, <3>1
    <2>2. Matches(old, new, i, j + 1, n, p, q)
      BY <1>1, <1>5, <2>1 DEF Matches
    <2> QED  BY <2>2 DEF Common
  <1> QED  BY <1>4, <1>6, <1>7

\* n is the most lines old after i and new after j have in common
Longest(old, new, i, j, n) ==
  /\ Common(old, new, i, j, n)
  /\ \A k \in Nat : Common(old, new, i, j, k) => k <= n
  /\ n <= Len(old) - i

LEMMA TableEnd ==
  ASSUME NEW D, NEW old \in Seq(D), NEW new \in Seq(D),
         NEW i \in 0 .. Len(old), NEW j \in 0 .. Len(new), i = Len(old) \/ j = Len(new)
  PROVE  Longest(old, new, i, j, 0)
  <1> PICK la \in Nat : la = Len(old)
    OBVIOUS
  <1> PICK lb \in Nat : lb = Len(new)
    OBVIOUS
  <1>1. i \in Nat /\ j \in Nat
    OBVIOUS
  <1>2. ASSUME NEW k \in Nat, Common(old, new, i, j, k) PROVE k <= 0
    <2>1. CASE k # 0
      <3>1. i < Len(old) /\ j < Len(new)
        BY <1>1, <1>2, <2>1, CommonTail
      <3> QED  BY <3>1
    <2> QED  BY <2>1
  <1>3. 0 <= Len(old) - i
    OBVIOUS
  <1> QED  BY <1>2, <1>3, CommonNone DEF Longest

LEMMA TableKeeps ==
  ASSUME NEW D, NEW old \in Seq(D), NEW new \in Seq(D),
         NEW i \in 0 .. Len(old), NEW j \in 0 .. Len(new), i # Len(old), j # Len(new),
         old[i + 1] = new[j + 1], NEW n \in Nat, Longest(old, new, i + 1, j + 1, n)
  PROVE  Longest(old, new, i, j, n + 1)
  <1> PICK la \in Nat : la = Len(old)
    OBVIOUS
  <1> PICK lb \in Nat : lb = Len(new)
    OBVIOUS
  <1>1. i \in Nat /\ j \in Nat /\ i < Len(old) /\ j < Len(new)
    OBVIOUS
  <1>2. Common(old, new, i + 1, j + 1, n) /\ n <= la - (i + 1)
        /\ \A k \in Nat : Common(old, new, i + 1, j + 1, k) => k <= n
    BY DEF Longest
  <1>3. Common(old, new, i, j, n + 1)
    BY <1>1, <1>2, CommonPrepend
  <1>4. ASSUME NEW k \in Nat, Common(old, new, i, j, k) PROVE k <= n + 1
    <2>1. CASE k # 0
      <3>1. Common(old, new, i + 1, j + 1, k - 1)
        BY <1>1, <1>4, <2>1, CommonTail
      <3>2. k - 1 \in Nat
        BY <2>1
      <3>3. k - 1 <= n
        BY <1>2, <3>1, <3>2
      <3> QED  BY <3>3
    <2> QED  BY <2>1
  <1>5. n + 1 <= la - i
    BY <1>2
  <1> QED  BY <1>3, <1>4, <1>5 DEF Longest

LEMMA TableSkips ==
  ASSUME NEW D, NEW old \in Seq(D), NEW new \in Seq(D),
         NEW i \in 0 .. Len(old), NEW j \in 0 .. Len(new), i # Len(old), j # Len(new),
         old[i + 1] # new[j + 1], NEW x \in Nat, NEW y \in Nat,
         Longest(old, new, i + 1, j, x), Longest(old, new, i, j + 1, y)
  PROVE  Longest(old, new, i, j, Max({x, y}))
  <1> PICK la \in Nat : la = Len(old)
    OBVIOUS
  <1> PICK lb \in Nat : lb = Len(new)
    OBVIOUS
  <1>1. /\ i \in Nat /\ j \in Nat /\ i < Len(old) /\ j < Len(new)
        /\ i + 1 \in Nat /\ j + 1 \in Nat /\ i <= i + 1 /\ j <= j + 1 /\ i <= i /\ j <= j
    OBVIOUS
  <1>2. /\ Common(old, new, i + 1, j, x) /\ x <= la - (i + 1)
        /\ \A k \in Nat : Common(old, new, i + 1, j, k) => k <= x
        /\ Common(old, new, i, j + 1, y) /\ y <= la - i
        /\ \A k \in Nat : Common(old, new, i, j + 1, k) => k <= y
    BY DEF Longest
  <1>3. PICK n \in Nat : n = Max({x, y}) /\ n \in {x, y} /\ x <= n /\ y <= n
    <2>1. x \in Int /\ y \in Int
      OBVIOUS
    <2>2. Max({x, y}) = IF x >= y THEN x ELSE y
      BY ONLY <2>1, MaxOfTwo
    <2>3. CASE x >= y
      BY <2>2, <2>3
    <2>4. CASE ~ x >= y
      BY <2>2, <2>4
    <2> QED  BY <2>3, <2>4
  <1>4. Common(old, new, i, j, x)
    BY <1>1, <1>2, CommonEarlier
  <1>5. Common(old, new, i, j, y)
    BY <1>1, <1>2, CommonEarlier
  <1>6. ASSUME NEW k \in Nat, Common(old, new, i, j, k) PROVE k <= n
    <2>1. CASE k # 0
      <3>1. Common(old, new, i + 1, j, k) \/ Common(old, new, i, j + 1, k)
        BY <1>1, <1>6, <2>1, CommonSkip
      <3>2. k <= x \/ k <= y
        BY <1>2, <3>1
      <3> QED  BY <1>3, <3>2
    <2> QED  BY <2>1
  <1>7. n <= la - i
    BY <1>2, <1>3
  <1> QED  BY <1>3, <1>4, <1>5, <1>6, <1>7 DEF Longest

\* The table holds the lengths of longest common subsequences.
LEMMA TableIs ==
  ASSUME NEW D, NEW old \in Seq(D), NEW new \in Seq(D),
         NEW lcs \in [Places(old, new) -> Nat], Table(lcs, old, new)
  PROVE  \A i \in 0 .. Len(old), j \in 0 .. Len(new) : Longest(old, new, i, j, lcs[<<i, j>>])
  <1> PICK la \in Nat : la = Len(old)
    OBVIOUS
  <1> PICK lb \in Nat : lb = Len(new)
    OBVIOUS
  <1> DEFINE T == {p \in Places(old, new) : Longest(old, new, p[1], p[2], lcs[p])}
  <1>1. \A i \in 0 .. la, j \in 0 .. lb :
          /\ <<i, j>> \in Places(old, new)
          /\ <<i, j>> \in T <=> Longest(old, new, i, j, lcs[<<i, j>>])
    BY DEF Places
  <1> HIDE DEF T
  <1>2. ASSUME NEW i \in 0 .. la, NEW j \in 0 .. lb,
               i # la => <<i + 1, j>> \in T,
               j # lb => <<i, j + 1>> \in T,
               i # la /\ j # lb => <<i + 1, j + 1>> \in T
        PROVE  <<i, j>> \in T
    <2>1. i \in 0 .. Len(old) /\ j \in 0 .. Len(new)
      OBVIOUS
    <2>2. CASE i = la \/ j = lb
      <3>1. lcs[<<i, j>>] = 0
        BY <2>2 DEF Table
      <3>2. Longest(old, new, i, j, 0)
        BY <2>1, <2>2, TableEnd
      <3> QED  BY <1>1, <3>1, <3>2
    <2>3. CASE i # la /\ j # lb
      <3>1. i + 1 \in 0 .. la /\ j + 1 \in 0 .. lb
        BY <2>3
      <3>2. PICK x \in Nat, y \in Nat, z \in Nat :
              x = lcs[<<i + 1, j>>] /\ y = lcs[<<i, j + 1>>] /\ z = lcs[<<i + 1, j + 1>>]
        BY <1>1, <3>1
      <3>3. /\ Longest(old, new, i + 1, j, x) /\ Longest(old, new, i, j + 1, y)
            /\ Longest(old, new, i + 1, j + 1, z)
        BY <1>1, <1>2, <2>3, <3>1, <3>2
      <3>4. lcs[<<i, j>>] = IF old[i + 1] = new[j + 1] THEN z + 1 ELSE Max({x, y})
        BY <2>3, <3>2 DEF Table
      <3>5. CASE old[i + 1] = new[j + 1]
        <4>1. Longest(old, new, i, j, z + 1)
          BY <2>1, <2>3, <3>3, <3>5, TableKeeps
        <4> QED  BY <1>1, <3>4, <3>5, <4>1
      <3>6. CASE old[i + 1] # new[j + 1]
        <4>1. Longest(old, new, i, j, Max({x, y}))
          BY <2>1, <2>3, <3>3, <3>6, TableSkips
        <4> QED  BY <1>1, <3>4, <3>6, <4>1
      <3> QED  BY <3>5, <3>6
    <2> QED  BY <2>2, <2>3
  <1>3. \A i \in 0 .. la, j \in 0 .. lb : <<i, j>> \in T
    <2>1. \A i \in 0 .. la, j \in 0 .. lb :
            /\ i # la => <<i + 1, j>> \in T
            /\ j # lb => <<i, j + 1>> \in T
            /\ i # la /\ j # lb => <<i + 1, j + 1>> \in T
            => <<i, j>> \in T
      BY <1>2
    <2> QED  BY ONLY <2>1, la \in Nat, lb \in Nat, LeftInduction
  <1> QED  BY <1>1, <1>3

\* The first entry of the table is the length IsDiff asks for.
LEMMA LongestCommonIs ==
  ASSUME NEW D, NEW old \in Seq(D), NEW new \in Seq(D)
  PROVE  LongestCommon(old, new) = Lcs(old, new)[<<0, 0>>]
  <1> PICK la \in Nat : la = Len(old)
    OBVIOUS
  <1> PICK lb \in Nat : lb = Len(new)
    OBVIOUS
  <1>1. PICK lcs \in [Places(old, new) -> Nat] : lcs = Lcs(old, new) /\ Table(lcs, old, new)
    BY LcsIs
  <1>2. 0 \in 0 .. la /\ 0 \in 0 .. lb /\ <<0, 0>> \in Places(old, new)
    BY DEF Places
  <1>3. PICK n \in Nat : n = lcs[<<0, 0>>]
    BY <1>2
  <1>4. Longest(old, new, 0, 0, n)
    BY <1>1, <1>2, <1>3, TableIs
  <1> DEFINE C == {k \in 0 .. Len(old) : IsCommon(old, new, k)}
  <1>5. n \in C
    <2>1. n \in 0 .. la
      BY <1>4 DEF Longest
    <2>2. IsCommon(old, new, n)
      BY <1>4, CommonFromStart DEF Longest
    <2> QED  BY <2>1, <2>2
  <1>6. \A k \in C : k \in Nat /\ n >= k
    <2> TAKE k \in C
    <2>1. k \in Nat /\ IsCommon(old, new, k)
      OBVIOUS
    <2>2. Common(old, new, 0, 0, k)
      BY <2>1, CommonFromStart
    <2>3. k <= n
      BY <1>4, <2>1, <2>2 DEF Longest
    <2> QED  BY <2>1, <2>3
  <1>7. LongestCommon(old, new) = CHOOSE x \in C : \A y \in C : x >= y
    BY DEF LongestCommon, Max
  <1> HIDE DEF C
  <1>8. ASSUME NEW x \in C, \A y \in C : x >= y PROVE x = n
    <2>1. x \in Nat /\ n >= x /\ x >= n
      BY <1>5, <1>6, <1>8
    <2> QED  BY <2>1
  <1>9. LongestCommon(old, new) = n
    BY <1>5, <1>6, <1>7, <1>8
  <1> QED  BY <1>1, <1>3, <1>9

\* rws is the walk through the table: rws[<<i, j>>] are the rows from there on
Walk(rws, lcs, old, new) ==
  \A i \in 0 .. Len(old), j \in 0 .. Len(new) :
    rws[<<i, j>>] =
      IF i = Len(old) /\ j = Len(new) THEN <<>>
      ELSE IF i < Len(old) /\ j < Len(new) /\ old[i + 1] = new[j + 1]
        THEN Cons(Row(" ", old[i + 1]), rws[<<i + 1, j + 1>>])
      ELSE IF i < Len(old) /\ (j < Len(new) =>
                old[i + 1] # new[j + 1] /\ lcs[<<i + 1, j>>] >= lcs[<<i, j + 1>>])
        THEN Cons(Row("-", old[i + 1]), rws[<<i + 1, j>>])
      ELSE Cons(Row("+", new[j + 1]), rws[<<i, j + 1>>])

LEMMA RowIs ==
  ASSUME NEW D, NEW kind \in {" ", "-", "+"}, NEW line \in D
  PROVE  /\ Row(kind, line) \in RowsOf(D)
         /\ Row(kind, line).kind = kind /\ Row(kind, line).line = line
  BY DEF Row, RowsOf

LEMMA WalkIs ==
  ASSUME NEW D, NEW old \in Seq(D), NEW new \in Seq(D)
  PROVE  \E rws \in [Places(old, new) -> Seq(RowsOf(D))] :
           /\ DiffLines(old, new) = rws[<<0, 0>>]
           /\ Walk(rws, Lcs(old, new), old, new)
  <1> PICK la \in Nat : la = Len(old)
    OBVIOUS
  <1> PICK lb \in Nat : lb = Len(new)
    OBVIOUS
  <1> PICK lcs : lcs = Lcs(old, new)
    OBVIOUS
  <1> DEFINE A == (0 .. la) \X (0 .. lb)
             V == Seq(RowsOf(D))
             Same(i, j) == i < la /\ j < lb /\ old[i + 1] = new[j + 1]
             Lost(i, j) == i < la /\ (j < lb =>
                              old[i + 1] # new[j + 1] /\ lcs[<<i + 1, j>>] >= lcs[<<i, j + 1>>])
             At(g, i, j) ==
               CASE i = la /\ j = lb -> <<>>
                 [] Same(i, j) -> <<Row(" ", old[i + 1])>> \o g[<<i + 1, j + 1>>]
                 [] Lost(i, j) -> <<Row("-", old[i + 1])>> \o g[<<i + 1, j>>]
                 [] OTHER -> <<Row("+", new[j + 1])>> \o g[<<i, j + 1>>]
             Eq(g, p) == At(g, p[1], p[2])
             m == Left(la, lb)
             step == [x \in [A -> V] \X A |-> Eq(x[1], x[2])]
             F(g) == [p \in A |-> Eq(g, p)]
             rws == CHOOSE g : g = F(g)
  <1>1. DiffLines(old, new) = rws[<<0, 0>>]
    BY DEF DiffLines, Places
  <1>2. ASSUME NEW g, NEW i \in 0 .. la, NEW j \in 0 .. lb
        PROVE  At(g, i, j) =
                 IF i = la /\ j = lb THEN <<>>
                 ELSE IF Same(i, j) THEN Cons(Row(" ", old[i + 1]), g[<<i + 1, j + 1>>])
                 ELSE IF Lost(i, j) THEN Cons(Row("-", old[i + 1]), g[<<i + 1, j>>])
                 ELSE Cons(Row("+", new[j + 1]), g[<<i, j + 1>>])
    <2>1. ~ (i = la /\ j = lb /\ Same(i, j)) /\ ~ (i = la /\ j = lb /\ Lost(i, j))
          /\ ~ (Same(i, j) /\ Lost(i, j))
      OBVIOUS
    <2> HIDE DEF Same, Lost
    <2> QED  BY <2>1 DEF Cons
  <1>3. ASSUME NEW i \in 0 .. la, NEW j \in 0 .. lb, ~ (i = la /\ j = lb)
        PROVE  /\ Same(i, j) => i # la /\ j # lb
               /\ Lost(i, j) => i # la
               /\ ~ Same(i, j) /\ ~ Lost(i, j) => j # lb
               /\ i # la => old[i + 1] \in D
               /\ j # lb => new[j + 1] \in D
    BY <1>3
  <1>4. ASSUME NEW i \in 0 .. la, NEW j \in 0 .. lb
        PROVE  /\ i # la => <<i + 1, j>> \in A /\ m[<<i + 1, j>>] < m[<<i, j>>]
               /\ j # lb => <<i, j + 1>> \in A /\ m[<<i, j + 1>>] < m[<<i, j>>]
               /\ i # la /\ j # lb =>
                    <<i + 1, j + 1>> \in A /\ m[<<i + 1, j + 1>>] < m[<<i, j>>]
    BY LeftGoesDown
  <1>5. ASSUME NEW g, NEW i \in 0 .. la, NEW j \in 0 .. lb
        PROVE  <<i, j>> \in A /\ Eq(g, <<i, j>>) = At(g, i, j)
    OBVIOUS
  <1>6. ASSUME NEW p \in A PROVE \E i \in 0 .. la, j \in 0 .. lb : p = <<i, j>>
    OBVIOUS
  <1>7. A = Places(old, new) /\ <<0, 0>> \in A
    BY DEF Places
  <1>8. m \in [A -> Nat]
    BY LeftIs
  <1>9. Walk(rws, lcs, old, new) <=>
          \A i \in 0 .. la, j \in 0 .. lb :
            rws[<<i, j>>] =
              IF i = la /\ j = lb THEN <<>>
              ELSE IF Same(i, j) THEN Cons(Row(" ", old[i + 1]), rws[<<i + 1, j + 1>>])
              ELSE IF Lost(i, j) THEN Cons(Row("-", old[i + 1]), rws[<<i + 1, j>>])
              ELSE Cons(Row("+", new[j + 1]), rws[<<i, j + 1>>])
    BY DEF Walk
  <1> HIDE DEF A, m, Eq, At, Same, Lost
  <1>10. ASSUME NEW g \in [A -> V], NEW p \in A PROVE Eq(g, p) \in V
    <2>1. PICK i \in 0 .. la, j \in 0 .. lb : p = <<i, j>>
      BY <1>6
    <2>2. /\ Eq(g, p) = At(g, i, j)
          /\ At(g, i, j) =
               IF i = la /\ j = lb THEN <<>>
               ELSE IF Same(i, j) THEN Cons(Row(" ", old[i + 1]), g[<<i + 1, j + 1>>])
               ELSE IF Lost(i, j) THEN Cons(Row("-", old[i + 1]), g[<<i + 1, j>>])
               ELSE Cons(Row("+", new[j + 1]), g[<<i, j + 1>>])
      BY <1>2, <1>5, <2>1
    <2>3. PICK R : R = RowsOf(D)
      OBVIOUS
    <2>4. ASSUME NEW row \in R, NEW q \in A PROVE Cons(row, g[q]) \in Seq(R)
      <3>1. g[q] \in Seq(R)
        BY <2>3
      <3> QED  BY ONLY row \in R, <3>1, ConsIs
    <2>5. /\ i # la => Row(" ", old[i + 1]) \in R /\ Row("-", old[i + 1]) \in R
          /\ j # lb => Row("+", new[j + 1]) \in R
      <3>1. i # la => old[i + 1] \in D
        OBVIOUS
      <3>2. j # lb => new[j + 1] \in D
        OBVIOUS
      <3> QED  BY <2>3, <3>1, <3>2, RowIs
    <2>6. CASE i = la /\ j = lb
      <3>1. <<>> \in V
        OBVIOUS
      <3> QED  BY <2>2, <2>6, <3>1
    <2>7. CASE ~ (i = la /\ j = lb)
      <3>1. /\ Same(i, j) => Cons(Row(" ", old[i + 1]), g[<<i + 1, j + 1>>]) \in Seq(R)
            /\ Lost(i, j) => Cons(Row("-", old[i + 1]), g[<<i + 1, j>>]) \in Seq(R)
            /\ ~ Same(i, j) /\ ~ Lost(i, j) =>
                 Cons(Row("+", new[j + 1]), g[<<i, j + 1>>]) \in Seq(R)
        BY <1>3, <1>4, <2>4, <2>5, <2>7
      <3> QED  BY <2>2, <2>3, <2>7, <3>1
    <2> QED  BY <2>6, <2>7
  <1>11. ASSUME NEW g, NEW h, NEW p \in A, \A q \in A : m[q] < m[p] => g[q] = h[q]
         PROVE  Eq(g, p) = Eq(h, p)
    <2>1. PICK i \in 0 .. la, j \in 0 .. lb : p = <<i, j>>
      BY <1>6
    <2>2. Eq(g, p) = At(g, i, j) /\ Eq(h, p) = At(h, i, j)
      BY <1>5, <2>1
    <2>3. /\ i # la => g[<<i + 1, j>>] = h[<<i + 1, j>>]
          /\ j # lb => g[<<i, j + 1>>] = h[<<i, j + 1>>]
          /\ i # la /\ j # lb => g[<<i + 1, j + 1>>] = h[<<i + 1, j + 1>>]
      BY <1>4, <1>11, <2>1
    <2>4. At(g, i, j) = At(h, i, j)
      <3>1. At(g, i, j) =
              IF i = la /\ j = lb THEN <<>>
              ELSE IF Same(i, j) THEN Cons(Row(" ", old[i + 1]), g[<<i + 1, j + 1>>])
              ELSE IF Lost(i, j) THEN Cons(Row("-", old[i + 1]), g[<<i + 1, j>>])
              ELSE Cons(Row("+", new[j + 1]), g[<<i, j + 1>>])
        BY <1>2
      <3>2. At(h, i, j) =
              IF i = la /\ j = lb THEN <<>>
              ELSE IF Same(i, j) THEN Cons(Row(" ", old[i + 1]), h[<<i + 1, j + 1>>])
              ELSE IF Lost(i, j) THEN Cons(Row("-", old[i + 1]), h[<<i + 1, j>>])
              ELSE Cons(Row("+", new[j + 1]), h[<<i, j + 1>>])
        BY <1>2
      <3>3. ~ (i = la /\ j = lb) =>
              /\ Same(i, j) => i # la /\ j # lb
              /\ Lost(i, j) => i # la
              /\ ~ Same(i, j) /\ ~ Lost(i, j) => j # lb
        BY <1>3
      <3>4. CASE i = la /\ j = lb
        BY ONLY <3>1, <3>2, <3>4
      <3>5. CASE ~ (i = la /\ j = lb) /\ Same(i, j)
        <4>1. g[<<i + 1, j + 1>>] = h[<<i + 1, j + 1>>]
          BY ONLY <2>3, <3>3, <3>5
        <4> QED  BY ONLY <3>1, <3>2, <3>5, <4>1
      <3>6. CASE ~ (i = la /\ j = lb) /\ ~ Same(i, j) /\ Lost(i, j)
        <4>1. g[<<i + 1, j>>] = h[<<i + 1, j>>]
          BY ONLY <2>3, <3>3, <3>6
        <4> QED  BY ONLY <3>1, <3>2, <3>6, <4>1
      <3>7. CASE ~ (i = la /\ j = lb) /\ ~ Same(i, j) /\ ~ Lost(i, j)
        <4>1. g[<<i, j + 1>>] = h[<<i, j + 1>>]
          BY ONLY <2>3, <3>3, <3>7
        <4> QED  BY ONLY <3>1, <3>2, <3>7, <4>1
      <3> QED  BY ONLY <3>4, <3>5, <3>6, <3>7
    <2> QED  BY <2>2, <2>4
  <1>12. V # {}
    <2>1. <<>> \in V
      OBVIOUS
    <2> QED  BY <2>1
  <1> HIDE DEF V
  <1>13. PICK f \in [A -> V] : \A p \in A : f[p] = Eq(f, p)
    <2>1. step \in [[A -> V] \X A -> V]
      BY <1>10
    <2>2. \A g \in [A -> V], p \in A : step[<<g, p>>] = Eq(g, p)
      OBVIOUS
    <2> HIDE DEF step
    <2>3. ASSUME NEW g \in [A -> V], NEW h \in [A -> V], NEW p \in A,
                 \A q \in A : m[q] < m[p] => g[q] = h[q]
          PROVE  step[<<g, p>>] = step[<<h, p>>]
      <3>1. Eq(g, p) = Eq(h, p)
        BY <1>11, <2>3
      <3> QED  BY <2>2, <3>1
    <2>4. Recursive(A, V, m, step)
      BY <1>8, <1>12, <2>1, <2>3 DEF Recursive
    <2>5. PICK f \in [A -> V] : \A p \in A : f[p] = step[<<f, p>>]
      BY ONLY <2>4, RecursiveFunction
    <2> QED  BY <2>2, <2>5
  <1>14. f = F(f)
    BY <1>13
  <1>15. \A g : g = F(g) => g = [p \in A |-> g[p]]
    OBVIOUS
  <1> HIDE DEF F
  <1>16. rws = F(rws)
    BY <1>14
  <1> DEFINE T == {p \in A : rws[p] = f[p]}
  <1> HIDE DEF rws
  <1>17. ASSUME NEW p \in A, \A q \in A : m[q] < m[p] => q \in T PROVE p \in T
    <2>1. Eq(rws, p) = Eq(f, p)
      BY <1>11, <1>17
    <2> QED  BY <1>13, <1>16, <2>1 DEF F
  <1> HIDE DEF T
  <1>18. \A p \in A : rws[p] = f[p]
    <2>1. Inductive(A, m, T)
      BY <1>8, <1>17 DEF Inductive
    <2>2. \A p \in A : p \in T
      BY ONLY <2>1, MeasureInduction
    <2> QED  BY <2>2 DEF T
  <1>19. rws \in [A -> V]
    <2>1. rws = [p \in A |-> rws[p]]
      BY <1>15, <1>16
    <2>2. f = [p \in A |-> f[p]]
      OBVIOUS
    <2> QED  BY <1>18, <2>1, <2>2
  <1>20. Walk(rws, lcs, old, new)
    <2>1. ASSUME NEW i \in 0 .. la, NEW j \in 0 .. lb
          PROVE  rws[<<i, j>>] = At(rws, i, j)
      <3>1. <<i, j>> \in A /\ Eq(rws, <<i, j>>) = At(rws, i, j)
        BY <1>5
      <3> QED  BY <1>16, <3>1 DEF F
    <2>2. ASSUME NEW i \in 0 .. la, NEW j \in 0 .. lb
          PROVE  rws[<<i, j>>] =
                   IF i = la /\ j = lb THEN <<>>
                   ELSE IF Same(i, j) THEN Cons(Row(" ", old[i + 1]), rws[<<i + 1, j + 1>>])
                   ELSE IF Lost(i, j) THEN Cons(Row("-", old[i + 1]), rws[<<i + 1, j>>])
                   ELSE Cons(Row("+", new[j + 1]), rws[<<i, j + 1>>])
      <3>1. At(rws, i, j) =
              IF i = la /\ j = lb THEN <<>>
              ELSE IF Same(i, j) THEN Cons(Row(" ", old[i + 1]), rws[<<i + 1, j + 1>>])
              ELSE IF Lost(i, j) THEN Cons(Row("-", old[i + 1]), rws[<<i + 1, j>>])
              ELSE Cons(Row("+", new[j + 1]), rws[<<i, j + 1>>])
        BY <1>2
      <3>2. rws[<<i, j>>] = At(rws, i, j)
        BY <2>1
      <3> QED  BY ONLY <3>1, <3>2
    <2> QED  BY ONLY <1>9, <2>2
  <1> QED  BY <1>1, <1>7, <1>19, <1>20 DEF V

\* what is left of a sequence after i
Rest(seq, i) == SubSeq(seq, i + 1, Len(seq))

LEMMA RestIs ==
  ASSUME NEW D, NEW seq \in Seq(D), NEW i \in 0 .. Len(seq)
  PROVE  /\ Rest(seq, i) \in Seq(D)
         /\ Rest(seq, 0) = seq
         /\ i = Len(seq) => Rest(seq, i) = <<>>
         /\ i # Len(seq) => Rest(seq, i) = Cons(seq[i + 1], Rest(seq, i + 1))
  <1> PICK n \in Nat : n = Len(seq)
    OBVIOUS
  <1>1. Rest(seq, i) \in Seq(D)
    <2>1. i + 1 \in 1 .. Len(seq) + 1 /\ Len(seq) \in i + 1 - 1 .. Len(seq)
      OBVIOUS
    <2> QED  BY <2>1, SubSeqInside DEF Rest
  <1>2. Rest(seq, 0) = seq
    <2>1. 0 + 1 = 1
      OBVIOUS
    <2> QED  BY <2>1, SubSeqFull DEF Rest
  <1>3. CASE i = Len(seq)
    <2>1. i + 1 \in Int /\ Len(seq) \in Int /\ Len(seq) < i + 1
      BY <1>3
    <2> QED  BY <1>1, <1>2, <1>3, <2>1, SubSeqEmpty DEF Rest
  <1>4. CASE i # Len(seq)
    <2>1. i + 1 \in 1 .. Len(seq) /\ Len(seq) \in i + 1 .. Len(seq)
      BY <1>4
    <2>2. SubSeq(seq, i + 1, Len(seq)) = <<seq[i + 1]>> \o SubSeq(seq, i + 1 + 1, Len(seq))
      BY <2>1, SubSeqRecursiveFirst
    <2> QED  BY <1>1, <1>2, <1>4, <2>2 DEF Rest, Cons
  <1> QED  BY <1>3, <1>4

\* rws tells how to get from the rest of old to the rest of new, keeping n lines
Tells(rws, old, new, i, j, n) ==
  /\ Side(rws, {" ", "-"}) = Rest(old, i)
  /\ Side(rws, {" ", "+"}) = Rest(new, j)
  /\ Len(Side(rws, {" "})) = n

LEMMA TellsKept ==
  ASSUME NEW D, NEW old \in Seq(D), NEW new \in Seq(D),
         NEW i \in 0 .. Len(old), NEW j \in 0 .. Len(new), i # Len(old), j # Len(new),
         old[i + 1] = new[j + 1], NEW n \in Nat,
         NEW rws \in Seq(RowsOf(D)), Tells(rws, old, new, i + 1, j + 1, n)
  PROVE  Tells(Cons(Row(" ", old[i + 1]), rws), old, new, i, j, n + 1)
  <1>1. PICK line \in D : line = old[i + 1] /\ line = new[j + 1]
    OBVIOUS
  <1>2. PICK row \in RowsOf(D) : row = Row(" ", line) /\ row.kind = " " /\ row.line = line
    BY RowIs
  <1>3. ASSUME NEW kinds, " " \in kinds
        PROVE  /\ Side(rws, kinds) \in Seq(D)
               /\ Side(Cons(row, rws), kinds) = Cons(line, Side(rws, kinds))
    <2>1. /\ Side(rws, kinds) \in Seq(D)
          /\ Side(Cons(row, rws), kinds) =
               IF row.kind \in kinds THEN Cons(row.line, Side(rws, kinds)) ELSE Side(rws, kinds)
      BY SideCons
    <2> QED  BY <1>2, <1>3, <2>1
  <1>4. Side(Cons(row, rws), {" ", "-"}) = Rest(old, i)
    <2>1. Side(Cons(row, rws), {" ", "-"}) = Cons(line, Rest(old, i + 1))
      BY <1>3 DEF Tells
    <2> QED  BY <1>1, <2>1, RestIs
  <1>5. Side(Cons(row, rws), {" ", "+"}) = Rest(new, j)
    <2>1. Side(Cons(row, rws), {" ", "+"}) = Cons(line, Rest(new, j + 1))
      BY <1>3 DEF Tells
    <2> QED  BY <1>1, <2>1, RestIs
  <1>6. Len(Side(Cons(row, rws), {" "})) = n + 1
    <2>1. PICK kept \in Seq(D) : kept = Side(rws, {" "}) /\ Len(kept) = n
      BY <1>3 DEF Tells
    <2>2. Len(Cons(line, kept)) = n + 1
      BY <2>1, ConsIs
    <2> QED  BY <1>3, <2>1, <2>2
  <1> QED  BY <1>1, <1>2, <1>4, <1>5, <1>6 DEF Tells

LEMMA TellsLost ==
  ASSUME NEW D, NEW old \in Seq(D), NEW new \in Seq(D),
         NEW i \in 0 .. Len(old), NEW j \in 0 .. Len(new), i # Len(old), NEW n \in Nat,
         NEW rws \in Seq(RowsOf(D)), Tells(rws, old, new, i + 1, j, n)
  PROVE  Tells(Cons(Row("-", old[i + 1]), rws), old, new, i, j, n)
  <1>1. PICK line \in D : line = old[i + 1]
    OBVIOUS
  <1>2. PICK row \in RowsOf(D) : row = Row("-", line) /\ row.kind = "-" /\ row.line = line
    BY RowIs
  <1>3. ASSUME NEW kinds
        PROVE  Side(Cons(row, rws), kinds) = IF "-" \in kinds THEN Cons(line, Side(rws, kinds))
                                             ELSE Side(rws, kinds)
    BY <1>2, SideCons
  <1>4. Side(Cons(row, rws), {" ", "-"}) = Rest(old, i)
    <2>1. Side(Cons(row, rws), {" ", "-"}) = Cons(line, Rest(old, i + 1))
      BY <1>3 DEF Tells
    <2> QED  BY <1>1, <2>1, RestIs
  <1>5. "-" \notin {" ", "+"} /\ "-" \notin {" "}
    OBVIOUS
  <1>6. /\ Side(Cons(row, rws), {" ", "+"}) = Side(rws, {" ", "+"})
        /\ Side(Cons(row, rws), {" "}) = Side(rws, {" "})
    BY <1>3, <1>5
  <1> QED  BY <1>1, <1>2, <1>4, <1>6 DEF Tells

LEMMA TellsAdded ==
  ASSUME NEW D, NEW old \in Seq(D), NEW new \in Seq(D),
         NEW i \in 0 .. Len(old), NEW j \in 0 .. Len(new), j # Len(new), NEW n \in Nat,
         NEW rws \in Seq(RowsOf(D)), Tells(rws, old, new, i, j + 1, n)
  PROVE  Tells(Cons(Row("+", new[j + 1]), rws), old, new, i, j, n)
  <1>1. PICK line \in D : line = new[j + 1]
    OBVIOUS
  <1>2. PICK row \in RowsOf(D) : row = Row("+", line) /\ row.kind = "+" /\ row.line = line
    BY RowIs
  <1>3. ASSUME NEW kinds
        PROVE  Side(Cons(row, rws), kinds) = IF "+" \in kinds THEN Cons(line, Side(rws, kinds))
                                             ELSE Side(rws, kinds)
    BY <1>2, SideCons
  <1>4. Side(Cons(row, rws), {" ", "+"}) = Rest(new, j)
    <2>1. Side(Cons(row, rws), {" ", "+"}) = Cons(line, Rest(new, j + 1))
      BY <1>3 DEF Tells
    <2> QED  BY <1>1, <2>1, RestIs
  <1>5. "+" \notin {" ", "-"} /\ "+" \notin {" "}
    OBVIOUS
  <1>6. /\ Side(Cons(row, rws), {" ", "-"}) = Side(rws, {" ", "-"})
        /\ Side(Cons(row, rws), {" "}) = Side(rws, {" "})
    BY <1>3, <1>5
  <1> QED  BY <1>1, <1>2, <1>4, <1>6 DEF Tells

LEMMA WalkTells ==
  ASSUME NEW D, NEW old \in Seq(D), NEW new \in Seq(D),
         NEW lcs \in [Places(old, new) -> Nat], Table(lcs, old, new),
         NEW rws \in [Places(old, new) -> Seq(RowsOf(D))], Walk(rws, lcs, old, new)
  PROVE  \A i \in 0 .. Len(old), j \in 0 .. Len(new) :
           Tells(rws[<<i, j>>], old, new, i, j, lcs[<<i, j>>])
  <1> PICK la \in Nat : la = Len(old)
    OBVIOUS
  <1> PICK lb \in Nat : lb = Len(new)
    OBVIOUS
  <1> DEFINE T == {p \in Places(old, new) : Tells(rws[p], old, new, p[1], p[2], lcs[p])}
  <1>1. \A i \in 0 .. la, j \in 0 .. lb :
          /\ <<i, j>> \in Places(old, new)
          /\ <<i, j>> \in T <=> Tells(rws[<<i, j>>], old, new, i, j, lcs[<<i, j>>])
    BY DEF Places
  <1> HIDE DEF T
  <1>2. ASSUME NEW i \in 0 .. la, NEW j \in 0 .. lb,
               i # la => <<i + 1, j>> \in T,
               j # lb => <<i, j + 1>> \in T,
               i # la /\ j # lb => <<i + 1, j + 1>> \in T
        PROVE  <<i, j>> \in T
    <2>1. i \in 0 .. Len(old) /\ j \in 0 .. Len(new)
      OBVIOUS
    <2>2. PICK n \in Nat : n = lcs[<<i, j>>]
      BY <1>1
    <2>3. n = IF i = la \/ j = lb THEN 0
              ELSE IF old[i + 1] = new[j + 1] THEN lcs[<<i + 1, j + 1>>] + 1
              ELSE Max({lcs[<<i + 1, j>>], lcs[<<i, j + 1>>]})
      BY <2>2 DEF Table
    <2>4. rws[<<i, j>>] =
            IF i = la /\ j = lb THEN <<>>
            ELSE IF i < la /\ j < lb /\ old[i + 1] = new[j + 1]
              THEN Cons(Row(" ", old[i + 1]), rws[<<i + 1, j + 1>>])
            ELSE IF i < la /\ (j < lb =>
                      old[i + 1] # new[j + 1] /\ lcs[<<i + 1, j>>] >= lcs[<<i, j + 1>>])
              THEN Cons(Row("-", old[i + 1]), rws[<<i + 1, j>>])
            ELSE Cons(Row("+", new[j + 1]), rws[<<i, j + 1>>])
      BY DEF Walk
    <2>5. Tells(rws[<<i, j>>], old, new, i, j, n)
      <3>1. CASE i = la /\ j = lb
        <4>1. n = 0 /\ rws[<<i, j>>] = <<>>
          BY <2>3, <2>4, <3>1
        <4>2. Rest(old, i) = <<>> /\ Rest(new, j) = <<>>
          BY <2>1, <3>1, RestIs
        <4>3. Len(<<>>) = 0
          OBVIOUS
        <4> QED  BY ONLY <4>1, <4>2, <4>3, SideEmpty DEF Tells
      <3>2. CASE i # la /\ j # lb /\ old[i + 1] = new[j + 1]
        <4>1. i < la /\ j < lb /\ i + 1 \in 0 .. la /\ j + 1 \in 0 .. lb
          BY <3>2
        <4>2. PICK k \in Nat : k = lcs[<<i + 1, j + 1>>]
          BY <1>1, <4>1
        <4>3. PICK more \in Seq(RowsOf(D)) : more = rws[<<i + 1, j + 1>>]
          BY <1>1, <4>1
        <4>4. Tells(more, old, new, i + 1, j + 1, k)
          BY <1>1, <1>2, <3>2, <4>1, <4>2, <4>3
        <4>5. n = k + 1 /\ rws[<<i, j>>] = Cons(Row(" ", old[i + 1]), more)
          BY <2>3, <2>4, <3>2, <4>1, <4>2, <4>3
        <4> QED  BY <2>1, <3>2, <4>4, <4>5, TellsKept
      <3>3. CASE i # la /\ (j # lb => old[i + 1] # new[j + 1]
                                      /\ lcs[<<i + 1, j>>] >= lcs[<<i, j + 1>>])
        <4>1. i < la /\ i + 1 \in 0 .. la /\ (j # lb <=> j < lb) /\ (j # lb => j + 1 \in 0 .. lb)
          BY <3>3
        <4>2. PICK k \in Nat : k = lcs[<<i + 1, j>>]
          BY <1>1, <4>1
        <4>3. PICK more \in Seq(RowsOf(D)) : more = rws[<<i + 1, j>>]
          BY <1>1, <4>1
        <4>4. Tells(more, old, new, i + 1, j, k)
          BY <1>1, <1>2, <3>3, <4>1, <4>2, <4>3
        <4>5. rws[<<i, j>>] = Cons(Row("-", old[i + 1]), more)
          BY <2>4, <3>3, <4>1, <4>3
        <4>6. n = k
          <5>1. CASE j = lb
            <6>1. k = IF i + 1 = la \/ j = lb THEN 0
                      ELSE IF old[i + 1 + 1] = new[j + 1] THEN lcs[<<i + 1 + 1, j + 1>>] + 1
                      ELSE Max({lcs[<<i + 1 + 1, j>>], lcs[<<i + 1, j + 1>>]})
              BY <4>1, <4>2 DEF Table
            <6> QED  BY <2>3, <5>1, <6>1
          <5>2. CASE j # lb
            <6>1. PICK y \in Nat : y = lcs[<<i, j + 1>>] /\ k >= y
              BY <1>1, <3>3, <4>1, <4>2, <5>2
            <6>2. k \in Int /\ y \in Int
              OBVIOUS
            <6>3. Max({k, y}) = IF k >= y THEN k ELSE y
              BY ONLY <6>2, MaxOfTwo
            <6>4. n = Max({k, y})
              BY <2>3, <3>3, <4>2, <5>2, <6>1
            <6> QED  BY <6>1, <6>3, <6>4
          <5> QED  BY <5>1, <5>2
        <4> QED  BY <2>1, <3>3, <4>4, <4>5, <4>6, TellsLost
      <3>4. CASE j # lb /\ (i # la => old[i + 1] # new[j + 1]
                                      /\ ~ lcs[<<i + 1, j>>] >= lcs[<<i, j + 1>>])
        <4>1. j < lb /\ j + 1 \in 0 .. lb /\ (i # la <=> i < la) /\ (i # la => i + 1 \in 0 .. la)
          BY <3>4
        <4>2. PICK k \in Nat : k = lcs[<<i, j + 1>>]
          BY <1>1, <4>1
        <4>3. PICK more \in Seq(RowsOf(D)) : more = rws[<<i, j + 1>>]
          BY <1>1, <4>1
        <4>4. Tells(more, old, new, i, j + 1, k)
          BY <1>1, <1>2, <3>4, <4>1, <4>2, <4>3
        <4>5. rws[<<i, j>>] = Cons(Row("+", new[j + 1]), more)
          BY <2>4, <3>4, <4>1, <4>3
        <4>6. n = k
          <5>1. CASE i = la
            <6>1. k = IF i = la \/ j + 1 = lb THEN 0
                      ELSE IF old[i + 1] = new[j + 1 + 1] THEN lcs[<<i + 1, j + 1 + 1>>] + 1
                      ELSE Max({lcs[<<i + 1, j + 1>>], lcs[<<i, j + 1 + 1>>]})
              BY <4>1, <4>2 DEF Table
            <6> QED  BY <2>3, <5>1, <6>1
          <5>2. CASE i # la
            <6>1. PICK x \in Nat : x = lcs[<<i + 1, j>>] /\ ~ x >= k
              BY <1>1, <3>4, <4>1, <4>2, <5>2
            <6>2. k \in Int /\ x \in Int
              OBVIOUS
            <6>3. Max({x, k}) = IF x >= k THEN x ELSE k
              BY ONLY <6>2, MaxOfTwo
            <6>4. n = Max({x, k})
              BY <2>3, <3>4, <4>2, <5>2, <6>1
            <6> QED  BY <6>1, <6>3, <6>4
          <5> QED  BY <5>1, <5>2
        <4> QED  BY <2>1, <3>4, <4>4, <4>5, <4>6, TellsAdded
      <3> QED  BY <3>1, <3>2, <3>3, <3>4
    <2> QED  BY <1>1, <2>2, <2>5
  <1>3. \A i \in 0 .. la, j \in 0 .. lb : <<i, j>> \in T
    <2>1. \A i \in 0 .. la, j \in 0 .. lb :
            /\ i # la => <<i + 1, j>> \in T
            /\ j # lb => <<i, j + 1>> \in T
            /\ i # la /\ j # lb => <<i + 1, j + 1>> \in T
            => <<i, j>> \in T
      BY <1>2
    <2> QED  BY ONLY <2>1, la \in Nat, lb \in Nat, LeftInduction
  <1> QED  BY <1>1, <1>3

\* diff_lines is a diff of any two texts, and a shortest one: the sides of its
\* rows are the two texts, and the lines it keeps are as many as two
\* subsequences of the texts can have in common (diff_lines).
THEOREM DiffIsShortest ==
  ASSUME NEW D, NEW old \in Seq(D), NEW new \in Seq(D)
  PROVE  IsDiff(DiffLines(old, new), old, new)
  <1>1. PICK lcs \in [Places(old, new) -> Nat] : lcs = Lcs(old, new) /\ Table(lcs, old, new)
    BY LcsIs
  <1>2. PICK rws \in [Places(old, new) -> Seq(RowsOf(D))] :
          DiffLines(old, new) = rws[<<0, 0>>] /\ Walk(rws, lcs, old, new)
    BY <1>1, WalkIs
  <1>3. 0 \in 0 .. Len(old) /\ 0 \in 0 .. Len(new)
    OBVIOUS
  <1>4. Tells(rws[<<0, 0>>], old, new, 0, 0, lcs[<<0, 0>>])
    BY <1>1, <1>2, <1>3, WalkTells
  <1>5. Rest(old, 0) = old /\ Rest(new, 0) = new
    BY <1>3, RestIs
  <1>6. LongestCommon(old, new) = lcs[<<0, 0>>]
    BY <1>1, LongestCommonIs
  <1> QED  BY <1>2, <1>4, <1>5, <1>6 DEF IsDiff, Tells

-----------------------------------------------------------------------------
(* The texts of an entry in the window. *)

LEMMA SymbolsAre == NL \in Symbol /\ Nul \in Symbol /\ <<>> \in AnyText /\ IsLine(<<>>)
  <1>1. <<>> \in Seq(Symbol) /\ Symbols(<<>>) = {}
    BY DEF Symbols
  <1> QED  BY <1>1, EntryScreensAssumption DEF Symbol, AnyText, IsLine

LEMMA TextParsed ==
  ASSUME NEW text \in AnyText
  PROVE  /\ IsEntry(Parse(text))
         /\ Parse(text).lines \in Seq(AnyText)
         /\ \A k \in 1 .. Len(Parse(text).lines) : IsLine(Parse(text).lines[k])
         /\ Parse(text).final_newline \in BOOLEAN
         /\ Parse(text) = [lines |-> Parse(text).lines,
                           final_newline |-> Parse(text).final_newline]
  <1>1. PICK S : S = Symbol
    OBVIOUS
  <1>2. text \in Seq(S) /\ Seq(S) = AnyText
    BY <1>1 DEF AnyText
  <1>3. /\ IsEntry(Parse(text)) /\ Parse(text).lines \in Seq(Seq(S))
        /\ Parse(text) = [lines |-> Parse(text).lines,
                          final_newline |-> Parse(text).final_newline]
    BY ONLY <1>2, ParseIsEntry
  <1>4. Parse(text).lines \in Seq(AnyText)
    BY ONLY <1>2, <1>3
  <1> QED  BY <1>3, <1>4 DEF IsEntry

LEMMA LinesWritten ==
  ASSUME NEW lines \in Seq(AnyText), NEW fin \in BOOLEAN
  PROVE  Assemble(lines, fin) \in AnyText
  <1>1. PICK S : S = Symbol
    OBVIOUS
  <1>2. NL \in S /\ Seq(S) = AnyText /\ lines \in Seq(Seq(S))
    BY <1>1, SymbolsAre DEF AnyText
  <1>3. <<>> \in Seq(S)
    OBVIOUS
  <1>4. Assemble(lines, fin) \in Seq(S)
    BY ONLY <1>2, <1>3, fin \in BOOLEAN, AssembleLine
  <1> QED  BY <1>2, <1>4

\* The fields of the editor are the lines of the entry.
LEMMA FieldsOf ==
  ASSUME NEW T, <<>> \in T, NEW entry, entry.lines \in Seq(T)
  PROVE  /\ Password(entry) \in T
         /\ SubSeq(entry.lines, 2, Len(entry.lines)) \in Seq(T)
         /\ entry.lines = <<>> =>
              Password(entry) = <<>> /\ SubSeq(entry.lines, 2, Len(entry.lines)) = <<>>
         /\ entry.lines # <<>> =>
              /\ Cons(Password(entry), SubSeq(entry.lines, 2, Len(entry.lines))) = entry.lines
              /\ Password(entry) = entry.lines[1]
         /\ \A k \in 1 .. Len(SubSeq(entry.lines, 2, Len(entry.lines))) :
              /\ k + 1 \in 1 .. Len(entry.lines)
              /\ SubSeq(entry.lines, 2, Len(entry.lines))[k] = entry.lines[k + 1]
  <1>1. PICK lines \in Seq(T) : lines = entry.lines
    OBVIOUS
  <1>2. PICK rest \in Seq(T) :
          /\ rest = SubSeq(lines, 2, Len(lines))
          /\ Len(rest) = IF lines = <<>> THEN 0 ELSE Len(lines) - 1
          /\ \A k \in 1 .. Len(rest) : k + 1 \in 1 .. Len(lines) /\ rest[k] = lines[k + 1]
    <2>1. SubSeq(lines, 2, Len(lines)) \in Seq(T)
      OBVIOUS
    <2>2. Len(SubSeq(lines, 2, Len(lines))) = IF lines = <<>> THEN 0 ELSE Len(lines) - 1
      OBVIOUS
    <2>3. \A k \in 1 .. Len(SubSeq(lines, 2, Len(lines))) :
            /\ k + 1 \in 1 .. Len(lines)
            /\ SubSeq(lines, 2, Len(lines))[k] = lines[k + 1]
      BY <2>2
    <2> QED  BY <2>1, <2>2, <2>3
  <1>3. CASE lines = <<>>
    <2>1. rest = <<>> /\ Len(rest) = 0
      BY <1>2, <1>3
    <2> QED  BY <1>1, <1>2, <1>3, <2>1 DEF Password
  <1>4. CASE lines # <<>>
    <2>1. PICK x \in T : x = lines[1] /\ x = Head(lines)
      <3>1. lines[1] \in T /\ Head(lines) = lines[1]
        BY <1>4
      <3> QED  BY <3>1
    <2>2. Password(entry) = x
      BY <1>1, <1>4, <2>1 DEF Password
    <2>3. /\ Cons(x, rest) \in Seq(T) /\ Len(Cons(x, rest)) = Len(rest) + 1
          /\ Cons(x, rest)[1] = x
          /\ \A k \in 1 .. Len(rest) : Cons(x, rest)[k + 1] = rest[k]
      BY ONLY x \in T, rest \in Seq(T), ConsIs
    <2>4. PICK whole \in Seq(T) : whole = Cons(x, rest)
      BY <2>3
    <2>5. Len(whole) = Len(lines)
      BY <1>2, <1>4, <2>3, <2>4
    <2>6. ASSUME NEW i \in 1 .. Len(lines) PROVE whole[i] = lines[i]
      <3>1. CASE i = 1
        BY <2>1, <2>3, <2>4, <3>1
      <3>2. CASE i # 1
        <4>1. PICK k \in 1 .. Len(rest) : i = k + 1
          <5>1. i - 1 \in 1 .. Len(rest) /\ i = (i - 1) + 1
            BY <1>2, <1>4, <3>2
          <5> QED  BY <5>1
        <4>2. whole[k + 1] = rest[k] /\ rest[k] = lines[k + 1]
          BY <1>2, <2>3, <2>4, <4>1
        <4> QED  BY <4>1, <4>2
      <3> QED  BY <3>1, <3>2
    <2>7. whole = lines
      <3>1. Len(whole) \in Nat /\ Len(lines) = Len(whole)
        BY <2>5
      <3> QED  BY ONLY <2>6, <3>1, whole \in Seq(T), lines \in Seq(T), SeqEqual
    <2> QED  BY <1>1, <1>2, <1>4, <2>1, <2>2, <2>4, <2>7
  <1> QED  BY <1>3, <1>4

\* The fields of a text without a NUL make that text.
LEMMA FieldsMakeText ==
  ASSUME NEW text \in AnyText, Exact(text)
  PROVE  Assemble(<<Password(Parse(text))>>
                     \o SubSeq(Parse(text).lines, 2, Len(Parse(text).lines)),
                  Parse(text).final_newline) = text
  <1>1. PICK S : S = Symbol
    OBVIOUS
  <1>2. NL \in S /\ text \in Seq(S) /\ Seq(S) = AnyText
    BY <1>1, SymbolsAre DEF AnyText
  <1>3. PICK entry : entry = Parse(text)
    OBVIOUS
  <1>4. Assemble(entry.lines, entry.final_newline) = text
    BY <1>2, <1>3, AssembleOfParse DEF Exact
  <1>5. entry.lines \in Seq(Seq(S)) /\ entry.final_newline \in BOOLEAN /\ IsEntry(entry)
    BY <1>2, <1>3, TextParsed
  <1>6. PICK D : D = Seq(S)
    OBVIOUS
  <1>7. <<>> \in D /\ entry.lines \in Seq(D)
    BY <1>5, <1>6
  <1>8. PICK x, rest : x = Password(entry) /\ rest = SubSeq(entry.lines, 2, Len(entry.lines))
    OBVIOUS
  <1>9. /\ entry.lines = <<>> => x = <<>> /\ rest = <<>>
        /\ entry.lines # <<>> => Cons(x, rest) = entry.lines
    BY ONLY <1>7, <1>8, FieldsOf
  <1>10. CASE entry.lines # <<>>
    BY <1>3, <1>4, <1>8, <1>9, <1>10 DEF Cons
  <1>11. CASE entry.lines = <<>>
    <2>1. entry.final_newline = FALSE
      BY <1>5, <1>11 DEF IsEntry
    <2>2. text = <<>>
      BY <1>2, <1>4, <1>11, <2>1, AssembleEmpty
    <2>3. Assemble(Cons(<<>>, <<>>), FALSE) = Put(<<>>, <<>> # <<>>, FALSE, Assemble(<<>>, FALSE))
      <3>1. <<>> \in Seq(S) /\ <<>> \in Seq(Seq(S)) /\ FALSE \in BOOLEAN
        OBVIOUS
      <3> QED  BY ONLY <1>2, <3>1, AssembleLine
    <2>4. Assemble(<<>>, FALSE) = <<>>
      BY <1>4, <1>11, <2>1, <2>2
    <2>5. Put(<<>>, <<>> # <<>>, FALSE, <<>>) = <<>>
      BY DEF Put, EndOf
    <2> QED  BY <1>3, <1>8, <1>9, <1>11, <2>1, <2>2, <2>3, <2>4, <2>5 DEF Cons
  <1> QED  BY <1>10, <1>11

\* What is in the log, the view and the editor are texts and lines, and the view
\* is what it was made from.
TextsInv ==
  /\ log \in Seq(AnyText \cup {Gone}) /\ Len(log) \in 1 .. MaxLog
  /\ source \in AnyText \cup {Gone}
  /\ view # None => source \in AnyText /\ view = Parse(source)
  /\ codes \in SUBSET (Nat \X (0 .. MaxCounter))
  /\ editing \in BOOLEAN /\ is_new \in BOOLEAN
  /\ password \in AnyText /\ IsLine(password)
  /\ rows \in Seq(AnyText) /\ \A k \in 1 .. Len(rows) : IsLine(rows[k])
  /\ final_newline \in BOOLEAN
  /\ typed \in 0 .. MaxTyped
  /\ editing /\ ~is_new => source \in AnyText /\ (Exact(source) => edit_orig = source)

\* The list of the history dialog holds texts, and what is loaded or being
\* loaded is one of them.
RevisionsInv ==
  /\ open \in BOOLEAN
  /\ revisions \in Seq(AnyText \cup {Gone}) /\ Len(revisions) <= MaxLog
  /\ selected \in 0 .. Len(revisions)
  /\ ~open => selected = 0
  /\ job_epoch \in 0 .. MaxEpoch
  /\ jobs \in SUBSET [epoch : 1 .. MaxEpoch, idx : 1 .. Len(revisions)]
  /\ ~open => jobs = {}
  /\ sel_entry # None => \E text \in AnyText : sel_entry = Parse(text)
  /\ stack \in {"empty", "diff"}
  /\ restore_btn \in BOOLEAN

LEMMA TypesFollow == TextsInv /\ RevisionsInv => TypeOK
  <1> SUFFICES ASSUME TextsInv, RevisionsInv PROVE TypeOK
    OBVIOUS
  <1>1. view # None => IsEntry(view)
    BY TextParsed DEF TextsInv
  <1>2. sel_entry # None => IsEntry(sel_entry)
    BY TextParsed DEF RevisionsInv
  <1>3. source # Gone => view \in {None, Parse(source)}
    BY DEF TextsInv
  <1>4. \A k \in DOMAIN rows : IsLine(rows[k])
    BY DEF TextsInv
  <1>5. jobs \in SUBSET [epoch : 1 .. MaxEpoch, idx : 1 .. MaxLog]
    <2>1. Len(revisions) \in Nat /\ Len(revisions) <= MaxLog /\ MaxLog \in Nat
      BY EntryScreensAssumption DEF RevisionsInv
    <2>2. 1 .. Len(revisions) \subseteq 1 .. MaxLog
      BY <2>1
    <2> QED  BY <2>2 DEF RevisionsInv
  <1> QED  BY <1>1, <1>2, <1>3, <1>4, <1>5 DEF TypeOK, TextsInv, RevisionsInv

LEMMA InitTexts == Init => TextsInv /\ RevisionsInv
  <1> SUFFICES ASSUME Init PROVE TextsInv /\ RevisionsInv
    OBVIOUS
  <1>1. log \in Seq(AnyText \cup {Gone}) /\ Len(log) \in 1 .. MaxLog
    <2>1. PICK t \in AnyText, u \in AnyText \cup {Gone} : log \in {<<t>>, <<u, t>>, <<t, u>>}
      BY EntryScreensAssumption DEF Init
    <2>2. PICK T : T = AnyText \cup {Gone}
      OBVIOUS
    <2>3. t \in T /\ u \in T
      BY <2>2
    <2>4. PICK l : l = log
      OBVIOUS
    <2>5. l \in Seq(T) /\ Len(l) \in 1 .. 2
      <3>1. \A a, b \in T : /\ <<a>> \in Seq(T) /\ Len(<<a>>) = 1
                            /\ <<a, b>> \in Seq(T) /\ Len(<<a, b>>) = 2
        OBVIOUS
      <3>2. l \in {<<t>>, <<u, t>>, <<t, u>>}
        BY <2>1, <2>4
      <3>3. l \in Seq(T) /\ Len(l) \in {1, 2}
        BY ONLY <2>3, <3>1, <3>2, Zenon
      <3> QED  BY ONLY <3>3
    <2>6. MaxLog \in Nat /\ MaxLog >= 2
      BY EntryScreensAssumption
    <2>7. 1 .. 2 \subseteq 1 .. MaxLog
      BY ONLY <2>6
    <2>8. Len(l) \in 1 .. MaxLog
      BY ONLY <2>5, <2>7
    <2> QED  BY ONLY <2>2, <2>4, <2>5, <2>8
  <1>2. 0 \in 0 .. MaxTyped /\ 0 \in 0 .. MaxEpoch /\ MaxLog \in Nat
    BY EntryScreensAssumption
  <1>3. <<>> \in AnyText /\ IsLine(<<>>)
    BY SymbolsAre
  <1>4. \A T : <<>> \in Seq(T) /\ Len(<<>>) = 0
    OBVIOUS
  <1>5. TextsInv
    <2>1. /\ view = None /\ source = Gone /\ codes = {} /\ editing = FALSE /\ is_new = FALSE
          /\ typed = 0 /\ password = <<>> /\ rows = <<>> /\ final_newline = TRUE
      BY DEF Init
    <2>2. rows \in Seq(AnyText) /\ \A k \in 1 .. Len(rows) : IsLine(rows[k])
      BY ONLY <1>4, <2>1
    <2> QED  BY <1>1, <1>2, <1>3, <2>1, <2>2 DEF TextsInv
  <1>6. RevisionsInv
    <2>1. /\ open = FALSE /\ jobs = {} /\ revisions = <<>> /\ selected = 0 /\ job_epoch = 0
          /\ sel_entry = None /\ stack = "empty" /\ restore_btn = FALSE
      BY DEF Init
    <2>2. revisions \in Seq(AnyText \cup {Gone}) /\ Len(revisions) = 0
      BY ONLY <1>4, <2>1
    <2>3. Len(revisions) <= MaxLog /\ selected \in 0 .. Len(revisions)
      BY ONLY <1>2, <2>1, <2>2
    <2>4. jobs \in SUBSET [epoch : 1 .. MaxEpoch, idx : 1 .. Len(revisions)]
      BY <2>1
    <2> QED  BY <1>2, <2>1, <2>2, <2>3, <2>4, Zenon DEF RevisionsInv
  <1> QED  BY <1>5, <1>6

LEMMA FileIs == TextsInv => file \in AnyText \cup {Gone}
  BY DEF TextsInv, file, Last

LEMMA WriteTyped ==
  ASSUME TextsInv, NEW text \in AnyText \cup {Gone}, Write(text)
  PROVE  log' \in Seq(AnyText \cup {Gone}) /\ Len(log') \in 1 .. MaxLog
  BY EntryScreensAssumption DEF TextsInv, Write

LEMMA ContentIs == TextsInv => Content \in AnyText
  <1> SUFFICES ASSUME TextsInv PROVE Content \in AnyText
    OBVIOUS
  <1>1. password \in AnyText /\ rows \in Seq(AnyText) /\ final_newline \in BOOLEAN
    BY DEF TextsInv
  <1>2. Cons(password, rows) \in Seq(AnyText)
    BY ONLY <1>1, ConsIs
  <1>3. Assemble(Cons(password, rows), final_newline) \in AnyText
    BY ONLY <1>1, <1>2, LinesWritten
  <1> QED  BY <1>3 DEF Content, Cons

LEMMA OpenEntryTexts ==
  ASSUME TextsInv, OpenEntry PROVE TextsInv'
  <1>1. file \in AnyText \cup {Gone}
    BY FileIs
  <1>2. /\ view' # None => file # Gone /\ view' = Parse(file)
        /\ source' = file
        /\ UNCHANGED <<log, codes, editing, is_new, password, rows, final_newline, edit_orig, typed>>
        /\ ~editing
    BY DEF OpenEntry, store, editor, Browsing
  <1> QED  BY <1>1, <1>2 DEF TextsInv

LEMMA OnHotpGenerateTexts ==
  ASSUME TextsInv, NEW k \in DOMAIN view.lines, OnHotpGenerate(k)
  PROVE  TextsInv'
  <1>1. source \in AnyText /\ view = Parse(source)
    BY DEF OnHotpGenerate, TextsInv
  <1>2. PICK lines \in Seq(AnyText) : lines = view.lines
    BY <1>1, TextParsed
  <1>3. view.final_newline \in BOOLEAN
    BY <1>1, TextParsed
  <1>4. k \in 1 .. Len(lines)
    BY <1>2
  <1>5. PICK uri \in OtpUris : uri = view.lines[k][1] /\ IsHotp(uri)
    <2>1. PICK line \in Seq(Symbol) : line = lines[k]
      <3>1. lines[k] \in AnyText
        BY <1>4
      <3> QED  BY <3>1 DEF AnyText
    <2>2. Len(line) = 1 /\ line[1] \notin Plain /\ IsHotp(line[1])
      BY <1>2, <2>1 DEF OnHotpGenerate, IsUri
    <2>3. line[1] \in Symbol
      BY <2>2
    <2> QED  BY <1>2, <2>1, <2>2, <2>3 DEF Symbol
  <1>6. PICK more \in AnyText : more = <<IncrementedUri(uri)>>
    <2>1. IncrementedUri(uri) \in OtpUris
      BY <1>5, IncrementedIs
    <2>2. IncrementedUri(uri) \in Symbol
      BY <2>1 DEF Symbol
    <2>3. <<IncrementedUri(uri)>> \in AnyText
      BY <2>2 DEF AnyText
    <2> QED  BY <2>3
  <1>7. [view.lines EXCEPT ![k] = more] \in Seq(AnyText)
    BY <1>2, <1>4
  <1>8. Assemble([view.lines EXCEPT ![k] = more], view.final_newline) \in AnyText
    BY ONLY <1>3, <1>7, LinesWritten
  <1>9. Write(Assemble([view.lines EXCEPT ![k] = more], view.final_newline))
    BY <1>5, <1>6 DEF OnHotpGenerate
  <1>10. log' \in Seq(AnyText \cup {Gone}) /\ Len(log') \in 1 .. MaxLog
    BY <1>8, <1>9, WriteTyped
  <1>11. codes' \in SUBSET (Nat \X (0 .. MaxCounter))
    <2>1. NextCounter(uri) \in 0 .. MaxCounter
      BY <1>5, CounterIs
    <2>2. k \in Nat
      BY <1>4
    <2>3. codes' = (IF source = file THEN codes ELSE {}) \cup {<<k, NextCounter(uri)>>}
      BY <1>5 DEF OnHotpGenerate
    <2>4. codes \in SUBSET (Nat \X (0 .. MaxCounter))
      BY DEF TextsInv
    <2> QED  BY ONLY <2>1, <2>2, <2>3, <2>4
  <1>12. UNCHANGED <<view, source, editing, is_new, password, rows, final_newline, edit_orig, typed>>
    BY DEF OnHotpGenerate, viewing, editor
  <1> QED  BY <1>10, <1>11, <1>12 DEF TextsInv

LEMMA ActEditTexts ==
  ASSUME TextsInv, ActEdit PROVE TextsInv'
  <1>1. source \in AnyText /\ view = Parse(source)
    BY DEF ActEdit, TextsInv
  <1>2. PICK entry : entry = Parse(source)
    OBVIOUS
  <1>3. /\ entry.lines \in Seq(AnyText) /\ entry.final_newline \in BOOLEAN
        /\ \A k \in 1 .. Len(entry.lines) : IsLine(entry.lines[k])
    BY <1>1, <1>2, TextParsed
  <1>4. <<>> \in AnyText /\ IsLine(<<>>)
    BY SymbolsAre
  <1>5. PICK rest : rest = SubSeq(entry.lines, 2, Len(entry.lines))
    OBVIOUS
  <1>6. /\ Password(entry) \in AnyText
        /\ rest \in Seq(AnyText)
        /\ entry.lines = <<>> => Password(entry) = <<>>
        /\ entry.lines # <<>> => Password(entry) = entry.lines[1]
        /\ \A k \in 1 .. Len(rest) :
             k + 1 \in 1 .. Len(entry.lines) /\ rest[k] = entry.lines[k + 1]
    BY ONLY <1>3, <1>4, <1>5, FieldsOf
  <1>7. IsLine(Password(entry)) /\ \A k \in 1 .. Len(rest) : IsLine(rest[k])
    <2>1. entry.lines # <<>> => 1 \in 1 .. Len(entry.lines)
      BY <1>3
    <2> QED  BY ONLY <1>3, <1>4, <1>6, <2>1
  <1>8. /\ editing' = TRUE /\ is_new' = FALSE /\ view' = None
        /\ password' = Password(entry) /\ rows' = rest /\ final_newline' = entry.final_newline
        /\ edit_orig' = Assemble(<<password'>> \o rows', final_newline')
        /\ UNCHANGED <<log, codes, source, typed>>
    BY <1>1, <1>2, <1>5 DEF ActEdit, store, Content
  <1>9. Exact(source) => edit_orig' = source
    BY <1>1, <1>2, <1>5, <1>8, FieldsMakeText
  <1> QED  BY <1>1, <1>3, <1>6, <1>7, <1>8, <1>9 DEF TextsInv

LEMMA TypeTexts ==
  ASSUME TextsInv,
         \/ \E line \in Typed : SetPassword(line) \/ \E k \in DOMAIN rows : SetRow(k, line)
         \/ OnAddLine \/ \E k \in DOMAIN rows : OnRemoveLine(k)
  PROVE  TextsInv'
  <1>1. /\ UNCHANGED <<log, codes, view, source, editing, is_new, final_newline, edit_orig>>
        /\ typed' \in 0 .. MaxTyped
    BY EntryScreensAssumption DEF SetPassword, SetRow, OnAddLine, OnRemoveLine, Type,
         store, viewing, TextsInv
  <1>2. password' \in AnyText /\ IsLine(password')
    BY EntryScreensAssumption DEF SetPassword, SetRow, OnAddLine, OnRemoveLine, TextsInv
  <1>3. rows' \in Seq(AnyText) /\ \A k \in 1 .. Len(rows') : IsLine(rows'[k])
    <2>1. CASE \E line \in Typed : SetPassword(line) \/ \E k \in DOMAIN rows : SetRow(k, line)
      <3>1. CASE rows' = rows
        BY <3>1 DEF TextsInv
      <3>2. CASE \E line \in Typed : \E k \in DOMAIN rows : rows' = [rows EXCEPT ![k] = line]
        <4>1. PICK line \in Typed, k \in 1 .. Len(rows) : rows' = [rows EXCEPT ![k] = line]
          <5>1. rows \in Seq(AnyText)
            BY DEF TextsInv
          <5>2. DOMAIN rows = 1 .. Len(rows)
            BY ONLY <5>1
          <5> QED  BY ONLY <3>2, <5>2
        <4>2. line \in AnyText /\ IsLine(line)
          BY EntryScreensAssumption
        <4>3. rows \in Seq(AnyText) /\ \A i \in 1 .. Len(rows) : IsLine(rows[i])
          BY DEF TextsInv
        <4>4. rows' \in Seq(AnyText) /\ Len(rows') = Len(rows)
          BY <4>1, <4>2, <4>3
        <4>5. \A i \in 1 .. Len(rows) : rows'[i] = IF i = k THEN line ELSE rows[i]
          BY <4>1, <4>3
        <4> QED  BY <4>2, <4>3, <4>4, <4>5
      <3> QED  BY <2>1, <3>1, <3>2 DEF SetPassword, SetRow
    <2>2. CASE OnAddLine
      BY <2>2, SymbolsAre DEF OnAddLine, TextsInv
    <2>3. ASSUME NEW k \in DOMAIN rows, OnRemoveLine(k)
          PROVE  rows' \in Seq(AnyText) /\ \A i \in 1 .. Len(rows') : IsLine(rows'[i])
      <3>1. PICK T : T = {line \in AnyText : IsLine(line)}
        OBVIOUS
      <3>2. rows \in Seq(T)
        BY <3>1 DEF TextsInv
      <3>3. rows' = SubSeq(rows, 1, k - 1) \o SubSeq(rows, k + 1, Len(rows))
        BY <2>3 DEF OnRemoveLine, RemoveAt
      <3>4. rows' \in Seq(T)
        <4>1. SubSeq(rows, 1, k - 1) \in Seq(T) /\ SubSeq(rows, k + 1, Len(rows)) \in Seq(T)
          BY <3>2
        <4> QED  BY <3>3, <4>1
      <3>5. \A i \in 1 .. Len(rows') : rows'[i] \in T
        BY <3>4
      <3> QED  BY <3>1, <3>4, <3>5
    <2> QED  BY <2>1, <2>2, <2>3
  <1> QED  BY <1>1, <1>2, <1>3 DEF TextsInv

\* the end of an edit
LEMMA EndEditTexts ==
  ASSUME TextsInv, EndEdit, log' \in Seq(AnyText \cup {Gone}) /\ Len(log') \in 1 .. MaxLog,
         codes' \in {codes, {}}
  PROVE  TextsInv'
  <1>1. /\ editing' = FALSE /\ is_new' = FALSE /\ password' = <<>> /\ rows' = <<>>
        /\ final_newline' = TRUE /\ view' = None /\ source' = Gone /\ UNCHANGED typed
    BY DEF EndEdit
  <1>2. \A T : <<>> \in Seq(T) /\ Len(<<>>) = 0
    OBVIOUS
  <1>3. rows' \in Seq(AnyText) /\ \A k \in 1 .. Len(rows') : IsLine(rows'[k])
    BY ONLY <1>1, <1>2
  <1> QED  BY <1>1, <1>3, SymbolsAre DEF TextsInv

LEMMA NextTexts == TextsInv /\ RevisionsInv /\ [Next]_vars => TextsInv'
  <1> SUFFICES ASSUME TextsInv, RevisionsInv, [Next]_vars PROVE TextsInv'
    OBVIOUS
  <1>1. CASE OpenEntry
    BY <1>1, OpenEntryTexts
  <1>2. CASE view # None /\ \E k \in DOMAIN view.lines : OnHotpGenerate(k)
    BY <1>2, OnHotpGenerateTexts
  <1>3. CASE ActEdit
    BY <1>3, ActEditTexts
  <1>4. CASE ActNew
    BY <1>4, SymbolsAre DEF ActNew, store, viewing, TextsInv
  <1>5. CASE \/ \E line \in Typed : SetPassword(line) \/ \E k \in DOMAIN rows : SetRow(k, line)
             \/ OnAddLine \/ \E k \in DOMAIN rows : OnRemoveLine(k)
    BY <1>5, TypeTexts
  <1>6. CASE ActSave
    <2>1. CASE ~is_new /\ Content = edit_orig
      BY <1>6, <2>1, EndEditTexts DEF ActSave, store, TextsInv
    <2>2. CASE ~(~is_new /\ Content = edit_orig)
      <3>1. Write(Content) /\ codes' = {} /\ EndEdit
        BY <1>6, <2>2 DEF ActSave
      <3>2. log' \in Seq(AnyText \cup {Gone}) /\ Len(log') \in 1 .. MaxLog
        BY <3>1, ContentIs, WriteTyped
      <3> QED  BY <3>1, <3>2, EndEditTexts
    <2> QED  BY <2>1, <2>2
  <1>7. CASE ActCancel
    BY <1>7, EndEditTexts DEF ActCancel, store, TextsInv
  <1>8. CASE OnRestoreClicked
    <2>1. PICK text \in AnyText : sel_entry = Parse(text)
      BY <1>8 DEF OnRestoreClicked, RevisionsInv
    <2>2. sel_entry.lines \in Seq(AnyText) /\ sel_entry.final_newline \in BOOLEAN
      BY <2>1, TextParsed
    <2>3. Assemble(sel_entry.lines, sel_entry.final_newline) \in AnyText
      BY ONLY <2>2, LinesWritten
    <2>4. Write(Assemble(sel_entry.lines, sel_entry.final_newline)) /\ codes' = {}
      BY <1>8 DEF OnRestoreClicked
    <2>5. log' \in Seq(AnyText \cup {Gone}) /\ Len(log') \in 1 .. MaxLog
      BY <2>3, <2>4, WriteTyped
    <2>6. UNCHANGED <<view, source, editing, is_new, password, rows, final_newline, edit_orig, typed>>
      BY <1>8 DEF OnRestoreClicked, viewing, editor
    <2> QED  BY <2>4, <2>5, <2>6 DEF TextsInv
  <1>9. ASSUME NEW text \in Foreign, CliWrite(text) PROVE TextsInv'
    <2>1. text \in AnyText \cup {Gone}
      BY EntryScreensAssumption
    <2>2. log' \in Seq(AnyText \cup {Gone}) /\ Len(log') \in 1 .. MaxLog
      BY <1>9, <2>1, WriteTyped DEF CliWrite
    <2> QED  BY <1>9, <2>2 DEF CliWrite, viewing, editor, TextsInv
  <1>10. CASE \/ RevisionDone \/ ActHistory \/ CloseHistory
              \/ \E i \in DOMAIN revisions : OnCommitSelected(i)
              \/ UNCHANGED vars
    <2>1. UNCHANGED <<log, codes, view, source, editing, is_new, password, rows, final_newline,
                      edit_orig, typed>>
      BY <1>10 DEF RevisionDone, RevisionDropped, RevisionFails, RevisionShown, ActHistory,
           CloseHistory, OnCommitSelected, vars, store, viewing, editor
    <2> QED  BY <2>1 DEF TextsInv
  <1> QED  BY <1>1, <1>2, <1>3, <1>4, <1>5, <1>6, <1>7, <1>8, <1>9, <1>10 DEF Next, User

LEMMA RevisionsStay ==
  ASSUME RevisionsInv, UNCHANGED history PROVE RevisionsInv'
  <1>1. UNCHANGED <<open, revisions, selected, job_epoch, jobs, sel_entry, stack, restore_btn>>
    BY DEF history, loaded
  <1> QED  BY <1>1 DEF RevisionsInv

LEMMA CloseRevisions == ASSUME Close PROVE RevisionsInv'
  <1>1. /\ open' = FALSE /\ jobs' = {} /\ revisions' = <<>> /\ selected' = 0 /\ job_epoch' = 0
        /\ sel_entry' = None /\ stack' = "empty" /\ restore_btn' = FALSE
    BY DEF Close
  <1>2. \A T : <<>> \in Seq(T) /\ Len(<<>>) = 0
    OBVIOUS
  <1>3. revisions' \in Seq(AnyText \cup {Gone}) /\ Len(revisions') = 0
    BY ONLY <1>1, <1>2
  <1>4. MaxLog \in Nat /\ MaxEpoch \in Nat /\ MaxLog >= 2
    BY EntryScreensAssumption
  <1>5. /\ Len(revisions') <= MaxLog /\ selected' \in 0 .. Len(revisions')
        /\ job_epoch' \in 0 .. MaxEpoch
    BY ONLY <1>1, <1>3, <1>4
  <1>6. jobs' \in SUBSET [epoch : 1 .. MaxEpoch, idx : 1 .. Len(revisions')]
    BY <1>1
  <1> QED  BY <1>1, <1>3, <1>5, <1>6, Zenon DEF RevisionsInv

\* the newest revision is the first of the list
LEMMA ReverseIs ==
  ASSUME NEW T, NEW seq \in Seq(T)
  PROVE  Reverse(seq) \in Seq(T) /\ Len(Reverse(seq)) = Len(seq)
  BY DEF Reverse

LEMMA ActHistoryRevisions ==
  ASSUME TextsInv, RevisionsInv, ActHistory PROVE RevisionsInv'
  <1>1. /\ ~open /\ open' = TRUE /\ revisions' = Reverse(log)
        /\ UNCHANGED <<selected, job_epoch, jobs, sel_entry, stack, restore_btn>>
    BY DEF ActHistory, Browsing, loaded
  <1>2. PICK T : T = AnyText \cup {Gone}
    OBVIOUS
  <1>3. log \in Seq(T) /\ Len(log) \in 1 .. MaxLog
    BY <1>2 DEF TextsInv
  <1>4. revisions' \in Seq(T) /\ Len(revisions') = Len(log)
    BY ONLY <1>1, <1>3, ReverseIs
  <1>5. Len(revisions') <= MaxLog /\ selected' \in 0 .. Len(revisions')
    BY <1>1, <1>3, <1>4, EntryScreensAssumption DEF RevisionsInv
  <1>6. jobs' \in SUBSET [epoch : 1 .. MaxEpoch, idx : 1 .. Len(revisions')]
    BY <1>1 DEF RevisionsInv
  <1> QED  BY <1>1, <1>2, <1>4, <1>5, <1>6 DEF RevisionsInv

LEMMA OnCommitSelectedRevisions ==
  ASSUME RevisionsInv, NEW i \in DOMAIN revisions, OnCommitSelected(i)
  PROVE  RevisionsInv'
  <1>1. /\ open /\ open' = open /\ job_epoch < MaxEpoch
        /\ selected' = i /\ job_epoch' = job_epoch + 1 /\ restore_btn' = FALSE
        /\ jobs' = jobs \cup {[epoch |-> job_epoch + 1, idx |-> i]}
        /\ UNCHANGED <<revisions, sel_entry, stack>>
    BY DEF OnCommitSelected
  <1>2. i \in 1 .. Len(revisions)
    BY DEF RevisionsInv
  <1>3. job_epoch \in 0 .. MaxEpoch /\ MaxEpoch \in Nat
    BY EntryScreensAssumption DEF RevisionsInv
  <1>4. job_epoch + 1 \in 1 .. MaxEpoch /\ job_epoch' \in 0 .. MaxEpoch
    BY <1>1, <1>3
  <1>5. jobs' \in SUBSET [epoch : 1 .. MaxEpoch, idx : 1 .. Len(revisions')]
    BY <1>1, <1>2, <1>4 DEF RevisionsInv
  <1>6. selected' \in 0 .. Len(revisions')
    BY <1>1, <1>2
  <1> QED  BY <1>1, <1>4, <1>5, <1>6 DEF RevisionsInv

LEMMA RevisionDoneRevisions ==
  ASSUME RevisionsInv, RevisionDone PROVE RevisionsInv'
  <1>1. PICK j \in jobs :
          RevisionDropped(j) \/ RevisionFails(j) \/ \E b \in BOOLEAN : RevisionShown(j, b)
    BY DEF RevisionDone
  <1>2. /\ UNCHANGED <<open, revisions, selected, job_epoch>>
        /\ jobs' \subseteq jobs
        /\ stack' \in {stack, "empty", "diff"}
        /\ restore_btn' \in {restore_btn, TRUE}
    BY <1>1 DEF RevisionDropped, RevisionFails, RevisionShown, loaded
  <1>3. sel_entry' # None => \E text \in AnyText : sel_entry' = Parse(text)
    <2>1. CASE sel_entry' = sel_entry
      BY <2>1 DEF RevisionsInv
    <2>2. CASE sel_entry' # sel_entry
      <3>1. sel_entry' = Parse(revisions[j.idx]) /\ revisions[j.idx] # Gone
        BY <1>1, <2>2 DEF RevisionDropped, RevisionFails, RevisionShown, loaded
      <3>2. j.idx \in 1 .. Len(revisions)
        BY DEF RevisionsInv
      <3>3. revisions[j.idx] \in AnyText \cup {Gone}
        BY <3>2 DEF RevisionsInv
      <3> QED  BY <3>1, <3>3
    <2> QED  BY <2>1, <2>2
  <1> QED  BY <1>2, <1>3 DEF RevisionsInv

LEMMA NextRevisions == TextsInv /\ RevisionsInv /\ [Next]_vars => RevisionsInv'
  <1> SUFFICES ASSUME TextsInv, RevisionsInv, [Next]_vars PROVE RevisionsInv'
    OBVIOUS
  <1>1. CASE RevisionDone
    BY <1>1, RevisionDoneRevisions
  <1>2. CASE ActHistory
    BY <1>2, ActHistoryRevisions
  <1>3. CASE \E i \in DOMAIN revisions : OnCommitSelected(i)
    BY <1>3, OnCommitSelectedRevisions
  <1>4. CASE OnRestoreClicked \/ CloseHistory
    BY <1>4, CloseRevisions DEF OnRestoreClicked, CloseHistory
  <1>5. CASE \/ OpenEntry \/ ActEdit \/ ActNew \/ OnAddLine \/ ActSave \/ ActCancel
             \/ \E line \in Typed : SetPassword(line) \/ \E k \in DOMAIN rows : SetRow(k, line)
             \/ \E k \in DOMAIN rows : OnRemoveLine(k)
             \/ view # None /\ \E k \in DOMAIN view.lines : OnHotpGenerate(k)
             \/ \E text \in Foreign : CliWrite(text)
             \/ UNCHANGED vars
    <2>1. UNCHANGED history
      BY <1>5 DEF OpenEntry, ActEdit, ActNew, OnAddLine, ActSave, ActCancel, SetPassword,
                  SetRow, OnRemoveLine, Type, OnHotpGenerate, CliWrite, vars
    <2> QED  BY <2>1, RevisionsStay
  <1> QED  BY <1>1, <1>2, <1>3, <1>4, <1>5 DEF Next, User

\* The window never holds anything but entries and lines of entries, for texts of
\* any symbols and length and any number of commits, rows and selections: in
\* particular the lines the editor and the view show have no newline and no NUL
\* (passfl_entry_parse, passfl_entry_edit_begin, rebuild_groups, render_diff).
THEOREM TypeCorrect == Spec => []TypeOK
  <1> DEFINE IInv == TextsInv /\ RevisionsInv
  <1>1. Init => IInv
    BY InitTexts
  <1>2. IInv /\ [Next]_vars => IInv'
    BY NextTexts, NextRevisions
  <1>3. IInv => TypeOK
    BY TypesFollow
  <1> QED  BY <1>1, <1>2, <1>3, PTL DEF Spec

LEMMA EditorFollows == TextsInv => EditorIsExact
  <1> SUFFICES ASSUME TextsInv, editing PROVE EditorIsExact
    BY DEF EditorIsExact
  <1>1. ~is_new /\ Exact(source) => edit_orig = source
    BY DEF TextsInv
  <1>2. PICK lines : lines = <<password>> \o rows
    OBVIOUS
  <1>3. PICK fin \in BOOLEAN : fin = final_newline
    BY DEF TextsInv
  <1>4. ASSUME fin \/ Last(lines) # <<>>
        PROVE  Parse(Assemble(lines, fin)) = [lines |-> lines, final_newline |-> fin]
    <2>1. /\ password \in AnyText /\ rows \in Seq(AnyText) /\ lines = Cons(password, rows)
          /\ IsLine(password) /\ \A k \in 1 .. Len(rows) : IsLine(rows[k])
      BY <1>2 DEF TextsInv, Cons
    <2>2. /\ lines \in Seq(AnyText) /\ lines # <<>>
          /\ Len(lines) = Len(rows) + 1 /\ lines[1] = password
          /\ \A k \in 1 .. Len(rows) : lines[k + 1] = rows[k]
      <3>1. password \in AnyText /\ rows \in Seq(AnyText)
        BY <2>1
      <3>2. /\ Cons(password, rows) \in Seq(AnyText) /\ Cons(password, rows) # <<>>
            /\ Len(Cons(password, rows)) = Len(rows) + 1
            /\ Cons(password, rows)[1] = password
            /\ \A k \in 1 .. Len(rows) : Cons(password, rows)[k + 1] = rows[k]
        BY ONLY <3>1, ConsIs
      <3> QED  BY <2>1, <3>2, Zenon
    <2>3. ASSUME NEW k \in 1 .. Len(lines) PROVE IsLine(lines[k])
      <3>1. CASE k = 1
        BY <2>1, <2>2, <3>1
      <3>2. CASE k # 1
        <4>1. Len(rows) \in Nat
          BY <2>1
        <4>2. PICK i \in 1 .. Len(rows) : k = i + 1
          <5>1. k - 1 \in 1 .. Len(rows) /\ k = (k - 1) + 1
            BY <2>2, <3>2, <4>1
          <5> QED  BY <5>1
        <4> QED  BY ONLY <2>1, <2>2, <4>2
      <3> QED  BY <3>1, <3>2
    <2>4. Returnable(lines, fin)
      BY <1>4, <2>2, <2>3 DEF Returnable, Last
    <2>5. PICK S : S = Symbol
      OBVIOUS
    <2>6. NL \in S /\ lines \in Seq(Seq(S))
      BY <2>2, <2>5, SymbolsAre DEF AnyText
    <2> QED  BY ONLY <2>2, <2>4, <2>6, fin \in BOOLEAN, ParseOfAssemble
  <1> QED  BY <1>1, <1>2, <1>3, <1>4 DEF EditorIsExact, Content

\* The editor gives back the bytes it was given, and then what its fields show,
\* for texts of any length, any lines typed and any number of changes
\* (passfl_entry_edit_begin, passfl_entry_edit_content, passfl_entry_parse).
THEOREM EditorGivesBack == Spec => []EditorIsExact
  <1> DEFINE IInv == TextsInv /\ RevisionsInv
  <1>1. Init => IInv
    BY InitTexts
  <1>2. IInv /\ [Next]_vars => IInv'
    BY NextTexts, NextRevisions
  <1>3. IInv => EditorIsExact
    BY EditorFollows
  <1> QED  BY <1>1, <1>2, <1>3, PTL DEF Spec

-----------------------------------------------------------------------------
(* The history dialog. *)

\* Every job is for a revision of the list; the one of the epoch that counts is
\* for the revision selected last, and there is none once that is shown.
JobsInv ==
  /\ job_epoch \in Nat
  /\ jobs \in SUBSET [epoch : Nat, idx : DOMAIN revisions]
  /\ \A j \in jobs : j.epoch <= job_epoch /\ (j.epoch = job_epoch => j.idx = selected)
  /\ restore_btn => \A j \in jobs : j.epoch # job_epoch
  /\ ~open => jobs = {} /\ ~restore_btn

HistoryInv == JobsInv /\ RestorableIsShown

LEMMA InitHistory == Init => HistoryInv
  BY DEF Init, HistoryInv, JobsInv, RestorableIsShown

\* the definitions of the diff and of the texts are not looked into
LEMMA HistoryStays ==
  ASSUME HistoryInv, UNCHANGED history PROVE HistoryInv'
  <1>1. UNCHANGED <<open, revisions, selected, job_epoch, jobs, sel_entry, diff, stack, restore_btn>>
    BY DEF history, loaded
  <1>2. JobsInv'
    BY <1>1 DEF HistoryInv, JobsInv
  <1>3. RestorableIsShown'
    BY <1>1 DEF HistoryInv, RestorableIsShown, Lines, Before
  <1> QED  BY <1>2, <1>3 DEF HistoryInv

LEMMA CloseHistoryInv == ASSUME Close PROVE HistoryInv'
  BY DEF Close, HistoryInv, JobsInv, RestorableIsShown

LEMMA ActHistoryInv == ASSUME HistoryInv, ActHistory PROVE HistoryInv'
  <1>1. ~open /\ open' /\ UNCHANGED <<selected, job_epoch, jobs, restore_btn>>
    BY DEF ActHistory, Browsing, loaded
  <1>2. jobs = {} /\ ~restore_btn
    BY <1>1 DEF HistoryInv, JobsInv
  <1> QED  BY <1>1, <1>2 DEF HistoryInv, JobsInv, RestorableIsShown

LEMMA OnCommitSelectedInv ==
  ASSUME HistoryInv, NEW i \in DOMAIN revisions, OnCommitSelected(i)
  PROVE  HistoryInv'
  <1>1. /\ open /\ open' /\ UNCHANGED revisions
        /\ selected' = i
        /\ job_epoch' = job_epoch + 1
        /\ restore_btn' = FALSE
        /\ jobs' = jobs \cup {[epoch |-> job_epoch + 1, idx |-> i]}
    BY DEF OnCommitSelected
  <1>2. job_epoch' \in Nat /\ jobs' \in SUBSET [epoch : Nat, idx : DOMAIN revisions']
    BY <1>1 DEF HistoryInv, JobsInv
  <1>3. ASSUME NEW j \in jobs'
        PROVE  j.epoch <= job_epoch' /\ (j.epoch = job_epoch' => j.idx = selected')
    <2>1. CASE j \in jobs
      <3>1. j.epoch \in Nat /\ j.epoch <= job_epoch
        BY <2>1 DEF HistoryInv, JobsInv
      <3> QED  BY <1>1, <3>1 DEF HistoryInv, JobsInv
    <2>2. CASE j = [epoch |-> job_epoch + 1, idx |-> i]
      BY <1>1, <2>2 DEF HistoryInv, JobsInv
    <2> QED  BY <1>1, <2>1, <2>2
  <1> QED  BY <1>1, <1>2, <1>3 DEF HistoryInv, JobsInv, RestorableIsShown

\* a job that is dropped, or fails: the button is as it was, and insensitive if
\* the job was the one waited for
LEMMA RevisionLostInv ==
  ASSUME HistoryInv, NEW j \in jobs, RevisionDropped(j) \/ RevisionFails(j)
  PROVE  HistoryInv'
  <1>1. /\ UNCHANGED <<open, revisions, selected, job_epoch, sel_entry, diff, restore_btn>>
        /\ jobs' = jobs \ {j}
        /\ stack' = stack \/ (IsCurrent(j) /\ stack' = "empty")
    BY DEF RevisionDropped, RevisionFails, loaded
  <1>2. JobsInv'
    BY <1>1 DEF HistoryInv, JobsInv
  <1>3. restore_btn => stack' = stack
    BY <1>1 DEF IsCurrent, HistoryInv, JobsInv
  <1>4. RestorableIsShown'
    BY <1>1, <1>3 DEF HistoryInv, RestorableIsShown, Lines, Before
  <1> QED  BY <1>2, <1>4 DEF HistoryInv

LEMMA RevisionShownInv ==
  ASSUME HistoryInv, NEW j \in jobs, NEW b \in BOOLEAN, RevisionShown(j, b)
  PROVE  HistoryInv'
  <1>1. /\ UNCHANGED <<open, revisions, selected, job_epoch>>
        /\ open /\ j.epoch = job_epoch
        /\ jobs' = jobs \ {j}
        /\ stack' = "diff"
        /\ restore_btn' = TRUE
    BY DEF RevisionShown, IsCurrent
  <1>2. j \in [epoch : Nat, idx : DOMAIN revisions] /\ j.idx = selected
    BY <1>1 DEF HistoryInv, JobsInv
  <1>3. ASSUME NEW k \in jobs, k # j PROVE k.epoch # job_epoch
    <2>1. k \in [epoch : Nat, idx : DOMAIN revisions]
      BY DEF HistoryInv, JobsInv
    <2>2. k.epoch = job_epoch => k.idx = selected
      BY DEF HistoryInv, JobsInv
    <2>3. k = [epoch |-> k.epoch, idx |-> k.idx] /\ j = [epoch |-> j.epoch, idx |-> j.idx]
      BY <1>2, <2>1
    <2> QED  BY <1>1, <1>2, <1>3, <2>2, <2>3
  <1>4. JobsInv'
    BY <1>1, <1>3 DEF HistoryInv, JobsInv
  <1>5. /\ sel_entry' = Parse(revisions[selected])
        /\ revisions[selected] # Gone
        /\ diff' = DiffLines(IF b THEN Lines(Before(selected)) ELSE <<>>, sel_entry'.lines)
    BY <1>2 DEF RevisionShown
  <1>6. /\ (IF b THEN Lines(Before(selected)) ELSE <<>>) \in {<<>>, Lines(Before(selected))}
        /\ Lines(Before(selected))' = Lines(Before(selected))
    BY <1>1 DEF Lines, Before
  <1>7. RestorableIsShown'
    BY <1>1, <1>2, <1>5, <1>6 DEF RestorableIsShown
  <1> QED  BY <1>4, <1>7 DEF HistoryInv

LEMMA NextHistory == HistoryInv /\ [Next]_vars => HistoryInv'
  <1> SUFFICES ASSUME HistoryInv, [Next]_vars PROVE HistoryInv'
    OBVIOUS
  <1>1. CASE RevisionDone
    BY <1>1, RevisionLostInv, RevisionShownInv DEF RevisionDone
  <1>2. CASE ActHistory
    BY <1>2, ActHistoryInv
  <1>3. CASE \E i \in DOMAIN revisions : OnCommitSelected(i)
    BY <1>3, OnCommitSelectedInv
  <1>4. CASE OnRestoreClicked \/ CloseHistory
    BY <1>4, CloseHistoryInv DEF OnRestoreClicked, CloseHistory
  <1>5. CASE \/ OpenEntry \/ ActEdit \/ ActNew \/ OnAddLine \/ ActSave \/ ActCancel
             \/ \E line \in Typed : SetPassword(line) \/ \E k \in DOMAIN rows : SetRow(k, line)
             \/ \E k \in DOMAIN rows : OnRemoveLine(k)
             \/ view # None /\ \E k \in DOMAIN view.lines : OnHotpGenerate(k)
             \/ \E text \in Foreign : CliWrite(text)
             \/ UNCHANGED vars
    <2>1. UNCHANGED history
      BY <1>5 DEF OpenEntry, ActEdit, ActNew, OnAddLine, ActSave, ActCancel, SetPassword,
                  SetRow, OnRemoveLine, Type, OnHotpGenerate, CliWrite, vars
    <2> QED  BY <2>1, HistoryStays
  <1> QED  BY <1>1, <1>2, <1>3, <1>4, <1>5 DEF Next, User

\* What can be restored is what is on the screen, in whatever order the
\* revisions are loaded, for any texts, number of commits and of selections
\* (on_commit_selected, revision_done, passfl_history_dispose).
THEOREM RevisionIsShown == Spec => []RestorableIsShown
  <1>1. HistoryInv => RestorableIsShown
    BY DEF HistoryInv
  <1> QED  BY InitHistory, NextHistory, <1>1, PTL DEF Spec

WindowInv == TextsInv /\ RevisionsInv /\ HistoryInv

LEMMA InitWindow == Init => WindowInv
  BY InitTexts, InitHistory DEF WindowInv

LEMMA NextWindow == WindowInv /\ [Next]_vars => WindowInv'
  BY NextTexts, NextRevisions, NextHistory DEF WindowInv

LEMMA TextOfParse ==
  ASSUME NEW text \in AnyText, Exact(text)
  PROVE  Assemble(Parse(text).lines, Parse(text).final_newline) = text
  <1>1. PICK S : S = Symbol
    OBVIOUS
  <1>2. NL \in S /\ text \in Seq(S)
    BY <1>1, SymbolsAre DEF AnyText
  <1> QED  BY <1>2, AssembleOfParse DEF Exact

LEMMA WriteWrites ==
  ASSUME TextsInv, NEW text, Write(text), file' # file
  PROVE  file' = text
  <1>1. log' # log
    BY DEF file
  <1>2. log' = Append(log, text)
    BY <1>1 DEF Write
  <1>3. Len(log') = Len(log) + 1 /\ log'[Len(log) + 1] = text
    BY <1>2 DEF TextsInv
  <1> QED  BY <1>3 DEF file, Last

LEMMA RestoreStep ==
  ASSUME WindowInv, OnRestoreClicked, file' # file, Exact(revisions[selected])
  PROVE  file' = revisions[selected]
  <1>1. PICK text : text = revisions[selected]
    OBVIOUS
  <1>2. /\ selected \in DOMAIN revisions /\ text # Gone
        /\ sel_entry = Parse(text)
    BY <1>1 DEF OnRestoreClicked, WindowInv, HistoryInv, RestorableIsShown
  <1>3. text \in AnyText
    <2>1. revisions[selected] \in AnyText \cup {Gone}
      BY <1>2 DEF WindowInv, RevisionsInv
    <2> QED  BY <1>1, <1>2, <2>1
  <1>4. Assemble(sel_entry.lines, sel_entry.final_newline) = text
    BY <1>1, <1>2, <1>3, TextOfParse
  <1>5. Write(text)
    BY <1>4 DEF OnRestoreClicked
  <1> QED  BY <1>1, <1>5, WriteWrites DEF WindowInv

\* What the history dialog writes is the revision selected, byte for byte, for
\* texts of any length and whatever is committed, selected and loaded in
\* between (on_restore_clicked, on_history_restore, passfl_entry_parse).
THEOREM RestoredByteForByte == Spec => RestoreIsExact
  <1> DEFINE Step == open /\ ~open' /\ file' # file =>
                       (Exact(revisions[selected]) => file' = revisions[selected])
  <1>1. WindowInv /\ [Next]_vars => [Step]_vars
    <2> SUFFICES ASSUME WindowInv, Next, open, ~open', file' # file,
                        Exact(revisions[selected])
                 PROVE  file' = revisions[selected]
      OBVIOUS
    <2>1. CASE OnRestoreClicked
      BY <2>1, RestoreStep
    <2>2. CASE CloseHistory
      BY <2>2 DEF CloseHistory, store, file
    <2>3. CASE \/ OpenEntry \/ ActEdit \/ ActNew \/ OnAddLine \/ ActSave \/ ActCancel
               \/ RevisionDone \/ ActHistory
               \/ \E i \in DOMAIN revisions : OnCommitSelected(i)
               \/ \E line \in Typed : SetPassword(line) \/ \E k \in DOMAIN rows : SetRow(k, line)
               \/ \E k \in DOMAIN rows : OnRemoveLine(k)
               \/ view # None /\ \E k \in DOMAIN view.lines : OnHotpGenerate(k)
               \/ \E text \in Foreign : CliWrite(text)
      <3>1. open' = open \/ open' = TRUE
        BY <2>3 DEF OpenEntry, ActEdit, ActNew, OnAddLine, ActSave, ActCancel, SetPassword,
             SetRow, OnRemoveLine, Type, OnHotpGenerate, CliWrite, RevisionDone, RevisionDropped,
             RevisionFails, RevisionShown, ActHistory, OnCommitSelected, history
      <3> QED  BY <3>1
    <2> QED  BY <2>1, <2>2, <2>3 DEF Next, User
  <1> QED  BY InitWindow, NextWindow, <1>1, PTL DEF Spec, RestoreIsExact
-----------------------------------------------------------------------------
(* The diff on the screen. *)

\* It was made of the lines of a revision of the list and of those before it.
DiffInv ==
  stack = "diff" =>
    /\ open
    /\ \E i \in DOMAIN revisions :
         /\ revisions[i] # Gone
         /\ \E old \in {<<>>, Lines(Before(i))} : diff = DiffLines(old, Lines(revisions[i]))

LEMMA NextDiff == WindowInv /\ DiffInv /\ [Next]_vars => DiffInv'
  <1> SUFFICES ASSUME WindowInv, DiffInv, [Next]_vars PROVE DiffInv'
    OBVIOUS
  <1>1. ASSUME UNCHANGED <<open, revisions, diff, stack>> PROVE DiffInv'
    BY <1>1 DEF DiffInv, Lines, Before
  <1>2. ASSUME NEW j \in jobs, RevisionDropped(j) PROVE DiffInv'
    BY <1>1, <1>2 DEF RevisionDropped, loaded
  <1>3. ASSUME NEW j \in jobs, RevisionFails(j) PROVE DiffInv'
    BY <1>3 DEF RevisionFails, DiffInv
  <1>4. ASSUME NEW j \in jobs, NEW b \in BOOLEAN, RevisionShown(j, b) PROVE DiffInv'
    <2>1. /\ open' /\ revisions' = revisions /\ revisions[j.idx] # Gone
          /\ diff' = DiffLines(IF b THEN Lines(Before(j.idx)) ELSE <<>>, Parse(revisions[j.idx]).lines)
      BY <1>4 DEF RevisionShown, IsCurrent
    <2>2. j.idx \in DOMAIN revisions
      BY DEF WindowInv, HistoryInv, JobsInv
    <2>3. PICK old \in {<<>>, Lines(Before(j.idx))} :
            diff' = DiffLines(old, Lines(revisions[j.idx]))
      BY <2>1 DEF Lines
    <2>4. /\ Lines(Before(j.idx))' = Lines(Before(j.idx))
          /\ Lines(revisions[j.idx])' = Lines(revisions[j.idx])
      BY <2>1 DEF Lines, Before
    <2> QED  BY <2>1, <2>2, <2>3, <2>4 DEF DiffInv
  <1>5. CASE RevisionDone
    BY <1>2, <1>3, <1>4, <1>5 DEF RevisionDone
  <1>6. CASE ActHistory
    <2>1. ~open /\ stack' = stack
      BY <1>6 DEF ActHistory, Browsing, loaded
    <2> QED  BY <2>1 DEF DiffInv
  <1>7. CASE \E i \in DOMAIN revisions : OnCommitSelected(i)
    BY <1>1, <1>7 DEF OnCommitSelected
  <1>8. CASE OnRestoreClicked \/ CloseHistory
    BY <1>8 DEF OnRestoreClicked, CloseHistory, Close, DiffInv
  <1>9. CASE \/ OpenEntry \/ ActEdit \/ ActNew \/ OnAddLine \/ ActSave \/ ActCancel
             \/ \E line \in Typed : SetPassword(line) \/ \E k \in DOMAIN rows : SetRow(k, line)
             \/ \E k \in DOMAIN rows : OnRemoveLine(k)
             \/ view # None /\ \E k \in DOMAIN view.lines : OnHotpGenerate(k)
             \/ \E text \in Foreign : CliWrite(text)
             \/ UNCHANGED vars
    <2>1. UNCHANGED history
      BY <1>9 DEF OpenEntry, ActEdit, ActNew, OnAddLine, ActSave, ActCancel, SetPassword,
                  SetRow, OnRemoveLine, Type, OnHotpGenerate, CliWrite, vars
    <2> QED  BY <1>1, <2>1 DEF history, loaded
  <1> QED  BY <1>5, <1>6, <1>7, <1>8, <1>9 DEF Next, User

LEMMA LinesAre ==
  ASSUME NEW text \in AnyText \cup {Gone}
  PROVE  Lines(text) \in Seq(AnyText)
  <1>1. CASE text = Gone
    BY <1>1 DEF Lines
  <1>2. CASE text # Gone
    BY <1>2, TextParsed DEF Lines
  <1> QED  BY <1>1, <1>2

LEMMA DiffFollows == WindowInv /\ DiffInv => DiffTellsTheChange
  <1> SUFFICES ASSUME WindowInv, DiffInv, stack = "diff"
               PROVE  \E i \in DOMAIN revisions :
                         /\ revisions[i] # Gone
                         /\ \E old \in {<<>>, Lines(Before(i))} : IsDiff(diff, old, Lines(revisions[i]))
    BY DEF DiffTellsTheChange
  <1>1. PICK i \in DOMAIN revisions :
          /\ revisions[i] # Gone
          /\ \E old \in {<<>>, Lines(Before(i))} : diff = DiffLines(old, Lines(revisions[i]))
    BY DEF DiffInv
  <1>2. PICK old \in {<<>>, Lines(Before(i))} : diff = DiffLines(old, Lines(revisions[i]))
    BY <1>1
  <1>3. revisions \in Seq(AnyText \cup {Gone})
    BY DEF WindowInv, RevisionsInv
  <1>4. revisions[i] \in AnyText \cup {Gone} /\ Before(i) \in AnyText \cup {Gone}
    <2>1. i < Len(revisions) => i + 1 \in DOMAIN revisions
      BY <1>3
    <2> QED  BY <1>3, <2>1 DEF Before
  <1>5. PICK D : D = AnyText
    OBVIOUS
  <1>6. <<>> \in Seq(D)
    OBVIOUS
  <1>7. old \in Seq(D) /\ Lines(revisions[i]) \in Seq(D)
    BY <1>2, <1>4, <1>5, <1>6, LinesAre
  <1>8. IsDiff(diff, old, Lines(revisions[i]))
    BY <1>2, <1>7, DiffIsShortest
  <1> QED  BY <1>1, <1>2, <1>8

\* The diff on the screen tells how one revision of the list became the other,
\* and keeps all that can be kept, for texts of any length and whatever order
\* the revisions are loaded in (diff_lines, render_diff, revision_done).
THEOREM DiffIsTrue == Spec => []DiffTellsTheChange
  <1> DEFINE IInv == WindowInv /\ DiffInv
  <1>1. Init => IInv
    <2>1. Init => DiffInv
      BY DEF Init, DiffInv
    <2> QED  BY <2>1, InitWindow
  <1>2. IInv /\ [Next]_vars => IInv'
    BY NextWindow, NextDiff
  <1>3. IInv => DiffTellsTheChange
    BY DiffFollows
  <1> QED  BY <1>1, <1>2, <1>3, PTL DEF Spec
-----------------------------------------------------------------------------
(* The codes of the counters. *)

\* An empty last line without a newline is no line of the text.
LEMMA AssembleShorter ==
  ASSUME NEW S, NL \in S
  PROVE  \A lines \in Seq(Seq(S)) :
           lines # <<>> /\ lines[Len(lines)] = <<>> =>
             \E less \in Seq(Seq(S)) :
               /\ Len(lines) = Len(less) + 1
               /\ \A k \in 1 .. Len(less) : less[k] = lines[k]
               /\ Assemble(less, TRUE) = Assemble(lines, FALSE)
  <1> PICK D : D = Seq(S)
    OBVIOUS
  <1> DEFINE Good(ls) ==
               ls # <<>> /\ ls[Len(ls)] = <<>> =>
                 \E less \in Seq(D) :
                   /\ Len(ls) = Len(less) + 1
                   /\ \A k \in 1 .. Len(less) : less[k] = ls[k]
                   /\ Assemble(less, TRUE) = Assemble(ls, FALSE)
             T == {ls \in Seq(D) : Good(ls)}
  <1>1. <<>> \in T
    OBVIOUS
  <1>2. ASSUME NEW line \in D, NEW rest \in Seq(D), rest \in T PROVE Cons(line, rest) \in T
    <2>1. PICK n \in Nat : n = Len(rest)
      OBVIOUS
    <2>2. PICK ls \in Seq(D) : /\ ls = Cons(line, rest) /\ Len(ls) = n + 1 /\ ls[1] = line
                               /\ \A k \in 1 .. n : ls[k + 1] = rest[k]
      BY ONLY <2>1, line \in D, rest \in Seq(D), ConsIs
    <2> SUFFICES ASSUME ls[n + 1] = <<>>
                 PROVE  \E less \in Seq(D) :
                          /\ n + 1 = Len(less) + 1
                          /\ \A k \in 1 .. Len(less) : less[k] = ls[k]
                          /\ Assemble(less, TRUE) = Assemble(ls, FALSE)
      BY <2>2
    <2>3. Assemble(ls, FALSE) = Put(line, rest # <<>>, FALSE, Assemble(rest, FALSE))
      BY <2>2, AssembleLine
    <2>4. CASE rest = <<>>
      <3>1. n = 0 /\ line = <<>>
        BY <2>1, <2>2, <2>4
      <3>2. Assemble(ls, FALSE) = <<>> \o <<>> \o <<>>
        BY <2>3, <2>4, <3>1, AssembleEmpty DEF Put, EndOf
      <3>3. PICK none \in Seq(D) : none = <<>> /\ Len(none) = 0
        <4>1. \A U : <<>> \in Seq(U) /\ Len(<<>>) = 0
          OBVIOUS
        <4> QED  BY ONLY <4>1
      <3>4. <<>> \o <<>> \o <<>> = <<>>
        OBVIOUS
      <3>5. Assemble(none, TRUE) = Assemble(ls, FALSE)
        BY <3>2, <3>3, <3>4, AssembleEmpty
      <3>6. \A k \in 1 .. Len(none) : none[k] = ls[k]
        BY <3>3
      <3> QED  BY <3>1, <3>3, <3>5, <3>6
    <2>5. CASE rest # <<>>
      <3>1. n \in 1 .. n /\ rest[n] = <<>>
        <4>1. n \in 1 .. n
          BY ONLY <2>1, <2>5, rest \in Seq(D), n \in Nat, EmptySeq
        <4> QED  BY <2>2, <4>1
      <3>2. PICK less \in Seq(D) :
              /\ n = Len(less) + 1
              /\ \A k \in 1 .. Len(less) : less[k] = rest[k]
              /\ Assemble(less, TRUE) = Assemble(rest, FALSE)
        BY <1>2, <2>1, <2>5, <3>1
      <3>3. PICK m \in Nat : m = Len(less)
        OBVIOUS
      <3>4. PICK more \in Seq(D) : /\ more = Cons(line, less) /\ Len(more) = m + 1
                                   /\ more[1] = line
                                   /\ \A k \in 1 .. m : more[k + 1] = less[k]
        <4>1. /\ Cons(line, less) \in Seq(D) /\ Len(Cons(line, less)) = Len(less) + 1
              /\ Cons(line, less)[1] = line
              /\ \A k \in 1 .. Len(less) : Cons(line, less)[k + 1] = less[k]
          BY ONLY line \in D, less \in Seq(D), ConsIs
        <4> QED  BY ONLY <3>3, <4>1
      <3>5. Assemble(more, TRUE) = Put(line, less # <<>>, TRUE, Assemble(less, TRUE))
        BY <3>4, AssembleLine
      <3>6. Assemble(more, TRUE) = Assemble(ls, FALSE)
        BY <2>3, <2>5, <3>2, <3>5 DEF Put, EndOf
      <3>7. ASSUME NEW k \in 1 .. m + 1 PROVE more[k] = ls[k]
        <4>1. CASE k = 1
          BY <2>2, <3>4, <4>1
        <4>2. CASE k # 1
          <5>1. PICK j \in 1 .. m : k = j + 1
            <6>1. k - 1 \in 1 .. m /\ k = (k - 1) + 1
              BY <4>2
            <6> QED  BY <6>1
          <5>2. j \in 1 .. n
            BY <3>2, <3>3
          <5> QED  BY <2>2, <3>2, <3>3, <3>4, <5>1, <5>2
        <4> QED  BY <4>1, <4>2
      <3> QED  BY <3>2, <3>3, <3>4, <3>6, <3>7
    <2> QED  BY <2>4, <2>5
  <1> HIDE DEF T
  <1>3. \A ls \in Seq(D) : ls \in T
    BY <1>1, <1>2, SeqInduction
  <1> QED  BY <1>3 DEF T

LEMMA ParseEmpty == Parse(<<>>).lines = <<>>
  <1>1. PICK S : S = {NL}
    OBVIOUS
  <1>2. \A U : <<>> \in Seq(U) /\ Len(<<>>) = 0
    OBVIOUS
  <1>3. PICK text \in Seq(S) : text = <<>> /\ Len(text) = 0
    BY ONLY <1>2
  <1>4. PICK L \in [1 .. Len(text) + 2 -> Seq(Seq(S))] : Parses(L, text)
    BY ParseUnfolds
  <1>5. 1 \in 1 .. Len(text) + 2 /\ 1 > Len(text)
    BY <1>3
  <1>6. L[1] = <<>>
    BY <1>4, <1>5 DEF Parses
  <1> QED  BY <1>3, <1>4, <1>6 DEF Parses

\* The lines of a text made of lines are those lines.
LEMMA LinesComeBack ==
  ASSUME NEW lines \in Seq(AnyText), NEW fin \in BOOLEAN,
         \A k \in 1 .. Len(lines) : IsLine(lines[k]),
         NEW k \in 1 .. Len(Parse(Assemble(lines, fin)).lines)
  PROVE  k \in 1 .. Len(lines) /\ Parse(Assemble(lines, fin)).lines[k] = lines[k]
  <1>1. PICK S : S = Symbol
    OBVIOUS
  <1>2. NL \in S /\ lines \in Seq(Seq(S))
    BY <1>1, SymbolsAre DEF AnyText
  <1>3. PICK n \in Nat : n = Len(lines) /\ DOMAIN lines = 1 .. n
    OBVIOUS
  <1>4. CASE lines = <<>>
    <2>1. Assemble(lines, fin) = <<>>
      BY <1>4, AssembleEmpty
    <2>2. <<>> \in Seq(S)
      OBVIOUS
    <2>3. Parse(<<>>).lines = <<>>
      BY ParseEmpty
    <2> QED  BY <2>1, <2>3
  <1>5. CASE lines # <<>> /\ (fin \/ lines[n] # <<>>)
    <2>1. Returnable(lines, fin)
      BY <1>3, <1>5 DEF Returnable
    <2>2. Parse(Assemble(lines, fin)) = [lines |-> lines, final_newline |-> fin]
      BY <1>2, <1>5, <2>1, ParseOfAssemble
    <2> QED  BY <2>2
  <1>6. CASE lines # <<>> /\ ~fin /\ lines[n] = <<>>
    <2>1. PICK less \in Seq(Seq(S)) :
            /\ n = Len(less) + 1
            /\ \A j \in 1 .. Len(less) : less[j] = lines[j]
            /\ Assemble(less, TRUE) = Assemble(lines, FALSE)
      BY <1>2, <1>3, <1>6, AssembleShorter
    <2>2. fin = FALSE
      BY <1>6
    <2>3. CASE less = <<>>
      <3>1. Assemble(lines, fin) = <<>>
        BY <2>1, <2>2, <2>3, AssembleEmpty
      <3> QED  BY <3>1, ParseEmpty
    <2>4. CASE less # <<>>
      <3>1. PICK m \in Nat : m = Len(less) /\ DOMAIN less = 1 .. m
        OBVIOUS
      <3>2. \A j \in 1 .. m : j \in 1 .. n
        BY <2>1, <3>1
      <3>3. Returnable(less, TRUE)
        BY <1>3, <2>1, <3>1, <3>2 DEF Returnable
      <3>4. Parse(Assemble(less, TRUE)) = [lines |-> less, final_newline |-> TRUE]
        BY <1>2, <2>4, <3>3, ParseOfAssemble
      <3>5. Parse(Assemble(lines, fin)).lines = less
        <4>1. Assemble(lines, fin) = Assemble(lines, FALSE)
          BY ONLY <2>2, Zenon
        <4>2. Parse(Assemble(lines, FALSE)) = [lines |-> less, final_newline |-> TRUE]
          BY ONLY <2>1, <3>4, Zenon
        <4>3. Parse(Assemble(lines, fin)) = [lines |-> less, final_newline |-> TRUE]
          BY ONLY <4>1, <4>2, Zenon
        <4> QED  BY ONLY <4>3
      <3> QED  BY <1>3, <2>1, <3>1, <3>2, <3>5
    <2> QED  BY <2>3, <2>4
  <1> QED  BY <1>4, <1>5, <1>6
\* how often the counter c must be raised to be x
Behind(x, c) == IF c <= x THEN x - c ELSE x + MaxCounter + 1 - c

LEMMA BehindRaised ==
  ASSUME NEW x \in 0 .. MaxCounter, NEW y, y = (x + 1) % (MaxCounter + 1),
         NEW c \in 0 .. MaxCounter
  PROVE  /\ y \in 0 .. MaxCounter
         /\ Behind(y, y) = 0
         /\ Behind(x, c) \in Nat /\ Behind(y, c) \in Nat
         /\ Behind(y, c) <= Behind(x, c) + 1
         /\ Behind(x, y) = MaxCounter
  <1> PICK m \in Nat : m = MaxCounter /\ m # 0
    BY OtpAssumption
  <1>1. y = IF x = m THEN 0 ELSE x + 1
    <2>1. m + 1 \in Nat \ {0} /\ x + 1 \in Nat
      OBVIOUS
    <2>2. CASE x = m
      <3>1. (m + 1) % (m + 1) = 0
        BY <2>1
      <3> QED  BY <2>2, <3>1
    <2>3. CASE x # m
      <3>1. x + 1 \in 0 .. m
        BY <2>3
      <3>2. PICK z \in Nat, w \in Nat : z = x + 1 /\ w = m + 1 /\ z < w
        BY <2>1, <3>1
      <3>3. z % w = z
        BY ONLY <3>2, z \in Nat, w \in Nat
      <3> QED  BY <2>3, <3>2, <3>3
    <2> QED  BY <2>2, <2>3
  <1> QED  BY <1>1 DEF Behind

IsCounted(line) == IsUri(line) /\ IsHotp(line[1]) /\ IsUsual(line[1])

\* The codes of a row are no more raises of its counter old than there are codes.
RowInv(k, line, used) ==
  IsCounted(line) =>
    \A c \in 0 .. MaxCounter :
      <<k, c>> \in used => Behind(Counter(line[1]), c) < Cardinality(used)

CodesInv ==
  /\ IsFiniteSet(codes) /\ Cardinality(codes) <= MaxCodes
  /\ file \in AnyText =>
       \A k \in 1 .. Len(Parse(file).lines) : RowInv(k, Parse(file).lines[k], codes)

LEMMA CodesNone == ASSUME codes' = {} PROVE CodesInv'
  <1>1. IsFiniteSet({}) /\ Cardinality({}) = 0
    BY FS_EmptySet
  <1>2. 0 <= MaxCodes
    BY EntryScreensAssumption, OtpAssumption
  <1> QED  BY <1>1, <1>2 DEF CodesInv, RowInv

LEMMA WrittenIs ==
  ASSUME TextsInv, NEW text, Write(text)
  PROVE  file' = text
  <1>1. CASE file' = file
    <2>1. CASE text = file
      BY <1>1, <2>1
    <2>2. CASE text # file
      <3>1. log' = Append(log, text)
        BY <2>2 DEF Write
      <3>2. Len(log') = Len(log) + 1 /\ log'[Len(log) + 1] = text
        BY <3>1 DEF TextsInv
      <3> QED  BY <3>2 DEF file, Last
    <2> QED  BY <2>1, <2>2
  <1> QED  BY <1>1, WriteWrites

LEMMA UriIs ==
  ASSUME NEW line \in AnyText, IsUri(line)
  PROVE  line[1] \in OtpUris /\ line # <<>>
  <1>1. line \in Seq(Symbol) /\ Len(line) = 1 /\ line[1] \notin Plain
    BY DEF AnyText, IsUri
  <1> QED  BY <1>1 DEF Symbol

LEMMA UriLine ==
  ASSUME NEW uri \in OtpUris
  PROVE  /\ <<uri>> \in AnyText /\ IsLine(<<uri>>) /\ IsUri(<<uri>>) /\ <<uri>>[1] = uri
  <1>1. uri # NL /\ uri # Nul /\ uri \notin Plain /\ uri \in Symbol
    BY EntryScreensAssumption DEF Symbol
  <1>2. PICK line \in Seq(Symbol) : line = <<uri>> /\ Len(line) = 1 /\ line[1] = uri
    <2>1. <<uri>> \in Seq(Symbol)
      BY <1>1
    <2> QED  BY <2>1
  <1>3. IsLine(line)
    BY <1>1, <1>2 DEF IsLine, Symbols
  <1> QED  BY <1>1, <1>2, <1>3 DEF IsUri, AnyText

\* What generating a code does to the rows.
LEMMA RowsAfterCode ==
  ASSUME TextsInv, NEW k \in DOMAIN view.lines, OnHotpGenerate(k)
  PROVE  \E lines \in Seq(AnyText), uri \in OtpUris :
           /\ view = Parse(source) /\ source \in AnyText
           /\ lines = view.lines /\ k \in 1 .. Len(lines)
           /\ IsUri(lines[k]) /\ uri = lines[k][1] /\ IsHotp(uri)
           /\ codes' = (IF source = file THEN codes ELSE {}) \cup {<<k, NextCounter(uri)>>}
           /\ \A j \in 1 .. Len(Parse(file').lines) :
                /\ j \in 1 .. Len(lines)
                /\ Parse(file').lines[j] = IF j = k THEN <<IncrementedUri(uri)>> ELSE lines[j]
  <1>1. source \in AnyText /\ view = Parse(source)
    BY DEF OnHotpGenerate, TextsInv
  <1>2. PICK lines \in Seq(AnyText) :
          lines = view.lines /\ \A j \in 1 .. Len(lines) : IsLine(lines[j])
    BY <1>1, TextParsed
  <1>3. PICK fin \in BOOLEAN : fin = view.final_newline
    BY <1>1, TextParsed
  <1>4. k \in 1 .. Len(lines) /\ IsUri(lines[k]) /\ IsHotp(lines[k][1])
    BY <1>2 DEF OnHotpGenerate
  <1>5. PICK uri \in OtpUris : uri = lines[k][1] /\ IsHotp(uri)
    <2>1. lines[k] \in AnyText
      BY <1>4
    <2> QED  BY <1>4, <2>1, UriIs
  <1>6. PICK line \in AnyText : line = <<IncrementedUri(uri)>> /\ IsLine(line)
    BY <1>5, IncrementedIs, UriLine
  <1>7. PICK more \in Seq(AnyText) : /\ more = [lines EXCEPT ![k] = line] /\ Len(more) = Len(lines)
                                     /\ \A j \in 1 .. Len(lines) :
                                          more[j] = IF j = k THEN line ELSE lines[j]
    <2>1. PICK D : D = AnyText
      OBVIOUS
    <2>2. lines \in Seq(D) /\ line \in D
      BY <2>1
    <2>3. /\ [lines EXCEPT ![k] = line] \in Seq(D)
          /\ Len([lines EXCEPT ![k] = line]) = Len(lines)
          /\ \A j \in 1 .. Len(lines) :
               [lines EXCEPT ![k] = line][j] = IF j = k THEN line ELSE lines[j]
      <3>1. PICK n \in Nat : n = Len(lines) /\ lines \in [1 .. n -> D]
        BY <2>2
      <3>2. [lines EXCEPT ![k] = line] \in Seq(D)
        <4>1. k \in 1 .. Len(lines)
          BY <1>4
        <4> QED  BY ONLY <2>2, <4>1
      <3>3. [lines EXCEPT ![k] = line] \in [1 .. n -> D]
        BY ONLY <2>2, <3>1
      <3>4. Len([lines EXCEPT ![k] = line]) = n
        BY ONLY <3>2, <3>3, n \in Nat
      <3>5. \A j \in 1 .. n : [lines EXCEPT ![k] = line][j] = IF j = k THEN line ELSE lines[j]
        BY ONLY <3>1
      <3> QED  BY ONLY <3>1, <3>2, <3>4, <3>5
    <2> QED  BY <2>1, <2>3
  <1>8. \A j \in 1 .. Len(more) : IsLine(more[j])
    BY ONLY <1>2, <1>6, <1>7
  <1>9. /\ Write(Assemble(more, fin))
        /\ codes' = (IF source = file THEN codes ELSE {}) \cup {<<k, NextCounter(uri)>>}
    BY <1>2, <1>3, <1>5, <1>6, <1>7 DEF OnHotpGenerate
  <1>10. file' = Assemble(more, fin)
    BY <1>9, WrittenIs
  <1>11. ASSUME NEW j \in 1 .. Len(Parse(Assemble(more, fin)).lines)
         PROVE  /\ j \in 1 .. Len(more)
                /\ Parse(Assemble(more, fin)).lines[j] = more[j]
    BY <1>8, LinesComeBack
  <1>12. ASSUME NEW j \in 1 .. Len(Parse(file').lines)
         PROVE  /\ j \in 1 .. Len(lines)
                /\ Parse(file').lines[j] = IF j = k THEN line ELSE lines[j]
    BY <1>7, <1>10, <1>11
  <1> QED  BY <1>1, <1>2, <1>4, <1>5, <1>6, <1>9, <1>12

\* The code given next for a row of the text is none of those given.
LEMMA NextIsFresh ==
  ASSUME CodesInv, file \in AnyText, NEW k \in 1 .. Len(Parse(file).lines),
         NEW line \in AnyText, line = Parse(file).lines[k], IsCounted(line)
  PROVE  <<k, NextCounter(line[1])>> \notin codes
  <1>1. PICK uri \in OtpUris : uri = line[1] /\ IsHotp(uri)
    BY UriIs DEF IsCounted
  <1>2. PICK x \in 0 .. MaxCounter, y \in 0 .. MaxCounter :
          x = Counter(uri) /\ y = NextCounter(uri) /\ y = (x + 1) % (MaxCounter + 1)
    BY <1>1, CounterIs DEF NextCounter
  <1>3. Behind(x, y) = MaxCounter
    BY <1>2, BehindRaised
  <1>4. Cardinality(codes) <= MaxCounter
    <2>1. Cardinality(codes) \in Nat
      BY FS_CardinalityType DEF CodesInv
    <2> QED  BY <2>1, EntryScreensAssumption, OtpAssumption DEF CodesInv
  <1>5. RowInv(k, line, codes)
    BY DEF CodesInv
  <1>6. ASSUME <<k, y>> \in codes PROVE FALSE
    <2>1. MaxCounter < Cardinality(codes)
      BY <1>1, <1>2, <1>3, <1>5, <1>6 DEF RowInv
    <2>2. Cardinality(codes) \in Nat /\ MaxCounter \in Nat
      BY FS_CardinalityType, OtpAssumption DEF CodesInv
    <2> QED  BY <1>4, <2>1, <2>2
  <1> QED  BY <1>1, <1>2, <1>6

LEMMA OnHotpGenerateCodes ==
  ASSUME TextsInv, CodesInv, NEW k \in DOMAIN view.lines, OnHotpGenerate(k)
  PROVE  CodesInv'
  <1>1. PICK lines \in Seq(AnyText), uri \in OtpUris :
          /\ view = Parse(source) /\ source \in AnyText
          /\ lines = view.lines /\ k \in 1 .. Len(lines)
          /\ IsUri(lines[k]) /\ uri = lines[k][1] /\ IsHotp(uri)
          /\ codes' = (IF source = file THEN codes ELSE {}) \cup {<<k, NextCounter(uri)>>}
          /\ \A j \in 1 .. Len(Parse(file').lines) :
               /\ j \in 1 .. Len(lines)
               /\ Parse(file').lines[j] = IF j = k THEN <<IncrementedUri(uri)>> ELSE lines[j]
    BY RowsAfterCode
  <1>2. PICK x \in 0 .. MaxCounter, y \in 0 .. MaxCounter :
          x = Counter(uri) /\ y = NextCounter(uri) /\ y = (x + 1) % (MaxCounter + 1)
    BY <1>1, CounterIs DEF NextCounter
  <1>3. PICK before : before = IF source = file THEN codes ELSE {}
    OBVIOUS
  <1>4. PICK n \in Nat : IsFiniteSet(before) /\ n = Cardinality(before)
    BY <1>3, FS_EmptySet, FS_CardinalityType DEF CodesInv
  <1>5. PICK used : used = before \cup {<<k, y>>} /\ used = codes'
    BY <1>1, <1>2, <1>3
  <1>6. /\ IsFiniteSet(used)
        /\ Cardinality(used) = IF <<k, y>> \in before THEN n ELSE n + 1
    <2>1. IsFiniteSet(before)
      BY ONLY <1>4
    <2>2. /\ IsFiniteSet(before \cup {<<k, y>>})
          /\ Cardinality(before \cup {<<k, y>>}) =
               IF <<k, y>> \in before THEN Cardinality(before) ELSE Cardinality(before) + 1
      BY ONLY <2>1, FS_AddElement
    <2> QED  BY ONLY <1>4, <1>5, <2>2
  <1>7. Cardinality(used) <= MaxCodes
    BY <1>5 DEF OnHotpGenerate
  <1>8. n <= MaxCounter
    <2>1. CASE source = file
      BY <1>3, <1>4, <2>1, EntryScreensAssumption, OtpAssumption DEF CodesInv
    <2>2. CASE source # file
      BY <1>3, <1>4, <2>2, FS_EmptySet, OtpAssumption
    <2> QED  BY <2>1, <2>2
  <1>9. ASSUME NEW j \in 1 .. Len(lines), IsCounted(lines[j]), NEW c \in 0 .. MaxCounter,
               <<j, c>> \in before
        PROVE  Behind(Counter(lines[j][1]), c) < n
    <2>1. source = file /\ before = codes
      BY <1>3, <1>9
    <2>2. lines = Parse(file).lines /\ file \in AnyText
      BY <1>1, <2>1
    <2>3. RowInv(j, lines[j], codes)
      BY <2>2 DEF CodesInv
    <2> QED  BY <1>4, <1>9, <2>1, <2>3 DEF RowInv
  <1>10. PICK l \in Nat : l = Cardinality(used) /\ n <= l
    BY <1>4, <1>6
  <1>11. ASSUME NEW j \in 1 .. Len(lines), j # k PROVE RowInv(j, lines[j], used)
    <2> SUFFICES ASSUME IsCounted(lines[j]), NEW c \in 0 .. MaxCounter, <<j, c>> \in used
                 PROVE  Behind(Counter(lines[j][1]), c) < l
      BY <1>10 DEF RowInv
    <2>1. <<j, c>> \in before
      BY <1>5, <1>11
    <2>2. Counter(lines[j][1]) \in 0 .. MaxCounter
      <3>1. lines[j] \in AnyText
        OBVIOUS
      <3>2. lines[j][1] \in OtpUris /\ IsHotp(lines[j][1])
        BY <3>1, UriIs DEF IsCounted
      <3> QED  BY <3>2, CounterIs
    <2>3. PICK b \in Nat : b = Behind(Counter(lines[j][1]), c)
      <3>1. Behind(Counter(lines[j][1]), c) \in Nat
        BY <2>2, BehindRaised
      <3> QED  BY <3>1
    <2>4. b < n
      BY <1>9, <2>1, <2>3
    <2> QED  BY <1>10, <2>3, <2>4
  <1>12. ASSUME IsUsual(IncrementedUri(uri)), NEW c \in 0 .. MaxCounter, <<k, c>> \in used
         PROVE  Behind(Counter(IncrementedUri(uri)), c) < l
    <2>1. IsUsual(uri) /\ Counter(IncrementedUri(uri)) = y
      BY <1>1, <1>2, <1>12, RaisedIs
    <2>2. IsCounted(lines[k])
      BY <1>1, <2>1 DEF IsCounted
    <2>3. /\ Behind(y, y) = 0 /\ Behind(x, y) = MaxCounter
          /\ Behind(x, c) \in Nat /\ Behind(y, c) \in Nat
          /\ Behind(y, c) <= Behind(x, c) + 1
      BY <1>2, BehindRaised
    <2>4. \A d \in 0 .. MaxCounter : <<k, d>> \in before => Behind(x, d) < n
      BY <1>1, <1>2, <1>9, <2>2
    <2>5. <<k, y>> \notin before
      <3>1. <<k, y>> \in before => MaxCounter < n
        BY <2>3, <2>4
      <3> QED  BY <1>8, <3>1, OtpAssumption
    <2>6. l = n + 1
      BY <1>6, <1>10, <2>5
    <2>7. CASE c = y
      BY <2>1, <2>3, <2>6, <2>7
    <2>8. CASE c # y
      <3>1. Behind(x, c) < n
        BY <1>5, <1>12, <2>4, <2>8
      <3>2. PICK u \in Nat, v \in Nat : u = Behind(x, c) /\ v = Behind(y, c) /\ v <= u + 1 /\ u < n
        BY <2>3, <3>1
      <3>3. v < n + 1
        BY ONLY <3>2, u \in Nat, v \in Nat, n \in Nat
      <3> QED  BY <2>1, <2>6, <3>2, <3>3
    <2> QED  BY <2>7, <2>8
  <1>13. RowInv(k, <<IncrementedUri(uri)>>, used)
    <2>1. <<IncrementedUri(uri)>>[1] = IncrementedUri(uri)
      OBVIOUS
    <2> QED  BY <1>10, <1>12, <2>1 DEF RowInv, IsCounted
  <1>14. ASSUME NEW j \in 1 .. Len(Parse(file').lines)
         PROVE  RowInv(j, Parse(file').lines[j], used)
    <2>1. CASE j = k
      BY <1>1, <1>13, <2>1
    <2>2. CASE j # k
      BY <1>1, <1>11, <2>2
    <2> QED  BY <2>1, <2>2
  <1>15. CodesInv' = (/\ IsFiniteSet(codes') /\ Cardinality(codes') <= MaxCodes
                      /\ file' \in AnyText =>
                           \A j \in 1 .. Len(Parse(file').lines) :
                             RowInv(j, Parse(file').lines[j], codes'))
    BY DEF CodesInv
  <1> QED  BY <1>5, <1>6, <1>7, <1>14, <1>15

LEMMA NextCodes == TextsInv /\ CodesInv /\ [Next]_vars => CodesInv'
  <1> SUFFICES ASSUME TextsInv, CodesInv, [Next]_vars PROVE CodesInv'
    OBVIOUS
  <1>1. ASSUME UNCHANGED store PROVE CodesInv'
    <2>1. codes' = codes /\ file' = file
      BY <1>1 DEF store, file
    <2>2. (Parse(file).lines)' = Parse(file).lines
      BY <2>1
    <2> QED  BY <2>1 DEF CodesInv
  <1>2. CASE RevisionDone
    BY <1>1, <1>2 DEF RevisionDone, RevisionDropped, RevisionFails, RevisionShown
  <1>3. CASE OpenEntry \/ ActEdit \/ ActNew \/ OnAddLine \/ ActCancel \/ ActHistory
    BY <1>1, <1>3 DEF OpenEntry, ActEdit, ActNew, OnAddLine, ActCancel, ActHistory, Type
  <1>4. CASE \/ \E line \in Typed : SetPassword(line) \/ \E k \in DOMAIN rows : SetRow(k, line)
             \/ \E k \in DOMAIN rows : OnRemoveLine(k)
             \/ \E i \in DOMAIN revisions : OnCommitSelected(i)
    BY <1>1, <1>4 DEF SetPassword, SetRow, OnRemoveLine, OnCommitSelected, Type
  <1>5. CASE ActSave
    BY <1>1, <1>5, CodesNone DEF ActSave
  <1>6. CASE OnRestoreClicked \/ \E text \in Foreign : CliWrite(text)
    BY <1>6, CodesNone DEF OnRestoreClicked, CliWrite
  <1>7. CASE CloseHistory
    BY <1>1, <1>7 DEF CloseHistory
  <1>8. CASE view # None /\ \E k \in DOMAIN view.lines : OnHotpGenerate(k)
    BY <1>8, OnHotpGenerateCodes
  <1>9. CASE UNCHANGED vars
    BY <1>1, <1>9 DEF vars
  <1> QED  BY <1>2, <1>3, <1>4, <1>5, <1>6, <1>7, <1>8, <1>9 DEF Next, User

LEMMA CodesFollow == TextsInv /\ CodesInv => CodesAreFresh
  <1> SUFFICES ASSUME TextsInv, CodesInv, view # None, source = file,
                      NEW k \in DOMAIN view.lines, IsCounted(view.lines[k])
               PROVE  <<k, NextCounter(view.lines[k][1])>> \notin codes
    BY DEF CodesAreFresh, IsCounted
  <1>1. view = Parse(file) /\ file \in AnyText
    BY DEF TextsInv
  <1>2. PICK lines \in Seq(AnyText) : lines = Parse(file).lines
    BY <1>1, TextParsed
  <1>3. k \in 1 .. Len(Parse(file).lines) /\ lines[k] \in AnyText
    BY <1>1, <1>2
  <1> QED  BY <1>1, <1>2, <1>3, NextIsFresh

\* A code that is used is not used again while its text is the one in the view,
\* for texts of any length, any number of HOTP rows and counters of any width,
\* over the largest one: the counters given to a row are the last ones, and
\* there are fewer of them than counters (on_hotp_generate,
\* passfl_otp_incremented_uri).
THEOREM CodesStayFresh == Spec => []CodesAreFresh
  <1> DEFINE IInv == TextsInv /\ RevisionsInv /\ CodesInv
  <1>1. Init => IInv
    <2>1. Init => CodesInv
      <3>1. IsFiniteSet({}) /\ Cardinality({}) = 0 /\ 0 <= MaxCodes
        BY FS_EmptySet, EntryScreensAssumption, OtpAssumption
      <3> QED  BY <3>1 DEF Init, CodesInv, RowInv
    <2> QED  BY <2>1, InitTexts
  <1>2. IInv /\ [Next]_vars => IInv'
    BY NextTexts, NextRevisions, NextCodes
  <1>3. IInv => CodesAreFresh
    BY CodesFollow
  <1> QED  BY <1>1, <1>2, <1>3, PTL DEF Spec
=============================================================================
