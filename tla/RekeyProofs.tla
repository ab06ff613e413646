---------------------------- MODULE RekeyProofs ----------------------------
(***************************************************************************)
(* Machine-checked proofs about Rekey, for any directories, recipients,    *)
(* subkeys, processes and bounds: that the key ids of a file are those it  *)
(* was written with, its types, that an entry with the wrong keys is       *)
(* accounted for, and that an undisturbed walk repairs.                    *)
(***************************************************************************)
EXTENDS Rekey, Recursion, FiniteSetTheorems, SequenceTheorems, TLAPS

(***************************************************************************)
(* The key ids of a file: passfl_crypto_file_keyids over any bytes.        *)
(***************************************************************************)

LEMMA BytesAreNumbers == Byte \subseteq Nat
  BY DEF Byte

LEMMA LengthBytesIs ==
  ASSUME NEW hdr, NEW c PROVE LengthBytes(hdr, c) \in {NoLength, 0, 1, 2, 4}
  BY DEF LengthBytes, NoLength

LEMMA NumberIs ==
  ASSUME NEW data \in Seq(Byte), NEW i \in Nat \ {0}, NEW width \in {0, 1, 2, 4},
         i + width - 1 <= Len(data)
  PROVE  Number(data, i, width) \in Nat
<1>1. \A k \in 1 .. Len(data) : data[k] \in Nat
  <2>1. \A k \in 1 .. Len(data) : data[k] \in Byte
    OBVIOUS
  <2>. QED
    BY <2>1, BytesAreNumbers
<1>2. CASE width = 0
  BY <1>2 DEF Number
<1>3. CASE width = 1
  BY <1>1, <1>3 DEF Number
<1>4. CASE width = 2
  <2>1. PICK a \in Nat, b \in Nat : a = data[i] /\ b = data[i + 1]
    BY <1>1, <1>4
  <2>2. Number(data, i, width) = 256 * a + b
    BY <1>4, <2>1 DEF Number
  <2>. QED
    BY <2>2
<1>5. CASE width = 4
  <2>1. PICK a \in Nat, b \in Nat, c \in Nat, d \in Nat :
          a = data[i] /\ b = data[i + 1] /\ c = data[i + 2] /\ d = data[i + 2 + 1]
    <3>1. i \in 1 .. Len(data) /\ i + 1 \in 1 .. Len(data) /\ i + 2 \in 1 .. Len(data)
          /\ i + 2 + 1 \in 1 .. Len(data)
      BY <1>5
    <3>. QED
      BY <1>1, <3>1
  <2>2. Number(data, i, width) = 65536 * (256 * a + b) + (256 * c + d)
    BY <1>5, <2>1 DEF Number
  <2>. QED
    BY <2>2
<1>. QED
  BY <1>2, <1>3, <1>4, <1>5

\* The end of the header that begins at pos, with these two first bytes.
HeaderEnd(hdr, c, pos) == (IF IsNew(hdr) THEN pos + 3 ELSE pos + 2) + LengthBytes(hdr, c) - 1

\* What the bytes of a header say, when none is missing.
Header(data, pos) ==
  LET hdr == data[pos + 1]
      c   == data[pos + 2]
      number == Number(data, IF IsNew(hdr) THEN pos + 3 ELSE pos + 2, LengthBytes(hdr, c))
  IN  [tag |-> Tag(hdr),
       off |-> HeaderEnd(hdr, c, pos),
       len |-> CASE IsNew(hdr) /\ LengthBytes(hdr, c) = 0 -> c
                 [] IsNew(hdr) /\ LengthBytes(hdr, c) = 1 -> 256 * (c - 192) + number + 192
                 [] OTHER -> number]

IsHeader(data, pos) ==
  /\ ~ data[pos + 1] < 128
  /\ ~ pos + 1 >= Len(data)
  /\ LengthBytes(data[pos + 1], data[pos + 2]) # NoLength
  /\ ~ HeaderEnd(data[pos + 1], data[pos + 2], pos) > Len(data)

LEMMA HeaderOrNone ==
  ASSUME NEW data, NEW pos
  PROVE  HeaderAt(data, pos) = IF IsHeader(data, pos) THEN Header(data, pos) ELSE NoHeader
  BY DEF HeaderAt, IsHeader, Header, HeaderEnd

\* A header ends in the file, after its second byte.
LEMMA HeaderIs ==
  ASSUME NEW data \in Seq(Byte), NEW pos \in Nat, IsHeader(data, pos)
  PROVE  /\ Header(data, pos).tag = Tag(data[pos + 1])
         /\ Header(data, pos).off \in pos + 2 .. Len(data)
         /\ Header(data, pos).len \in Nat
<1>. PICK hdr, c : hdr = data[pos + 1] /\ c = data[pos + 2]
  OBVIOUS
<1>. PICK w : w = LengthBytes(hdr, c)
  OBVIOUS
<1>. PICK first : first = IF IsNew(hdr) THEN pos + 3 ELSE pos + 2
  OBVIOUS
<1>1. w \in {0, 1, 2, 4} /\ (w = 0 => IsNew(hdr))
  BY LengthBytesIs DEF IsHeader, LengthBytes, NoLength
<1>2. first \in {pos + 2, pos + 3} /\ HeaderEnd(hdr, c, pos) = first + w - 1
  BY DEF HeaderEnd
<1>3. first + w - 1 <= Len(data) /\ first + w - 1 >= pos + 2
  BY ONLY <1>1, <1>2, IsHeader(data, pos), first = IF IsNew(hdr) THEN pos + 3 ELSE pos + 2,
     pos \in Nat, Len(data) \in Nat, hdr = data[pos + 1], c = data[pos + 2] DEF IsHeader
<1>4. Number(data, first, w) \in Nat
  <2>1. first \in Nat \ {0}
    BY <1>2
  <2>. QED
    BY ONLY <1>1, <1>3, <2>1, data \in Seq(Byte), NumberIs
<1>5. c \in Nat
  <2>1. pos + 2 \in 1 .. Len(data)
    BY <1>1, <1>2, <1>3
  <2>2. c \in Byte
    BY <2>1
  <2>. QED
    BY <2>2, BytesAreNumbers
<1>6. IsNew(hdr) /\ w = 1 => c \in 192 .. 223
  BY DEF LengthBytes, NoLength
<1>7. Header(data, pos).len \in Nat
  <2>1. Header(data, pos).len = CASE IsNew(hdr) /\ w = 0 -> c
                                  [] IsNew(hdr) /\ w = 1 -> 256 * (c - 192) + Number(data, first, w) + 192
                                  [] OTHER -> Number(data, first, w)
    BY DEF Header
  <2>2. CASE IsNew(hdr) /\ w = 1
    <3>1. PICK a \in Nat : a = Number(data, first, w)
      BY <1>4
    <3>2. PICK d \in Nat : d = c - 192
      <4>0. c \in 192 .. 223
        BY ONLY <1>6, <2>2
      <4>1. c - 192 \in Nat
        BY ONLY <4>0
      <4>. QED
        BY <4>1
    <3>3. 256 * d + a + 192 \in Nat
      OBVIOUS
    <3>. QED
      BY <2>1, <2>2, <3>1, <3>2, <3>3
  <2>3. CASE ~(IsNew(hdr) /\ w = 1)
    BY <1>4, <1>5, <2>1, <2>3
  <2>. QED
    BY <2>2, <2>3
<1>8. Header(data, pos).tag = Tag(hdr) /\ Header(data, pos).off = first + w - 1
  BY <1>2 DEF Header
<1>9. first + w - 1 \in pos + 2 .. Len(data)
  BY <1>1, <1>2, <1>3
<1>. QED
  BY <1>7, <1>8, <1>9

\* The file cut begins as the file data does.
Begins(cut, data) ==
  /\ Len(cut) <= Len(data)
  /\ \A i \in 1 .. Len(cut) : cut[i] = data[i]

\* A header in the part of a file is one of the file.
LEMMA HeaderOfPart ==
  ASSUME NEW data \in Seq(Byte), NEW cut \in Seq(Byte), Begins(cut, data),
         NEW pos \in Nat, IsHeader(cut, pos)
  PROVE  IsHeader(data, pos) /\ Header(cut, pos) = Header(data, pos)
<1>. PICK hdr, c : hdr = cut[pos + 1] /\ c = cut[pos + 2]
  OBVIOUS
<1>. PICK w : w = LengthBytes(hdr, c)
  OBVIOUS
<1>. PICK first : first = IF IsNew(hdr) THEN pos + 3 ELSE pos + 2
  OBVIOUS
<1>. PICK n \in Nat, m \in Nat : n = Len(data) /\ m = Len(cut) /\ m <= n
  BY DEF Begins
<1>0. \A i \in 1 .. m : cut[i] = data[i]
  BY DEF Begins
<1>1. hdr = data[pos + 1] /\ c = data[pos + 2] /\ pos + 2 <= m
  <2>1. pos + 2 <= m
    BY DEF IsHeader
  <2>. QED
    BY <1>0, <2>1
<1>2. w \in {0, 1, 2, 4} /\ first \in {pos + 2, pos + 3} /\ HeaderEnd(hdr, c, pos) = first + w - 1
  BY LengthBytesIs DEF IsHeader, HeaderEnd
<1>3. first + w - 1 <= m
  BY ONLY <1>2, IsHeader(cut, pos), hdr = cut[pos + 1], c = cut[pos + 2], pos \in Nat, m \in Nat,
     m = Len(cut) DEF IsHeader
<1>4. IsHeader(data, pos)
  <2>1. ~ hdr < 128 /\ w # NoLength
    BY DEF IsHeader
  <2>2. ~ pos + 1 >= n /\ ~ first + w - 1 > n
    BY <1>1, <1>2, <1>3
  <2>. QED
    BY <1>1, <1>2, <2>1, <2>2 DEF IsHeader
<1>5. Number(cut, first, w) = Number(data, first, w)
  <2>1. CASE w = 0
    BY <2>1 DEF Number
  <2>2. CASE w = 1
    BY <1>0, <1>2, <1>3, <2>2 DEF Number
  <2>3. CASE w = 2
    <3>1. first \in 1 .. m /\ first + 1 \in 1 .. m
      BY ONLY <1>2, <1>3, <2>3, pos \in Nat, m \in Nat
    <3>2. cut[first] = data[first] /\ cut[first + 1] = data[first + 1]
      BY ONLY <1>0, <3>1
    <3>. QED
      BY ONLY <2>3, <3>2 DEF Number
  <2>4. CASE w = 4
    <3>1. /\ cut[first] = data[first] /\ cut[first + 1] = data[first + 1]
          /\ cut[first + 2] = data[first + 2] /\ cut[first + 2 + 1] = data[first + 2 + 1]
      <4>1. /\ first \in 1 .. m /\ first + 1 \in 1 .. m
            /\ first + 2 \in 1 .. m /\ first + 2 + 1 \in 1 .. m
        BY ONLY <1>2, <1>3, <2>4, pos \in Nat, m \in Nat
      <4>. QED
        BY ONLY <1>0, <4>1
    <3>. QED
      BY ONLY <2>4, <3>1 DEF Number
  <2>. QED
    BY <1>2, <2>1, <2>2, <2>3, <2>4
<1>. QED
  BY <1>1, <1>4, <1>5 DEF Header

-----------------------------------------------------------------------------
(* The walk, from a place to the end. *)

\* What is found at a place, with what is found behind it.
FoundFrom(data, found, pos) ==
  IF IsLast(PacketAt(data, pos), Len(data)) THEN {}
  ELSE IdsIn(data, PacketAt(data, pos)) \cup found[PacketAt(data, pos).off + PacketAt(data, pos).len]

\* What is found from each place on.
Finds(found, data) ==
  /\ FileKeyIds(data) = found[0]
  /\ \A pos \in Nat : found[pos] = FoundFrom(data, found, pos)

\* A packet the walk goes on after: it has a header, and the walk gets ahead.
LEMMA PacketIs ==
  ASSUME NEW data \in Seq(Byte), NEW pos \in Nat, NEW h, h = PacketAt(data, pos),
         ~IsLast(h, Len(data))
  PROVE  /\ pos < Len(data) /\ IsHeader(data, pos) /\ h = Header(data, pos)
         /\ h.off \in pos + 2 .. Len(data) /\ h.len \in Nat
         /\ h.tag = PKESK => h.off + 9 <= Len(data)
<1>1. h.tag \in EskTags
  BY ONLY ~IsLast(h, Len(data)) DEF IsLast
<1>2. NoHeader.tag \notin EskTags
  BY DEF NoHeader, EskTags, PKESK, SKESK
<1>3. h # NoHeader
  BY <1>1, <1>2
<1>4. pos < Len(data) /\ h = HeaderAt(data, pos)
  BY <1>3 DEF PacketAt
<1>5. IsHeader(data, pos) /\ h = Header(data, pos)
  BY <1>3, <1>4, HeaderOrNone
<1>6. h.off \in pos + 2 .. Len(data) /\ h.len \in Nat
  BY <1>5, HeaderIs
<1>7. h.tag = PKESK => h.off + 9 <= Len(data)
  BY <1>6 DEF IsLast
<1>. QED
  BY <1>4, <1>5, <1>6, <1>7

LEMMA IdsInIs ==
  ASSUME NEW data \in Seq(Byte), NEW h, h.off \in Nat, h.tag = PKESK => h.off + 9 <= Len(data)
  PROVE  IdsIn(data, h) \subseteq Seq(Byte)
<1>. SUFFICES ASSUME h.tag = PKESK PROVE SubSeq(data, h.off + 2, h.off + 9) \in Seq(Byte)
  BY DEF IdsIn
<1>1. PICK o \in Nat : o = h.off /\ o + 9 <= Len(data)
  OBVIOUS
<1>2. \A i \in o + 2 .. o + 9 : data[i] \in Byte
  BY <1>1
<1>3. o + 2 \in Int /\ o + 9 \in Int
  OBVIOUS
<1>. QED
  BY <1>1, <1>2, <1>3, SubSeqProperties

\* The walk is defined by its equation: it gets ahead with each packet.
LEMMA WalkUnfolds ==
  ASSUME NEW data \in Seq(Byte)
  PROVE  \E found \in [Nat -> SUBSET Seq(Byte)] : Finds(found, data)
<1>. PICK len \in Nat : len = Len(data)
  OBVIOUS
<1>. DEFINE D == SUBSET Seq(Byte)
            m == [pos \in Nat |-> IF pos < len THEN len - pos ELSE 0]
            step == [x \in [Nat -> D] \X Nat |-> FoundFrom(data, x[1], x[2])]
            F(g) == [pos \in Nat |-> FoundFrom(data, g, pos)]
            found == CHOOSE g : g = F(g)
<1>1. FileKeyIds(data) = found[0]
  BY DEF FileKeyIds, FoundFrom
<1>2. ASSUME NEW g \in [Nat -> D], NEW pos \in Nat PROVE FoundFrom(data, g, pos) \in D
  <2>1. CASE ~IsLast(PacketAt(data, pos), Len(data))
    <3>1. PICK h : h = PacketAt(data, pos)
      OBVIOUS
    <3>2. h.off \in Nat /\ h.len \in Nat /\ (h.tag = PKESK => h.off + 9 <= Len(data))
      <4>1. h.off \in pos + 2 .. Len(data) /\ h.len \in Nat
            /\ (h.tag = PKESK => h.off + 9 <= Len(data))
        BY <2>1, <3>1, PacketIs
      <4>. QED
        BY <4>1
    <3>3. IdsIn(data, h) \in D
      BY <3>2, IdsInIs
    <3>4. g[h.off + h.len] \in D
      BY <3>2
    <3>. QED
      BY <2>1, <3>1, <3>3, <3>4 DEF FoundFrom
  <2>2. CASE IsLast(PacketAt(data, pos), Len(data))
    BY <2>2 DEF FoundFrom
  <2>. QED
    BY <2>1, <2>2
<1>3. ASSUME NEW g, NEW h, NEW pos \in Nat, \A q \in Nat : m[q] < m[pos] => g[q] = h[q]
      PROVE  FoundFrom(data, g, pos) = FoundFrom(data, h, pos)
  <2>1. CASE ~IsLast(PacketAt(data, pos), Len(data))
    <3>1. PICK p : p = PacketAt(data, pos)
      OBVIOUS
    <3>2. pos < len /\ p.off \in pos + 2 .. len /\ p.len \in Nat
      BY <2>1, <3>1, PacketIs
    <3>3. p.off + p.len \in Nat /\ m[p.off + p.len] < m[pos]
      BY <3>2
    <3>4. g[p.off + p.len] = h[p.off + p.len]
      BY <1>3, <3>3
    <3>. QED
      BY <2>1, <3>1, <3>4 DEF FoundFrom
  <2>2. CASE IsLast(PacketAt(data, pos), Len(data))
    BY <2>2 DEF FoundFrom
  <2>. QED
    BY <2>1, <2>2
<1>4. D # {} /\ m \in [Nat -> Nat]
  OBVIOUS
<1>. HIDE DEF D, m
<1>5. PICK f \in [Nat -> D] : \A pos \in Nat : f[pos] = FoundFrom(data, f, pos)
  <2>1. step \in [[Nat -> D] \X Nat -> D]
    BY <1>2
  <2>2. ASSUME NEW g \in [Nat -> D], NEW h \in [Nat -> D], NEW pos \in Nat,
               \A q \in Nat : m[q] < m[pos] => g[q] = h[q]
        PROVE  step[<<g, pos>>] = step[<<h, pos>>]
    <3>1. FoundFrom(data, g, pos) = FoundFrom(data, h, pos)
      BY <1>3, <2>2
    <3>. QED
      BY <3>1
  <2>3. \A g \in [Nat -> D], pos \in Nat : step[<<g, pos>>] = FoundFrom(data, g, pos)
    OBVIOUS
  <2>. HIDE DEF step
  <2>4. Recursive(Nat, D, m, step)
    BY <1>4, <2>1, <2>2 DEF Recursive
  <2>5. \E f \in [Nat -> D] : \A pos \in Nat : f[pos] = step[<<f, pos>>]
    <3>1. PICK S : S = Nat
      BY ONLY TRUE
    <3>2. Recursive(S, D, m, step)
      BY ONLY <2>4, <3>1
    <3>3. \E f \in [S -> D] : \A pos \in S : f[pos] = step[<<f, pos>>]
      BY ONLY <3>2, RecursiveFunction
    <3>. QED
      BY ONLY <3>1, <3>3
  <2>6. PICK f \in [Nat -> D] : \A pos \in Nat : f[pos] = step[<<f, pos>>]
    BY ONLY <2>5
  <2>. QED
    BY <2>3, <2>6
<1>6. f = F(f)
  BY <1>5
<1>7. found = F(found)
  BY <1>6
<1>. HIDE DEF found
<1>8. \A pos \in Nat : found[pos] = FoundFrom(data, found, pos)
  BY <1>7
<1>. DEFINE T == {pos \in Nat : found[pos] = f[pos]}
<1>9. ASSUME NEW pos \in Nat, \A q \in Nat : m[q] < m[pos] => q \in T PROVE pos \in T
  <2>1. FoundFrom(data, found, pos) = FoundFrom(data, f, pos)
    BY <1>3, <1>9
  <2>. QED
    BY <1>5, <1>8, <2>1
<1>. HIDE DEF T
<1>10. \A pos \in Nat : found[pos] = f[pos]
  <2>1. Inductive(Nat, m, T)
    BY <1>4, <1>9 DEF Inductive
  <2>2. \A pos \in Nat : pos \in T
    BY ONLY <2>1, MeasureInduction
  <2>. QED
    BY <2>2 DEF T
<1>11. Finds(f, data)
  <2>1. f[0] = found[0]
    BY <1>10
  <2>. QED
    BY <1>1, <1>5, <2>1 DEF Finds
<1>. QED
  BY <1>5, <1>11 DEF D

-----------------------------------------------------------------------------
(* A file that is cut off. *)

\* The id in a session key whose body begins at a.
IdOf(data, a) == SubSeq(data, a + 2, a + 9)

LEMMA IdAt ==
  ASSUME NEW data \in Seq(Byte), NEW a \in Nat, a + 9 <= Len(data)
  PROVE  /\ IdOf(data, a) \in Seq(Byte)
         /\ Len(IdOf(data, a)) = 8
         /\ \A i \in 1 .. 8 : IdOf(data, a)[i] = data[a + 1 + i]
<1>. PICK p \in Int, q \in Int : p = a + 2 /\ q = a + 9
  OBVIOUS
<1>1. \A i \in p .. q : data[i] \in Byte
  <2>1. \A i \in p .. q : i \in 1 .. Len(data)
    BY ONLY p = a + 2, q = a + 9, a \in Nat, Len(data) \in Nat, a + 9 <= Len(data)
  <2>. QED
    BY <2>1
<1>2. /\ SubSeq(data, p, q) \in Seq(Byte)
      /\ Len(SubSeq(data, p, q)) = IF p <= q THEN q - p + 1 ELSE 0
      /\ \A i \in 1 .. q - p + 1 : SubSeq(data, p, q)[i] = data[p + i - 1]
  BY ONLY <1>1, p \in Int, q \in Int, SubSeqProperties
<1>3. q - p + 1 = 8 /\ p <= q /\ \A i \in 1 .. 8 : p + i - 1 = a + 1 + i
  BY ONLY p = a + 2, q = a + 9, a \in Nat
<1>4. IdOf(data, a) = SubSeq(data, p, q)
  BY DEF IdOf
<1>. QED
  BY ONLY <1>2, <1>3, <1>4

\* The same eight bytes in two files.
SameBytes(data, a, other, b) == \A i \in 2 .. 9 : data[a + i] = other[b + i]

LEMMA SameId ==
  ASSUME NEW data \in Seq(Byte), NEW other \in Seq(Byte), NEW a \in Nat, NEW b \in Nat,
         a + 9 <= Len(data), b + 9 <= Len(other), SameBytes(data, a, other, b)
  PROVE  IdOf(data, a) = IdOf(other, b)
<1>1. PICK s \in Seq(Byte) :
        s = IdOf(data, a) /\ Len(s) = 8 /\ \A i \in 1 .. 8 : s[i] = data[a + 1 + i]
  BY IdAt
<1>2. PICK t \in Seq(Byte) :
        t = IdOf(other, b) /\ Len(t) = 8 /\ \A i \in 1 .. 8 : t[i] = other[b + 1 + i]
  BY IdAt
<1>3. ASSUME NEW i \in 1 .. 8 PROVE s[i] = t[i]
  <2>1. i + 1 \in 2 .. 9 /\ a + 1 + i = a + (i + 1) /\ b + 1 + i = b + (i + 1)
    BY ONLY i \in 1 .. 8, a \in Nat, b \in Nat
  <2>2. s[i] = data[a + (i + 1)] /\ t[i] = other[b + (i + 1)]
    BY <1>1, <1>2, <2>1
  <2>. QED
    BY <2>1, <2>2 DEF SameBytes
<1>4. s = t
  BY ONLY <1>1, <1>2, <1>3, s \in Seq(Byte), t \in Seq(Byte), SeqEqual
<1>. QED
  BY <1>1, <1>2, <1>4

\* The walk goes on in the file where it does in a part of it.
LEMMA PacketOfPart ==
  ASSUME NEW data \in Seq(Byte), NEW cut \in Seq(Byte), Begins(cut, data),
         NEW pos \in Nat, NEW h, h = PacketAt(cut, pos), ~IsLast(h, Len(cut))
  PROVE  /\ PacketAt(data, pos) = h
         /\ ~IsLast(h, Len(data))
         /\ IdsIn(data, h) = IdsIn(cut, h)
<1>. PICK n \in Nat, m \in Nat : n = Len(data) /\ m = Len(cut) /\ m <= n
  BY DEF Begins
<1>1. /\ pos < m /\ IsHeader(cut, pos) /\ h = Header(cut, pos)
      /\ h.off \in pos + 2 .. m
      /\ h.tag = PKESK => h.off + 9 <= m
  BY PacketIs
<1>2. PICK o \in Nat : o = h.off /\ o <= m
  BY ONLY <1>1, pos \in Nat, m \in Nat
<1>3. PacketAt(data, pos) = h
  <2>1. IsHeader(data, pos) /\ Header(data, pos) = h
    BY <1>1, HeaderOfPart
  <2>2. pos < Len(data)
    BY <1>1
  <2>. QED
    BY <2>1, <2>2, HeaderOrNone DEF PacketAt
<1>4. h.tag \in EskTags
  BY ONLY ~IsLast(h, Len(cut)) DEF IsLast
<1>5. ~IsLast(h, Len(data))
  <2>1. h.tag = PKESK => ~ h.off + 9 > Len(data)
    BY ONLY <1>1, <1>2, o \in Nat, n \in Nat, m \in Nat, m <= n, n = Len(data)
  <2>. QED
    BY ONLY <1>4, <2>1 DEF IsLast
<1>6. IdsIn(data, h) = IdsIn(cut, h)
  <2>. SUFFICES ASSUME h.tag = PKESK
                PROVE  IdOf(data, o) = IdOf(cut, o)
    BY <1>2 DEF IdsIn, IdOf
  <2>1. o + 9 <= m
    BY <1>1, <1>2
  <2>2. SameBytes(data, o, cut, o)
    <3>1. \A i \in 1 .. m : cut[i] = data[i]
      BY DEF Begins
    <3>2. \A i \in 2 .. 9 : o + i \in 1 .. m
      BY ONLY <2>1, o \in Nat, m \in Nat
    <3>. QED
      BY <3>1, <3>2 DEF SameBytes
  <2>. QED
    BY <2>1, <2>2, SameId
<1>. QED
  BY <1>3, <1>5, <1>6

\* In a file that is cut off, anywhere, passfl_crypto_file_keyids finds no id
\* that is not one of the whole file: whatever packet the end falls in.
THEOREM CutOffFindsNoOther ==
  ASSUME NEW data \in Seq(Byte), NEW cut \in Seq(Byte), Begins(cut, data)
  PROVE  FileKeyIds(cut) \subseteq FileKeyIds(data)
<1>1. PICK f \in [Nat -> SUBSET Seq(Byte)] : Finds(f, cut)
  BY WalkUnfolds
<1>2. PICK g \in [Nat -> SUBSET Seq(Byte)] : Finds(g, data)
  BY WalkUnfolds
<1>. PICK len \in Nat : len = Len(cut)
  OBVIOUS
<1>. DEFINE m == [pos \in Nat |-> IF pos < len THEN len - pos ELSE 0]
            T == {pos \in Nat : f[pos] \subseteq g[pos]}
<1>3. ASSUME NEW pos \in Nat, \A q \in Nat : m[q] < m[pos] => q \in T PROVE pos \in T
  <2>1. f[pos] = FoundFrom(cut, f, pos) /\ g[pos] = FoundFrom(data, g, pos)
    BY <1>1, <1>2 DEF Finds
  <2>2. PICK h : h = PacketAt(cut, pos)
    OBVIOUS
  <2>3. CASE IsLast(h, Len(cut))
    BY <2>1, <2>2, <2>3 DEF FoundFrom
  <2>4. CASE ~IsLast(h, Len(cut))
    <3>1. PacketAt(data, pos) = h /\ ~IsLast(h, Len(data)) /\ IdsIn(data, h) = IdsIn(cut, h)
      BY <2>2, <2>4, PacketOfPart
    <3>2. pos < len /\ h.off \in pos + 2 .. len /\ h.len \in Nat
      BY <2>2, <2>4, PacketIs
    <3>3. PICK next \in Nat : next = h.off + h.len /\ next > pos
      BY <3>2
    <3>4. f[next] \subseteq g[next]
      <4>1. m[next] < m[pos]
        BY <3>2, <3>3
      <4>. QED
        BY <1>3, <4>1
    <3>5. f[pos] = IdsIn(cut, h) \cup f[next] /\ g[pos] = IdsIn(cut, h) \cup g[next]
      BY <2>1, <2>2, <2>4, <3>1, <3>3 DEF FoundFrom
    <3>. QED
      BY <3>4, <3>5
  <2>. QED
    BY <2>3, <2>4
<1>4. m \in [Nat -> Nat]
  OBVIOUS
<1>5. Inductive(Nat, m, T)
  BY <1>3, <1>4 DEF Inductive
<1>6. \A pos \in Nat : pos \in T
  BY ONLY <1>5, MeasureInduction
<1>7. f[0] \subseteq g[0]
  BY <1>6
<1>. QED
  BY <1>1, <1>2, <1>7 DEF Finds

-----------------------------------------------------------------------------
(* A file that follows other bytes: the walk through it is the same. *)

\* The file d lies in the file data, behind its first k bytes, to the end.
Behind(d, data, k) ==
  /\ Len(data) = k + Len(d)
  /\ \A i \in 1 .. Len(d) : data[k + i] = d[i]

LEMMA HeaderBehind ==
  ASSUME NEW data \in Seq(Byte), NEW d \in Seq(Byte), NEW k \in Nat, Behind(d, data, k),
         NEW pos \in Nat, pos < Len(d)
  PROVE  /\ IsHeader(data, k + pos) <=> IsHeader(d, pos)
         /\ IsHeader(d, pos) => /\ Header(data, k + pos).tag = Header(d, pos).tag
                                /\ Header(data, k + pos).off = k + Header(d, pos).off
                                /\ Header(data, k + pos).len = Header(d, pos).len
<1>. PICK n \in Nat : n = Len(d) /\ Len(data) = k + n /\ pos < n
  BY DEF Behind
<1>. PICK p \in Nat : p = k + pos
  OBVIOUS
<1>. PICK hdr, c : hdr = d[pos + 1] /\ c = d[pos + 2]
  OBVIOUS
<1>0. \A i \in 1 .. n : data[k + i] = d[i]
  BY DEF Behind
<1>1. data[p + 1] = hdr /\ (pos + 1 < n => data[p + 2] = c)
  <2>1. pos + 1 \in 1 .. n /\ p + 1 = k + (pos + 1) /\ p + 2 = k + (pos + 2)
        /\ (pos + 1 < n => pos + 2 \in 1 .. n)
    BY ONLY pos \in Nat, k \in Nat, n \in Nat, p = k + pos, pos < n
  <2>. QED
    BY <1>0, <2>1
<1>. PICK w : w = LengthBytes(hdr, c)
  OBVIOUS
<1>. PICK first \in Nat : first = IF IsNew(hdr) THEN pos + 3 ELSE pos + 2
  OBVIOUS
<1>. PICK later \in Nat : later = k + first
  OBVIOUS
<1>2. later = IF IsNew(hdr) THEN p + 3 ELSE p + 2
  BY ONLY later = k + first, first = IF IsNew(hdr) THEN pos + 3 ELSE pos + 2, p = k + pos,
     pos \in Nat, k \in Nat
<1>3. w \in {NoLength, 0, 1, 2, 4}
  BY LengthBytesIs
<1>4. HeaderEnd(hdr, c, pos) = first + w - 1 /\ HeaderEnd(hdr, c, p) = later + w - 1
  BY <1>2 DEF HeaderEnd
<1>5. IsHeader(data, p) <=> IsHeader(d, pos)
  <2>1. p + 1 >= Len(data) <=> pos + 1 >= n
    BY ONLY p = k + pos, Len(data) = k + n, k \in Nat, pos \in Nat, n \in Nat
  <2>2. w # NoLength => (later + w - 1 > Len(data) <=> first + w - 1 > n)
    BY ONLY <1>3, later = k + first, Len(data) = k + n, k \in Nat, first \in Nat, n \in Nat
  <2>3. CASE pos + 1 >= n
    BY ONLY <2>1, <2>3, n = Len(d) DEF IsHeader
  <2>4. CASE ~ pos + 1 >= n
    <3>1. data[p + 2] = c
      BY ONLY <1>1, <2>4, pos \in Nat, n \in Nat
    <3>2. IsHeader(data, p) <=> /\ ~ hdr < 128
                                /\ w # NoLength
                                /\ ~ later + w - 1 > Len(data)
      BY ONLY <1>1, <1>4, <2>1, <2>4, <3>1, w = LengthBytes(hdr, c) DEF IsHeader
    <3>3. IsHeader(d, pos) <=> /\ ~ hdr < 128
                               /\ w # NoLength
                               /\ ~ first + w - 1 > n
      BY ONLY <1>4, <2>4, w = LengthBytes(hdr, c), hdr = d[pos + 1], c = d[pos + 2], n = Len(d)
         DEF IsHeader
    <3>. QED
      BY ONLY <2>2, <3>2, <3>3
  <2>. QED
    BY <2>3, <2>4
<1>6. ASSUME IsHeader(d, pos)
      PROVE  /\ Header(data, p).tag = Header(d, pos).tag
             /\ Header(data, p).off = k + Header(d, pos).off
             /\ Header(data, p).len = Header(d, pos).len
  <2>1. /\ w \in {0, 1, 2, 4} /\ first + w - 1 <= n /\ pos + 1 < n
    <3>1. w # NoLength /\ ~ first + w - 1 > n /\ ~ pos + 1 >= n
      BY ONLY <1>4, <1>6, w = LengthBytes(hdr, c), hdr = d[pos + 1], c = d[pos + 2], n = Len(d)
         DEF IsHeader
    <3>. QED
      BY ONLY <1>3, <3>1, pos \in Nat, n \in Nat, first \in Nat
  <2>2. data[p + 2] = c
    BY <1>1, <2>1
  <2>3. Number(data, later, w) = Number(d, first, w)
    <3>0. \A j \in Nat : first + j <= n => data[later + j] = d[first + j]
      <4>1. ASSUME NEW j \in Nat, first + j <= n PROVE data[later + j] = d[first + j]
        <5>1. first + j \in 1 .. n /\ later + j = k + (first + j)
          BY ONLY <4>1, first = IF IsNew(hdr) THEN pos + 3 ELSE pos + 2, pos \in Nat, n \in Nat,
             later = k + first, k \in Nat, j \in Nat
        <5>. QED
          BY <1>0, <5>1
      <4>. QED
        BY <4>1
    <3>1. w >= 1 => data[later] = d[first]
      <4>1. w >= 1 => first + 0 <= n
        BY <2>1
      <4>2. later + 0 = later /\ first + 0 = first /\ 0 \in Nat
        OBVIOUS
      <4>. QED
        BY ONLY <3>0, <4>1, <4>2
    <3>2. w >= 2 => data[later + 1] = d[first + 1]
      <4>1. w >= 2 => first + 1 <= n
        BY <2>1
      <4>2. 1 \in Nat
        OBVIOUS
      <4>. QED
        BY ONLY <3>0, <4>1, <4>2
    <3>3. w = 4 => data[later + 2] = d[first + 2] /\ data[later + 2 + 1] = d[first + 2 + 1]
      <4>1. w = 4 => first + 2 <= n /\ first + 3 <= n
        BY <2>1
      <4>2. later + 2 + 1 = later + 3 /\ first + 2 + 1 = first + 3
        OBVIOUS
      <4>3. 2 \in Nat /\ 3 \in Nat
        OBVIOUS
      <4>. QED
        BY ONLY <3>0, <4>1, <4>2, <4>3
    <3>. QED
      BY ONLY <2>1, <3>1, <3>2, <3>3 DEF Number
  <2>4. Header(data, p).tag = Tag(hdr) /\ Header(d, pos).tag = Tag(hdr)
    BY ONLY <1>1, hdr = d[pos + 1] DEF Header
  <2>5. Header(data, p).off = later + w - 1 /\ Header(d, pos).off = first + w - 1
    BY ONLY <1>1, <1>4, <2>2, hdr = d[pos + 1], c = d[pos + 2] DEF Header
  <2>6. later + w - 1 = k + (first + w - 1)
    BY ONLY <2>1, later = k + first, k \in Nat, first \in Nat
  <2>7. Header(data, p).len = Header(d, pos).len
    <3>1. Header(data, p).len =
            CASE IsNew(hdr) /\ w = 0 -> c
              [] IsNew(hdr) /\ w = 1 -> 256 * (c - 192) + Number(data, later, w) + 192
              [] OTHER -> Number(data, later, w)
      BY ONLY <1>1, <1>2, <2>2, w = LengthBytes(hdr, c) DEF Header
    <3>2. Header(d, pos).len =
            CASE IsNew(hdr) /\ w = 0 -> c
              [] IsNew(hdr) /\ w = 1 -> 256 * (c - 192) + Number(d, first, w) + 192
              [] OTHER -> Number(d, first, w)
      BY ONLY hdr = d[pos + 1], c = d[pos + 2], w = LengthBytes(hdr, c),
         first = IF IsNew(hdr) THEN pos + 3 ELSE pos + 2 DEF Header
    <3>. QED
      BY ONLY <2>3, <3>1, <3>2
  <2>. QED
    BY <2>4, <2>5, <2>6, <2>7
<1>. QED
  BY <1>5, <1>6

\* The walk stops behind the other bytes where it does without them, and finds
\* the same.
LEMMA PacketBehind ==
  ASSUME NEW data \in Seq(Byte), NEW d \in Seq(Byte), NEW k \in Nat, Behind(d, data, k),
         NEW pos \in Nat, NEW h, h = PacketAt(d, pos), NEW g, g = PacketAt(data, k + pos)
  PROVE  /\ IsLast(g, Len(data)) <=> IsLast(h, Len(d))
         /\ ~IsLast(h, Len(d)) => /\ g.off = k + h.off /\ g.len = h.len
                                  /\ IdsIn(data, g) = IdsIn(d, h)
<1>. PICK n \in Nat : n = Len(d) /\ Len(data) = k + n
  BY DEF Behind
<1>1. IsLast(NoHeader, n) /\ IsLast(NoHeader, k + n)
  BY DEF IsLast, NoHeader, EskTags, PKESK, SKESK
<1>2. CASE pos >= n
  <2>1. h = NoHeader /\ g = NoHeader
    BY <1>2 DEF PacketAt
  <2>. QED
    BY <1>1, <2>1
<1>3. CASE pos < n /\ ~IsHeader(d, pos)
  <2>1. ~IsHeader(data, k + pos)
    BY <1>3, HeaderBehind
  <2>2. h = NoHeader /\ g = NoHeader
    BY <1>3, <2>1, HeaderOrNone DEF PacketAt
  <2>. QED
    BY <1>1, <2>2
<1>4. CASE pos < n /\ IsHeader(d, pos)
  <2>1. h = Header(d, pos)
    BY <1>4, HeaderOrNone DEF PacketAt
  <2>2. IsHeader(data, k + pos) /\ g.tag = h.tag /\ g.off = k + h.off /\ g.len = h.len
    <3>1. IsHeader(data, k + pos)
      BY <1>4, HeaderBehind
    <3>2. k + pos < Len(data)
      BY <1>4
    <3>3. g = Header(data, k + pos)
      BY <3>1, <3>2, HeaderOrNone DEF PacketAt
    <3>. QED
      BY <1>4, <2>1, <3>1, <3>3, HeaderBehind
  <2>3. PICK o \in Nat : o = h.off
    <3>1. h.off \in pos + 2 .. Len(d)
      BY <1>4, <2>1, HeaderIs
    <3>. QED
      BY <3>1
  <2>4. IsLast(g, Len(data)) <=> IsLast(h, Len(d))
    <3>1. g.off + 9 > Len(data) <=> h.off + 9 > Len(d)
      <4>1. k + o + 9 > k + n <=> o + 9 > n
        BY ONLY o \in Nat, k \in Nat, n \in Nat
      <4>. QED
        BY ONLY <2>2, <2>3, <4>1, n = Len(d), Len(data) = k + n
    <3>. QED
      BY ONLY <2>2, <3>1 DEF IsLast
  <2>5. ASSUME ~IsLast(h, Len(d)) PROVE IdsIn(data, g) = IdsIn(d, h)
    <3>. SUFFICES ASSUME h.tag = PKESK
                  PROVE  IdOf(data, g.off) = IdOf(d, h.off)
      BY <2>2 DEF IdsIn, IdOf
    <3>1. o + 9 <= n
      <4>1. ~ h.off + 9 > Len(d)
        BY ONLY <2>5, h.tag = PKESK DEF IsLast
      <4>. QED
        BY ONLY <2>3, <4>1, o \in Nat, n \in Nat, n = Len(d)
    <3>2. PICK b \in Nat : b = k + o
      OBVIOUS
    <3>3. SameBytes(data, b, d, o)
      <4>1. \A i \in 2 .. 9 : o + i \in 1 .. n /\ b + i = k + (o + i)
        BY ONLY <3>1, o \in Nat, k \in Nat, n \in Nat, b = k + o
      <4>2. \A i \in 1 .. n : data[k + i] = d[i]
        BY DEF Behind
      <4>. QED
        BY <4>1, <4>2 DEF SameBytes
    <3>4. b + 9 <= Len(data)
      BY <3>1, <3>2
    <3>5. IdOf(data, b) = IdOf(d, o)
      <4>1. o + 9 <= Len(d)
        BY <3>1
      <4>. QED
        BY ONLY <3>3, <3>4, <4>1, data \in Seq(Byte), d \in Seq(Byte), b \in Nat, o \in Nat, SameId
    <3>. QED
      BY ONLY <2>2, <2>3, <3>2, <3>5
  <2>. QED
    BY <2>2, <2>4, <2>5
<1>. QED
  BY <1>2, <1>3, <1>4

LEMMA WalkBehind ==
  ASSUME NEW data \in Seq(Byte), NEW d \in Seq(Byte), NEW k \in Nat, Behind(d, data, k),
         NEW f, Finds(f, d), NEW g, Finds(g, data)
  PROVE  g[k] = FileKeyIds(d)
<1>. PICK len \in Nat : len = Len(d)
  OBVIOUS
<1>. DEFINE m == [pos \in Nat |-> IF pos < len THEN len - pos ELSE 0]
            T == {pos \in Nat : g[k + pos] = f[pos]}
<1>1. ASSUME NEW pos \in Nat, \A q \in Nat : m[q] < m[pos] => q \in T PROVE pos \in T
  <2>1. k + pos \in Nat
    OBVIOUS
  <2>2. f[pos] = FoundFrom(d, f, pos) /\ g[k + pos] = FoundFrom(data, g, k + pos)
    BY <2>1 DEF Finds
  <2>3. PICK h, there : h = PacketAt(d, pos) /\ there = PacketAt(data, k + pos)
    OBVIOUS
  <2>4. IsLast(there, Len(data)) <=> IsLast(h, Len(d))
    BY <2>3, PacketBehind
  <2>5. CASE IsLast(h, Len(d))
    BY <2>2, <2>3, <2>4, <2>5 DEF FoundFrom
  <2>6. CASE ~IsLast(h, Len(d))
    <3>1. there.off = k + h.off /\ there.len = h.len /\ IdsIn(data, there) = IdsIn(d, h)
      <4>1. /\ PacketAt(data, k + pos).off = k + PacketAt(d, pos).off
            /\ PacketAt(data, k + pos).len = PacketAt(d, pos).len
            /\ IdsIn(data, PacketAt(data, k + pos)) = IdsIn(d, PacketAt(d, pos))
        <5>1. ~IsLast(PacketAt(d, pos), Len(d))
          BY ONLY <2>3, <2>6
        <5>. QED
          BY ONLY data \in Seq(Byte), d \in Seq(Byte), k \in Nat, pos \in Nat,
             Behind(d, data, k), <5>1, PacketBehind
      <4>. QED
        BY ONLY <2>3, <4>1
    <3>2. pos < len /\ h.off \in pos + 2 .. len /\ h.len \in Nat
      BY <2>3, <2>6, PacketIs
    <3>3. PICK next \in Nat : next = h.off + h.len /\ next > pos /\ there.off + there.len = k + next
      <4>1. PICK o \in Nat, l \in Nat : o = h.off /\ l = h.len /\ o > pos
        BY ONLY <3>2, pos \in Nat, len \in Nat
      <4>2. o + l \in Nat /\ o + l > pos
        BY ONLY <4>1, pos \in Nat, o \in Nat, l \in Nat
      <4>3. k + o + l = k + (o + l)
        BY ONLY k \in Nat, o \in Nat, l \in Nat
      <4>. QED
        BY ONLY <3>1, <4>1, <4>2, <4>3
    <3>4. g[k + next] = f[next]
      <4>1. m[next] < m[pos]
        BY <3>2, <3>3
      <4>. QED
        BY <1>1, <4>1
    <3>5. f[pos] = IdsIn(d, h) \cup f[next] /\ g[k + pos] = IdsIn(d, h) \cup g[k + next]
      BY <2>2, <2>3, <2>4, <2>6, <3>1, <3>3 DEF FoundFrom
    <3>. QED
      BY <3>4, <3>5
  <2>. QED
    BY <2>5, <2>6
<1>2. m \in [Nat -> Nat]
  OBVIOUS
<1>3. Inductive(Nat, m, T)
  BY <1>1, <1>2 DEF Inductive
<1>4. \A pos \in Nat : pos \in T
  BY ONLY <1>3, MeasureInduction
<1>5. g[k + 0] = f[0] /\ k + 0 = k
  BY <1>4
<1>. QED
  BY <1>5 DEF Finds

-----------------------------------------------------------------------------
(* The headers that gpg and other programs write. *)

\* A first byte in the old format, with so many bytes of length.
OldFirst(hdr, tag, k) == hdr = 128 + 4 * tag + k

LEMMA OldByte ==
  ASSUME NEW tag \in {PKESK, SKESK}, NEW k \in 0 .. 2, NEW hdr, OldFirst(hdr, tag, k)
  PROVE  hdr \in 128 .. 255 /\ ~IsNew(hdr) /\ Tag(hdr) = tag /\ hdr % 4 = k
<1>0. hdr = 128 + 4 * tag + k
  BY DEF OldFirst
<1>1. tag \in {1, 3}
  BY DEF PKESK, SKESK
<1>2. hdr \in 128 .. 255 /\ (hdr \div 64) % 2 = 0 /\ (hdr \div 4) % 16 = tag /\ hdr % 4 = k
  <2>1. CASE tag = 1
    BY ONLY <2>1, k \in 0 .. 2, <1>0
  <2>2. CASE tag = 3
    BY ONLY <2>2, k \in 0 .. 2, <1>0
  <2>. QED
    BY ONLY <1>1, <2>1, <2>2
<1>3. ~IsNew(hdr)
  BY ONLY <1>2 DEF IsNew
<1>. QED
  BY ONLY <1>2, <1>3 DEF Tag

LEMMA NewByte ==
  ASSUME NEW tag \in {PKESK, SKESK}, NEW hdr, hdr = 192 + tag
  PROVE  hdr \in 128 .. 255 /\ IsNew(hdr) /\ Tag(hdr) = tag
<1>1. tag \in {1, 3}
  BY DEF PKESK, SKESK
<1>2. hdr \in 128 .. 255 /\ (hdr \div 64) % 2 = 1 /\ hdr % 64 = tag
  <2>1. CASE tag = 1
    BY ONLY <2>1, hdr = 192 + tag
  <2>2. CASE tag = 3
    BY ONLY <2>2, hdr = 192 + tag
  <2>. QED
    BY ONLY <1>1, <2>1, <2>2
<1>3. IsNew(hdr)
  BY ONLY <1>2 DEF IsNew
<1>. QED
  BY ONLY <1>2, <1>3 DEF Tag

LEMMA LastByte ==
  ASSUME NEW n \in Nat
  PROVE  n \div 256 \in Nat /\ n % 256 \in 0 .. 255 /\ n = 256 * (n \div 256) + (n % 256)
  BY ONLY n \in Nat

\* The bytes h are a header, and nothing else.
IsHeaderOf(h, tag, n) ==
  /\ h \in Seq(Byte) /\ Len(h) \in Nat \ {0, 1}
  /\ IsHeader(h, 0)
  /\ Header(h, 0) = [tag |-> tag, off |-> Len(h), len |-> n]

LEMMA OldHeader ==
  ASSUME NEW tag \in {PKESK, SKESK}, NEW n \in Nat, NEW k \in 0 .. 2, NEW h \in Seq(Byte),
         NEW w \in {1, 2, 4}, w = IF k = 0 THEN 1 ELSE IF k = 1 THEN 2 ELSE 4,
         h[1] = 128 + 4 * tag + k, Len(h) = 1 + w, Number(h, 2, w) = n
  PROVE  IsHeaderOf(h, tag, n)
<1>. PICK hdr : hdr = h[1]
  OBVIOUS
<1>. PICK c : c = h[2]
  OBVIOUS
<1>1. hdr \in 128 .. 255 /\ ~IsNew(hdr) /\ Tag(hdr) = tag /\ hdr % 4 = k
  <2>1. OldFirst(hdr, tag, k)
    BY ONLY hdr = h[1], h[1] = 128 + 4 * tag + k DEF OldFirst
  <2>. QED
    BY ONLY <2>1, OldByte, tag \in {PKESK, SKESK}, k \in 0 .. 2
<1>2. LengthBytes(hdr, c) = w
  BY ONLY <1>1, k \in 0 .. 2, w = IF k = 0 THEN 1 ELSE IF k = 1 THEN 2 ELSE 4 DEF LengthBytes
<1>3. HeaderEnd(hdr, c, 0) = 1 + w
  BY ONLY <1>1, <1>2, w \in {1, 2, 4} DEF HeaderEnd
<1>4. hdr = h[0 + 1] /\ c = h[0 + 2] /\ ~ hdr < 128 /\ ~ 0 + 1 >= Len(h) /\ w # NoLength
      /\ ~ 1 + w > Len(h)
  <2>1. 0 + 1 = 1 /\ 0 + 2 = 2 /\ ~ 0 + 1 >= Len(h) /\ ~ 1 + w > Len(h) /\ w # -1
    BY ONLY Len(h) = 1 + w, w \in {1, 2, 4}
  <2>2. ~ hdr < 128
    BY ONLY <1>1
  <2>. QED
    BY ONLY <2>1, <2>2, hdr = h[1], c = h[2] DEF NoLength
<1>5. IsHeader(h, 0)
  BY ONLY <1>2, <1>3, <1>4 DEF IsHeader
<1>6. (IF IsNew(hdr) THEN 0 + 3 ELSE 0 + 2) = 2
  BY <1>1
<1>7. Header(h, 0) = [tag |-> tag, off |-> 1 + w, len |-> Number(h, 2, w)]
  BY ONLY <1>1, <1>2, <1>3, <1>4, <1>6 DEF Header
<1>. QED
  BY ONLY <1>5, <1>7, Len(h) = 1 + w, w \in {1, 2, 4}, h \in Seq(Byte), Number(h, 2, w) = n DEF IsHeaderOf

\* the two first bytes of a header in the new format, the second of which says
\* that w more bytes hold the length
IsNewForm(h, tag, n, c, w) ==
  /\ c = h[2] /\ w \in {0, 1, 4} /\ w = LengthBytes(192 + tag, c)
  /\ h[1] = 192 + tag /\ Len(h) = 2 + w
  /\ n = IF w = 0 THEN c ELSE IF w = 1 THEN 256 * (c - 192) + Number(h, 3, w) + 192
         ELSE Number(h, 3, w)

\* A header in the new format is read as it was written.
LEMMA NewHeader ==
  ASSUME NEW tag \in {PKESK, SKESK}, NEW n \in Nat, NEW h \in Seq(Byte),
         NEW c, NEW w, IsNewForm(h, tag, n, c, w)
  PROVE  IsHeaderOf(h, tag, n)
<1>0. /\ c = h[2] /\ w \in {0, 1, 4} /\ w = LengthBytes(192 + tag, c)
      /\ h[1] = 192 + tag /\ Len(h) = 2 + w
      /\ n = IF w = 0 THEN c ELSE IF w = 1 THEN 256 * (c - 192) + Number(h, 3, w) + 192
              ELSE Number(h, 3, w)
  BY DEF IsNewForm
<1>. PICK hdr : hdr = h[1]
  OBVIOUS
<1>1. hdr \in 128 .. 255 /\ IsNew(hdr) /\ Tag(hdr) = tag
  BY ONLY NewByte, tag \in {PKESK, SKESK}, hdr = h[1], <1>0
<1>2. LengthBytes(hdr, c) = w
  BY ONLY <1>0, hdr = h[1]
<1>3. HeaderEnd(hdr, c, 0) = 2 + w
  BY ONLY <1>0, <1>1, <1>2 DEF HeaderEnd
<1>4. hdr = h[0 + 1] /\ c = h[0 + 2] /\ ~ hdr < 128 /\ ~ 0 + 1 >= Len(h) /\ w # NoLength
      /\ ~ 2 + w > Len(h)
  <2>1. 0 + 1 = 1 /\ 0 + 2 = 2 /\ ~ 0 + 1 >= Len(h) /\ ~ 2 + w > Len(h) /\ w # -1
    BY ONLY <1>0
  <2>2. ~ hdr < 128
    BY ONLY <1>1
  <2>. QED
    BY ONLY <1>0, <2>1, <2>2, hdr = h[1] DEF NoLength
<1>5. IsHeader(h, 0)
  BY ONLY <1>2, <1>3, <1>4 DEF IsHeader
<1>6. (IF IsNew(hdr) THEN 0 + 3 ELSE 0 + 2) = 3
  BY ONLY <1>1
<1>. PICK number : number = Number(h, 3, w)
  OBVIOUS
<1>7. Header(h, 0) = [tag |-> tag, off |-> 2 + w,
                      len |-> CASE IsNew(hdr) /\ w = 0 -> c
                                [] IsNew(hdr) /\ w = 1 -> 256 * (c - 192) + number + 192
                                [] OTHER -> number]
  BY ONLY <1>1, <1>2, <1>3, <1>4, <1>6, number = Number(h, 3, w) DEF Header
<1>8. (CASE IsNew(hdr) /\ w = 0 -> c
         [] IsNew(hdr) /\ w = 1 -> 256 * (c - 192) + number + 192
         [] OTHER -> number) = n
  BY ONLY <1>0, <1>1, number = Number(h, 3, w)
<1>. QED
  BY ONLY <1>0, <1>5, <1>7, <1>8, h \in Seq(Byte) DEF IsHeaderOf

\* The number in four bytes, and whether it can be.
InFour(n) == <<n \div 16777216, (n \div 65536) % 256, (n \div 256) % 256, n % 256>>
FitsFour(n) == n \div 16777216 < 256

\* It is read as it was written.
LEMMA InFourIs ==
  ASSUME NEW n \in Nat, FitsFour(n)
  PROVE  \E a, b, c, d \in Byte :
           InFour(n) = <<a, b, c, d>> /\ 65536 * (256 * a + b) + (256 * c + d) = n
<1>. PICK a, b, c, d :
       a = n \div 16777216 /\ b = (n \div 65536) % 256 /\ c = (n \div 256) % 256 /\ d = n % 256
  BY ONLY TRUE
<1>0. InFour(n) = <<a, b, c, d>> /\ a < 256
  BY ONLY FitsFour(n), a = n \div 16777216, b = (n \div 65536) % 256, c = (n \div 256) % 256,
     d = n % 256 DEF InFour, FitsFour
<1>1. PICK x \in Nat, y \in Nat : x = n \div 256 /\ y = n \div 65536 /\ a \in Nat
  BY ONLY n \in Nat, a = n \div 16777216
<1>2. y = x \div 256 /\ a = y \div 256
  BY ONLY n \in Nat, a = n \div 16777216, <1>1
<1>3. x \div 256 \in Nat /\ x % 256 \in 0 .. 255 /\ x = 256 * (x \div 256) + (x % 256)
  BY ONLY x \in Nat, LastByte
<1>4. y \div 256 \in Nat /\ y % 256 \in 0 .. 255 /\ y = 256 * (y \div 256) + (y % 256)
  BY ONLY y \in Nat, LastByte
<1>5. n = 256 * x + d /\ d \in 0 .. 255
  BY ONLY LastByte, <1>1, n \in Nat, d = n % 256
<1>6. c = x % 256 /\ b = y % 256
  BY ONLY <1>1, b = (n \div 65536) % 256, c = (n \div 256) % 256
<1>7. x = 256 * y + c /\ c \in 0 .. 255
  BY ONLY <1>2, <1>3, <1>6
<1>8. y = 256 * a + b /\ b \in 0 .. 255
  BY ONLY <1>2, <1>4, <1>6
<1>9. a \in 0 .. 255
  BY ONLY <1>0, <1>1
<1>10. 65536 * (256 * a + b) + (256 * c + d) = n
  BY ONLY <1>1, <1>5, <1>7, <1>8, x \in Nat, y \in Nat, n \in Nat
<1>11. InFour(n) = <<a, b, c, d>> /\ 65536 * (256 * a + b) + (256 * c + d) = n
  BY ONLY <1>0, <1>10
<1>12. a \in Byte /\ b \in Byte /\ c \in Byte /\ d \in Byte
  BY ONLY <1>5, <1>7, <1>8, <1>9 DEF Byte
<1>. QED
  BY ONLY <1>11, <1>12

LEMMA ThenFour ==
  ASSUME NEW S, NEW s \in Seq(S), NEW a \in S, NEW b \in S, NEW c \in S, NEW d \in S, NEW h,
         h = s \o <<a, b, c, d>>
  PROVE  /\ h \in Seq(S) /\ Len(h) = Len(s) + 4
         /\ \A i \in 1 .. Len(s) : h[i] = s[i]
         /\ h[Len(s) + 1] = a /\ h[Len(s) + 2] = b /\ h[Len(s) + 3] = c /\ h[Len(s) + 4] = d
<1>0. <<a, b, c, d>> \in Seq(S)
  BY ONLY a \in S, b \in S, c \in S, d \in S
<1>1. PICK t \in Seq(S) : /\ t = <<a, b, c, d>> /\ Len(t) = 4
                         /\ t[1] = a /\ t[2] = b /\ t[3] = c /\ t[4] = d
  BY ONLY <1>0
<1>2. /\ h \in Seq(S) /\ Len(h) = Len(s) + Len(t)
      /\ \A i \in 1 .. Len(s) + Len(t) : h[i] = IF i <= Len(s) THEN s[i] ELSE t[i - Len(s)]
  BY ONLY <1>1, h = s \o <<a, b, c, d>>, s \in Seq(S), t \in Seq(S), ConcatProperties
<1>. PICK n \in Nat : n = Len(s)
  OBVIOUS
<1>3. \A k \in 1 .. 4 : h[n + k] = t[k]
  <2>1. \A k \in 1 .. 4 : n + k \in 1 .. n + 4 /\ ~ n + k <= n /\ n + k - n = k
    BY ONLY n \in Nat
  <2>. QED
    BY ONLY <1>1, <1>2, <2>1, n = Len(s)
<1>4. \A i \in 1 .. n : h[i] = s[i]
  <2>1. \A i \in 1 .. n : i \in 1 .. n + 4 /\ i <= n
    BY ONLY n \in Nat
  <2>. QED
    BY ONLY <1>1, <1>2, <2>1, n = Len(s)
<1>5. 1 \in 1 .. 4 /\ 2 \in 1 .. 4 /\ 3 \in 1 .. 4 /\ 4 \in 1 .. 4
  BY ONLY TRUE
<1>6. h[n + 1] = a /\ h[n + 2] = b /\ h[n + 3] = c /\ h[n + 4] = d
  BY ONLY <1>1, <1>3, <1>5
<1>. QED
  BY ONLY <1>1, <1>2, <1>4, <1>6, n = Len(s)

\* A header is read as it was written, in each of its six forms.
LEMMA HeaderRead ==
  ASSUME NEW tag \in {PKESK, SKESK}, NEW n \in Nat, NEW h \in Headers(tag, n)
  PROVE  IsHeaderOf(h, tag, n)
<1>. DEFINE old == 128 + 4 * tag
            old1 == 128 + 4 * tag + 1
            old2 == 128 + 4 * tag + 2
            new == 192 + tag
            high == 192 + (n - 192) \div 256
            a == <<old, n>>
            b == <<old1, n \div 256, n % 256>>
            c == <<old2>> \o InFour(n)
            d == <<new, 255>> \o InFour(n)
            e == <<new, n>>
            f == <<new, high, (n - 192) % 256>>
            one == n < 256
            two == n < 65536
            short == n < 192
            middle == n \in 192 .. 8383
            all == (IF one THEN {a} ELSE {}) \cup (IF two THEN {b} ELSE {})
                     \cup (IF FitsFour(n) THEN {c, d} ELSE {}) \cup (IF short THEN {e} ELSE {})
                     \cup (IF middle THEN {f} ELSE {})
<1>1. Headers(tag, n) = all
  BY ONLY DEF Headers, InFour, FitsFour
<1>2. old \in Byte /\ old1 \in Byte /\ old2 \in Byte /\ new \in Byte /\ IsNew(new)
  <2>1. tag \in {1, 3}
    BY DEF PKESK, SKESK
  <2>2. IsNew(new)
    BY NewByte
  <2>. QED
    BY ONLY <2>1, <2>2 DEF Byte
<1>3. old = 128 + 4 * tag + 0
  <2>1. tag \in {1, 3}
    BY DEF PKESK, SKESK
  <2>. QED
    BY ONLY <2>1
<1>. HIDE DEF old, old1, old2, new, high, a, b, c, d, e, f, one, two, short, middle
<1>4. \/ (one /\ h = a) \/ (two /\ h = b) \/ (FitsFour(n) /\ h = c) \/ (FitsFour(n) /\ h = d)
      \/ (short /\ h = e) \/ (middle /\ h = f)
  BY ONLY <1>1, h \in Headers(tag, n)
<1>5. ASSUME one, h = a PROVE IsHeaderOf(h, tag, n)
  <2>1. n \in Byte
    BY ONLY <1>5, n \in Nat DEF one, Byte
  <2>2. h \in Seq(Byte) /\ Len(h) = 2 /\ h[1] = old /\ h[2] = n
    BY ONLY <1>2, <1>5, <2>1 DEF a
  <2>3. Number(h, 2, 1) = n
    BY ONLY <2>2 DEF Number
  <2>. QED
    BY ONLY <1>3, <2>2, <2>3, tag \in {PKESK, SKESK}, n \in Nat, OldHeader
<1>6. ASSUME two, h = b PROVE IsHeaderOf(h, tag, n)
  <2>1. PICK q, r : q = n \div 256 /\ r = n % 256
    BY ONLY TRUE
  <2>2. q \in Nat /\ r \in 0 .. 255 /\ n = 256 * q + r
    BY ONLY <2>1, n \in Nat, LastByte
  <2>3. q \in Byte /\ r \in Byte
    BY ONLY <1>6, <2>2, n \in Nat DEF two, Byte
  <2>4. h = <<old1, q, r>>
    BY ONLY <1>6, <2>1 DEF b
  <2>5. h \in Seq(Byte) /\ Len(h) = 3 /\ h[1] = old1 /\ h[2] = q /\ h[2 + 1] = r
    BY ONLY <1>2, <2>3, <2>4
  <2>6. Number(h, 2, 2) = 256 * q + r
    BY ONLY <2>5 DEF Number
  <2>7. old1 = 128 + 4 * tag + 1
    BY DEF old1
  <2>. QED
    BY ONLY <2>2, <2>5, <2>6, <2>7, tag \in {PKESK, SKESK}, n \in Nat, OldHeader
<1>7. ASSUME FitsFour(n), h = c PROVE IsHeaderOf(h, tag, n)
  <2>1. PICK p \in Byte, q \in Byte, r \in Byte, s \in Byte :
          InFour(n) = <<p, q, r, s>> /\ 65536 * (256 * p + q) + (256 * r + s) = n
    BY ONLY <1>7, n \in Nat, InFourIs
  <2>2. <<old2>> \in Seq(Byte)
    BY ONLY <1>2
  <2>3. PICK t \in Seq(Byte) : t = <<old2>> /\ Len(t) = 1 /\ t[1] = old2
    BY ONLY <2>2
  <2>4. h = t \o <<p, q, r, s>>
    BY ONLY <1>7, <2>1, <2>3 DEF c
  <2>5. /\ h \in Seq(Byte) /\ Len(h) = Len(t) + 4 /\ \A i \in 1 .. Len(t) : h[i] = t[i]
        /\ h[Len(t) + 1] = p /\ h[Len(t) + 2] = q /\ h[Len(t) + 3] = r /\ h[Len(t) + 4] = s
    BY ONLY <2>4, t \in Seq(Byte), p \in Byte, q \in Byte, r \in Byte, s \in Byte, ThenFour
  <2>6. h \in Seq(Byte) /\ Len(h) = 1 + 4 /\ h[1] = old2
        /\ h[2] = p /\ h[2 + 1] = q /\ h[2 + 2] = r /\ h[2 + 2 + 1] = s
    BY ONLY <2>3, <2>5
  <2>7. Number(h, 2, 4) = 65536 * (256 * p + q) + (256 * r + s)
    BY ONLY <2>6 DEF Number
  <2>8. old2 = 128 + 4 * tag + 2
    BY DEF old2
  <2>9. Number(h, 2, 4) = n
    BY ONLY <2>1, <2>7
  <2>. QED
    BY ONLY <2>6, <2>8, <2>9, tag \in {PKESK, SKESK}, n \in Nat, OldHeader
<1>8. ASSUME FitsFour(n), h = d PROVE IsHeaderOf(h, tag, n)
  <2>1. PICK p \in Byte, q \in Byte, r \in Byte, s \in Byte :
          InFour(n) = <<p, q, r, s>> /\ 65536 * (256 * p + q) + (256 * r + s) = n
    BY ONLY <1>8, n \in Nat, InFourIs
  <2>2. <<new, 255>> \in Seq(Byte)
    <3>1. 255 \in Byte
      BY DEF Byte
    <3>. QED
      BY ONLY <1>2, <3>1
  <2>3. PICK t \in Seq(Byte) : t = <<new, 255>> /\ Len(t) = 2 /\ t[1] = new /\ t[2] = 255
    BY ONLY <2>2
  <2>4. h = t \o <<p, q, r, s>>
    BY ONLY <1>8, <2>1, <2>3 DEF d
  <2>5. /\ h \in Seq(Byte) /\ Len(h) = Len(t) + 4 /\ \A i \in 1 .. Len(t) : h[i] = t[i]
        /\ h[Len(t) + 1] = p /\ h[Len(t) + 2] = q /\ h[Len(t) + 3] = r /\ h[Len(t) + 4] = s
    BY ONLY <2>4, t \in Seq(Byte), p \in Byte, q \in Byte, r \in Byte, s \in Byte, ThenFour
  <2>6. h \in Seq(Byte) /\ Len(h) = 2 + 4 /\ h[1] = new /\ h[2] = 255
        /\ h[3] = p /\ h[3 + 1] = q /\ h[3 + 2] = r /\ h[3 + 2 + 1] = s
    BY ONLY <2>3, <2>5
  <2>7. Number(h, 3, 4) = 65536 * (256 * p + q) + (256 * r + s)
    BY ONLY <2>6 DEF Number
  <2>8. new = 192 + tag
    BY DEF new
  <2>9. Number(h, 3, 4) = n
    BY ONLY <2>1, <2>7
  <2>10. LengthBytes(new, 255) = 4
    BY ONLY <1>2 DEF LengthBytes
  <2>. QED
    <3>1. IsNewForm(h, tag, n, 255, 4)
      BY ONLY <2>6, <2>8, <2>9, <2>10 DEF IsNewForm
    <3>. QED
      BY ONLY <2>6, <3>1, tag \in {PKESK, SKESK}, n \in Nat, NewHeader
<1>9. ASSUME short, h = e PROVE IsHeaderOf(h, tag, n)
  <2>1. n \in Byte /\ n < 192
    BY ONLY <1>9, n \in Nat DEF short, Byte
  <2>2. h \in Seq(Byte) /\ Len(h) = 2 /\ h[1] = new /\ h[2] = n
    BY ONLY <1>2, <1>9, <2>1 DEF e
  <2>3. LengthBytes(new, n) = 0
    BY ONLY <1>2, <2>1 DEF LengthBytes
  <2>4. new = 192 + tag /\ Len(h) = 2 + 0
    BY ONLY <2>2 DEF new
  <2>5. IsNewForm(h, tag, n, n, 0)
    BY ONLY <2>2, <2>3, <2>4 DEF IsNewForm
  <2>. QED
    BY ONLY <2>2, <2>5, tag \in {PKESK, SKESK}, n \in Nat, NewHeader
<1>10. ASSUME middle, h = f PROVE IsHeaderOf(h, tag, n)
  <2>1. PICK m \in Nat : m = n - 192 /\ m < 8192 /\ n = m + 192
    BY ONLY <1>10, n \in Nat DEF middle
  <2>2. PICK s, r : s = m \div 256 /\ r = m % 256
    BY ONLY TRUE
  <2>3. s \in Nat /\ r \in 0 .. 255 /\ m = 256 * s + r
    BY ONLY <2>2, m \in Nat, LastByte
  <2>4. PICK q \in Int : q = 192 + s
    BY ONLY <2>3
  <2>5. q \in 192 .. 223 /\ q \in Byte /\ r \in Byte /\ 256 * (q - 192) + r + 192 = n
    BY ONLY <2>1, <2>3, <2>4, m \in Nat DEF Byte
  <2>6. h = <<new, q, r>>
    BY ONLY <1>10, <2>1, <2>2, <2>4 DEF f, high
  <2>7. h \in Seq(Byte) /\ Len(h) = 3 /\ h[1] = new /\ h[2] = q /\ h[3] = r
    BY ONLY <1>2, <2>5, <2>6
  <2>8. LengthBytes(new, q) = 1
    BY ONLY <1>2, <2>5 DEF LengthBytes
  <2>9. Number(h, 3, 1) = r
    BY ONLY <2>7 DEF Number
  <2>10. new = 192 + tag /\ Len(h) = 2 + 1
    BY ONLY <2>7 DEF new
  <2>. QED
    <3>1. IsNewForm(h, tag, n, q, 1)
      BY ONLY <2>5, <2>7, <2>8, <2>9, <2>10 DEF IsNewForm
    <3>. QED
      BY ONLY <2>7, <3>1, tag \in {PKESK, SKESK}, n \in Nat, NewHeader
<1>. QED
  BY ONLY <1>4, <1>5, <1>6, <1>7, <1>8, <1>9, <1>10

-----------------------------------------------------------------------------
(* Packets, one after the other. *)

LEMMA ConcatIs ==
  ASSUME NEW s \in Seq(Byte), NEW t \in Seq(Byte)
  PROVE  /\ s \o t \in Seq(Byte) /\ Len(s \o t) = Len(s) + Len(t)
         /\ Begins(s, s \o t) /\ Behind(t, s \o t, Len(s))
<1>. PICK n \in Nat, m \in Nat : n = Len(s) /\ m = Len(t)
  OBVIOUS
<1>1. PICK st \in Seq(Byte) :
        /\ st = s \o t /\ Len(st) = n + m
        /\ \A i \in 1 .. n + m : st[i] = IF i <= n THEN s[i] ELSE t[i - n]
  <2>1. s \o t \in Seq(Byte)
    BY ONLY s \in Seq(Byte), t \in Seq(Byte), ConcatProperties
  <2>2. Len(s \o t) = n + m /\ \A i \in 1 .. n + m : (s \o t)[i] = IF i <= n THEN s[i] ELSE t[i - n]
    BY ONLY s \in Seq(Byte), t \in Seq(Byte), n = Len(s), m = Len(t), ConcatProperties
  <2>. QED
    BY ONLY <2>1, <2>2
<1>2. \A i \in 1 .. n : s[i] = st[i]
  <2>1. \A i \in 1 .. n : i \in 1 .. n + m /\ i <= n
    BY ONLY n \in Nat, m \in Nat
  <2>. QED
    BY ONLY <1>1, <2>1
<1>3. \A i \in 1 .. m : st[n + i] = t[i]
  <2>1. \A i \in 1 .. m : n + i \in 1 .. n + m /\ ~ n + i <= n /\ n + i - n = i
    BY ONLY n \in Nat, m \in Nat
  <2>. QED
    BY ONLY <1>1, <2>1
<1>4. Begins(s, st)
  <2>1. Len(s) <= Len(st)
    BY ONLY <1>1, n \in Nat, m \in Nat, n = Len(s)
  <2>. QED
    BY ONLY <1>2, <2>1, n = Len(s) DEF Begins
<1>5. Behind(t, st, Len(s))
  BY ONLY <1>1, <1>3, n = Len(s), m = Len(t) DEF Behind
<1>. QED
  BY ONLY <1>1, <1>4, <1>5, n = Len(s), m = Len(t), st \in Seq(Byte)

LEMMA BeginsFurther ==
  ASSUME NEW s \in Seq(Byte), NEW t \in Seq(Byte), NEW u \in Seq(Byte), Begins(s, t), Begins(t, u)
  PROVE  Begins(s, u)
<1>. PICK n \in Nat, m \in Nat, k \in Nat : n = Len(s) /\ m = Len(t) /\ k = Len(u)
  OBVIOUS
<1>1. n <= m /\ m <= k
  BY DEF Begins
<1>2. \A i \in 1 .. n : i \in 1 .. m /\ s[i] = t[i]
  BY ONLY <1>1, n \in Nat, m \in Nat, n = Len(s), Begins(s, t) DEF Begins
<1>3. \A i \in 1 .. m : t[i] = u[i]
  BY DEF Begins
<1>4. \A i \in 1 .. n : s[i] = u[i]
  BY ONLY <1>2, <1>3
<1>5. n <= k
  BY ONLY <1>1, n \in Nat, m \in Nat, k \in Nat
<1>. QED
  BY ONLY <1>4, <1>5, n = Len(s), k = Len(u) DEF Begins

\* What the walk finds in a file that begins with a whole packet: its id, and
\* what is found behind it.
LEMMA FirstPacket ==
  ASSUME NEW tag \in {PKESK, SKESK}, NEW n \in Nat, NEW h, IsHeaderOf(h, tag, n),
         tag = PKESK => 9 <= n,
         NEW data \in Seq(Byte), Begins(h, data),
         NEW d \in Seq(Byte), Behind(d, data, Len(h) + n)
  PROVE  FileKeyIds(data)
           = (IF tag = PKESK THEN {IdOf(data, Len(h))} ELSE {}) \cup FileKeyIds(d)
<1>1. PICK f \in [Nat -> SUBSET Seq(Byte)] : Finds(f, d)
  BY WalkUnfolds
<1>2. PICK g \in [Nat -> SUBSET Seq(Byte)] : Finds(g, data)
  BY WalkUnfolds
<1>3. h \in Seq(Byte) /\ IsHeader(h, 0) /\ Header(h, 0) = [tag |-> tag, off |-> Len(h), len |-> n]
      /\ Len(h) \in Nat \ {0, 1}
  BY ONLY IsHeaderOf(h, tag, n) DEF IsHeaderOf
<1>. PICK o \in Nat : o = Len(h)
  BY ONLY <1>3
<1>. PICK m \in Nat : m = Len(d)
  OBVIOUS
<1>4. IsHeader(data, 0) /\ Header(data, 0) = Header(h, 0)
  <2>1. 0 \in Nat
    OBVIOUS
  <2>. QED
    BY ONLY <1>3, <2>1, data \in Seq(Byte), Begins(h, data), HeaderOfPart
<1>5. Len(data) = o + n + m
  BY ONLY Behind(d, data, Len(h) + n), o = Len(h), m = Len(d) DEF Behind
<1>. PICK p : p = PacketAt(data, 0)
  OBVIOUS
<1>6. p = [tag |-> tag, off |-> o, len |-> n]
  <2>1. 0 < Len(data)
    BY ONLY <1>3, <1>5, o = Len(h), n \in Nat, m \in Nat
  <2>2. p = HeaderAt(data, 0)
    BY ONLY <2>1, p = PacketAt(data, 0) DEF PacketAt
  <2>3. p = Header(data, 0)
    BY ONLY <1>4, <2>2, HeaderOrNone
  <2>. QED
    BY ONLY <1>3, <1>4, <2>3, o = Len(h)
<1>7. ~IsLast(p, Len(data))
  <2>1. p.tag \in EskTags
    BY ONLY <1>6, tag \in {PKESK, SKESK} DEF EskTags
  <2>2. p.tag = PKESK => ~ p.off + 9 > Len(data)
    <3>1. tag = PKESK => ~ o + 9 > o + n + m
      BY ONLY tag = PKESK => 9 <= n, o \in Nat, n \in Nat, m \in Nat
    <3>. QED
      BY ONLY <1>5, <1>6, <3>1
  <2>. QED
    BY ONLY <2>1, <2>2 DEF IsLast
<1>8. g[0] = IdsIn(data, p) \cup g[o + n]
  <2>1. g[0] = FoundFrom(data, g, 0)
    BY ONLY <1>2 DEF Finds
  <2>. QED
    BY ONLY <1>6, <1>7, <2>1, p = PacketAt(data, 0) DEF FoundFrom
<1>9. g[o + n] = FileKeyIds(d)
  <2>1. o + n \in Nat
    OBVIOUS
  <2>. QED
    BY ONLY <1>1, <1>2, <2>1, data \in Seq(Byte), d \in Seq(Byte),
       Behind(d, data, Len(h) + n), o = Len(h), WalkBehind
<1>10. IdsIn(data, p) = IF tag = PKESK THEN {IdOf(data, Len(h))} ELSE {}
  BY ONLY <1>6, o = Len(h) DEF IdsIn, IdOf
<1>11. FileKeyIds(data) = g[0]
  BY ONLY <1>2 DEF Finds
<1>. QED
  BY ONLY <1>8, <1>9, <1>10, <1>11

LEMMA FillerIs ==
  ASSUME NEW n \in Nat PROVE Filler(n) \in Seq(Byte) /\ Len(Filler(n)) = n
<1>1. 132 \in Byte
  BY DEF Byte
<1>. QED
  BY <1>1 DEF Filler

LEMMA KeyIDIs ==
  ASSUME NEW id \in KeyID PROVE id \in Seq(Byte) /\ Len(id) = 8
<1>1. id \in [1 .. 8 -> Byte]
  BY DEF KeyID
<1>2. id = [i \in 1 .. 8 |-> id[i]] /\ 8 \in Nat /\ \A i \in 1 .. 8 : id[i] \in Byte
  BY ONLY <1>1
<1>. QED
  BY ONLY <1>2

\* These bytes, before a file, add so many ids to it.
Adds(q, found) ==
  /\ q \in Seq(Byte)
  /\ \A d \in Seq(Byte) : FileKeyIds(q \o d) = found \cup FileKeyIds(d)

LEMMA AddsNone == Adds(<<>>, {})
<1>1. <<>> \in Seq(Byte) /\ \A d \in Seq(Byte) : <<>> \o d = d
  BY ONLY ConcatEmptySeq
<1>. QED
  BY ONLY <1>1 DEF Adds

LEMMA AddsBoth ==
  ASSUME NEW q, NEW found, Adds(q, found), NEW r, NEW more, Adds(r, more)
  PROVE  Adds(q \o r, found \cup more)
<1>1. q \in Seq(Byte) /\ r \in Seq(Byte)
  BY DEF Adds
<1>2. q \o r \in Seq(Byte)
  BY ONLY <1>1, ConcatProperties
<1>3. ASSUME NEW d \in Seq(Byte)
      PROVE  FileKeyIds((q \o r) \o d) = (found \cup more) \cup FileKeyIds(d)
  <2>1. (q \o r) \o d = q \o (r \o d)
    BY ONLY <1>1, d \in Seq(Byte), ConcatAssociative
  <2>2. r \o d \in Seq(Byte)
    BY ONLY <1>1, d \in Seq(Byte), ConcatProperties
  <2>3. FileKeyIds(q \o (r \o d)) = found \cup FileKeyIds(r \o d)
    BY ONLY <2>2, Adds(q, found) DEF Adds
  <2>4. FileKeyIds(r \o d) = more \cup FileKeyIds(d)
    BY ONLY d \in Seq(Byte), Adds(r, more) DEF Adds
  <2>. QED
    BY ONLY <2>1, <2>3, <2>4
<1>. QED
  BY ONLY <1>2, <1>3 DEF Adds

\* The session key for a key.
KeyPacket(h, id, n) == h \o <<3>> \o id \o Filler(n)

LEMMA KeyPacketAdds ==
  ASSUME NEW n \in Nat, NEW h \in Headers(PKESK, n + 9), NEW id \in KeyID
  PROVE  Adds(KeyPacket(h, id, n), {id})
<1>. PICK q : q = KeyPacket(h, id, n)
  OBVIOUS
<1>. PICK len \in Nat : len = n + 9
  OBVIOUS
<1>1. IsHeaderOf(h, PKESK, len)
  BY ONLY h \in Headers(PKESK, n + 9), len \in Nat, len = n + 9, HeaderRead
<1>2. h \in Seq(Byte) /\ Len(h) \in Nat
  BY ONLY <1>1 DEF IsHeaderOf
<1>. PICK o \in Nat : o = Len(h)
  BY ONLY <1>2
<1>3. PICK v \in Seq(Byte) : v = <<3>> /\ Len(v) = 1
  <2>1. 3 \in Byte
    BY DEF Byte
  <2>2. <<3>> \in Seq(Byte) /\ Len(<<3>>) = 1
    BY ONLY <2>1
  <2>. QED
    BY ONLY <2>2
<1>4. PICK a \in Seq(Byte) : a = h \o v /\ Len(a) = o + 1 /\ Begins(h, a)
  BY ONLY <1>2, <1>3, o = Len(h), v \in Seq(Byte), ConcatIs
<1>5. id \in Seq(Byte) /\ Len(id) = 8
  BY ONLY id \in KeyID, KeyIDIs
<1>6. PICK b \in Seq(Byte) : b = a \o id /\ Len(b) = o + 1 + 8 /\ Begins(a, b) /\ Behind(id, b, o + 1)
  <2>1. a \o id \in Seq(Byte) /\ Len(a \o id) = Len(a) + Len(id)
        /\ Begins(a, a \o id) /\ Behind(id, a \o id, Len(a))
    BY ONLY <1>5, a \in Seq(Byte), ConcatIs
  <2>. QED
    BY ONLY <1>4, <1>5, <2>1
<1>7. PICK c \in Seq(Byte) : c = b \o Filler(n) /\ Len(c) = o + 1 + 8 + n /\ Begins(b, c)
  BY ONLY <1>6, b \in Seq(Byte), n \in Nat, FillerIs, ConcatIs
<1>8. q = c
  BY ONLY <1>3, <1>4, <1>6, <1>7, q = KeyPacket(h, id, n) DEF KeyPacket
<1>9. ASSUME NEW d \in Seq(Byte) PROVE FileKeyIds(q \o d) = {id} \cup FileKeyIds(d)
  <2>1. PICK e \in Seq(Byte) : e = c \o d /\ Begins(c, e) /\ Behind(d, e, o + 1 + 8 + n)
                             /\ Len(e) = o + 1 + 8 + n + Len(d)
    <3>1. c \o d \in Seq(Byte) /\ Len(c \o d) = Len(c) + Len(d)
          /\ Begins(c, c \o d) /\ Behind(d, c \o d, Len(c))
      BY ONLY c \in Seq(Byte), d \in Seq(Byte), ConcatIs
    <3>. QED
      BY ONLY <1>7, <3>1
  <2>2. Begins(b, e)
    BY ONLY <1>7, <2>1, b \in Seq(Byte), c \in Seq(Byte), e \in Seq(Byte), BeginsFurther
  <2>3. Begins(h, e)
    <3>1. Begins(a, e)
      BY ONLY <1>6, <2>2, a \in Seq(Byte), b \in Seq(Byte), e \in Seq(Byte), BeginsFurther
    <3>. QED
      BY ONLY <1>2, <1>4, <3>1, a \in Seq(Byte), e \in Seq(Byte), BeginsFurther
  <2>4. Behind(d, e, o + len)
    <3>1. o + 1 + 8 + n = o + len
      BY ONLY len = n + 9, o \in Nat, n \in Nat
    <3>. QED
      BY ONLY <2>1, <3>1
  <2>5. FileKeyIds(e) = {IdOf(e, o)} \cup FileKeyIds(d)
    <3>1. PKESK \in {PKESK, SKESK} /\ (PKESK = PKESK => 9 <= len)
      BY ONLY len = n + 9, n \in Nat
    <3>2. FileKeyIds(e) = (IF PKESK = PKESK THEN {IdOf(e, Len(h))} ELSE {}) \cup FileKeyIds(d)
      BY ONLY <1>1, <2>3, <2>4, <3>1, len \in Nat, e \in Seq(Byte), d \in Seq(Byte), o = Len(h),
         FirstPacket
    <3>. QED
      BY ONLY <3>2, o = Len(h)
  <2>6. IdOf(e, o) = id
    <3>1. o + 9 <= Len(e)
      <4>1. Len(d) \in Nat
        OBVIOUS
      <4>. QED
        BY ONLY <2>1, <4>1, o \in Nat, n \in Nat
    <3>2. PICK s \in Seq(Byte) : s = IdOf(e, o) /\ Len(s) = 8 /\ \A i \in 1 .. 8 : s[i] = e[o + 1 + i]
      BY ONLY <3>1, e \in Seq(Byte), o \in Nat, IdAt
    <3>3. \A i \in 1 .. 8 : b[o + 1 + i] = id[i]
      BY ONLY <1>5, <1>6 DEF Behind
    <3>4. \A i \in 1 .. 8 : b[o + 1 + i] = e[o + 1 + i]
      <4>1. \A i \in 1 .. 8 : o + 1 + i \in 1 .. o + 1 + 8
        BY ONLY o \in Nat
      <4>. QED
        BY ONLY <1>6, <2>2, <4>1 DEF Begins
    <3>5. \A i \in 1 .. 8 : s[i] = id[i]
      BY ONLY <3>2, <3>3, <3>4
    <3>6. s = id
      BY ONLY <1>5, <3>2, <3>5, s \in Seq(Byte), SeqEqual
    <3>. QED
      BY ONLY <3>2, <3>6
  <2>. QED
    BY ONLY <1>8, <2>1, <2>5, <2>6
<1>. QED
  BY ONLY <1>8, <1>9, c \in Seq(Byte), q = KeyPacket(h, id, n) DEF Adds

\* The session key for a passphrase.
LEMMA PassphrasePacketAdds ==
  ASSUME NEW q \in ForPassphrase PROVE Adds(q, {})
<1>1. PICK h \in Headers(SKESK, 4) : q = h \o Filler(4)
  BY ONLY q \in ForPassphrase DEF ForPassphrase
<1>2. 4 \in Nat /\ SKESK \in {PKESK, SKESK} /\ ~(SKESK = PKESK)
  BY DEF PKESK, SKESK
<1>3. IsHeaderOf(h, SKESK, 4)
  BY ONLY <1>2, h \in Headers(SKESK, 4), HeaderRead
<1>4. h \in Seq(Byte) /\ Len(h) \in Nat
  BY ONLY <1>3 DEF IsHeaderOf
<1>5. Filler(4) \in Seq(Byte) /\ Len(Filler(4)) = 4
  BY ONLY <1>2, FillerIs
<1>6. PICK c \in Seq(Byte) : c = h \o Filler(4) /\ Len(c) = Len(h) + 4 /\ Begins(h, c)
  BY ONLY <1>4, <1>5, ConcatIs
<1>7. ASSUME NEW d \in Seq(Byte) PROVE FileKeyIds(c \o d) = FileKeyIds(d)
  <2>1. PICK e \in Seq(Byte) : e = c \o d /\ Begins(c, e) /\ Behind(d, e, Len(h) + 4)
    <3>1. c \o d \in Seq(Byte) /\ Begins(c, c \o d) /\ Behind(d, c \o d, Len(c))
      BY ONLY c \in Seq(Byte), d \in Seq(Byte), ConcatIs
    <3>. QED
      BY ONLY <1>6, <3>1
  <2>2. Begins(h, e)
    BY ONLY <1>4, <1>6, <2>1, c \in Seq(Byte), e \in Seq(Byte), BeginsFurther
  <2>3. FileKeyIds(e) = (IF SKESK = PKESK THEN {IdOf(e, Len(h))} ELSE {}) \cup FileKeyIds(d)
    <3>1. SKESK = PKESK => 9 <= 4
      BY ONLY <1>2
    <3>2. Behind(d, e, Len(h) + 4)
      BY ONLY <2>1
    <3>. QED
      BY ONLY <1>2, <1>3, <2>2, <3>1, <3>2, e \in Seq(Byte), d \in Seq(Byte), FirstPacket
  <2>. QED
    BY ONLY <1>2, <2>1, <2>3
<1>. QED
  BY ONLY <1>1, <1>6, <1>7, c \in Seq(Byte) DEF Adds

\* The data behind the session keys: its length is not one the walk reads.
LEMMA EncryptedIs ==
  ASSUME NEW e \in Encrypted PROVE e \in Seq(Byte) /\ FileKeyIds(e) = {}
<1>1. Filler(3) \in Seq(Byte)
  <2>1. 3 \in Nat
    OBVIOUS
  <2>. QED
    BY ONLY <2>1, FillerIs
<1>2. e \in Seq(Byte) /\ LengthBytes(e[0 + 1], e[0 + 2]) = NoLength
  <2>1. ASSUME e = <<192 + 18, 224 + 9>> \o Filler(3)
        PROVE  e \in Seq(Byte) /\ LengthBytes(e[0 + 1], e[0 + 2]) = NoLength
    <3>1. PICK a \in Byte, b \in Byte : a = 210 /\ b = 233
      BY DEF Byte
    <3>0. 192 + 18 = 210 /\ 224 + 9 = 233
      BY ONLY TRUE
    <3>2. <<a, b>> \in Seq(Byte)
      BY ONLY a \in Byte, b \in Byte
    <3>3. PICK s \in Seq(Byte) : s = <<a, b>> /\ Len(s) = 2 /\ s[1] = a /\ s[2] = b
      BY ONLY <3>2
    <3>4. e = s \o Filler(3)
      BY ONLY <2>1, <3>0, <3>1, <3>3
    <3>5. e \in Seq(Byte) /\ Begins(s, e)
      BY ONLY <1>1, <3>4, s \in Seq(Byte), ConcatIs
    <3>6. e[1] = 210 /\ e[2] = 233
      BY ONLY <3>1, <3>3, <3>5 DEF Begins
    <3>7. IsNew(210)
      BY DEF IsNew
    <3>8. LengthBytes(210, 233) = NoLength
      BY ONLY <3>7 DEF LengthBytes
    <3>. QED
      BY ONLY <3>5, <3>6, <3>8
  <2>2. ASSUME e = <<128 + 4 * 9 + 3>> \o Filler(3)
        PROVE  e \in Seq(Byte) /\ LengthBytes(e[0 + 1], e[0 + 2]) = NoLength
    <3>1. PICK a \in Byte : a = 167
      BY DEF Byte
    <3>0. 128 + 4 * 9 + 3 = 167
      BY ONLY TRUE
    <3>2. <<a>> \in Seq(Byte)
      BY ONLY a \in Byte
    <3>3. PICK s \in Seq(Byte) : s = <<a>> /\ Len(s) = 1 /\ s[1] = a
      BY ONLY <3>2
    <3>4. e = s \o Filler(3)
      BY ONLY <2>2, <3>0, <3>1, <3>3
    <3>5. e \in Seq(Byte) /\ Begins(s, e)
      BY ONLY <1>1, <3>4, s \in Seq(Byte), ConcatIs
    <3>6. e[1] = 167
      BY ONLY <3>1, <3>3, <3>5 DEF Begins
    <3>7. ~IsNew(167) /\ 167 % 4 = 3
      BY DEF IsNew
    <3>8. \A c : LengthBytes(167, c) = NoLength
      BY ONLY <3>7 DEF LengthBytes
    <3>. QED
      BY ONLY <3>5, <3>6, <3>8
  <2>. QED
    BY ONLY e \in Encrypted, <2>1, <2>2 DEF Encrypted
<1>3. PICK f \in [Nat -> SUBSET Seq(Byte)] : Finds(f, e)
  BY ONLY <1>2, WalkUnfolds
<1>4. ~IsHeader(e, 0)
  BY ONLY <1>2 DEF IsHeader
<1>5. PacketAt(e, 0) = NoHeader
  BY ONLY <1>4, HeaderOrNone DEF PacketAt
<1>6. IsLast(NoHeader, Len(e))
  BY DEF IsLast, NoHeader, EskTags, PKESK, SKESK
<1>7. f[0] = {}
  <2>1. f[0] = FoundFrom(e, f, 0)
    BY ONLY <1>3 DEF Finds
  <2>. QED
    BY ONLY <1>5, <1>6, <2>1 DEF FoundFrom
<1>. QED
  BY ONLY <1>2, <1>3, <1>7 DEF Finds

\* A sequence of the members of a finite set has them all.
LEMMA SetToSeqsIs ==
  ASSUME NEW S, IsFiniteSet(S), NEW s \in SetToSeqs(S)
  PROVE  s \in Seq(S) /\ {s[i] : i \in 1 .. Len(s)} = S
<1>. PICK n \in Nat : n = Cardinality(S)
  BY FS_CardinalityType
<1>1. s \in [1 .. n -> S] /\ \A i, j \in 1 .. n : i # j => s[i] # s[j]
  BY ONLY s \in SetToSeqs(S), n = Cardinality(S) DEF SetToSeqs
<1>2. s \in Seq(S) /\ Len(s) = n
  <2>1. s = [i \in 1 .. n |-> s[i]] /\ \A i \in 1 .. n : s[i] \in S
    BY ONLY <1>1
  <2>. QED
    BY ONLY <2>1, n \in Nat
<1>3. ASSUME NEW x \in S PROVE \E i \in 1 .. n : s[i] = x
  <2>. SUFFICES ASSUME \A i \in 1 .. n : s[i] # x PROVE FALSE
    OBVIOUS
  <2>1. s \in [1 .. n -> S \ {x}]
    BY ONLY <1>1, \A i \in 1 .. n : s[i] # x
  <2>2. IsFiniteSet(S \ {x}) /\ Cardinality(S \ {x}) = n - 1
    BY ONLY IsFiniteSet(S), x \in S, n = Cardinality(S), FS_RemoveElement
  <2>3. IsFiniteSet(1 .. n) /\ Cardinality(1 .. n) = n
    <3>1. 1 \in Int /\ n \in Int
      OBVIOUS
    <3>2. IsFiniteSet(1 .. n) /\ Cardinality(1 .. n) = IF 1 > n THEN 0 ELSE n - 1 + 1
      BY ONLY <3>1, FS_Interval
    <3>. QED
      BY ONLY <3>2, n \in Nat
  <2>4. Cardinality(S \ {x}) < Cardinality(1 .. n)
    BY ONLY <2>2, <2>3, n \in Nat
  <2>5. \E i, j \in 1 .. n : i # j /\ s[i] = s[j]
    BY ONLY <2>1, <2>2, <2>3, <2>4, FS_PigeonHole
  <2>. QED
    BY ONLY <1>1, <2>5
<1>. QED
  BY ONLY <1>1, <1>2, <1>3

\* One more sequence at the end.
Joined(f, seqs, i) == IF i = 1 THEN seqs[i] ELSE f[i - 1] \o seqs[i]

\* f[i] are the first i sequences, one after the other.
Flattens(f, seqs, n) ==
  /\ f \in [1 .. n -> Seq(Byte)]
  /\ FlattenSeq(seqs) = f[n]
  /\ \A i \in 1 .. n : f[i] = Joined(f, seqs, i)

LEMMA FlattenUnfolds ==
  ASSUME NEW n \in Nat \ {0}, NEW seqs, seqs \in [1 .. n -> Seq(Byte)]
  PROVE  \E f : Flattens(f, seqs, n)
<1>. PICK T : T = Seq(Byte)
  OBVIOUS
<1>. PICK D : D = 1 .. n
  OBVIOUS
<1>. DEFINE m == [i \in D |-> i]
            step == [x \in [D -> T] \X D |-> Joined(x[1], seqs, x[2])]
            F(g) == [i \in D |-> Joined(g, seqs, i)]
            found == CHOOSE g : g = F(g)
<1>0. seqs \in Seq(T) /\ Len(seqs) = n /\ n # 0
  <2>1. seqs = [i \in 1 .. n |-> seqs[i]] /\ \A i \in 1 .. n : seqs[i] \in T
    BY ONLY seqs \in [1 .. n -> Seq(Byte)], T = Seq(Byte)
  <2>. QED
    BY ONLY <2>1, n \in Nat \ {0}
<1>1. FlattenSeq(seqs) = found[n]
  BY ONLY <1>0, D = 1 .. n DEF FlattenSeq, Joined
<1>2. ASSUME NEW g \in [D -> T], NEW i \in D PROVE Joined(g, seqs, i) \in T
  <2>1. seqs[i] \in Seq(Byte)
    BY ONLY i \in D, D = 1 .. n, seqs \in [1 .. n -> Seq(Byte)]
  <2>2. CASE i = 1
    BY ONLY <2>1, <2>2, T = Seq(Byte) DEF Joined
  <2>3. CASE i # 1
    <3>1. i - 1 \in D
      BY ONLY <2>3, i \in D, D = 1 .. n, n \in Nat
    <3>2. g[i - 1] \in Seq(Byte)
      BY ONLY <3>1, g \in [D -> T], T = Seq(Byte)
    <3>3. g[i - 1] \o seqs[i] \in Seq(Byte)
      BY ONLY <2>1, <3>2, ConcatProperties
    <3>. QED
      BY ONLY <2>3, <3>3, T = Seq(Byte) DEF Joined
  <2>. QED
    BY ONLY <2>2, <2>3
<1>3. ASSUME NEW g, NEW h, NEW i \in D, \A j \in D : m[j] < m[i] => g[j] = h[j]
      PROVE  Joined(g, seqs, i) = Joined(h, seqs, i)
  <2>1. CASE i = 1
    BY ONLY <2>1 DEF Joined
  <2>2. CASE i # 1
    <3>1. i - 1 \in D /\ m[i - 1] < m[i]
      <4>1. i - 1 \in D /\ i - 1 < i
        BY ONLY <2>2, i \in D, D = 1 .. n, n \in Nat
      <4>. QED
        BY ONLY <4>1, i \in D
    <3>2. g[i - 1] = h[i - 1]
      BY ONLY <1>3, <3>1
    <3>. QED
      BY ONLY <2>2, <3>2 DEF Joined
  <2>. QED
    BY ONLY <2>1, <2>2
<1>4. T # {} /\ m \in [D -> Nat]
  <2>1. <<>> \in Seq(Byte)
    OBVIOUS
  <2>2. \A i \in D : i \in Nat
    BY ONLY D = 1 .. n
  <2>. QED
    BY ONLY <2>1, <2>2, T = Seq(Byte)
<1>. HIDE DEF m
<1>5. PICK f \in [D -> T] : \A i \in D : f[i] = Joined(f, seqs, i)
  <2>1. step \in [[D -> T] \X D -> T]
    BY ONLY <1>2
  <2>2. \A g \in [D -> T], i \in D : step[<<g, i>>] = Joined(g, seqs, i)
    BY ONLY TRUE
  <2>3. ASSUME NEW g \in [D -> T], NEW h \in [D -> T], NEW i \in D,
               \A j \in D : m[j] < m[i] => g[j] = h[j]
        PROVE  step[<<g, i>>] = step[<<h, i>>]
    <3>1. Joined(g, seqs, i) = Joined(h, seqs, i)
      BY ONLY <1>3, <2>3, i \in D
    <3>. QED
      BY ONLY <2>2, <3>1, g \in [D -> T], h \in [D -> T], i \in D
  <2>. HIDE DEF step
  <2>4. Recursive(D, T, m, step)
    BY ONLY <1>4, <2>1, <2>3 DEF Recursive
  <2>5. PICK f \in [D -> T] : \A i \in D : f[i] = step[<<f, i>>]
    BY ONLY <2>4, RecursiveFunction
  <2>. QED
    BY ONLY <2>2, <2>5
<1>6. f = F(f)
  BY ONLY <1>5
<1>7. found = F(found)
  BY ONLY <1>6
<1>. HIDE DEF found
<1>8. \A i \in D : found[i] = Joined(found, seqs, i)
  BY ONLY <1>7
<1>. DEFINE U == {i \in D : found[i] = f[i]}
<1>9. ASSUME NEW i \in D, \A j \in D : m[j] < m[i] => j \in U PROVE i \in U
  <2>1. \A j \in D : m[j] < m[i] => found[j] = f[j]
    BY ONLY <1>9
  <2>2. Joined(found, seqs, i) = Joined(f, seqs, i)
    BY ONLY <1>3, <2>1, i \in D
  <2>. QED
    BY ONLY <1>5, <1>8, <2>2, i \in D
<1>. HIDE DEF U
<1>10. \A i \in D : i \in U
  <2>1. Inductive(D, m, U)
    BY ONLY <1>4, <1>9 DEF Inductive
  <2>. QED
    BY ONLY <2>1, MeasureInduction
<1>11. FlattenSeq(seqs) = f[n]
  <2>1. n \in D
    BY ONLY n \in Nat \ {0}, D = 1 .. n
  <2>2. found[n] = f[n]
    BY ONLY <1>10, <2>1 DEF U
  <2>. QED
    BY ONLY <1>1, <2>2
<1>. QED
  BY ONLY <1>5, <1>11, D = 1 .. n, T = Seq(Byte) DEF Flattens

\* The packets of an entry add the ids of its keys.
LEMMA KeyPacketsAdd ==
  ASSUME NEW members \in Seq(KeyID), NEW n \in Nat, NEW q \in ForKeys(members, n)
  PROVE  Adds(q, {members[i] : i \in 1 .. Len(members)})
<1>. PICK N \in Nat : N = Len(members)
  OBVIOUS
<1>. PICK K : K = KeyID
  OBVIOUS
<1>1. members \in [1 .. N -> K] /\ DOMAIN members = 1 .. N
  BY ONLY members \in Seq(KeyID), K = KeyID, N = Len(members)
<1>2. PICK h \in Headers(PKESK, n + 9) :
        q = FlattenSeq([k \in DOMAIN members |-> KeyPacket(h, members[k], n)])
  BY ONLY q \in ForKeys(members, n) DEF ForKeys, KeyPacket
<1>3. PICK parts : parts = [k \in 1 .. N |-> KeyPacket(h, members[k], n)]
  BY ONLY TRUE
<1>4. q = FlattenSeq(parts)
  BY ONLY <1>1, <1>2, <1>3
<1>5. ASSUME NEW k \in 1 .. N PROVE Adds(parts[k], {members[k]})
  <2>1. members[k] \in KeyID
    BY ONLY <1>1, k \in 1 .. N, K = KeyID
  <2>2. parts[k] = KeyPacket(h, members[k], n)
    BY ONLY <1>3, k \in 1 .. N
  <2>. QED
    BY ONLY <2>1, <2>2, n \in Nat, h \in Headers(PKESK, n + 9), KeyPacketAdds
<1>. DEFINE found(i) == {members[j] : j \in 1 .. i}
<1>6. CASE N = 0
  <2>1. parts = <<>> /\ Len(parts) = 0
    BY ONLY <1>3, <1>6
  <2>2. q = <<>>
    BY ONLY <1>4, <2>1 DEF FlattenSeq
  <2>3. found(N) = {}
    BY ONLY <1>6
  <2>. QED
    BY ONLY <2>2, <2>3, N = Len(members), AddsNone
<1>7. CASE N # 0
  <2>1. N \in Nat \ {0}
    BY ONLY <1>7, N \in Nat
  <2>2. parts \in [1 .. N -> Seq(Byte)]
    <3>1. \A k \in 1 .. N : parts[k] \in Seq(Byte)
      BY ONLY <1>5 DEF Adds
    <3>. QED
      BY ONLY <1>3, <3>1
  <2>3. PICK f : Flattens(f, parts, N)
    BY ONLY <2>1, <2>2, FlattenUnfolds
  <2>. DEFINE T == {i \in Nat : i \in 1 .. N => Adds(f[i], found(i))}
  <2>. HIDE DEF found
  <2>4. ASSUME NEW i \in Nat, \A j \in Nat : j < i => j \in T, i \in 1 .. N
        PROVE  Adds(f[i], found(i))
    <3>0. f[i] = Joined(f, parts, i)
      BY ONLY <2>3, i \in 1 .. N DEF Flattens
    <3>1. CASE i = 1
      <4>1. f[i] = parts[i]
        BY ONLY <3>0, <3>1 DEF Joined
      <4>2. found(i) = {members[i]}
        BY ONLY <3>1 DEF found
      <4>. QED
        BY ONLY <1>5, <4>1, <4>2, i \in 1 .. N
    <3>2. CASE i # 1
      <4>1. PICK j \in Nat : j = i - 1 /\ j < i /\ j \in 1 .. N /\ i = j + 1
        BY ONLY <3>2, i \in 1 .. N, N \in Nat
      <4>2. f[i] = f[j] \o parts[i]
        BY ONLY <3>0, <3>2, <4>1 DEF Joined
      <4>3. Adds(f[j], found(j))
        BY ONLY <2>4, <4>1, j \in Nat
      <4>4. found(i) = found(j) \cup {members[i]}
        <5>1. 1 .. i = 1 .. j \cup {i}
          BY ONLY <4>1, j \in Nat
        <5>. QED
          BY ONLY <5>1 DEF found
      <4>5. Adds(parts[i], {members[i]})
        BY ONLY <1>5, i \in 1 .. N
      <4>6. Adds(f[j] \o parts[i], found(j) \cup {members[i]})
        BY ONLY <4>3, <4>5, AddsBoth
      <4>. QED
        BY ONLY <4>2, <4>4, <4>6
    <3>. QED
      BY ONLY <3>1, <3>2
  <2>5. \A i \in Nat : i \in T
    <3>1. ASSUME NEW i \in Nat, \A j \in Nat : j < i => j \in T PROVE i \in T
      <4>1. i \in 1 .. N => Adds(f[i], found(i))
        BY ONLY <2>4, <3>1, i \in Nat
      <4>. QED
        BY ONLY <4>1, i \in Nat
    <3>. HIDE DEF T
    <3>. QED
      BY ONLY <3>1, Induction
  <2>. HIDE DEF T
  <2>6. N \in 1 .. N
    BY ONLY <2>1
  <2>7. Adds(f[N], found(N))
    BY ONLY <2>5, <2>6, N \in Nat DEF T
  <2>8. q = f[N]
    BY ONLY <1>4, <2>3 DEF Flattens
  <2>. QED
    BY ONLY <2>7, <2>8, N = Len(members) DEF found
<1>. QED
  BY ONLY <1>6, <1>7

\* An entry as gpg or another program wrote it, for any keys and with headers
\* of any form, is read by passfl_crypto_file_keyids as it is: its key ids, and
\* wherever it is cut off no other.
THEOREM FilesAreRead ==
  ASSUME NEW members \in SUBSET KeyID, IsFiniteSet(members), NEW sizes \in SUBSET Nat,
         NEW f \in Files(members, sizes)
  PROVE  IsReadAs(f, members)
<1>. DEFINE front == {<<>>} \cup ForPassphrase
            keyed == UNION {ForKeys(s, n) : s \in SetToSeqs(members), n \in sizes}
<1>0. Files(members, sizes) = {g[1] \o g[2] \o g[3] : g \in front \X keyed \X Encrypted}
  BY ONLY DEF Files
<1>. HIDE DEF front, keyed
<1>1. PICK p \in front, q \in keyed, e \in Encrypted : f = p \o q \o e
  <2>1. PICK g \in front \X keyed \X Encrypted : f = g[1] \o g[2] \o g[3]
    BY ONLY <1>0, f \in Files(members, sizes)
  <2>2. g[1] \in front /\ g[2] \in keyed /\ g[3] \in Encrypted
    BY ONLY g \in front \X keyed \X Encrypted
  <2>. QED
    BY ONLY <2>1, <2>2
<1>2. PICK s \in SetToSeqs(members), n \in sizes : q \in ForKeys(s, n)
  BY ONLY q \in keyed DEF keyed
<1>3. s \in Seq(members) /\ {s[i] : i \in 1 .. Len(s)} = members
  BY ONLY IsFiniteSet(members), s \in SetToSeqs(members), SetToSeqsIs
<1>4. s \in Seq(KeyID) /\ n \in Nat
  BY ONLY <1>3, members \in SUBSET KeyID, n \in sizes, sizes \in SUBSET Nat
<1>5. Adds(q, members)
  BY ONLY <1>2, <1>3, <1>4, KeyPacketsAdd
<1>6. Adds(p, {})
  <2>1. p = <<>> \/ p \in ForPassphrase
    BY ONLY p \in front DEF front
  <2>. QED
    BY ONLY <2>1, AddsNone, PassphrasePacketAdds
<1>7. Adds(p \o q, {} \cup members)
  BY ONLY <1>5, <1>6, AddsBoth
<1>8. e \in Seq(Byte) /\ FileKeyIds(e) = {}
  BY ONLY e \in Encrypted, EncryptedIs
<1>9. f \in Seq(Byte) /\ FileKeyIds(f) = members
  <2>1. p \o q \in Seq(Byte) /\ FileKeyIds((p \o q) \o e) = ({} \cup members) \cup FileKeyIds(e)
    BY ONLY <1>7, <1>8 DEF Adds
  <2>2. (p \o q) \o e \in Seq(Byte)
    BY ONLY <1>8, <2>1, ConcatProperties
  <2>. QED
    BY ONLY <1>1, <1>8, <2>1, <2>2
<1>10. ASSUME NEW k \in DOMAIN f PROVE FileKeyIds(SubSeq(f, 1, k)) \subseteq members
  <2>. PICK len \in Nat : len = Len(f)
    BY ONLY <1>9
  <2>1. k \in 1 .. len
    BY ONLY <1>9, k \in DOMAIN f, len = Len(f)
  <2>2. \A i \in 1 .. k : f[i] \in Byte
    <3>1. \A i \in 1 .. k : i \in 1 .. len
      BY ONLY <2>1, len \in Nat
    <3>. QED
      BY ONLY <1>9, <3>1, len = Len(f)
  <2>3. PICK cut \in Seq(Byte) :
          cut = SubSeq(f, 1, k) /\ Len(cut) = k /\ \A i \in 1 .. k : cut[i] = f[i]
    <3>1. 1 \in Int /\ k \in Int
      BY ONLY <2>1
    <3>2. /\ SubSeq(f, 1, k) \in Seq(Byte)
          /\ Len(SubSeq(f, 1, k)) = IF 1 <= k THEN k - 1 + 1 ELSE 0
          /\ \A i \in 1 .. k - 1 + 1 : SubSeq(f, 1, k)[i] = f[1 + i - 1]
      BY ONLY <2>2, <3>1, SubSeqProperties
    <3>3. k - 1 + 1 = k /\ 1 <= k /\ \A i \in 1 .. k : 1 + i - 1 = i
      BY ONLY <2>1
    <3>. QED
      BY ONLY <3>2, <3>3
  <2>4. Begins(cut, f)
    <3>1. Len(cut) <= Len(f)
      BY ONLY <2>1, <2>3, len = Len(f), len \in Nat
    <3>. QED
      BY ONLY <2>3, <3>1 DEF Begins
  <2>5. FileKeyIds(cut) \subseteq FileKeyIds(f)
    BY ONLY <1>9, <2>4, cut \in Seq(Byte), CutOffFindsNoOther
  <2>. QED
    BY ONLY <1>9, <2>3, <2>5
<1>. QED
  BY ONLY <1>9, <1>10 DEF IsReadAs

-----------------------------------------------------------------------------
USE RekeyAssumption

(***************************************************************************)
(* What a process does at each step.  A process at rest owes nothing, and  *)
(* one that is about to rename or copy does not owe anything yet.          *)
(***************************************************************************)

JobOK(j) ==
  /\ j \in Job
  /\ j.step = "idle" => j = Idle
  /\ j.step \in {"test", "place"} =>
       j.name \in Names /\ j.to \in Names /\ j.op \in {"move", "copy"} /\ j.todo = {}
  /\ j.step \in {"decrypt", "seal"} => j.name \in Names /\ j.list \in Lists

JobsOK == \A p \in Procs : JobOK(job[p])

KeysInv == TypeOK /\ JobsOK /\ KeysFollowIds

LEMMA JobFields ==
  ASSUME NEW j \in Job
  PROVE  /\ j.op \in Ops /\ j.step \in Steps
         /\ j.name \in Names \cup {None} /\ j.to \in Names \cup {None}
         /\ j.dir \in Dirs /\ j.todo \in SUBSET Names
         /\ j.list \in Lists \cup {None} /\ j.text \in Nat
  BY DEF Job

LEMMA IdleOK == JobOK(Idle)
<1>1. Idle \in Job
  BY DEF Idle, Job, Ops, Steps
<1>. QED
  BY <1>1 DEF JobOK, Idle

\* One process changes what it is doing.
LEMMA JobChange ==
  ASSUME job \in [Procs -> Job], JobsOK, NEW p \in Procs, NEW j, JobOK(j),
         job' = [job EXCEPT ![p] = j]
  PROVE  /\ job' \in [Procs -> Job] /\ JobsOK'
         /\ job'[p] = j
         /\ \A q \in Procs \ {p} : job'[q] = job[q]
<1>1. j \in Job
  BY DEF JobOK
<1>2. /\ job' \in [Procs -> Job]
      /\ job'[p] = j
      /\ \A q \in Procs \ {p} : job'[q] = job[q]
  BY <1>1
<1>3. JobsOK'
  <2>. SUFFICES ASSUME NEW q \in Procs PROVE JobOK(job'[q])
    BY DEF JobsOK
  <2>. QED
    BY <1>2 DEF JobsOK
<1>. QED
  BY <1>2, <1>3

\* The conditions of the types on jobs are among those of JobsOK.
LEMMA TypeFromJobs ==
  ASSUME ids' \in [Dirs -> Lists \cup {None}], file' \in [Names -> File \cup {NoFile}],
         ops' \in Nat, job' \in [Procs -> Job], JobsOK',
         owed' \in SUBSET Names, alone' \in SUBSET Procs
  PROVE  TypeOK'
<1>1. ASSUME NEW p \in Procs
      PROVE  /\ job'[p].step \in {"decrypt", "seal"} => job'[p].name \in Names /\ job'[p].list \in Lists
             /\ job'[p].step \in {"test", "place"} => job'[p].name \in Names /\ job'[p].to \in Names
  BY DEF JobsOK, JobOK
<1>. QED
  BY <1>1 DEF TypeOK

\* The recipients of an entry are a list, or there are none.
LEMMA ResolveType ==
  ASSUME ids \in [Dirs -> Lists \cup {None}], NEW n \in Names
  PROVE  Resolve(n) \in Lists \cup {None}
  BY DEF Resolve, ResolveIn

(***************************************************************************)
(* What a step of p has to do for each entry to keep KeysFollowIds: leave  *)
(* it as it was and still owe it, or put it right, or owe it from now on.  *)
(***************************************************************************)

LEMMA Accounted ==
  ASSUME KeysFollowIds, NEW p \in Procs,
         \A q \in Procs \ {p} : job'[q] = job[q],
         \A n \in Names :
           \/ /\ file'[n] = file[n] /\ Resolve(n)' = Resolve(n)
              /\ n \in owed => n \in owed'
              /\ n \in Duty(p) => n \in owed' \/ n \in Duty(p)'
           \/ file'[n] = NoFile \/ Right(n, file[n].keys)'
           \/ n \in owed' \/ n \in Duty(p)'
  PROVE  KeysFollowIds'
<1>. SUFFICES ASSUME NEW n \in Names, file'[n] # NoFile, ~Right(n, file[n].keys)'
     PROVE n \in owed' \/ \E q \in Procs : n \in Duty(q)'
  BY DEF KeysFollowIds, NoFile
<1>1. CASE n \in owed' \/ n \in Duty(p)'
  BY <1>1
<1>2. CASE /\ file'[n] = file[n] /\ Resolve(n)' = Resolve(n)
           /\ n \in owed => n \in owed'
           /\ n \in Duty(p) => n \in owed' \/ n \in Duty(p)'
  <2>1. file[n] # NoFile /\ ~Right(n, file[n].keys)
    BY <1>2 DEF Right, NoFile
  <2>2. n \in owed \/ \E q \in Procs : n \in Duty(q)
    BY <2>1 DEF KeysFollowIds
  <2>3. ASSUME NEW q \in Procs \ {p}, n \in Duty(q) PROVE n \in Duty(q)'
    BY <2>3 DEF Duty
  <2>. QED
    BY <1>2, <2>2, <2>3
<1>. QED
  BY <1>1, <1>2

\* A process at rest has nothing to see to.
LEMMA IdleOwes ==
  ASSUME JobsOK, NEW p \in Procs, At(p, "idle")
  PROVE  Duty(p) = {}
  BY DEF JobsOK, JobOK, At, Duty, Idle

-----------------------------------------------------------------------------
(* The actions, one by one. *)

LEMMA KeysInit == Init => KeysInv
<1>. SUFFICES ASSUME Init PROVE KeysInv
  OBVIOUS
<1>1. \A n \in Names : Resolve(n) \in Lists
  BY DEF Init, Resolve, ResolveIn
<1>2. \A n \in Names : file[n] \in File \cup {NoFile}
  <2>1. \A l \in Lists : [text |-> 0, keys |-> Used[l]] \in File
    BY DEF File
  <2>. QED
    BY <2>1 DEF Init
<1>3. JobsOK
  BY IdleOK DEF Init, JobsOK
<1>4. Idle \in Job
  BY IdleOK DEF JobOK
<1>5. TypeOK
  BY <1>2, <1>4 DEF Init, TypeOK, Idle
<1>6. KeysFollowIds
  BY <1>1 DEF Init, KeysFollowIds, Right
<1>. QED
  BY <1>3, <1>5, <1>6 DEF KeysInv

\* An operation begins: nothing changes yet.
LEMMA BeginKeeps ==
  ASSUME KeysInv, NEW p \in Procs, NEW op, NEW step, NEW change,
         JobOK([change EXCEPT !.op = op, !.step = step]),
         Begin(p, op, step, change), UNCHANGED <<ids, file, owed>>
  PROVE  KeysInv'
<1>. DEFINE j == [change EXCEPT !.op = op, !.step = step]
<1>t. TypeOK /\ JobsOK /\ KeysFollowIds
  BY DEF KeysInv
<1>1. At(p, "idle") /\ job' = [job EXCEPT ![p] = j] /\ ops' = ops + 1 /\ alone' = alone \cup {p}
  BY DEF Begin
<1>2. /\ job' \in [Procs -> Job] /\ JobsOK'
      /\ \A q \in Procs \ {p} : job'[q] = job[q]
  BY <1>t, <1>1, JobChange DEF TypeOK
<1>3. TypeOK'
  BY <1>t, <1>1, <1>2, TypeFromJobs DEF TypeOK
<1>4. Duty(p) = {}
  BY <1>t, <1>1, IdleOwes
<1>5. KeysFollowIds'
  BY <1>t, <1>2, <1>4, Accounted DEF Resolve
<1>. QED
  BY <1>2, <1>3, <1>5 DEF KeysInv

LEMMA WriteKeeps ==
  ASSUME KeysInv, NEW p \in Procs, NEW n \in Names, Write(p, n)
  PROVE  KeysInv'
<1>. DEFINE c == [Idle EXCEPT !.name = n, !.list = Resolve(n), !.text = ops + 1]
<1>1. Resolve(n) \in Lists
  BY ResolveType DEF Write, KeysInv, TypeOK
<1>2. ops + 1 \in Nat
  BY DEF KeysInv, TypeOK
<1>3. [c EXCEPT !.op = "write", !.step = "seal"] \in Job
  BY <1>1, <1>2 DEF Idle, Job, Ops, Steps
<1>4. JobOK([c EXCEPT !.op = "write", !.step = "seal"])
  BY <1>1, <1>3 DEF JobOK, Idle
<1>. QED
  BY <1>4, BeginKeeps DEF Write

LEMMA CopyMoveKeeps ==
  ASSUME KeysInv, NEW p \in Procs, NEW op, NEW m \in Names, NEW n \in Names,
         NEW force \in BOOLEAN, CopyMove(p, op, m, n, force)
  PROVE  KeysInv'
<1>. DEFINE c == [Idle EXCEPT !.name = m, !.to = n]
            step == IF force THEN "place" ELSE "test"
<1>1. op \in {"move", "copy"} /\ step \in {"test", "place"}
  BY DEF CopyMove
<1>2. [c EXCEPT !.op = op, !.step = step] \in Job
  BY <1>1 DEF Idle, Job, Ops, Steps
<1>3. JobOK([c EXCEPT !.op = op, !.step = step])
  BY <1>1, <1>2 DEF JobOK, Idle
<1>. QED
  BY <1>3, BeginKeeps DEF CopyMove

LEMMA ReencryptKeeps ==
  ASSUME KeysInv, NEW p \in Procs, NEW d \in Dirs, Reencrypt(p, d)
  PROVE  KeysInv'
<1>. DEFINE c == [Idle EXCEPT !.dir = d, !.todo = Under(d)]
<1>1. [c EXCEPT !.op = "reencrypt", !.step = "walk"] \in Job
  BY DEF Idle, Job, Ops, Steps, Under
<1>2. JobOK([c EXCEPT !.op = "reencrypt", !.step = "walk"])
  BY <1>1 DEF JobOK, Idle
<1>. QED
  BY <1>2, BeginKeeps DEF Reencrypt

\* The recipients of an entry change only below the directory of the file.
LEMMA InitIdsKeeps ==
  ASSUME KeysInv, NEW p \in Procs, NEW d \in Dirs, NEW l \in Lists \cup {None},
         InitIds(p, d, l)
  PROVE  KeysInv'
<1>. DEFINE j == [Idle EXCEPT !.op = "init", !.step = "walk", !.dir = d, !.todo = Under(d)]
<1>t. TypeOK /\ JobsOK /\ KeysFollowIds
  BY DEF KeysInv
<1>1. /\ At(p, "idle") /\ job' = [job EXCEPT ![p] = j] /\ ops' = ops + 1
      /\ ids' = [ids EXCEPT ![d] = l] /\ alone' = {p} /\ UNCHANGED <<file, owed>>
  BY DEF InitIds
<1>2. j \in Job
  BY DEF Idle, Job, Ops, Steps, Under
<1>3. JobOK(j) /\ j.op = "init" /\ j.todo = Under(d)
  BY <1>2 DEF JobOK, Idle
<1>4. /\ job' \in [Procs -> Job] /\ JobsOK' /\ job'[p] = j
      /\ \A q \in Procs \ {p} : job'[q] = job[q]
  BY <1>t, <1>1, <1>3, JobChange DEF TypeOK
<1>5. ids' \in [Dirs -> Lists \cup {None}] /\ ops' \in Nat
  BY <1>t, <1>1 DEF TypeOK
<1>6. TypeOK'
  BY <1>t, <1>1, <1>4, <1>5, TypeFromJobs DEF TypeOK
<1>7. ASSUME NEW n \in Names, n \notin Under(d) PROVE Resolve(n)' = Resolve(n)
  <2>1. DirOf[n] # d /\ d # Root
    BY <1>7 DEF Under
  <2>2. ids'[DirOf[n]] = ids[DirOf[n]] /\ ids'[Root] = ids[Root]
    BY <1>t, <1>1, <2>1 DEF TypeOK
  <2>. QED
    BY <2>2 DEF Resolve, ResolveIn
<1>8. Duty(p)' = Under(d)
  BY <1>3, <1>4 DEF Duty, Idle
<1>9. Duty(p) = {}
  BY <1>t, <1>1, IdleOwes
<1>10. KeysFollowIds'
  BY <1>t, <1>1, <1>4, <1>7, <1>8, <1>9, Accounted
<1>. QED
  BY <1>4, <1>6, <1>10 DEF KeysInv

LEMMA TestKeeps ==
  ASSUME KeysInv, NEW p \in Procs, Test(p)
  PROVE  KeysInv'
<1>t. TypeOK /\ JobsOK /\ KeysFollowIds
  BY DEF KeysInv
<1>. DEFINE j == IF file[job[p].to] = NoFile THEN [job[p] EXCEPT !.step = "place"] ELSE Idle
<1>1. job' = [job EXCEPT ![p] = j] /\ UNCHANGED <<ids, file, ops, owed, alone>>
  BY <1>t DEF Test, TypeOK
<1>2. JobOK(job[p]) /\ job[p].step = "test"
  BY <1>t DEF JobsOK, Test, At
<1>3. [job[p] EXCEPT !.step = "place"] \in Job
  BY <1>2 DEF JobOK, Job, Steps
<1>4. JobOK([job[p] EXCEPT !.step = "place"])
  BY <1>2, <1>3 DEF JobOK, Job
<1>5. JobOK(j)
  BY <1>4, IdleOK
<1>6. /\ job' \in [Procs -> Job] /\ JobsOK'
      /\ \A q \in Procs \ {p} : job'[q] = job[q]
  BY <1>t, <1>1, <1>5, JobChange DEF TypeOK
<1>7. TypeOK'
  BY <1>t, <1>1, <1>6, TypeFromJobs DEF TypeOK
<1>8. Duty(p) = {}
  BY <1>2 DEF JobOK, Duty
<1>9. KeysFollowIds'
  BY <1>t, <1>1, <1>6, <1>8, Accounted DEF Resolve
<1>. QED
  BY <1>6, <1>7, <1>9 DEF KeysInv

LEMMA PlaceKeeps ==
  ASSUME KeysInv, NEW p \in Procs, Place(p)
  PROVE  KeysInv'
<1>t. TypeOK /\ JobsOK /\ KeysFollowIds
  BY DEF KeysInv
<1>. DEFINE m == job[p].name
            n == job[p].to
            j == [job[p] EXCEPT !.step = "walk", !.todo = {n}]
<1>1. JobOK(job[p]) /\ job[p].step = "place"
  BY <1>t DEF JobsOK, Place, At
<1>2. m \in Names /\ n \in Names /\ job[p].op \in {"move", "copy"}
  BY <1>1 DEF JobOK
<1>3. /\ job' = [job EXCEPT ![p] = j]
      /\ file' = [file EXCEPT ![n] = file[m],
                              ![m] = IF job[p].op = "move" THEN NoFile ELSE file[m]]
      /\ alone' = alone \cap {p} /\ UNCHANGED <<ids, ops, owed>>
  BY <1>t, <1>1 DEF Place, Disturb, TypeOK, JobOK
<1>4. j \in Job /\ j.step = "walk" /\ j.todo = {n} /\ j.op = job[p].op
  BY <1>1, <1>2 DEF JobOK, Job, Steps
<1>5. JobOK(j)
  BY <1>4 DEF JobOK
<1>6. /\ job' \in [Procs -> Job] /\ JobsOK' /\ job'[p] = j
      /\ \A q \in Procs \ {p} : job'[q] = job[q]
  BY <1>t, <1>3, <1>5, JobChange DEF TypeOK
<1>7. file' \in [Names -> File \cup {NoFile}]
  BY <1>t, <1>2, <1>3 DEF TypeOK
<1>8. TypeOK'
  BY <1>t, <1>3, <1>6, <1>7, TypeFromJobs DEF TypeOK
<1>9. Duty(p) = {} /\ n \in Duty(p)'
  BY <1>1, <1>2, <1>4, <1>6 DEF JobOK, Duty
<1>10. \A x \in Names \ {n} : file'[x] = NoFile \/ file'[x] = file[x]
  BY <1>t, <1>2, <1>3 DEF TypeOK
<1>11. KeysFollowIds'
  BY <1>t, <1>3, <1>6, <1>9, <1>10, Accounted DEF Resolve
<1>. QED
  BY <1>6, <1>8, <1>11 DEF KeysInv

LEMMA VisitKeeps ==
  ASSUME KeysInv, NEW p \in Procs, NEW n \in Names, Visit(p, n)
  PROVE  KeysInv'
<1>t. TypeOK /\ JobsOK /\ KeysFollowIds
  BY DEF KeysInv
<1>. DEFINE l == Resolve(n)
            right == file[n] = NoFile \/ Desired[l] = file[n].keys
            passed == [job[p] EXCEPT !.todo = job[p].todo \ {n}]
            taken == [job[p] EXCEPT !.todo = job[p].todo \ {n}, !.step = "decrypt",
                                    !.name = n, !.list = l]
            j == IF right THEN passed ELSE taken
<1>1. JobOK(job[p]) /\ job[p] \in Job /\ job[p].step = "walk"
  BY <1>t DEF JobsOK, JobOK, Visit, At
<1>2. UNCHANGED <<ids, file, ops, alone>> /\ (file[n] # NoFile => l # None)
  BY DEF Visit
<1>3. CASE right
  <2>1. job' = [job EXCEPT ![p] = passed] /\ owed' = owed \ {n}
    BY <1>t, <1>1, <1>3 DEF Visit, TypeOK
  <2>2. /\ passed \in Job /\ passed.step = "walk" /\ passed.op = job[p].op
        /\ passed.todo = job[p].todo \ {n}
    BY <1>1 DEF Job
  <2>3. JobOK(passed)
    BY <2>2 DEF JobOK
  <2>4. /\ job' \in [Procs -> Job] /\ JobsOK' /\ job'[p] = passed
        /\ \A q \in Procs \ {p} : job'[q] = job[q]
    BY <1>t, <2>1, <2>3, JobChange DEF TypeOK
  <2>5. TypeOK'
    BY <1>t, <1>2, <2>1, <2>4, TypeFromJobs DEF TypeOK
  <2>6. file'[n] = NoFile \/ Right(n, file[n].keys)'
    BY <1>2, <1>3 DEF Right, Resolve
  <2>7. \A x \in Names \ {n} : x \in Duty(p) => x \in Duty(p)'
    BY <1>1, <2>2, <2>4 DEF Duty
  <2>8. KeysFollowIds'
    BY <1>t, <1>2, <2>1, <2>4, <2>6, <2>7, Accounted DEF Resolve
  <2>. QED
    BY <2>4, <2>5, <2>8 DEF KeysInv
<1>4. CASE ~right
  <2>1. job' = [job EXCEPT ![p] = taken] /\ UNCHANGED owed
    BY <1>t, <1>1, <1>4 DEF Visit, TypeOK
  <2>2. l \in Lists
    BY <1>2, <1>4, <1>t, ResolveType DEF TypeOK
  <2>3. /\ taken \in Job /\ taken.step = "decrypt" /\ taken.op = job[p].op
        /\ taken.todo = job[p].todo \ {n} /\ taken.name = n /\ taken.list = l
    BY <1>1, <2>2 DEF Job, Steps
  <2>4. JobOK(taken)
    BY <2>2, <2>3 DEF JobOK
  <2>5. /\ job' \in [Procs -> Job] /\ JobsOK' /\ job'[p] = taken
        /\ \A q \in Procs \ {p} : job'[q] = job[q]
    BY <1>t, <2>1, <2>4, JobChange DEF TypeOK
  <2>6. TypeOK'
    BY <1>t, <1>2, <2>1, <2>5, TypeFromJobs DEF TypeOK
  <2>7. \A x \in Names : x \in Duty(p) => x \in Duty(p)'
    BY <1>1, <2>3, <2>5 DEF Duty
  <2>8. KeysFollowIds'
    BY <1>t, <1>2, <2>1, <2>5, <2>7, Accounted DEF Resolve
  <2>. QED
    BY <2>5, <2>6, <2>8 DEF KeysInv
<1>. QED
  BY <1>3, <1>4

LEMMA DecryptKeeps ==
  ASSUME KeysInv, NEW p \in Procs, Decrypt(p)
  PROVE  KeysInv'
<1>t. TypeOK /\ JobsOK /\ KeysFollowIds
  BY DEF KeysInv
<1>. DEFINE text == file[job[p].name].text
            j == [job[p] EXCEPT !.step = "seal", !.text = text]
<1>1. JobOK(job[p]) /\ job[p] \in Job /\ job[p].step = "decrypt"
  BY <1>t DEF JobsOK, JobOK, Decrypt, At
<1>2. job[p].name \in Names /\ job[p].list \in Lists
  BY <1>1 DEF JobOK
<1>3. job' = [job EXCEPT ![p] = j] /\ UNCHANGED <<ids, file, ops, owed, alone>>
  BY <1>t DEF Decrypt, TypeOK
<1>4. text \in Nat
  <2>1. file[job[p].name] \in File
    BY <1>t, <1>2 DEF Decrypt, TypeOK
  <2>. QED
    BY <2>1 DEF File
<1>5. /\ j \in Job /\ j.step = "seal" /\ j.op = job[p].op /\ j.todo = job[p].todo
      /\ j.name = job[p].name /\ j.list = job[p].list
  BY <1>1, <1>4 DEF Job, Steps
<1>6. JobOK(j)
  BY <1>2, <1>5 DEF JobOK
<1>7. /\ job' \in [Procs -> Job] /\ JobsOK' /\ job'[p] = j
      /\ \A q \in Procs \ {p} : job'[q] = job[q]
  BY <1>t, <1>3, <1>6, JobChange DEF TypeOK
<1>8. TypeOK'
  BY <1>t, <1>3, <1>7, TypeFromJobs DEF TypeOK
<1>9. Duty(p)' = Duty(p)
  BY <1>1, <1>5, <1>7 DEF Duty
<1>10. KeysFollowIds'
  BY <1>t, <1>3, <1>7, <1>9, Accounted DEF Resolve
<1>. QED
  BY <1>7, <1>8, <1>10 DEF KeysInv

LEMMA SealKeeps ==
  ASSUME KeysInv, NEW p \in Procs, Seal(p)
  PROVE  KeysInv'
<1>t. TypeOK /\ JobsOK /\ KeysFollowIds
  BY DEF KeysInv
<1>. DEFINE n == job[p].name
            l == job[p].list
            walk == [job[p] EXCEPT !.step = "walk"]
            j == IF job[p].op = "write" THEN Idle ELSE walk
            f == [text |-> job[p].text, keys |-> Used[l]]
<1>1. JobOK(job[p]) /\ job[p] \in Job /\ job[p].step = "seal"
  BY <1>t DEF JobsOK, JobOK, Seal, SealWith, At
<1>2. n \in Names /\ l \in Lists /\ job[p].text \in Nat
  BY <1>1, JobFields DEF JobOK
<1>3. /\ job' = [job EXCEPT ![p] = j] /\ file' = [file EXCEPT ![n] = f]
      /\ owed' = IF Right(n, Used[l]) THEN owed \ {n} ELSE owed \cup {n}
      /\ alone' = alone \cap {p} /\ UNCHANGED <<ids, ops>>
  BY DEF Seal, SealWith, Disturb
<1>4. f \in File
  BY <1>2 DEF File
<1>5. file' \in [Names -> File \cup {NoFile}] /\ owed' \in SUBSET Names
  BY <1>t, <1>2, <1>3, <1>4 DEF TypeOK
<1>6. walk \in Job /\ walk.step = "walk" /\ walk.op = job[p].op /\ walk.todo = job[p].todo
  BY <1>1 DEF Job, Steps
<1>7. JobOK(j)
  BY <1>6, IdleOK DEF JobOK
<1>8. /\ job' \in [Procs -> Job] /\ JobsOK' /\ job'[p] = j
      /\ \A q \in Procs \ {p} : job'[q] = job[q]
  BY <1>t, <1>3, <1>7, JobChange DEF TypeOK
<1>9. TypeOK'
  BY <1>t, <1>3, <1>5, <1>8, TypeFromJobs DEF TypeOK
<1>10. PICK e \in Names : e = n
  BY <1>2
<1>11. Right(e, file[e].keys)' \/ e \in owed'
  <2>1. file'[e].keys = Used[l]
    BY <1>t, <1>3, <1>10 DEF TypeOK
  <2>2. CASE Right(e, Used[l])
    <3>1. Right(e, file[e].keys)'
      BY <2>1, <2>2, <1>3 DEF Right, Resolve
    <3>. QED
      BY <3>1
  <2>3. CASE ~Right(e, Used[l])
    BY <2>3, <1>3, <1>10
  <2>. QED
    BY <2>2, <2>3
<1>12. ASSUME NEW x \in Names \ {e}
       PROVE  /\ file'[x] = file[x] /\ Resolve(x)' = Resolve(x)
              /\ x \in owed => x \in owed'
              /\ x \in Duty(p) => x \in Duty(p)'
  <2>1. file'[x] = file[x] /\ Resolve(x)' = Resolve(x)
    BY <1>t, <1>2, <1>3, <1>10 DEF TypeOK, Resolve
  <2>2. x \in owed => x \in owed'
    BY <1>3, <1>10
  <2>3. x \in Duty(p) => x \in Duty(p)'
    BY <1>1, <1>6, <1>8, <1>10 DEF Duty
  <2>. QED
    BY <2>1, <2>2, <2>3
<1>13. KeysFollowIds'
  BY <1>t, <1>8, <1>11, <1>12, Accounted
<1>. QED
  BY <1>8, <1>9, <1>13 DEF KeysInv

\* An operation ends, and what it leaves undone is owed.
LEMMA EndKeeps ==
  ASSUME KeysInv, NEW p \in Procs, job' = [job EXCEPT ![p] = Idle],
         owed' = owed \cup Duty(p), UNCHANGED <<ids, file, ops, alone>>
  PROVE  KeysInv'
<1>t. TypeOK /\ JobsOK /\ KeysFollowIds
  BY DEF KeysInv
<1>1. /\ job' \in [Procs -> Job] /\ JobsOK'
      /\ \A q \in Procs \ {p} : job'[q] = job[q]
  BY <1>t, IdleOK, JobChange DEF TypeOK
<1>2. Duty(p) \in SUBSET Names
  <2>1. JobOK(job[p]) /\ job[p].todo \in SUBSET Names
    BY <1>t, JobFields DEF JobsOK, JobOK
  <2>. QED
    BY <2>1 DEF Duty, JobOK
<1>3. TypeOK'
  BY <1>t, <1>1, <1>2, TypeFromJobs DEF TypeOK
<1>4. KeysFollowIds'
  BY <1>t, <1>1, Accounted DEF Resolve
<1>. QED
  BY <1>1, <1>3, <1>4 DEF KeysInv

LEMMA DoneKeeps ==
  ASSUME KeysInv, NEW p \in Procs, Done(p)
  PROVE  KeysInv'
<1>1. Duty(p) = {}
  BY DEF Done, At, Duty
<1>. QED
  BY <1>1, EndKeeps DEF Done

LEMMA DeleteEntryKeeps ==
  ASSUME KeysInv, NEW n \in Names, DeleteEntry(n)
  PROVE  KeysInv'
<1>t. TypeOK /\ JobsOK /\ KeysFollowIds
  BY DEF KeysInv
<1>1. /\ file' = [file EXCEPT ![n] = NoFile] /\ ops' = ops + 1 /\ alone' = {}
      /\ UNCHANGED <<ids, job, owed>>
  BY DEF DeleteEntry
<1>2. JobsOK'
  BY <1>t, <1>1 DEF JobsOK
<1>3. file' \in [Names -> File \cup {NoFile}]
  BY <1>t, <1>1 DEF TypeOK
<1>4. TypeOK'
  BY <1>t, <1>1, <1>2, <1>3, TypeFromJobs DEF TypeOK
<1>5. KeysFollowIds'
  <2>. SUFFICES ASSUME NEW x \in Names, file'[x] # NoFile, ~Right(x, file[x].keys)'
       PROVE x \in owed' \/ \E q \in Procs : x \in Duty(q)'
    BY DEF KeysFollowIds, NoFile
  <2>1. x # n /\ file'[x] = file[x]
    BY <1>t, <1>1 DEF TypeOK
  <2>2. file[x] # NoFile /\ ~Right(x, file[x].keys)
    BY <2>1, <1>1 DEF Right, Resolve, NoFile
  <2>3. x \in owed \/ \E q \in Procs : x \in Duty(q)
    BY <1>t, <2>2 DEF KeysFollowIds
  <2>. QED
    BY <1>1, <2>3 DEF Duty
<1>. QED
  BY <1>2, <1>4, <1>5 DEF KeysInv

LEMMA KeysStep == KeysInv /\ [Next]_vars => KeysInv'
<1>. SUFFICES ASSUME KeysInv, [Next]_vars PROVE KeysInv'
  OBVIOUS
<1>1. ASSUME NEW p \in Procs, Step(p) PROVE KeysInv'
  <2>1. CASE Test(p)
    BY <2>1, TestKeeps
  <2>2. CASE Place(p)
    BY <2>2, PlaceKeeps
  <2>3. CASE Decrypt(p)
    BY <2>3, DecryptKeeps
  <2>4. CASE Seal(p)
    BY <2>4, SealKeeps
  <2>5. CASE Done(p)
    BY <2>5, DoneKeeps
  <2>6. CASE Fail(p)
    BY <2>6, EndKeeps DEF Fail
  <2>7. CASE \E n \in Names : Visit(p, n)
    BY <2>7, VisitKeeps
  <2>. QED
    BY <1>1, <2>1, <2>2, <2>3, <2>4, <2>5, <2>6, <2>7 DEF Step
<1>2. ASSUME NEW p \in Procs, Start(p) PROVE KeysInv'
  <2>1. CASE \E n \in Names : Write(p, n)
    BY <2>1, WriteKeeps
  <2>2. CASE \E op \in {"move", "copy"}, m, n \in Names, force \in BOOLEAN :
               CopyMove(p, op, m, n, force)
    BY <2>2, CopyMoveKeeps
  <2>3. CASE \E d \in Dirs : Reencrypt(p, d)
    BY <2>3, ReencryptKeeps
  <2>4. CASE \E d \in Dirs : \E l \in Lists \cup {None} : InitIds(p, d, l)
    BY <2>4, InitIdsKeeps
  <2>. QED
    BY <1>2, <2>1, <2>2, <2>3, <2>4 DEF Start
<1>3. ASSUME NEW n \in Names, DeleteEntry(n) PROVE KeysInv'
  BY <1>3, DeleteEntryKeeps
<1>4. CASE UNCHANGED vars
  <2>1. UNCHANGED <<ids, file, ops, job, owed, alone>>
    BY <1>4 DEF vars
  <2>2. JobsOK' /\ TypeOK'
    BY <2>1 DEF KeysInv, JobsOK, TypeOK
  <2>3. KeysFollowIds'
    BY <2>1 DEF KeysInv, KeysFollowIds, Right, Resolve, ResolveIn, Duty
  <2>. QED
    BY <2>2, <2>3 DEF KeysInv
<1>. QED
  BY <1>1, <1>2, <1>3, <1>4 DEF Next

LEMMA KeysInvariant == Spec => []KeysInv
  BY KeysInit, KeysStep, PTL DEF Spec

\* Every variable keeps its type: a write or a re-encryption under way has an
\* entry and its recipients (passfl_recipients_resolve, reencrypt_one).
THEOREM TypeCorrect == Spec => []TypeOK
<1>1. KeysInv => TypeOK
  BY DEF KeysInv
<1>. QED
  BY <1>1, KeysInvariant, PTL

\* An entry with other keys than its recipients' is one that an operation
\* under way has to see to, or that an operation failed on or overtook, for
\* any directories, recipients and number of processes (reencrypt_one,
\* copy_move, passfl_store_init_ids, passfl_store_write_entry).
THEOREM WrongKeysAreAccounted == Spec => []KeysFollowIds
<1>1. KeysInv => KeysFollowIds
  BY DEF KeysInv
<1>. QED
  BY <1>1, KeysInvariant, PTL

(***************************************************************************)
(* WalkRepairs.  As long as nobody else changes a file or a recipients     *)
(* file, all that the walk has left behind is right, and the recipients it *)
(* holds are those in force.                                               *)
(***************************************************************************)

\* n is gone, or has the keys of its recipients
Put(n) == file[n] = NoFile \/ Right(n, file[n].keys)

RepairOK(p) ==
  p \in alone /\ job[p].op \in {"init", "reencrypt"} =>
    /\ job[p].step \in {"walk", "decrypt", "seal"}
    /\ job[p].step \in {"decrypt", "seal"} => job[p].list = Resolve(job[p].name)
    /\ \A n \in Under(job[p].dir) : n \in Duty(p) \/ Put(n)

RepairInv == \A p \in Procs : RepairOK(p)

\* A process is not concerned by what leaves it and the store alone.
LEMMA RepairQuiet ==
  ASSUME NEW p \in Procs, RepairOK(p), job'[p] = job[p], UNCHANGED <<ids, file>>,
         p \in alone' => p \in alone
  PROVE  RepairOK(p)'
<1>1. \A n \in Names : Put(n)' <=> Put(n)
  BY DEF Put, Right, Resolve, ResolveIn
<1>2. Duty(p)' = Duty(p)
  BY DEF Duty
<1>3. \A n \in Names : Resolve(n)' = Resolve(n)
  BY DEF Resolve, ResolveIn
<1>4. Resolve(job[p].name)' = Resolve(job[p].name)
  BY DEF Resolve, ResolveIn
<1>. QED
  BY <1>1, <1>2, <1>4 DEF RepairOK, Under

\* A process that is at rest, or in another operation, has no walk to end.
LEMMA RepairOther ==
  ASSUME NEW p \in Procs, job'[p].op \notin {"init", "reencrypt"}
  PROVE  RepairOK(p)'
  BY DEF RepairOK

\* Only q takes a step, and the store stays: the others are not concerned.
LEMMA RepairRest ==
  ASSUME RepairInv, NEW q \in Procs, UNCHANGED <<ids, file>>, alone' \subseteq alone \cup {q},
         \A p \in Procs \ {q} : job'[p] = job[p],
         RepairOK(q)'
  PROVE  RepairInv'
<1>1. ASSUME NEW p \in Procs \ {q} PROVE RepairOK(p)'
  BY <1>1, RepairQuiet DEF RepairInv
<1>. QED
  BY <1>1 DEF RepairInv

\* q disturbs all others.
LEMMA RepairDisturbed ==
  ASSUME NEW q \in Procs, alone' \subseteq {q}, RepairOK(q)'
  PROVE  RepairInv'
<1>1. ASSUME NEW p \in Procs \ {q} PROVE RepairOK(p)'
  BY <1>1 DEF RepairOK
<1>. QED
  BY <1>1 DEF RepairInv

LEMMA RepairInit == Init => RepairInv
  BY DEF Init, RepairInv, RepairOK

\* An operation that walks starts with all of its subtree before it.
LEMMA RepairStart ==
  ASSUME KeysInv, RepairInv, NEW q \in Procs, Start(q)
  PROVE  RepairInv'
<1>t. job \in [Procs -> Job]
  BY DEF KeysInv, TypeOK
<1>1. ASSUME NEW op, NEW step, NEW change, Begin(q, op, step, change),
             UNCHANGED <<ids, file>>,
             RepairOK(q)'
      PROVE  RepairInv'
  <2>1. alone' = alone \cup {q} /\ \A p \in Procs \ {q} : job'[p] = job[p]
    BY <1>1, <1>t DEF Begin
  <2>. QED
    BY <1>1, <2>1, RepairRest
<1>2. CASE \E n \in Names : Write(q, n)
  <2>1. PICK n \in Names : Write(q, n)
    BY <1>2
  <2>2. job'[q].op = "write"
    BY <2>1, <1>t DEF Write, Begin, Idle
  <2>. QED
    BY <2>1, <2>2, <1>1, RepairOther DEF Write
<1>3. CASE \E op \in {"move", "copy"}, m, n \in Names, force \in BOOLEAN :
             CopyMove(q, op, m, n, force)
  <2>1. PICK op \in {"move", "copy"}, m \in Names, n \in Names, force \in BOOLEAN :
               CopyMove(q, op, m, n, force)
    BY <1>3
  <2>2. job'[q].op = op
    BY <2>1, <1>t DEF CopyMove, Begin, Idle
  <2>3. RepairOK(q)'
    BY <2>1, <2>2, RepairOther
  <2>. QED
    BY <2>1, <2>3, <1>1 DEF CopyMove
<1>4. CASE \E d \in Dirs : Reencrypt(q, d)
  <2>1. PICK d \in Dirs : Reencrypt(q, d)
    BY <1>4
  <2>2. /\ job'[q].op = "reencrypt" /\ job'[q].step = "walk"
        /\ job'[q].dir = d /\ job'[q].todo = Under(d)
    BY <2>1, <1>t DEF Reencrypt, Begin, Idle
  <2>3. RepairOK(q)'
    BY <2>2 DEF RepairOK, Duty, Under
  <2>. QED
    BY <2>1, <2>3, <1>1 DEF Reencrypt
<1>5. CASE \E d \in Dirs : \E l \in Lists \cup {None} : InitIds(q, d, l)
  <2>1. PICK d \in Dirs, l \in Lists \cup {None} : InitIds(q, d, l)
    BY <1>5
  <2>2. /\ job'[q].op = "init" /\ job'[q].step = "walk"
        /\ job'[q].dir = d /\ job'[q].todo = Under(d) /\ alone' = {q}
    BY <2>1, <1>t DEF InitIds, Idle
  <2>3. RepairOK(q)'
    BY <2>2 DEF RepairOK, Duty, Under
  <2>. QED
    BY <2>2, <2>3, RepairDisturbed
<1>. QED
  BY <1>2, <1>3, <1>4, <1>5 DEF Start

LEMMA RepairVisit ==
  ASSUME KeysInv, RepairInv, NEW q \in Procs, NEW n \in Names, Visit(q, n)
  PROVE  RepairInv'
<1>t. job \in [Procs -> Job] /\ job[q] \in Job
  BY DEF KeysInv, TypeOK
<1>. DEFINE l == Resolve(n)
<1>1. /\ job[q].step = "walk" /\ UNCHANGED <<ids, file, alone>>
      /\ \A p \in Procs \ {q} : job'[p] = job[p]
  BY <1>t DEF Visit, At
<1>2. CASE file[n] = NoFile \/ Desired[l] = file[n].keys
  <2>1. job' = [job EXCEPT ![q] = [job[q] EXCEPT !.todo = job[q].todo \ {n}]]
    BY <1>t, <1>2 DEF Visit
  <2>2. /\ job'[q].step = "walk" /\ job'[q].op = job[q].op /\ job'[q].dir = job[q].dir
        /\ job'[q].todo = job[q].todo \ {n}
    BY <2>1, <1>t, <1>1 DEF Job
  <2>3. \A x \in Names : Put(x) => Put(x)'
    BY <1>1 DEF Put, Right, Resolve, ResolveIn
  <2>4. Put(n)
    BY <1>2 DEF Put, Right, Visit
  <2>5. \A x \in Names \ {n} : x \in Duty(q) => x \in Duty(q)'
    BY <1>1, <2>2 DEF Duty
  <2>6. RepairOK(q)'
    BY <1>1, <2>2, <2>3, <2>4, <2>5 DEF RepairInv, RepairOK, Under
  <2>. QED
    BY <1>1, <2>6, RepairRest
<1>3. CASE ~(file[n] = NoFile \/ Desired[l] = file[n].keys)
  <2>1. job' = [job EXCEPT ![q] = [job[q] EXCEPT !.todo = job[q].todo \ {n},
                                     !.step = "decrypt", !.name = n, !.list = l]]
    BY <1>t, <1>3 DEF Visit
  <2>2. /\ job'[q].step = "decrypt" /\ job'[q].op = job[q].op /\ job'[q].dir = job[q].dir
        /\ job'[q].todo = job[q].todo \ {n} /\ job'[q].name = n /\ job'[q].list = l
    BY <2>1, <1>t DEF Job
  <2>3. \A x \in Names : Put(x) => Put(x)'
    BY <1>1 DEF Put, Right, Resolve, ResolveIn
  <2>4. \A x \in Names : x \in Duty(q) => x \in Duty(q)'
    BY <1>1, <2>2 DEF Duty
  <2>5. job'[q].list = Resolve(job[q].name)'
    BY <1>1, <2>2 DEF Resolve, ResolveIn
  <2>6. RepairOK(q)'
    BY <1>1, <2>2, <2>3, <2>4, <2>5 DEF RepairInv, RepairOK, Under
  <2>. QED
    BY <1>1, <2>6, RepairRest
<1>. QED
  BY <1>2, <1>3

LEMMA RepairDecrypt ==
  ASSUME KeysInv, RepairInv, NEW q \in Procs, Decrypt(q)
  PROVE  RepairInv'
<1>t. job \in [Procs -> Job] /\ job[q] \in Job
  BY DEF KeysInv, TypeOK
<1>1. /\ job[q].step = "decrypt" /\ UNCHANGED <<ids, file, alone>>
      /\ \A p \in Procs \ {q} : job'[p] = job[p]
  BY <1>t DEF Decrypt, At
<1>2. /\ job'[q].step = "seal" /\ job'[q].op = job[q].op /\ job'[q].dir = job[q].dir
      /\ job'[q].todo = job[q].todo /\ job'[q].name = job[q].name
      /\ job'[q].list = job[q].list
  BY <1>t DEF Decrypt, Job
<1>3. \A x \in Names : Put(x) => Put(x)'
  BY <1>1 DEF Put, Right, Resolve, ResolveIn
<1>4. Duty(q)' = Duty(q)
  BY <1>1, <1>2 DEF Duty
<1>5. Resolve(job[q].name)' = Resolve(job[q].name)
  BY <1>1, <1>2 DEF Resolve, ResolveIn
<1>6. RepairOK(q)'
  BY <1>1, <1>2, <1>3, <1>4, <1>5 DEF RepairInv, RepairOK, Under
<1>. QED
  BY <1>1, <1>6, RepairRest

\* The entry written has its keys: they are of the recipients in force.
LEMMA RepairSeal ==
  ASSUME KeysInv, RepairInv, NEW q \in Procs, Seal(q)
  PROVE  RepairInv'
<1>t. job \in [Procs -> Job] /\ job[q] \in Job /\ file \in [Names -> File \cup {NoFile}]
  BY DEF KeysInv, TypeOK
<1>1. /\ job[q].step = "seal" /\ UNCHANGED ids /\ alone' = alone \cap {q}
      /\ job' = [job EXCEPT ![q] = IF job[q].op = "write" THEN Idle
                                   ELSE [job[q] EXCEPT !.step = "walk"]]
  BY DEF Seal, SealWith, At, Disturb
<1>2. job[q].name \in Names /\ job[q].list \in Lists
  BY <1>1 DEF KeysInv, JobsOK, JobOK
<1>3. PICK e \in Names : e = job[q].name
  BY <1>2
<1>4. file' = [file EXCEPT ![e] = [text |-> job[q].text, keys |-> Used[job[q].list]]]
  BY <1>3 DEF Seal, SealWith
<1>5. CASE q \notin alone \/ job[q].op \notin {"init", "reencrypt"}
  <2>1. q \notin alone' \/ job'[q].op \notin {"init", "reencrypt"}
    BY <1>t, <1>1, <1>5 DEF Idle, Job
  <2>2. RepairOK(q)'
    BY <2>1 DEF RepairOK
  <2>. QED
    BY <1>1, <2>2, RepairDisturbed
<1>6. CASE q \in alone /\ job[q].op \in {"init", "reencrypt"}
  <2>1. /\ job'[q].step = "walk" /\ job'[q].op = job[q].op
        /\ job'[q].dir = job[q].dir /\ job'[q].todo = job[q].todo
    BY <1>t, <1>1, <1>6 DEF Job
  <2>2. job[q].list = Resolve(e)
    BY <1>1, <1>3, <1>6 DEF RepairInv, RepairOK
  <2>3. Put(e)'
    <3>1. file'[e].keys = Used[Resolve(e)] /\ Resolve(e)' = Resolve(e) /\ Resolve(e) \in Lists
      BY <1>t, <1>1, <1>2, <1>4, <2>2 DEF Resolve, ResolveIn
    <3>. QED
      BY <3>1 DEF Put, Right
  <2>4. \A x \in Names \ {e} : Put(x) => Put(x)'
    BY <1>t, <1>1, <1>4 DEF Put, Right, Resolve, ResolveIn
  <2>5. \A x \in Names \ {e} : x \in Duty(q) => x \in Duty(q)'
    BY <1>1, <1>3, <2>1 DEF Duty
  <2>6. RepairOK(q)'
    BY <1>6, <2>1, <2>3, <2>4, <2>5 DEF RepairInv, RepairOK, Under
  <2>. QED
    BY <1>1, <2>6, RepairDisturbed
<1>. QED
  BY <1>5, <1>6

LEMMA RepairStep == KeysInv /\ RepairInv /\ [Next]_vars => RepairInv'
<1>. SUFFICES ASSUME KeysInv, RepairInv, [Next]_vars PROVE RepairInv'
  OBVIOUS
<1>t. job \in [Procs -> Job] /\ JobsOK
  BY DEF KeysInv, TypeOK
<1>1. ASSUME NEW q \in Procs, Step(q) PROVE RepairInv'
  <2>1. CASE Test(q)
    <3>1. job[q].op \in {"move", "copy"} /\ job[q] \in Job
      BY <2>1, <1>t DEF Test, At, JobsOK, JobOK
    <3>2. job'[q].op \notin {"init", "reencrypt"}
      BY <2>1, <3>1, <1>t DEF Test, Idle, Job
    <3>3. UNCHANGED <<ids, file, alone>> /\ \A p \in Procs \ {q} : job'[p] = job[p]
      BY <2>1, <1>t DEF Test
    <3>. QED
      BY <3>2, <3>3, RepairOther, RepairRest
  <2>2. CASE Place(q)
    <3>1. job[q].op \in {"move", "copy"} /\ job[q] \in Job
      BY <2>2, <1>t DEF Place, At, JobsOK, JobOK
    <3>2. job'[q].op \notin {"init", "reencrypt"} /\ alone' \subseteq {q}
      BY <2>2, <3>1, <1>t DEF Place, Disturb, Job
    <3>. QED
      BY <3>2, RepairOther, RepairDisturbed
  <2>3. CASE Done(q) \/ Fail(q)
    <3>1. job' = [job EXCEPT ![q] = Idle] /\ UNCHANGED <<ids, file, alone>>
      BY <2>3 DEF Done, Fail
    <3>2. job'[q].op = "none" /\ \A p \in Procs \ {q} : job'[p] = job[p]
      BY <3>1, <1>t DEF Idle
    <3>. QED
      BY <3>1, <3>2, RepairOther, RepairRest
  <2>4. CASE Decrypt(q)
    BY <2>4, RepairDecrypt
  <2>5. CASE Seal(q)
    BY <2>5, RepairSeal
  <2>6. CASE \E n \in Names : Visit(q, n)
    BY <2>6, RepairVisit
  <2>. QED
    BY <1>1, <2>1, <2>2, <2>3, <2>4, <2>5, <2>6 DEF Step
<1>2. ASSUME NEW q \in Procs, Start(q) PROVE RepairInv'
  BY <1>2, RepairStart
<1>3. ASSUME NEW n \in Names, DeleteEntry(n) PROVE RepairInv'
  BY <1>3 DEF DeleteEntry, RepairInv, RepairOK
<1>4. CASE UNCHANGED vars
  BY <1>4, RepairQuiet DEF vars, RepairInv
<1>. QED
  BY <1>1, <1>2, <1>3, <1>4 DEF Next

\* A walk that nobody else disturbed, and that reports success, leaves its
\* whole subtree with the keys of its recipients, whatever failed before, for
\* any directories, recipients and number of processes
\* (passfl_store_reencrypt, passfl_store_init_ids).
THEOREM WalksRepair == Spec => WalkRepairs
<1>1. KeysInv /\ RepairInv /\ [Next]_vars =>
        [\A p \in Procs :
           Done(p) /\ p \in alone /\ job[p].op \in {"init", "reencrypt"} =>
             \A n \in Under(job[p].dir) : file[n] # NoFile => Right(n, file[n].keys)]_vars
  <2>. SUFFICES ASSUME RepairInv, NEW p \in Procs, Done(p), p \in alone,
                       job[p].op \in {"init", "reencrypt"},
                       NEW n \in Under(job[p].dir), file[n] # NoFile
       PROVE  Right(n, file[n].keys)
    OBVIOUS
  <2>1. Duty(p) = {}
    BY DEF Done, At, Duty
  <2>. QED
    BY <2>1 DEF RepairInv, RepairOK, Put
<1>2. Spec => []RepairInv
  BY KeysInvariant, RepairInit, RepairStep, PTL DEF Spec
<1>. QED
  BY <1>1, <1>2, KeysInvariant, PTL DEF Spec, WalkRepairs

-----------------------------------------------------------------------------
(* The key ids of the entries. *)

LEMMA KeyIdsOfFinite ==
  ASSUME NEW keys \in SUBSET Keys
  PROVE  KeyIdsOf(keys) \in SUBSET KeyID /\ IsFiniteSet(KeyIdsOf(keys))
<1>. DEFINE id == [k \in keys |-> KeyId[k]]
<1>1. id \in Surjection(keys, KeyIdsOf(keys))
  BY DEF Surjection, KeyIdsOf
<1>2. IsFiniteSet(keys)
  BY FS_Subset
<1>3. IsFiniteSet(KeyIdsOf(keys))
  BY ONLY <1>1, <1>2, FS_Surjection
<1>4. KeyIdsOf(keys) \in SUBSET KeyID
  BY DEF KeyIdsOf
<1>. QED
  BY <1>3, <1>4

\* The keys that re-encryption compares are those the entry is encrypted to:
\* for any keys with any ids, and session keys of any sizes, each file they
\* can be written in is read as it is (passfl_crypto_file_keyids, whose answer
\* reencrypt_one and copy_move go by).
THEOREM KeysAreFound == Spec => []KeysAreRead
<1>1. ASSUME NEW keys \in SUBSET Keys, NEW f \in Files(KeyIdsOf(keys), Sizes)
      PROVE  IsReadAs(f, KeyIdsOf(keys))
  BY KeyIdsOfFinite, FilesAreRead
<1>2. Misread = {}
  BY ONLY <1>1 DEF Misread
<1>3. KeysAreRead
  BY ONLY <1>2 DEF KeysAreRead
<1>. QED
  BY <1>3, PTL
=============================================================================
