------------------------------- MODULE KeyIds -------------------------------
(***************************************************************************)
(* The key ids in an encrypted file (passfl_crypto_file_keyids in          *)
(* src/engine/crypto.c): a walk over the OpenPGP packets at its front,     *)
(* which are read from the bytes, offset by offset.  A file is a sequence  *)
(* of bytes, a key id one of eight; the list of ids, sorted and without    *)
(* duplicates, is their set.                                               *)
(***************************************************************************)
EXTENDS Integers, SequencesExt

Byte  == 0 .. 255
KeyID == [1 .. 8 -> Byte]

\* the first byte of a packet: the format and the tag
IsNew(hdr) == (hdr \div 64) % 2 = 1
Tag(hdr)   == IF IsNew(hdr) THEN hdr % 64 ELSE (hdr \div 4) % 16

\* how many bytes tell the length, in the new format those after the second one;
\* none for partial and indeterminate lengths
NoLength == -1
LengthBytes(hdr, c) ==
  CASE IsNew(hdr) /\ c < 192          -> 0
    [] IsNew(hdr) /\ c \in 192 .. 223 -> 1
    [] IsNew(hdr) /\ c = 255          -> 4
    [] ~IsNew(hdr) /\ hdr % 4 = 0     -> 1
    [] ~IsNew(hdr) /\ hdr % 4 = 1     -> 2
    [] ~IsNew(hdr) /\ hdr % 4 = 2     -> 4
    [] OTHER                          -> NoLength

\* the big-endian number of so many bytes that begins at i
Number(data, i, width) ==
  LET two(k) == 256 * data[k] + data[k + 1]
  IN  CASE width = 0 -> 0
        [] width = 1 -> data[i]
        [] width = 2 -> two(i)
        [] width = 4 -> 65536 * two(i) + two(i + 2)

NoHeader == [tag |-> -1, off |-> 0, len |-> 0]

\* the header of the packet at pos (an offset from 0): its tag, where its body
\* begins and how long that is.  None for a byte that begins no packet, and for
\* a header the file ends in.
HeaderAt(data, pos) ==
  LET hdr    == data[pos + 1]
      c      == data[pos + 2]
      width  == LengthBytes(hdr, c)
      first  == IF IsNew(hdr) THEN pos + 3 ELSE pos + 2
      number == Number(data, first, width)
  IN  IF \/ hdr < 128
         \/ pos + 1 >= Len(data)
         \/ width = NoLength
         \/ first + width - 1 > Len(data)
      THEN NoHeader
      ELSE [tag |-> Tag(hdr),
            off |-> first + width - 1,
            len |-> CASE IsNew(hdr) /\ width = 0 -> c
                      [] IsNew(hdr) /\ width = 1 -> 256 * (c - 192) + number + 192
                      [] OTHER -> number]

PKESK == 1  \* a session key, encrypted to a key
SKESK == 3  \* the same, to a passphrase

\* (mutant) the walk stops at the session key of a passphrase
EskTagsPublic == {PKESK}

\* the packets at the front of a file
EskTags == {PKESK, SKESK}

PacketAt(data, pos) == IF pos < Len(data) THEN HeaderAt(data, pos) ELSE NoHeader

\* where the walk stops: past the packets of session keys, or in one that is
\* cut off
IsLast(h, len) == h.tag \notin EskTags \/ (h.tag = PKESK /\ h.off + 9 > len)

IdsIn(data, h) == IF h.tag = PKESK THEN {SubSeq(data, h.off + 2, h.off + 9)} ELSE {}

\* passfl_crypto_file_keyids.  What is added to an offset is less than 2^32, so
\* a gsize does not overflow.
FileKeyIds(data) ==
  LET found[pos \in Nat] ==
        LET h == PacketAt(data, pos)
        IN  IF IsLast(h, Len(data)) THEN {} ELSE IdsIn(data, h) \cup found[h.off + h.len]
  IN  found[0]

-----------------------------------------------------------------------------
(* Files as gpg and other programs write them (RFC 4880, section 4.2). *)

\* the headers a packet can have, short of a partial length: one, two or four
\* bytes of length in the old format and in the new
Headers(tag, n) ==
  LET four == <<n \div 16777216, (n \div 65536) % 256, (n \div 256) % 256, n % 256>>
  IN  (IF n < 256 THEN {<<128 + 4 * tag, n>>} ELSE {})
      \cup (IF n < 65536 THEN {<<128 + 4 * tag + 1, n \div 256, n % 256>>} ELSE {})
      \cup (IF n \div 16777216 < 256
            THEN {<<128 + 4 * tag + 2>> \o four, <<192 + tag, 255>> \o four} ELSE {})
      \cup (IF n < 192 THEN {<<192 + tag, n>>} ELSE {})
      \cup (IF n \in 192 .. 8383
            THEN {<<192 + tag, 192 + (n - 192) \div 256, (n - 192) % 256>>} ELSE {})

Filler(n) == [i \in 1 .. n |-> 132]  \* bytes that could begin a packet

\* a session key for a key, the encrypted number n bytes long; for a passphrase
ForKeys(members, n) ==
  {FlattenSeq([k \in DOMAIN members |-> h \o <<3>> \o members[k] \o Filler(n)])
     : h \in Headers(PKESK, n + 9)}
ForPassphrase == {h \o Filler(4) : h \in Headers(SKESK, 4)}

\* the data that follows: partial, or of indeterminate length
Encrypted == {<<192 + 18, 224 + 9>> \o Filler(3), <<128 + 4 * 9 + 3>> \o Filler(3)}

Files(members, sizes) ==
  LET keyed == UNION {ForKeys(s, n) : s \in SetToSeqs(members), n \in sizes}
  IN  {f[1] \o f[2] \o f[3] : f \in ({<<>>} \cup ForPassphrase) \X keyed \X Encrypted}

MaxCut == 100  \* bound: where a file is cut off

\* what the walk should find: the ids of a file, and in a file that is cut off
\* none that are not there
IsReadAs(f, members) ==
  /\ FileKeyIds(f) = members
  /\ \A n \in DOMAIN f : n <= MaxCut => FileKeyIds(SubSeq(f, 1, n)) \subseteq members
=============================================================================
