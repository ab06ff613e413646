-------------------------- MODULE ClipboardProofs --------------------------
(***************************************************************************)
(* Machine-checked proofs about Clipboard, for every length of the         *)
(* countdown and every number of copies: its safety invariants.            *)
(***************************************************************************)
EXTENDS Clipboard, TLAPS

(***************************************************************************)
(* Why the last secret is always timed: it reaches the clipboard only from *)
(* its own copy, because a read, and what a countdown restores, are older  *)
(* than the copy they belong to.                                           *)
(***************************************************************************)

\* while the copy waits that met no other read, its own is the only one
OwnReadOnly ==
  pending # 0 /\ ~copy.missed =>
    \A r \in reads : r.found = copy.found /\ ~r.cancelled

\* content c was on the clipboard before copy n was
Before(c, n) == c.kind = "secret" => c.n \in 1 .. (n - 1)

ClipInv ==
  /\ TypeOK
  /\ LatestCopyIsTimed
  /\ WaitingMeansStopped
  /\ ReadIsUnderWay
  /\ RestoresFound
  /\ OwnReadOnly
  /\ \A r \in reads : r.n <= copy.n /\ Before(r.found, r.n)
  /\ Before(restore, copy.n)
  /\ Before(clip.content, copy.n + 1)
  /\ clip.content.kind = "secret" => clip.local

LEMMA ClipTypes ==
  /\ Null \in Content /\ Empty \in Content
  /\ \A n \in Nat : Secret(n) \in Content
  BY DEF Null, Empty, Secret, Content, Kinds

LEMMA CancelledReadsType ==
  ASSUME ClipInv
  PROVE  /\ CancelledReads \in SUBSET Read
         /\ \A r \in CancelledReads : r.n <= copy.n /\ Before(r.found, r.n)
         /\ \A r \in reads : \E s \in CancelledReads :
              s.n = r.n /\ (r.cancelled \/ r.n = cancel => s.cancelled)
<1>1. \A r \in reads : r \in Read /\ r.n <= copy.n /\ Before(r.found, r.n)
  BY DEF ClipInv, TypeOK
<1>2. \A r \in reads :
        LET s == IF r.n = cancel THEN [r EXCEPT !.cancelled = TRUE] ELSE r
        IN  /\ s \in Read /\ s.n = r.n /\ s.found = r.found
            /\ r.cancelled \/ r.n = cancel => s.cancelled
  BY <1>1 DEF Read
<1>3. CancelledReads \in SUBSET Read
  BY <1>2 DEF CancelledReads
<1>4. \A r \in CancelledReads : r.n <= copy.n /\ Before(r.found, r.n)
  BY <1>1, <1>2 DEF CancelledReads
<1>5. \A r \in reads : \E s \in CancelledReads :
        s.n = r.n /\ (r.cancelled \/ r.n = cancel => s.cancelled)
  <2> SUFFICES ASSUME NEW r \in reads
               PROVE  \E s \in CancelledReads :
                        s.n = r.n /\ (r.cancelled \/ r.n = cancel => s.cancelled)
    OBVIOUS
  <2> DEFINE s == IF r.n = cancel THEN [r EXCEPT !.cancelled = TRUE] ELSE r
  <2>1. s \in CancelledReads
    BY DEF CancelledReads
  <2>2. s.n = r.n /\ (r.cancelled \/ r.n = cancel => s.cancelled)
    BY <1>2
  <2> HIDE DEF s
  <2>3. QED
    BY <2>1, <2>2
<1>6. QED
  BY <1>3, <1>4, <1>5

\* clip_disarm leaves the invariant true, whatever is done to the clipboard
\* as long as the last secret is not left on it
LEMMA DisarmKeeps ==
  ASSUME ClipInv, Disarm, clip' \in [content : Content, local : BOOLEAN],
         Before(clip'.content, copy.n), clip'.content.kind = "secret" => clip'.local,
         copy' = copy, changes' \in Nat, alive' \in BOOLEAN
  PROVE  ClipInv'
<1>1. /\ timer' = 0 /\ handler' = FALSE /\ restore' = Null /\ pending' = 0
      /\ cancel' = 0 /\ fallback' = FALSE /\ reads' = CancelledReads
  BY DEF Disarm, StopCountdown
<1>2. TypeOK'
  <2>1. restore' \in Content /\ reads' \in SUBSET Read /\ timer' \in 0 .. ClipTime
    BY <1>1, ClipTypes, CancelledReadsType, ClipboardAssumption
  <2>2. copy' \in [n : Nat, found : Content, missed : BOOLEAN]
    BY DEF ClipInv, TypeOK
  <2>3. QED
    BY <1>1, <2>1, <2>2 DEF TypeOK
<1>3. LatestCopyIsTimed'
  BY <1>1, <1>2 DEF LatestCopyIsTimed, Before, Secret, ClipInv, TypeOK
<1>4. WaitingMeansStopped' /\ ReadIsUnderWay' /\ RestoresFound' /\ OwnReadOnly'
  BY <1>1 DEF WaitingMeansStopped, ReadIsUnderWay, RestoresFound, OwnReadOnly
<1>5. Before(restore', copy'.n) /\ Before(clip'.content, copy'.n + 1)
  BY <1>1, <1>2 DEF Before, Null, ClipInv, TypeOK
<1>6. \A r \in reads' : r.n <= copy'.n /\ Before(r.found, r.n)
  BY <1>1, CancelledReadsType
<1>7. QED
  BY <1>2, <1>3, <1>4, <1>5, <1>6 DEF ClipInv, Before

\* what a countdown or the disposal leaves is not the last secret
LEMMA RestoredIsOld ==
  ASSUME ClipInv
  PROVE  /\ Restored \in [content : Content, local : BOOLEAN]
         /\ Before(Restored.content, copy.n)
         /\ Restored.content.kind = "secret" => Restored.local
<1>1. /\ clip \in [content : Content, local : BOOLEAN] /\ restore \in Content
      /\ Before(restore, copy.n) /\ Before(clip.content, copy.n + 1) /\ copy.n \in Nat
      /\ clip.content.kind = "secret" => clip.local
  BY DEF ClipInv, TypeOK
<1>2. CASE clip.local
  <2>1. Restored = [content |-> IF restore # Null THEN restore ELSE Empty, local |-> TRUE]
    BY <1>2 DEF Restored
  <2>2. QED
    BY <2>1, <1>1, ClipTypes DEF Before, Empty
<1>3. CASE ~clip.local
  BY <1>1, <1>3 DEF Restored, Before
<1>4. QED
  BY <1>2, <1>3

\* what is not a secret may be put on the clipboard at any time
LEMMA ForeignKeeps ==
  ASSUME ClipInv, clip' \in [content : Content, local : BOOLEAN],
         clip'.content.kind \in {"foreign", "plain"}, changes' \in Nat,
         UNCHANGED <<alive, copy, reads, pending, cancel, fallback, restore, timer, handler>>
  PROVE  ClipInv'
<1>1. TypeOK'
  BY DEF ClipInv, TypeOK
<1>2. /\ LatestCopyIsTimed' /\ WaitingMeansStopped' /\ ReadIsUnderWay'
      /\ RestoresFound' /\ OwnReadOnly'
  BY DEF ClipInv, LatestCopyIsTimed, WaitingMeansStopped, ReadIsUnderWay, Secret,
         RestoresFound, OwnReadOnly
<1>3. QED
  BY <1>1, <1>2 DEF ClipInv, Before

LEMMA ClipInvInit == Init => ClipInv
<1> SUFFICES ASSUME Init PROVE ClipInv
  OBVIOUS
<1>1. /\ \E c \in Content : clip = [content |-> c, local |-> FALSE]
      /\ clip.content.kind # "secret"
  BY DEF Init, Content, Kinds, Empty
<1>2. TypeOK
  <2>1. clip \in [content : Content, local : BOOLEAN]
    BY <1>1 DEF Init
  <2>2. copy \in [n : Nat, found : Content, missed : BOOLEAN] /\ restore \in Content
    BY ClipTypes DEF Init
  <2>3. timer \in 0 .. ClipTime /\ reads \in SUBSET Read
    BY ClipboardAssumption DEF Init
  <2>4. QED
    BY <2>1, <2>2, <2>3 DEF Init, TypeOK
<1>3. /\ LatestCopyIsTimed /\ WaitingMeansStopped /\ ReadIsUnderWay
      /\ RestoresFound /\ OwnReadOnly
  BY <1>1 DEF Init, LatestCopyIsTimed, WaitingMeansStopped, ReadIsUnderWay, Secret,
              RestoresFound, OwnReadOnly
<1>4. Before(restore, copy.n) /\ Before(clip.content, copy.n + 1)
  BY <1>1 DEF Init, Before, Null
<1>5. QED
  BY <1>1, <1>2, <1>3, <1>4 DEF ClipInv, Init

LEMMA ClipInvStep == ClipInv /\ [Next]_vars => ClipInv'
<1> SUFFICES ASSUME ClipInv, [Next]_vars PROVE ClipInv'
  OBVIOUS
<1>0. /\ TypeOK /\ LatestCopyIsTimed /\ WaitingMeansStopped /\ ReadIsUnderWay
      /\ RestoresFound /\ OwnReadOnly
      /\ \A r \in reads : r.n <= copy.n /\ Before(r.found, r.n)
      /\ Before(restore, copy.n)
      /\ Before(clip.content, copy.n + 1)
      /\ clip.content.kind = "secret" => clip.local
  BY DEF ClipInv
<1>1. CASE CopyTimed
  <2> DEFINE r == [n |-> copy.n + 1, found |-> clip.content, cancelled |-> FALSE]
  <2>1. copy.n \in Nat /\ clip.content \in Content
    BY <1>0 DEF TypeOK
  <2>2. /\ copy' = [n |-> copy.n + 1, found |-> clip.content, missed |-> reads # {}]
        /\ pending' = copy.n + 1 /\ cancel' = copy.n + 1 /\ fallback' = TRUE
        /\ reads' = CancelledReads \cup {r}
        /\ UNCHANGED <<clip, changes, alive>> /\ alive
    BY <1>1 DEF CopyTimed
  <2>3. timer' = 0 /\ handler' = FALSE /\ restore' = Null
    BY <1>1 DEF CopyTimed, StopCountdown
  <2>4. r \in Read /\ reads' \in SUBSET Read
    <3>1. r \in Read
      BY <2>1 DEF Read
    <3>2. QED
      BY <2>2, <3>1, CancelledReadsType
  <2>5. TypeOK'
    <3>1. restore' \in Content /\ timer' \in 0 .. ClipTime
      BY <2>3, ClipTypes, ClipboardAssumption
    <3>2. copy' \in [n : Nat, found : Content, missed : BOOLEAN]
      BY <2>1, <2>2
    <3>3. QED
      BY <1>0, <2>1, <2>2, <2>3, <2>4, <3>1, <3>2 DEF TypeOK
  <2>6. LatestCopyIsTimed'
    BY <1>0, <2>1, <2>2 DEF LatestCopyIsTimed, Before, Secret
  <2>7. WaitingMeansStopped'
    <3>1. copy'.n = copy.n + 1
      BY <2>2
    <3>2. /\ timer' = 0 /\ handler' = FALSE /\ alive' = TRUE /\ fallback' = TRUE
          /\ pending' = copy'.n /\ cancel' = pending' /\ pending' # 0
      BY <1>0, <2>1, <2>2, <2>3, <3>1 DEF TypeOK
    <3>3. QED
      BY <3>2 DEF WaitingMeansStopped
  <2>8. ReadIsUnderWay'
    <3>1. r \in reads' /\ r.n = pending'
      BY <2>2
    <3>2. QED
      BY <2>2, <3>1 DEF ReadIsUnderWay
  <2>9. \A s \in reads' : s.n <= copy'.n /\ Before(s.found, s.n)
    <3>1. \A s \in CancelledReads : s.n \in Nat /\ s.n <= copy.n /\ Before(s.found, s.n)
      BY CancelledReadsType DEF Read
    <3>2. r.n <= copy'.n /\ Before(r.found, r.n)
      BY <1>0, <2>1, <2>2
    <3>3. QED
      BY <2>1, <2>2, <3>1, <3>2
  <2>10. Before(restore', copy'.n) /\ Before(clip'.content, copy'.n + 1)
    BY <1>0, <2>1, <2>2, <2>3 DEF Before, Null, Content
  <2>11. RestoresFound' /\ OwnReadOnly'
    <3>1. reads = {} => CancelledReads = {}
      BY DEF CancelledReads
    <3>2. copy'.missed = (reads # {}) /\ copy'.found = clip.content
      BY <2>2
    <3>3. RestoresFound'
      BY <2>3 DEF RestoresFound
    <3>4. ASSUME ~copy'.missed, NEW s \in reads' PROVE s.found = copy'.found /\ ~s.cancelled
      <4>1. s = r
        BY <2>2, <3>1, <3>2, <3>4
      <4>2. QED
        BY <3>2, <4>1
    <3>5. QED
      BY <3>3, <3>4 DEF OwnReadOnly
  <2>12. QED
    BY <1>0, <2>2, <2>5, <2>6, <2>7, <2>8, <2>9, <2>10, <2>11 DEF ClipInv, Before
<1>2. ASSUME NEW r \in reads, NEW fails \in BOOLEAN, OnPrevClipRead(r, fails)
      PROVE  ClipInv'
  <2>1. reads' = reads \ {r} /\ UNCHANGED <<changes, alive>>
    BY <1>2 DEF OnPrevClipRead
  <2>2. CASE pending = 0
    <3>1. UNCHANGED <<clip, pending, cancel, fallback, restore, timer, handler, copy>>
      BY <1>2, <2>2 DEF OnPrevClipRead, counter
    <3>2. /\ TypeOK' /\ LatestCopyIsTimed' /\ WaitingMeansStopped' /\ ReadIsUnderWay'
          /\ RestoresFound' /\ OwnReadOnly'
      BY <1>0, <2>1, <2>2, <3>1
         DEF TypeOK, LatestCopyIsTimed, WaitingMeansStopped, ReadIsUnderWay,
             RestoresFound, OwnReadOnly
    <3>3. QED
      BY <1>0, <2>1, <3>1, <3>2 DEF ClipInv, Before
  <2>3. CASE pending # 0
    <3>1. /\ fallback' = FALSE /\ cancel' = 0 /\ pending' = 0
          /\ restore' = Finish(r, fails)
          /\ clip' = [content |-> Secret(pending), local |-> TRUE]
          /\ timer' = ClipTime /\ handler' = TRUE
          /\ copy' = [copy EXCEPT !.missed = @ \/ fails]
      BY <1>2, <2>3 DEF OnPrevClipRead
    <3>2. alive /\ pending = copy.n /\ copy.n \in Nat /\ copy.n # 0
      BY <1>0, <2>3 DEF WaitingMeansStopped, TypeOK
    <3>3. copy' \in [n : Nat, found : Content, missed : BOOLEAN] /\ copy'.n = copy.n
      BY <1>0, <3>1 DEF TypeOK
    <3>4. r \in Read /\ r.n <= copy.n /\ Before(r.found, r.n)
      BY <1>0 DEF TypeOK
    <3>5. restore' \in Content /\ Before(restore', copy.n)
      BY <3>1, <3>2, <3>4, ClipTypes DEF Finish, Before, Null, Read, Content
    <3>6. TypeOK'
      <4>1. clip' \in [content : Content, local : BOOLEAN]
        BY <3>1, <3>2, ClipTypes
      <4>2. timer' \in 0 .. ClipTime /\ reads' \in SUBSET Read
        BY <1>0, <2>1, <3>1, ClipboardAssumption DEF TypeOK
      <4>3. QED
        BY <1>0, <2>1, <3>1, <3>3, <3>5, <4>1, <4>2 DEF TypeOK
    <3>7. LatestCopyIsTimed' /\ WaitingMeansStopped' /\ ReadIsUnderWay'
      BY <2>1, <3>1, <3>2, ClipboardAssumption
         DEF LatestCopyIsTimed, WaitingMeansStopped, ReadIsUnderWay
    <3>8. Before(clip'.content, copy'.n + 1) /\ clip'.local
      BY <3>1, <3>2, <3>3 DEF Before, Secret
    <3>9. RestoresFound' /\ OwnReadOnly'
      <4>1. OwnReadOnly'
        BY <3>1 DEF OwnReadOnly
      <4>2. copy'.missed = (copy.missed \/ fails) /\ copy'.found = copy.found
        BY <1>0, <3>1 DEF TypeOK
      <4>3. ~copy'.missed => restore' = copy'.found
        BY <1>0, <2>3, <3>1, <4>2 DEF OwnReadOnly, Finish
      <4>4. QED
        BY <4>1, <4>3 DEF RestoresFound
    <3>10. QED
      BY <1>0, <2>1, <3>3, <3>5, <3>6, <3>7, <3>8, <3>9 DEF ClipInv, Before
  <2>4. QED
    BY <2>2, <2>3
<1>3. CASE ClipReadFallback
  <2>1. /\ fallback /\ fallback' = FALSE /\ reads' = CancelledReads
        /\ copy' = [copy EXCEPT !.missed = TRUE]
        /\ UNCHANGED <<clip, changes, pending, cancel, restore, timer, handler, alive>>
    BY <1>3 DEF ClipReadFallback, counter
  <2>2. copy' \in [n : Nat, found : Content, missed : BOOLEAN] /\ copy'.n = copy.n
    BY <1>0, <2>1 DEF TypeOK
  <2>3. TypeOK'
    BY <1>0, <2>1, <2>2, CancelledReadsType DEF TypeOK
  <2>4. LatestCopyIsTimed' /\ WaitingMeansStopped'
    BY <1>0, <2>1, <2>2 DEF LatestCopyIsTimed, WaitingMeansStopped
  <2>5. ReadIsUnderWay'
    <3>1. pending # 0 /\ cancel = pending
      BY <1>0, <2>1 DEF WaitingMeansStopped
    <3>2. PICK r \in reads : r.n = pending
      BY <1>0, <3>1 DEF ReadIsUnderWay
    <3>3. PICK s \in CancelledReads : s.n = pending /\ s.cancelled
      BY <3>1, <3>2, CancelledReadsType
    <3>4. QED
      BY <2>1, <3>3 DEF ReadIsUnderWay
  <2>6. RestoresFound' /\ OwnReadOnly'
    <3>1. copy'.missed = TRUE
      BY <1>0, <2>1 DEF TypeOK
    <3>2. QED
      BY <3>1 DEF RestoresFound, OwnReadOnly
  <2>7. QED
    BY <1>0, <2>1, <2>2, <2>3, <2>4, <2>5, <2>6, CancelledReadsType DEF ClipInv, Before
<1>4. CASE ClipTick
  <2>1. timer \in Nat /\ timer > 0 /\ ClipTime \in Nat
    BY <1>0, <1>4, ClipboardAssumption DEF ClipTick, TypeOK
  <2>2. CASE timer > 1
    <3>1. /\ timer' = timer - 1
          /\ UNCHANGED <<clip, changes, reads, pending, cancel, fallback, restore,
                         handler, alive, copy>>
      BY <1>4, <2>2 DEF ClipTick, waiting
    <3>2. TypeOK'
      BY <1>0, <2>1, <2>2, <3>1 DEF TypeOK
    <3>3. /\ LatestCopyIsTimed' /\ WaitingMeansStopped' /\ ReadIsUnderWay'
          /\ RestoresFound' /\ OwnReadOnly'
      BY <1>0, <2>1, <2>2, <3>1
         DEF LatestCopyIsTimed, WaitingMeansStopped, ReadIsUnderWay,
             RestoresFound, OwnReadOnly
    <3>4. QED
      BY <1>0, <3>1, <3>2, <3>3 DEF ClipInv, Before
  <2>3. CASE ~(timer > 1)
    <3>1. Disarm /\ clip' = Restored /\ UNCHANGED <<changes, alive, copy>>
      BY <1>4, <2>3 DEF ClipTick
    <3>2. QED
      BY <1>0, <3>1, RestoredIsOld, DisarmKeeps DEF TypeOK
  <2>4. QED
    BY <2>2, <2>3
<1>5. CASE OtherCopies
  <2>1. /\ clip' = [content |-> [kind |-> "foreign", n |-> changes + 1], local |-> FALSE]
        /\ changes' = changes + 1 /\ changes \in Nat
        /\ UNCHANGED <<alive, copy>>
    BY <1>0, <1>5 DEF OtherCopies, TypeOK
  <2>2. /\ clip' \in [content : Content, local : BOOLEAN]
        /\ clip'.content.kind = "foreign" /\ changes' \in Nat
    BY <2>1 DEF Content, Kinds
  <2>3. CASE handler
    BY <1>0, <1>5, <2>1, <2>2, <2>3, DisarmKeeps DEF OtherCopies, Before, TypeOK
  <2>4. CASE ~handler
    <3>1. UNCHANGED <<reads, pending, cancel, fallback, restore, timer, handler>>
      BY <1>5, <2>4 DEF OtherCopies, waiting, counter
    <3>2. QED
      BY <1>0, <2>1, <2>2, <3>1, ForeignKeeps
  <2>5. QED
    BY <2>3, <2>4
<1>6. CASE CopyValue
  <2>1. /\ clip' = [content |-> [kind |-> "plain", n |-> changes + 1], local |-> TRUE]
        /\ changes' = changes + 1 /\ changes \in Nat
        /\ UNCHANGED <<alive, copy, reads, pending, cancel, fallback, restore, timer, handler>>
    BY <1>0, <1>6 DEF CopyValue, TypeOK, waiting, counter
  <2>2. /\ clip' \in [content : Content, local : BOOLEAN]
        /\ clip'.content.kind = "plain" /\ changes' \in Nat
    BY <2>1 DEF Content, Kinds
  <2>3. QED
    BY <1>0, <2>1, <2>2, ForeignKeeps
<1>7. CASE Dispose
  <2>1. Disarm /\ clip' = Restored /\ alive' = FALSE /\ UNCHANGED <<changes, copy>>
    BY <1>7 DEF Dispose
  <2>2. QED
    BY <1>0, <2>1, RestoredIsOld, DisarmKeeps DEF TypeOK
<1>8. CASE UNCHANGED vars
  <2>1. UNCHANGED <<clip, changes, reads, pending, cancel, fallback, restore, timer,
                    handler, alive, copy>>
    BY <1>8 DEF vars, waiting, counter
  <2>2. /\ TypeOK' /\ LatestCopyIsTimed' /\ WaitingMeansStopped' /\ ReadIsUnderWay'
        /\ RestoresFound' /\ OwnReadOnly'
    BY <1>0, <2>1 DEF TypeOK, LatestCopyIsTimed, WaitingMeansStopped, ReadIsUnderWay,
                      RestoresFound, OwnReadOnly
  <2>3. QED
    BY <1>0, <2>1, <2>2 DEF ClipInv, Before
<1>9. QED
  BY <1>1, <1>2, <1>3, <1>4, <1>5, <1>6, <1>7, <1>8 DEF Next, ReadEnds

LEMMA ClipInvariant == Spec => []ClipInv
<1>1. ClipInv /\ [Next]_vars => ClipInv'
  BY ClipInvStep
<1>2. QED
  BY <1>1, ClipInvInit, PTL DEF Spec

\* Every variable of the countdown keeps its type: the seconds left never fall
\* below zero, for every number of copies.
THEOREM TypeCorrect == Spec => []TypeOK
<1>1. ClipInv => TypeOK
  BY DEF ClipInv
<1>2. QED
  BY <1>1, ClipInvariant, PTL

\* The secret copied last is never on the clipboard without a countdown of a
\* live view (copy_timed, on_prev_clip_read, clip_disarm).
THEOREM LastSecretIsTimed == Spec => []LatestCopyIsTimed
<1>1. ClipInv => LatestCopyIsTimed
  BY DEF ClipInv
<1>2. QED
  BY <1>1, ClipInvariant, PTL

\* on_prev_clip_read overwrites no timer and no handler.
THEOREM NoTimerIsLost == Spec => []WaitingMeansStopped
<1>1. ClipInv => WaitingMeansStopped
  BY DEF ClipInv
<1>2. QED
  BY <1>1, ClipInvariant, PTL

\* A waiting copy has a read that will end, or a timer that will cancel it.
THEOREM CopyCanEnd == Spec => []ReadIsUnderWay
<1>1. ClipInv => ReadIsUnderWay
  BY DEF ClipInv
<1>2. QED
  BY <1>1, ClipInvariant, PTL

\* A copy that met no other read restores what it found.
THEOREM FoundIsRestored == Spec => []RestoresFound
<1>1. ClipInv => RestoresFound
  BY DEF ClipInv
<1>2. QED
  BY <1>1, ClipInvariant, PTL

\* clip_disarm never writes to a clipboard that another program owns.
THEOREM OthersAreNotClobbered == Spec => NeverClobbersOthers
<1>1. ASSUME TypeOK, [Next]_vars, ~clip.local, pending = 0
      PROVE  clip' = clip \/ changes' # changes
  <2>1. Restored = clip
    BY <1>1 DEF Restored
  <2>2. CASE OtherCopies
    BY <1>1, <2>2 DEF OtherCopies, TypeOK
  <2>3. CASE CopyValue
    BY <1>1, <2>3 DEF CopyValue, TypeOK
  <2>4. CASE ReadEnds
    BY <1>1, <2>4 DEF ReadEnds, OnPrevClipRead
  <2>5. CASE CopyTimed \/ ClipReadFallback \/ ClipTick \/ Dispose \/ UNCHANGED vars
    BY <2>1, <2>5 DEF CopyTimed, ClipReadFallback, ClipTick, Dispose, vars
  <2>6. QED
    BY <1>1, <2>2, <2>3, <2>4, <2>5 DEF Next
<1>2. TypeOK /\ [Next]_vars =>
        [~clip.local /\ pending = 0 => clip' = clip \/ changes' # changes]_vars
  BY <1>1
<1>3. ClipInv => TypeOK
  BY DEF ClipInv
<1>4. QED
  BY <1>2, <1>3, ClipInvariant, PTL DEF Spec, NeverClobbersOthers
=============================================================================
