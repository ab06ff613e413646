----------------------------- MODULE Clipboard -----------------------------
(***************************************************************************)
(* Copying a secret (src/app/entry-view.c): the entry view first reads     *)
(* what is on the clipboard, then puts the secret there, counts down, and  *)
(* puts the old content back.  Reads are asynchronous, and another program *)
(* may copy something, the user may copy again, and the window may close   *)
(* at any point of that.                                                   *)
(*                                                                         *)
(* A content of the clipboard is the n-th secret copied, a metadata value, *)
(* another program's text, or the empty text; what it says is left out,    *)
(* and so are the toasts.  GdkClipboard is external: a read returns what   *)
(* was on the clipboard when it began, or NULL when its owner fails to     *)
(* deliver; once cancelled it returns NULL (g_task_propagate_pointer); it  *)
(* ends in an iteration of the main loop of its own, in any order.         *)
(***************************************************************************)
EXTENDS Integers, FiniteSets

CONSTANTS
  ClipTime,    \* seconds of the countdown: $PASSWORD_STORE_CLIP_TIME, or 45
  MaxCopies,   \* bound: secrets copied in a behaviour
  MaxChanges   \* bound: other contents put on the clipboard in a behaviour

ASSUME ClipboardAssumption ==
  /\ ClipTime \in Nat \ {0}
  /\ MaxCopies \in Nat
  /\ MaxChanges \in Nat

VARIABLES
  clip,      \* the clipboard: its content, and gdk_clipboard_is_local
  changes,   \* contents put there that are not secrets
  reads,     \* gdk_clipboard_read_text_async calls not finished
  pending,   \* self->clip_pending: the number of its copy, or 0
  cancel,    \* self->clip_cancel: the copy whose read it cancels, or 0
  fallback,  \* self->clip_fallback_id # 0
  restore,   \* self->clip_restore
  timer,     \* self->clip_remaining while self->clip_timer_id # 0, or 0
  handler,   \* self->clip_changed_id # 0
  alive,     \* FALSE once the view is disposed
  copy       \* the last copy: its number, and (history only) the content it
             \* found, and whether its read failed, was given up, or met others

waiting == <<reads, pending, cancel, fallback>>
counter == <<restore, timer, handler>>
vars    == <<clip, changes, waiting, counter, alive, copy>>

Kinds   == {"null", "empty", "foreign", "plain", "secret"}
Content == [kind : Kinds, n : Nat]
Null      == [kind |-> "null", n |-> 0]
Empty     == [kind |-> "empty", n |-> 0]
Secret(n) == [kind |-> "secret", n |-> n]
Read      == [n : Nat, found : Content, cancelled : BOOLEAN]

TypeOK ==
  /\ clip \in [content : Content, local : BOOLEAN]
  /\ changes \in Nat
  /\ reads \in SUBSET Read
  /\ pending \in Nat
  /\ cancel \in Nat
  /\ fallback \in BOOLEAN
  /\ restore \in Content
  /\ timer \in 0 .. ClipTime
  /\ handler \in BOOLEAN
  /\ alive \in BOOLEAN
  /\ copy \in [n : Nat, found : Content, missed : BOOLEAN]

Init ==
  /\ clip \in {[content |-> Empty, local |-> FALSE],
               [content |-> [kind |-> "foreign", n |-> 0], local |-> FALSE]}
  /\ changes = 0
  /\ reads = {}
  /\ pending = 0
  /\ cancel = 0
  /\ fallback = FALSE
  /\ restore = Null
  /\ timer = 0
  /\ handler = FALSE
  /\ alive = TRUE
  /\ copy = [n |-> 0, found |-> Null, missed |-> FALSE]

-----------------------------------------------------------------------------
\* the reads after g_cancellable_cancel (self->clip_cancel)
CancelledReads ==
  {IF r.n = cancel THEN [r EXCEPT !.cancelled = TRUE] ELSE r : r \in reads}

\* (mutant) whoever owns the clipboard
RestoredAlways ==
  [content |-> IF restore # Null THEN restore ELSE Empty, local |-> TRUE]

\* the clipboard after clip_disarm (self, TRUE): ours gets the old text back
Restored ==
  IF clip.local
  THEN [content |-> IF restore # Null THEN restore ELSE Empty, local |-> TRUE]
  ELSE clip

\* clip_disarm: no timer, no handler, nothing restored or pending any more
StopCountdown ==
  /\ timer' = 0
  /\ handler' = FALSE
  /\ restore' = Null

Disarm ==
  /\ StopCountdown
  /\ pending' = 0
  /\ cancel' = 0
  /\ fallback' = FALSE
  /\ reads' = CancelledReads

\* (mutant) copy_timed leaves an earlier countdown running
CopyTimedNoDisarm ==
  /\ alive
  /\ copy.n < MaxCopies
  /\ copy' = [n |-> copy.n + 1, found |-> clip.content, missed |-> reads # {}]
  /\ pending' = copy.n + 1
  /\ cancel' = copy.n + 1
  /\ fallback' = TRUE
  /\ reads' = CancelledReads \cup
       {[n |-> copy.n + 1, found |-> clip.content, cancelled |-> FALSE]}
  /\ UNCHANGED <<clip, changes, counter, alive>>

\* copy_timed: the copy buttons of secrets and codes, and the HOTP button
CopyTimed ==
  /\ alive
  /\ copy.n < MaxCopies
  /\ StopCountdown
  /\ copy' = [n |-> copy.n + 1, found |-> clip.content, missed |-> reads # {}]
  /\ pending' = copy.n + 1
  /\ cancel' = copy.n + 1
  /\ fallback' = TRUE
  /\ reads' = CancelledReads \cup
       {[n |-> copy.n + 1, found |-> clip.content, cancelled |-> FALSE]}
  /\ UNCHANGED <<clip, changes, alive>>

\* (mutant) the text read is thrown away
FinishNull(r, fails) == Null

\* what a read that ends returns: gdk_clipboard_read_text_finish
Finish(r, fails) == IF r.cancelled \/ fails THEN Null ELSE r.found

\* on_prev_clip_read: whichever read ends first serves the pending copy
OnPrevClipRead(r, fails) ==
  /\ fails => r.found.kind = "foreign"
  /\ reads' = reads \ {r}
  /\ IF pending = 0
     THEN UNCHANGED <<clip, pending, cancel, fallback, counter, copy>>
     ELSE /\ fallback' = FALSE
          /\ cancel' = 0
          /\ restore' = Finish(r, fails)
          /\ clip' = [content |-> Secret(pending), local |-> TRUE]
          /\ pending' = 0
          /\ timer' = ClipTime
          /\ handler' = TRUE
          /\ copy' = [copy EXCEPT !.missed = @ \/ fails]
  /\ UNCHANGED <<changes, alive>>

\* (mutant) the fallback timer cancels nothing
ClipReadFallbackIdle ==
  /\ fallback
  /\ fallback' = FALSE
  /\ copy' = [copy EXCEPT !.missed = TRUE]
  /\ UNCHANGED <<clip, changes, reads, pending, cancel, counter, alive>>

\* clip_read_fallback: 400 ms without an answer
ClipReadFallback ==
  /\ fallback
  /\ fallback' = FALSE
  /\ reads' = CancelledReads
  /\ copy' = [copy EXCEPT !.missed = TRUE]
  /\ UNCHANGED <<clip, changes, pending, cancel, counter, alive>>

\* (mutant) clip_tick goes on ticking after the last second
ClipTickOn ==
  /\ handler
  /\ timer' = timer - 1
  /\ IF timer # 1
     THEN UNCHANGED <<clip, waiting, restore, handler>>
     ELSE UNCHANGED <<waiting, restore, handler>> /\ clip' = Restored
  /\ UNCHANGED <<changes, alive, copy>>

\* clip_tick: the last second disarms and restores
ClipTick ==
  /\ timer > 0
  /\ IF timer > 1
     THEN timer' = timer - 1 /\ UNCHANGED <<clip, waiting, restore, handler>>
     ELSE Disarm /\ clip' = Restored
  /\ UNCHANGED <<changes, alive, copy>>

\* another program takes the clipboard over: on_clip_changed, when connected
OtherCopies ==
  /\ changes < MaxChanges
  /\ changes' = changes + 1
  /\ clip' = [content |-> [kind |-> "foreign", n |-> changes + 1], local |-> FALSE]
  /\ IF handler THEN Disarm ELSE UNCHANGED <<waiting, counter>>
  /\ UNCHANGED <<alive, copy>>

\* on_copy_value: clip_setting keeps on_clip_changed from noticing it
CopyValue ==
  /\ alive
  /\ changes < MaxChanges
  /\ changes' = changes + 1
  /\ clip' = [content |-> [kind |-> "plain", n |-> changes + 1], local |-> TRUE]
  /\ UNCHANGED <<waiting, counter, alive, copy>>

\* (mutant) dispose leaves the clipboard alone
DisposeKeeps ==
  /\ alive
  /\ alive' = FALSE
  /\ Disarm
  /\ UNCHANGED <<clip, changes, copy>>

\* passfl_entry_view_dispose; a read in flight keeps the memory, and ends later
Dispose ==
  /\ alive
  /\ alive' = FALSE
  /\ Disarm
  /\ clip' = Restored
  /\ UNCHANGED <<changes, copy>>

ReadEnds == \E r \in reads, fails \in BOOLEAN : OnPrevClipRead(r, fails)

Next ==
  \/ CopyTimed \/ ReadEnds \/ ClipReadFallback \/ ClipTick
  \/ OtherCopies \/ CopyValue \/ Dispose

(***************************************************************************)
(* GLib's timers fire and a cancelled read returns.  A read that is not    *)
(* cancelled may never return: another program owns the clipboard.         *)
(***************************************************************************)
CancelledReadEnds ==
  \E r \in reads, fails \in BOOLEAN : r.cancelled /\ OnPrevClipRead(r, fails)

Fairness ==
  WF_vars(CancelledReadEnds) /\ WF_vars(ClipReadFallback) /\ WF_vars(ClipTick)

Spec == Init /\ [][Next]_vars /\ Fairness
-----------------------------------------------------------------------------
(* Properties. *)

\* The secret copied last never lies on the clipboard without a countdown
\* that will take it away: whatever reads were cancelled or overtaken, and
\* though the view is disposed (on_prev_clip_read, clip_tick, dispose).
LatestCopyIsTimed ==
  clip.content = Secret(copy.n) /\ copy.n > 0 => timer > 0 /\ handler /\ alive

\* on_prev_clip_read stores a new timer and a new signal handler only where
\* there was none: a copy that waits has stopped the countdown before it, and
\* it is always the last one asked for.
WaitingMeansStopped ==
  /\ pending # 0 => timer = 0 /\ ~handler /\ alive /\ pending = copy.n
  /\ handler <=> timer > 0
  /\ fallback => pending # 0 /\ cancel = pending

\* A copy that waits can always be finished: its own read, if nothing else,
\* is in flight, and cancelled unless the fallback timer will cancel it.
ReadIsUnderWay ==
  pending # 0 =>
    \E r \in reads : r.n = pending /\ (fallback \/ r.cancelled)

\* The countdown and the disposal of the view never replace what another
\* program has put on the clipboard (clip_disarm's gdk_clipboard_is_local).
NeverClobbersOthers ==
  [][~clip.local /\ pending = 0 => clip' = clip \/ changes' # changes]_vars

\* docs/SPEC.md 7.4, "restore the previous clipboard content": what a
\* countdown will restore is what its copy found there, unless the owner did
\* not deliver it in time, or an earlier read was still in flight (then the
\* earlier one's callback serves the copy).
RestoresFound == timer > 0 /\ ~copy.missed => restore = copy.found

\* Every copy lands on the clipboard or is dropped, though the owner of the
\* old content never answers, and every countdown ends.
CopyEnds == []<>(pending = 0 /\ timer = 0)

(* What the documentation and comments say, and the code does not do. *)

\* docs/SPEC.md 7.4: the clipboard "must self-clear after
\* $PASSWORD_STORE_CLIP_TIME": when no countdown runs and no copy waits, no
\* secret is on it.
SecretsAreCleared ==
  clip.content.kind = "secret" => timer > 0 \/ pending # 0
=============================================================================
