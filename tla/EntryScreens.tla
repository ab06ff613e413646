---------------------------- MODULE EntryScreens ----------------------------
(***************************************************************************)
(* What the screens of the window do to the text of an entry: the editor   *)
(* (src/app/entry-edit.c), the history dialog (src/app/history.c) and the  *)
(* HOTP rows of the view (src/app/entry-view.c), over one entry that other *)
(* programs change too.                                                    *)
(*                                                                         *)
(* The decryption for the view, the other entries and the dialogs of the   *)
(* window are those of EntryWindow, the clipboard is that of Clipboard,    *)
(* and git is that of Vcs, which has commits that fail: here every change  *)
(* is committed with the write, so that the file is what was committed     *)
(* last, and a revision is decrypted or not.                               *)
(*                                                                         *)
(* A history dialog that is closed is another object than the next one: a  *)
(* revision still being loaded for it reaches nothing anybody sees, and is *)
(* forgotten here.                                                         *)
(***************************************************************************)
EXTENDS EntryText, LineDiff, Otp, Generator

CONSTANTS
  Plain,      \* the symbols of a text that are no URI
  Texts,      \* the texts the entry may have had before
  Foreign,    \* what other programs make of it meanwhile
  Gone,       \* no entry
  None,       \* no parsed entry
  Typed,      \* what the user types into a field of the editor
  CharSets,   \* character sets and the characters they stand for
  MaxLog,     \* bound: commits
  MaxRows,    \* bound: lines in the editor
  MaxTyped,   \* bound: changes typed in a behaviour
  MaxCodes,   \* bound: HOTP codes
  MaxEpoch    \* bound: selections in a dialog

\* what a text is made of, and a text
Symbol  == Plain \cup OtpUris
AnyText == Seq(Symbol)

IsLine(line) == NL \notin Symbols(line) /\ Nul \notin Symbols(line)

\* an entry may have a past; a counter has a value for each code
ASSUME EntryScreensAssumption ==
  /\ MaxLog \in Nat /\ MaxLog >= 2
  /\ MaxRows \in Nat /\ MaxTyped \in Nat /\ MaxEpoch \in Nat
  /\ MaxCodes \in 0 .. MaxCounter
  /\ NL \in Plain /\ Nul \in Plain /\ Plain \cap OtpUris = {}
  /\ Gone \notin Texts
  /\ Texts \cup Typed \cup (Foreign \ {Gone}) \subseteq AnyText
  /\ \A line \in Typed : IsLine(line)

VARIABLES
  log,           \* the texts of the entry as committed, the oldest first
  view,          \* the entry in the view
  source,        \* (history) the text the view, or the editor, was given
  codes,         \* (history) HOTP codes used since another text was written,
                 \* or one over a view that was out of date: the line and the
                 \* counter
  editing,
  is_new,
  password, rows, final_newline, \* the editor's fields
  edit_orig,     \* its content when the edit began
  typed,         \* number of changes typed
  open,          \* the history dialog is open
  revisions,     \* its list, the newest first
  selected,      \* the revision selected last
  job_epoch,
  jobs,          \* revisions being loaded: epoch and index
  sel_entry,
  diff,          \* the rows of the diff
  stack,         \* the page: "empty" or "diff"
  restore_btn    \* the button is sensitive

store   == <<log, codes>>
viewing == <<view, source>>
editor  == <<editing, is_new, password, rows, final_newline, edit_orig, typed>>
loaded  == <<sel_entry, diff, stack, restore_btn>>
history == <<open, revisions, selected, job_epoch, jobs, loaded>>
vars    == <<store, viewing, editor, history>>

\* the text of the entry
file == Last(log)

IsEntry(entry) ==
  /\ \A k \in DOMAIN entry.lines : IsLine(entry.lines[k])
  /\ entry.final_newline \in BOOLEAN
  /\ entry.final_newline => entry.lines # <<>>

TypeOK ==
  /\ log \in Seq(AnyText \cup {Gone}) /\ Len(log) \in 1 .. MaxLog
  /\ view # None => IsEntry(view)
  /\ source # Gone => view \in {None, Parse(source)}
  /\ codes \in SUBSET (Nat \X (0 .. MaxCounter))
  /\ editing \in BOOLEAN /\ is_new \in BOOLEAN /\ open \in BOOLEAN
  /\ IsLine(password)
  /\ \A k \in DOMAIN rows : IsLine(rows[k])
  /\ final_newline \in BOOLEAN
  /\ typed \in 0 .. MaxTyped
  /\ selected \in 0 .. Len(revisions)
  /\ job_epoch \in 0 .. MaxEpoch
  /\ jobs \in SUBSET [epoch : 1 .. MaxEpoch, idx : 1 .. MaxLog]
  /\ sel_entry # None => IsEntry(sel_entry)
  /\ stack \in {"empty", "diff"}
  /\ restore_btn \in BOOLEAN

\* an entry with or without a past, or none
Init ==
  /\ \E t \in Texts, u \in Texts \cup {Gone} : u # t /\ log \in {<<t>>, <<u, t>>, <<t, u>>}
  /\ view = None /\ source = Gone /\ codes = {}
  /\ editing = FALSE /\ is_new = FALSE /\ edit_orig = <<>> /\ typed = 0
  /\ password = <<>> /\ rows = <<>> /\ final_newline = TRUE
  /\ open = FALSE /\ jobs = {}
  /\ revisions = <<>> /\ selected = 0 /\ job_epoch = 0
  /\ sel_entry = None /\ diff = <<>> /\ stack = "empty" /\ restore_btn = FALSE

-----------------------------------------------------------------------------
\* the text is written, and committed if that changes something
Write(text) ==
  IF text = file THEN UNCHANGED log
  ELSE Len(log) < MaxLog /\ log' = Append(log, text)

\* pass: another text for the entry, or none
CliWrite(text) ==
  /\ text # file
  /\ Write(text)
  /\ codes' = {}
  /\ UNCHANGED <<viewing, editor, history>>

Browsing == ~editing /\ ~open

\* open_entry to decrypt_done, after a write or when the user comes back
OpenEntry ==
  /\ Browsing
  /\ view' = IF file = Gone THEN None ELSE Parse(file)
  /\ source' = file
  /\ UNCHANGED <<store, editor, history>>

-----------------------------------------------------------------------------
(* The HOTP rows of the view. *)

\* rebuild_groups: a line that is a URI
IsUri(line) == Len(line) = 1 /\ line[1] \notin Plain

\* on_hotp_generate, on_hotp_rewritten: the code of the next counter is
\* copied, and the text in the view written with that counter in its line: in
\* a view that is out of date, what was written since is undone
OnHotpGenerate(k) ==
  /\ Browsing
  /\ view # None
  /\ k \in DOMAIN view.lines
  /\ IsUri(view.lines[k]) /\ IsHotp(view.lines[k][1])
  /\ LET uri == view.lines[k][1]
     IN  /\ codes' = (IF source = file THEN codes ELSE {}) \cup {<<k, NextCounter(uri)>>}
         /\ Write(Assemble([view.lines EXCEPT ![k] = <<IncrementedUri(uri)>>],
                           view.final_newline))
  /\ Cardinality(codes') <= MaxCodes
  /\ UNCHANGED <<viewing, editor, history>>

-----------------------------------------------------------------------------
(* The editor. *)

\* passfl_entry_edit_content
Content == Assemble(<<password>> \o rows, final_newline)

\* passfl_entry_edit_begin with the entry of the view (act_edit)
ActEdit ==
  /\ Browsing
  /\ view # None
  /\ editing' = TRUE
  /\ is_new' = FALSE
  /\ password' = Password(view)
  /\ rows' = SubSeq(view.lines, 2, Len(view.lines))
  /\ final_newline' = view.final_newline
  /\ edit_orig' = Content'
  /\ view' = None
  /\ UNCHANGED <<store, source, typed, history>>

\* passfl_entry_edit_begin with none (act_new)
ActNew ==
  /\ Browsing
  /\ file = Gone
  /\ editing' = TRUE
  /\ is_new' = TRUE
  /\ password' = <<>>
  /\ rows' = <<>>
  /\ final_newline' = TRUE
  /\ edit_orig' = <<>>
  /\ UNCHANGED <<store, viewing, typed, history>>

Type ==
  /\ editing
  /\ typed < MaxTyped
  /\ typed' = typed + 1
  /\ UNCHANGED <<store, viewing, editing, is_new, final_newline, edit_orig, history>>

\* typed, or what on_generate puts there
SetPassword(line) == Type /\ password' = line /\ UNCHANGED rows

SetRow(k, line) ==
  Type /\ k \in DOMAIN rows /\ rows' = [rows EXCEPT ![k] = line] /\ UNCHANGED password

OnAddLine ==
  Type /\ Len(rows) < MaxRows /\ rows' = Append(rows, <<>>) /\ UNCHANGED password

OnRemoveLine(k) ==
  Type /\ k \in DOMAIN rows /\ rows' = RemoveAt(rows, k) /\ UNCHANGED password

\* set_editing: what is left in the fields is not looked at until the next edit
EndEdit ==
  /\ editing' = FALSE /\ is_new' = FALSE
  /\ password' = <<>> /\ rows' = <<>> /\ final_newline' = TRUE /\ edit_orig' = <<>>
  /\ view' = None
  /\ source' = Gone
  /\ UNCHANGED typed

\* act_save, do_write: an edit that changed nothing writes nothing
ActSave ==
  /\ editing
  /\ EndEdit
  /\ IF ~is_new /\ Content = edit_orig
     THEN UNCHANGED store
     ELSE Write(Content) /\ codes' = {}
  /\ UNCHANGED history

\* act_cancel, or a save that fails and is given up
ActCancel ==
  /\ editing
  /\ EndEdit
  /\ UNCHANGED <<store, history>>

-----------------------------------------------------------------------------
(* The history dialog. *)

\* passfl_history_new: the list is read once
ActHistory ==
  /\ Browsing
  /\ view # None
  /\ open' = TRUE
  /\ revisions' = Reverse(log)
  /\ UNCHANGED <<store, viewing, editor, selected, job_epoch, jobs, loaded>>

\* on_commit_selected; a row that is deselected changes nothing
OnCommitSelected(i) ==
  /\ open
  /\ i \in DOMAIN revisions
  /\ job_epoch < MaxEpoch
  /\ selected' = i
  /\ job_epoch' = job_epoch + 1
  /\ restore_btn' = FALSE
  /\ jobs' = jobs \cup {[epoch |-> job_epoch + 1, idx |-> i]}
  /\ UNCHANGED <<store, viewing, editor, open, revisions, sel_entry, diff, stack>>

Lines(text) == IF text = Gone THEN <<>> ELSE Parse(text).lines

\* the text before a revision; nothing before the first
Before(i) == IF i < Len(revisions) THEN revisions[i + 1] ELSE Gone

\* (mutant) whatever is loaded is shown while the dialog is there
IsCurrentAny(j) == open

IsCurrent(j) == open /\ j.epoch = job_epoch

\* revision_done: not what the dialog waits for
RevisionDropped(j) ==
  /\ ~IsCurrent(j)
  /\ jobs' = jobs \ {j}
  /\ UNCHANGED <<store, viewing, editor, open, revisions, selected, job_epoch, loaded>>

\* (mutant) the page of the revision shown before stays
RevisionFailsQuietly(j) ==
  /\ IsCurrent(j)
  /\ jobs' = jobs \ {j}
  /\ UNCHANGED <<store, viewing, editor, open, revisions, selected, job_epoch, loaded>>

\* load_revision fails: the entry was removed by that commit, or gpg fails
RevisionFails(j) ==
  /\ IsCurrent(j)
  /\ jobs' = jobs \ {j}
  /\ stack' = "empty"
  /\ UNCHANGED <<store, viewing, editor, open, revisions, selected, job_epoch,
                 sel_entry, diff, restore_btn>>

\* revision_done, render_diff; the revision before may fail to load: then
\* every line is new
RevisionShown(j, oldLoaded) ==
  /\ IsCurrent(j)
  /\ revisions[j.idx] # Gone
  /\ jobs' = jobs \ {j}
  /\ sel_entry' = Parse(revisions[j.idx])
  /\ diff' = DiffLines(IF oldLoaded THEN Lines(Before(j.idx)) ELSE <<>>, sel_entry'.lines)
  /\ stack' = "diff"
  /\ restore_btn' = TRUE
  /\ UNCHANGED <<store, viewing, editor, open, revisions, selected, job_epoch>>

\* passfl_history_dispose: nothing of the texts stays
Close ==
  /\ open' = FALSE
  /\ revisions' = <<>> /\ selected' = 0 /\ job_epoch' = 0 /\ jobs' = {}
  /\ sel_entry' = None /\ diff' = <<>> /\ stack' = "empty" /\ restore_btn' = FALSE

\* on_restore_clicked, on_history_restore: the revision's lines are written
OnRestoreClicked ==
  /\ open
  /\ restore_btn
  /\ sel_entry # None
  /\ Write(Assemble(sel_entry.lines, sel_entry.final_newline))
  /\ codes' = {}
  /\ Close
  /\ UNCHANGED <<viewing, editor>>

\* the dialog is closed, or the write fails
CloseHistory ==
  /\ open
  /\ Close
  /\ UNCHANGED <<store, viewing, editor>>

-----------------------------------------------------------------------------
RevisionDone ==
  \E j \in jobs :
     RevisionDropped(j) \/ RevisionFails(j) \/ \E b \in BOOLEAN : RevisionShown(j, b)

User ==
  \/ OpenEntry \/ ActEdit \/ ActNew \/ OnAddLine \/ ActSave \/ ActCancel
  \/ ActHistory \/ OnRestoreClicked \/ CloseHistory
  \/ \E line \in Typed : SetPassword(line) \/ \E k \in DOMAIN rows : SetRow(k, line)
  \/ \E k \in DOMAIN rows : OnRemoveLine(k)
  \/ view # None /\ \E k \in DOMAIN view.lines : OnHotpGenerate(k)
  \/ \E i \in DOMAIN revisions : OnCommitSelected(i)

Next == RevisionDone \/ User \/ \E text \in Foreign : CliWrite(text)

\* gpg answers, or fails, and the idle callback runs; the user does as he likes
Spec == Init /\ [][Next]_vars /\ WF_vars(RevisionDone)
-----------------------------------------------------------------------------
(* Properties. *)

Exact(text) == Nul \notin Symbols(text)

\* A revision can be restored only when it is the one selected last and the
\* diff on the screen is that to the revision before it, or to nothing when
\* that one could not be loaded: whatever order the revisions are decrypted
\* in (on_commit_selected, revision_done).
RestorableIsShown ==
  restore_btn =>
    /\ open /\ stack = "diff"
    /\ selected \in DOMAIN revisions /\ revisions[selected] # Gone
    /\ sel_entry = Parse(revisions[selected])
    /\ diff \in {DiffLines(old, sel_entry.lines) : old \in {<<>>, Lines(Before(selected))}}

\* What the dialog writes is the revision selected, byte for byte, whatever was
\* committed since its list was read (on_restore_clicked).  A text with a NUL
\* byte is excluded: its lines end there.
RestoreIsExact ==
  [][open /\ ~open' /\ file' # file =>
       (Exact(revisions[selected]) => file' = revisions[selected])]_vars

\* The diff shown tells how one revision became the other: its lines without
\* the new ones are the old text, without the old ones the new text, and it
\* keeps as many as can be kept (diff_lines).
DiffTellsTheChange ==
  stack = "diff" =>
    \E i \in DOMAIN revisions :
       /\ revisions[i] # Gone
       /\ \E old \in {<<>>, Lines(Before(i))} : IsDiff(diff, old, Lines(revisions[i]))

\* The editor gives back every byte it was given until something is typed, and
\* then what its fields show, with the newline at the end as it was; an empty
\* last line without one is no line (passfl_entry_parse,
\* passfl_entry_edit_begin, passfl_entry_edit_content).
EditorIsExact ==
  editing =>
    /\ ~is_new /\ Exact(source) => edit_orig = source
    /\ LET lines == <<password>> \o rows
       IN  final_newline \/ Last(lines) # <<>> =>
             Parse(Content) = [lines |-> lines, final_newline |-> final_newline]

\* The code the view gives next was not used before: as long as nobody else
\* writes the entry, and no code is generated before the view shows what the
\* last one wrote, each HOTP code raises the counter in the text for the next
\* one, over a change of its length and its overflow, and leaves the other rows
\* alone (on_hotp_generate, passfl_otp_incremented_uri).  Excluded: a counter
\* given twice, or first in the query, which the code does not find.
CodesAreFresh ==
  view # None /\ source = file =>
    \A k \in DOMAIN view.lines :
       IsUri(view.lines[k]) /\ IsHotp(view.lines[k][1]) /\ IsUsual(view.lines[k][1]) =>
         <<k, NextCounter(view.lines[k][1])>> \notin codes

FairSets == {s \in CharSets : IsFair(ExpandSet(s.set), s.chars)}

\* A password generated in the editor has the characters of its set, each of
\* them equally likely (passfl_generate_expand_set,
\* passfl_generate_password).
GeneratorIsFair == editing => FairSets = CharSets

\* A revision that is selected ends up shown, or its page says why not, unless
\* the dialog is closed (revision_thread, revision_done).
RevisionsSettle ==
  open /\ selected # 0 ~> ~open \/ restore_btn \/ (stack = "empty" /\ jobs = {})
=============================================================================
