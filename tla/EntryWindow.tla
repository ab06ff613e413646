---------------------------- MODULE EntryWindow ----------------------------
(***************************************************************************)
(* The main window of Pass for Linux (src/app/window.c): selecting an      *)
(* entry decrypts it on a worker thread, and the user then edits, saves,   *)
(* deletes, renames, duplicates or restores it, or generates an HOTP code, *)
(* while the pass command line changes the same store from outside.        *)
(*                                                                         *)
(* Three kinds of process take steps: the GTK main loop (the user's        *)
(* actions, dialog responses, and the idle callbacks the workers post),    *)
(* one worker thread per decryption, and the other users of the store      *)
(* (the command line, git, the re-encryption worker).                      *)
(*                                                                         *)
(* A text is what a file decrypts to, abstracted to the credential it      *)
(* describes (named by the entry it was first stored under) and a          *)
(* revision number.  A file is a text and its modification time, which the *)
(* code reads in microseconds: two writes of one file are told apart by it.*)
(* The widgets' visibility, titles and toasts are left out, and so is the  *)
(* recipients banner.                                                      *)
(***************************************************************************)
EXTENDS Integers, FiniteSets

CONSTANTS
  Names,      \* entry names
  None,       \* the NULL pointer
  MaxClock,   \* bound: changes of the store in a behaviour
  MaxEpoch,   \* bound: decryptions the window starts in a behaviour
  MaxReencs   \* bound: re-encryptions under way at once

ASSUME WindowAssumption ==
  /\ None \notin Names
  /\ MaxClock \in Nat
  /\ MaxEpoch \in Nat
  /\ MaxReencs \in Nat

VARIABLES
  disk,         \* the store: the file of each name, or NoFile
  clock,        \* time: counts the changes of the store
  past,         \* the texts git history holds for each name
  alive,        \* FALSE once the window is disposed (self->toasts == NULL)
  side,         \* names listed in the sidebar (self->roots, self->flat)
  view,         \* entry view: the name on it, and the text it holds, if any
  current_rel,  \* self->current_rel
  epoch,        \* self->decrypt_epoch
  wanted,       \* the entry open_entry was last called for (history only)
  jobs,         \* DecryptJobs not yet freed
  editing,      \* self->editing
  edit,         \* the editor: entry edited, its text, self->edit_mtime
  dialog,       \* the modal dialog on screen and the pending_* fields
  reencs,       \* re-encryptions under way, started in a recipients dialog
  busy          \* do_write in progress: the main loop is blocked in it

store  == <<disk, clock, past>>
opened == <<epoch, wanted, jobs>>
shown  == <<view, current_rel, opened>>
editor == <<editing, edit>>
life   == <<alive, reencs>>
vars   == <<store, life, side, shown, editor, dialog, busy>>

Option == Names \cup {None}
Text   == [cred : Option, rev : Nat]
File   == [mtime : Nat \cup {-1}, text : Text]
NoText == [cred |-> None, rev |-> 0]
NoFile == [mtime |-> -1, text |-> NoText]
\* a page about no entry: the placeholder, "No password store", "Crypto unavailable"
NoView == [rel |-> None, text |-> NoText]
NoEdit == [name |-> None, text |-> NoText, mtime |-> -1, since |-> 0]

\* kind, the name in it, the text waiting for its answer, and a flag: a
\* duplicate, not a rename; recipients: its re-encryption is under way
DialogKinds ==
  {"none", "save", "delete", "history", "recipients", "mvcp", "overwrite"}
Dialog(kind, rel, text, copy) ==
  [kind |-> kind, rel |-> rel, text |-> text, copy |-> copy]
NoDialog == Dialog("none", None, NoText, FALSE)

\* the write being done, the time of its check, and whether it was confirmed
Write(name, text, checked, prompted) ==
  [name |-> name, text |-> text, checked |-> checked, prompted |-> prompted]
NoWrite == Write(None, NoText, 0, FALSE)

Phases == {"decrypting", "checking", "done", "failed", "cancelled"}
Job == [epoch : Nat, rel : Names, phase : Phases, text : Text]

(***************************************************************************)
(* `wanted', and the fields `since' and `checked' (the time an edit began, *)
(* the time its save was checked) are history: no guard and no assignment  *)
(* of the model reads them, only its properties do.                        *)
(***************************************************************************)
TypeOK ==
  /\ disk \in [Names -> File]
  /\ clock \in Nat
  /\ past \in [Names -> SUBSET Text]
  /\ alive \in BOOLEAN
  /\ side \in SUBSET Names
  /\ view \in [rel : Option, text : Text]
  /\ current_rel \in Option
  /\ epoch \in Nat
  /\ wanted \in Option
  /\ jobs \in SUBSET Job
  /\ editing \in BOOLEAN
  /\ edit \in [name : Option, text : Text, mtime : Nat \cup {-1}, since : Nat]
  /\ dialog \in [kind : DialogKinds, rel : Option, text : Text, copy : BOOLEAN]
  /\ reencs \in Nat
  /\ busy \in [name : Option, text : Text, checked : Nat, prompted : BOOLEAN]

Exists(n) == disk[n] # NoFile

\* the store can be scanned or not, and GPGME be unavailable: decryptions then
\* fail, as they may at any time, and the first page is an error page
Init ==
  /\ \E S \in SUBSET Names :
        /\ disk = [n \in Names |->
                     IF n \in S THEN [mtime |-> 0, text |-> [cred |-> n, rev |-> 0]]
                                ELSE NoFile]
        /\ past = [n \in Names |->
                     IF n \in S THEN {[cred |-> n, rev |-> 0]} ELSE {}]
        /\ side = S \/ side = {}
  /\ clock = 0
  /\ alive = TRUE
  /\ view = NoView
  /\ current_rel = None
  /\ epoch = 0
  /\ wanted = None
  /\ jobs = {}
  /\ editing = FALSE
  /\ edit = NoEdit
  /\ dialog = NoDialog
  /\ reencs = 0
  /\ busy = NoWrite

-----------------------------------------------------------------------------
(* What the handlers share. *)

\* the main loop can dispatch a callback
MainLoop == alive /\ busy = NoWrite

\* no modal dialog covers the window: the user's input reaches it
UserTurn == MainLoop /\ dialog = NoDialog

\* (mutant) the actions run over an open editor too
OnShownEntryEditing == UserTurn /\ current_rel # None

\* the actions that refuse to run while editing or with nothing shown
OnShownEntry == UserTurn /\ ~editing /\ current_rel # None

\* open_entry: a new epoch, and a worker that decrypts n under it
OpenEntry(n) ==
  /\ epoch < MaxEpoch
  /\ epoch' = epoch + 1
  /\ wanted' = n
  /\ jobs' = jobs \cup {[epoch |-> epoch + 1, rel |-> n,
                         phase |-> "decrypting", text |-> NoText]}

\* rebuild_sidebar: passfl_store_scan and the list built from it; or the root
\* is not there at the moment of the scan (moved, not mounted), which empties
\* the list and puts "No password store" in place of the page, its entry
\* dropped.  Neither current_rel nor the epoch changes.
RebuildSidebar(page) ==
  \/ side' = {n \in Names : disk'[n] # NoFile} /\ view' = page
  \/ side' = {} /\ view' = NoView

\* a file of the store gets a new text, under a new modification time
PutFile(n, text) ==
  /\ clock < MaxClock
  /\ clock' = clock + 1
  /\ disk' = [disk EXCEPT ![n] = [mtime |-> clock + 1, text |-> text]]
  /\ past' = [past EXCEPT ![n] = @ \cup {text}]

\* an edited text: the same credential, a revision nobody has seen
Revised(text) == [text EXCEPT !.rev = clock + 1]

-----------------------------------------------------------------------------
(* Decryption: the worker's two steps and the callback on the main loop. *)

\* passfl_crypto_decrypt_file returns the text; or it fails (no file, no key)
\* or the passphrase prompt is cancelled, and nothing else is looked at
Decrypt(j, outcome) ==
  /\ j.phase = "decrypting"
  /\ outcome = "checking" => Exists(j.rel)
  /\ jobs' = (jobs \ {j}) \cup
        {[j EXCEPT !.phase = outcome,
                   !.text = IF outcome = "checking" THEN disk[j.rel].text ELSE @]}
  /\ UNCHANGED <<store, life, side, view, current_rel, epoch, wanted, editor, dialog, busy>>

\* passfl_store_entry_needs_reencrypt, called with job->self->store_dir
CheckRecipients(j) ==
  /\ j.phase = "checking"
  /\ jobs' = (jobs \ {j}) \cup {[j EXCEPT !.phase = "done"]}
  /\ UNCHANGED <<store, life, side, view, current_rel, epoch, wanted, editor, dialog, busy>>

\* (mutant) a result of an earlier epoch is shown
StaleResultNoEpoch(j) == ~alive

\* decrypt_done drops a result whose window is gone or whose epoch is past
StaleResult(j) == ~alive \/ j.epoch # epoch

DecryptDone(j) ==
  /\ j.phase \in {"done", "failed", "cancelled"}
  /\ busy = NoWrite
  /\ jobs' = jobs \ {j}
  /\ IF StaleResult(j)
     THEN UNCHANGED <<view, current_rel>>
     ELSE /\ view' = IF j.phase = "cancelled"
                     THEN NoView ELSE [rel |-> j.rel, text |-> j.text]
          /\ current_rel' = IF j.phase = "done" THEN j.rel ELSE current_rel
  /\ UNCHANGED <<store, life, side, epoch, wanted, editor, dialog, busy>>

-----------------------------------------------------------------------------
(* The user's actions and the responses of the dialogs. *)

\* on_selection_changed: a row for the entry already shown opens nothing
SelectEntry(n) ==
  /\ UserTurn
  /\ ~editing
  /\ n \in side
  /\ n # current_rel
  /\ OpenEntry(n)
  /\ UNCHANGED <<store, life, side, view, current_rel, editor, dialog, busy>>

\* act_refresh, F5 and on_store_changed
Refresh ==
  /\ MainLoop
  /\ UNCHANGED <<store, life, current_rel, opened, editor, dialog, busy>>
  /\ RebuildSidebar(view)

ActNew ==
  /\ UserTurn
  /\ ~editing
  /\ editing' = TRUE
  /\ edit' = NoEdit
  /\ UNCHANGED <<store, life, side, shown, dialog, busy>>

\* passfl_entry_view_steal_entry hands the text the view holds to the editor
ActEdit ==
  /\ OnShownEntry
  /\ view.text # NoText
  /\ editing' = TRUE
  /\ edit' = [name |-> current_rel, text |-> view.text,
              mtime |-> disk[current_rel].mtime, since |-> clock]
  /\ view' = NoView
  /\ UNCHANGED <<store, life, side, current_rel, opened, dialog, busy>>

\* (mutant) act_cancel forgets that the entry was new
ActCancelReopens ==
  /\ UserTurn
  /\ editing
  /\ editing' = FALSE
  /\ edit' = NoEdit
  /\ OpenEntry(current_rel)
  /\ UNCHANGED <<store, life, side, view, current_rel, dialog, busy>>

\* the view gave its text away, so an edit that ends opens the entry again
ActCancel ==
  /\ UserTurn
  /\ editing
  /\ editing' = FALSE
  /\ edit' = NoEdit
  /\ IF edit.name # None /\ current_rel # None
     THEN OpenEntry(current_rel) /\ UNCHANGED view
     ELSE view' = NoView /\ UNCHANGED opened
  /\ UNCHANGED <<store, life, side, current_rel, dialog, busy>>

\* act_save, byte-identical content: nothing is written
ActSaveUnchanged ==
  /\ UserTurn
  /\ editing
  /\ edit.name # None
  /\ editing' = FALSE
  /\ edit' = NoEdit
  /\ OpenEntry(current_rel)
  /\ UNCHANGED <<store, life, side, view, current_rel, dialog, busy>>

\* (mutant) act_save writes to current_rel
SaveNameCurrent(n) == IF edit.name = None THEN TRUE ELSE n = current_rel

\* the name act_save writes to: the edited entry's, or one the user typed
SaveName(n) == IF edit.name = None THEN TRUE ELSE n = edit.name

SaveText(n) == IF edit.name = None THEN [cred |-> n, rev |-> 0] ELSE edit.text

\* (mutant) act_save does not look at the modification time
NeedsPromptNewOnly(n) == edit.name = None /\ Exists(n)

\* act_save asks first: a new entry's name is taken, or the edited file's
\* modification time is no longer the one the edit started with
NeedsPrompt(n) ==
  IF edit.name = None THEN Exists(n) ELSE disk[n].mtime # edit.mtime

ActSave(n) ==
  /\ UserTurn
  /\ editing
  /\ SaveName(n)
  /\ IF NeedsPrompt(n)
     THEN dialog' = Dialog("save", n, SaveText(n), FALSE) /\ UNCHANGED busy
     ELSE busy' = Write(n, SaveText(n), clock, FALSE) /\ UNCHANGED dialog
  /\ UNCHANGED <<store, life, side, shown, editor>>

\* on_confirm_save; the confirmed write is done without a second look
OnConfirmSave(overwrite) ==
  /\ MainLoop
  /\ dialog.kind = "save"
  /\ dialog' = NoDialog
  /\ busy' = IF overwrite /\ editing
             THEN Write(dialog.rel, dialog.text, clock, TRUE)
             ELSE NoWrite
  /\ UNCHANGED <<store, life, side, shown, editor>>

\* (mutant) do_write does not open the entry it wrote
DoWriteNoReopen ==
  /\ busy # NoWrite
  /\ busy' = NoWrite
  /\ PutFile(busy.name, Revised(busy.text))
  /\ editing' = FALSE
  /\ edit' = NoEdit
  /\ current_rel' = busy.name
  /\ RebuildSidebar(view)
  /\ UNCHANGED <<life, opened, dialog>>

\* do_write succeeds: the editor closes and the written entry is opened
DoWrite ==
  /\ busy # NoWrite
  /\ busy' = NoWrite
  /\ PutFile(busy.name, Revised(busy.text))
  /\ editing' = FALSE
  /\ edit' = NoEdit
  /\ current_rel' = busy.name
  /\ RebuildSidebar(view)
  /\ OpenEntry(busy.name)
  /\ UNCHANGED <<life, dialog>>

\* do_write fails (no recipients, no key, no space): still in the editor
DoWriteFails ==
  /\ busy # NoWrite
  /\ busy' = NoWrite
  /\ UNCHANGED <<store, life, side, shown, editor, dialog>>

ActDelete ==
  /\ OnShownEntry
  /\ dialog' = Dialog("delete", current_rel, NoText, FALSE)
  /\ UNCHANGED <<store, life, side, shown, editor, busy>>

\* on_confirm_delete removes self->current_rel as it is now
OnConfirmDelete ==
  /\ MainLoop
  /\ dialog.kind = "delete"
  /\ current_rel # None
  /\ Exists(current_rel)
  /\ dialog' = NoDialog
  /\ disk' = [disk EXCEPT ![current_rel] = NoFile]
  /\ current_rel' = None
  /\ RebuildSidebar(NoView)
  /\ UNCHANGED <<clock, past, life, opened, editor, busy>>

\* a dialog is cancelled, or the operation it asked for fails before it
\* changed anything: the error is a toast
CloseDialog ==
  /\ MainLoop
  /\ dialog.kind \notin {"none", "save"}
  /\ dialog' = NoDialog
  /\ UNCHANGED <<store, life, side, shown, editor, busy>>

ActHistory ==
  /\ OnShownEntry
  /\ dialog' = Dialog("history", current_rel, NoText, FALSE)
  /\ UNCHANGED <<store, life, side, shown, editor, busy>>

\* on_history_restore writes a revision back, whatever the file holds now
OnHistoryRestore(text) ==
  /\ MainLoop
  /\ dialog.kind = "history"
  /\ text \in past[dialog.rel]
  /\ dialog' = NoDialog
  /\ PutFile(dialog.rel, text)
  /\ RebuildSidebar(view)
  /\ OpenEntry(dialog.rel)
  /\ UNCHANGED <<life, current_rel, editor, busy>>

ActRecipients ==
  /\ OnShownEntry
  /\ dialog' = Dialog("recipients", current_rel, NoText, FALSE)
  /\ UNCHANGED <<store, life, side, shown, editor, busy>>

\* on_reencrypt_clicked; the worker's writes are Rewrite steps.  The dialog
\* can be closed meanwhile: the worker keeps it, and its callback comes.
OnReencryptClicked ==
  /\ MainLoop
  /\ dialog.kind = "recipients"
  /\ ~dialog.copy
  /\ reencs < MaxReencs
  /\ reencs' = reencs + 1
  /\ dialog' = [dialog EXCEPT !.copy = TRUE]
  /\ UNCHANGED <<store, alive, side, shown, editor, busy>>

\* reenc_done: the worker of the dialog on screen, or of one closed before,
\* has ended; on success that dialog closes
ReencDone(ok) ==
  /\ MainLoop
  /\ reencs > 0
  /\ reencs' = reencs - 1
  /\ \/ dialog.copy /\ dialog.kind = "recipients"
        /\ dialog' = IF ok THEN NoDialog ELSE [dialog EXCEPT !.copy = FALSE]
     \/ (dialog.copy /\ dialog.kind = "recipients" => reencs > 1) /\ UNCHANGED dialog
  /\ UNCHANGED <<store, alive, current_rel, editor, busy>>

\* on_recipients_reencrypted, also over an open editor
OnReencrypted ==
  /\ ReencDone(TRUE)
  /\ RebuildSidebar(view)
  /\ IF current_rel # None THEN OpenEntry(current_rel)
                           ELSE UNCHANGED opened

ReencryptFails == ReencDone(FALSE) /\ UNCHANGED <<side, view, opened>>

ActMoveCopy(copy) ==
  /\ OnShownEntry
  /\ dialog' = Dialog("mvcp", current_rel, NoText, copy)
  /\ UNCHANGED <<store, life, side, shown, editor, busy>>

\* the response that leads to do_mvcp with target n: the first dialog's,
\* which refuses the entry's own name, or the overwrite dialog's
MoveCopyAnswer(n) ==
  /\ MainLoop
  /\ current_rel # None
  /\ \/ dialog.kind = "mvcp" /\ n # current_rel
     \/ dialog.kind = "overwrite" /\ n = dialog.rel
  /\ Exists(current_rel)

\* do_mvcp, PASSFL_STORE_ERROR_EXISTS: ask, and keep the target pending
MoveCopyExists(n) ==
  /\ MoveCopyAnswer(n)
  /\ dialog.kind = "mvcp"
  /\ Exists(n)
  /\ dialog' = Dialog("overwrite", n, NoText, dialog.copy)
  /\ UNCHANGED <<store, life, side, shown, editor, busy>>

\* the file operation of copy_move: a rename keeps the modification time
\* unless the new directory's recipients make it re-encrypt the file
MoveCopyFile(n, rekey) ==
  LET old  == disk[current_rel]
      file == IF dialog.copy \/ rekey THEN [old EXCEPT !.mtime = clock + 1]
                                      ELSE old
      kept == IF dialog.copy \/ n = current_rel THEN old ELSE NoFile
  IN  /\ clock < MaxClock
      /\ clock' = clock + 1
      /\ disk' = [disk EXCEPT ![current_rel] = kept, ![n] = file]
      /\ past' = [past EXCEPT ![n] = @ \cup {old.text}]

\* do_mvcp succeeds, or moves the file and fails on a later step: then the
\* error is a toast and the window still names the old entry
MoveCopy(n, rekey, ok) ==
  /\ MoveCopyAnswer(n)
  /\ dialog.kind = "mvcp" => ~Exists(n)
  /\ MoveCopyFile(n, rekey)
  /\ dialog' = NoDialog
  /\ IF ok
     THEN current_rel' = n /\ RebuildSidebar(view) /\ OpenEntry(n)
     ELSE UNCHANGED <<current_rel, side, view, opened>>
  /\ UNCHANGED <<life, editor, busy>>

\* on_hotp_generate: the text in the view, its counter raised, goes to
\* on_hotp_rewritten, which writes it to current_rel
HotpGenerate ==
  /\ OnShownEntry
  /\ view.text # NoText
  /\ PutFile(current_rel, Revised(view.text))
  /\ OpenEntry(current_rel)
  /\ UNCHANGED <<life, side, view, current_rel, editor, dialog, busy>>

\* the window is closed; an open dialog's callback finds it gone
Dispose ==
  /\ MainLoop
  /\ alive' = FALSE
  /\ epoch' = epoch + 1
  /\ current_rel' = None
  /\ view' = NoView
  /\ dialog' = NoDialog
  /\ UNCHANGED <<store, reencs, side, wanted, jobs, editor, busy>>

-----------------------------------------------------------------------------
(* The other users of the store. *)

\* pass insert, pass edit, git pull: a new text for n
CliWrite(n) ==
  /\ PutFile(n, Revised(IF Exists(n) THEN disk[n].text ELSE [cred |-> n, rev |-> 0]))
  /\ UNCHANGED <<life, side, shown, editor, dialog, busy>>

CliRemove(n) ==
  /\ Exists(n)
  /\ clock < MaxClock
  /\ clock' = clock + 1
  /\ disk' = [disk EXCEPT ![n] = NoFile]
  /\ UNCHANGED <<past, life, side, shown, editor, dialog, busy>>

\* pass init, or the re-encryption worker: the same text in a new file
Rewrite(n) ==
  /\ Exists(n)
  /\ PutFile(n, disk[n].text)
  /\ UNCHANGED <<life, side, shown, editor, dialog, busy>>

-----------------------------------------------------------------------------
Worker ==
  \E j \in jobs :
     \/ CheckRecipients(j)
     \/ \E outcome \in {"checking", "failed", "cancelled"} : Decrypt(j, outcome)

Callback == \E j \in jobs : DecryptDone(j)

Saving == DoWrite \/ DoWriteFails

User ==
  \/ Refresh \/ ActNew \/ ActEdit \/ ActCancel \/ ActSaveUnchanged
  \/ ActDelete \/ OnConfirmDelete \/ CloseDialog
  \/ ActHistory \/ ActRecipients
  \/ OnReencryptClicked \/ OnReencrypted \/ ReencryptFails
  \/ HotpGenerate \/ Dispose
  \/ \E b \in BOOLEAN : ActMoveCopy(b) \/ OnConfirmSave(b)
  \/ \E n \in Names :
        \/ SelectEntry(n) \/ ActSave(n) \/ MoveCopyExists(n)
        \/ \E rekey, ok \in BOOLEAN : MoveCopy(n, rekey, ok)
        \/ \E text \in past[n] : OnHistoryRestore(text)

Others == \E n \in Names : CliWrite(n) \/ CliRemove(n) \/ Rewrite(n)

Next == Worker \/ Callback \/ Saving \/ User \/ Others

(***************************************************************************)
(* Decryptions end (GPGME returns, with a text or an error) and a write    *)
(* ends.  The main loop runs the idle callbacks the workers post between   *)
(* two of the user's events, so a callback is not starved by writes that   *)
(* block the loop again and again: strong fairness.  Nothing is assumed of *)
(* the user or of the other users of the store.                            *)
(***************************************************************************)
Fairness == WF_vars(Worker) /\ SF_vars(Callback) /\ WF_vars(Saving)

Spec == Init /\ [][Next]_vars /\ Fairness
-----------------------------------------------------------------------------
(* Properties.  Awaited: a result that will not be dropped is on its way. *)

Awaited == \E j \in jobs : j.epoch = epoch

\* Once no result is awaited, the only entry a page can be about is the one
\* opened last, and a page with a text is of the entry current_rel names:
\* whatever order the decryptions end in, whatever the user did meanwhile
\* (decrypt_done, open_entry, do_write, do_mvcp, on_confirm_delete).  A page
\* may be about no entry although current_rel names one: act_edit took its
\* text, a passphrase prompt was cancelled, or rebuild_sidebar could not scan
\* the store and put "No password store" there.
SettledView ==
  view.rel # None /\ ~Awaited =>
    view.rel = wanted /\ (view.text # NoText => view.rel = current_rel)

\* A save that was not confirmed overwrites nothing another program wrote
\* between the start of the edit and the save's check (the modification time
\* guard of act_save, docs/SPEC.md 7.7).  A write during GPG's encryption,
\* after the check, is not excluded.
UnpromptedSaveIsSafe ==
  busy # NoWrite /\ ~busy.prompted =>
    \/ ~Exists(busy.name)
    \/ disk[busy.name].mtime > busy.checked
    \/ edit.name # None /\ disk[busy.name].mtime <= edit.since

\* A save, while its dialog waits or its write runs, is that of the editor on
\* screen: same entry, same text, though current_rel may have moved on; and
\* no other dialog is ever open over the editor (on_confirm_save's test of
\* self->editing and the pending_* fields).
SaveMatchesEditor ==
  /\ dialog.kind = "save" =>
       /\ editing
       /\ edit.name # None => dialog.rel = edit.name /\ dialog.text = edit.text
  /\ busy # NoWrite =>
       /\ editing
       /\ dialog = NoDialog
       /\ edit.name # None => busy.name = edit.name /\ busy.text = edit.text
  /\ alive /\ editing => dialog.kind \in {"none", "save"}

\* What open_entry, passfl_store_write_entry and the dialogs are given is
\* never NULL: an edit of an existing entry keeps current_rel set, whatever is
\* decrypted or deleted meanwhile, so act_cancel and act_save can reopen it.
NoNullName ==
  /\ alive /\ editing /\ edit.name # None => current_rel # None
  /\ dialog.kind # "none" => dialog.rel # None
  /\ busy # NoWrite => busy.name # None

\* When the user leaves the window alone (the bounds see to that), a text in
\* the view ends up being that of the entry current_rel names: the moments
\* where the two differ, and an edit or an HOTP code goes astray, end.
ViewSettles == <>[](view.text # NoText => view.rel = current_rel)

(* What the documentation and comments say, and the code does not do. *)

\* docs/SPEC.md 7.7: "detect on-disk changes and reload rather than overwrite
\* blindly": a save that was not confirmed replaces the text it was made from
\* (or one written after the check).
NoBlindOverwrite ==
  busy # NoWrite /\ ~busy.prompted =>
    \/ ~Exists(busy.name)
    \/ disk[busy.name].mtime > busy.checked
    \/ disk[busy.name].text = busy.text

\* act_delete's prompt, "Remove %s from the store?": the entry it names is
\* the one a "delete" response removes.
PromptNamesVictim == dialog.kind = "delete" => current_rel = dialog.rel
=============================================================================
