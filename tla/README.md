# Pass for Linux: a TLA+ development

Pass for Linux is a GTK 4 / libadwaita window on a `pass` password store. It has
no daemon and no database: the store is a directory of GnuPG files which the
`pass` command line, git, other windows and this program all change at the same
time, and the engine follows the `pass` script (1.7.4) step by step.
The modules here model that program, TLC checks them on small instances, and
TLAPS proves the invariants that matter most for every instance. All paths
below are relative to `src/src/` (the C sources) unless they start with `docs/`.

    cd tla
    tlc -workers 2 -config MCEntryWindowSafe.cfg MCEntryWindow
    tlapm EntryWindowProofs.tla

Contents: 1. Inventory. 2. Plan. 3. Modules and how they correspond to the code.
4. Runs, bounds and what they show. 5. Fairness. 6. Proofs. 7. Where code and
documentation disagree. 8. Assumptions and what is not modelled.

## 1. Inventory

### Processes

* The **GTK main loop** runs every handler to its end, one after the other:
  user actions, dialog responses, timers, idle callbacks, file monitors. All of
  `app/` runs there, and so do writing, deleting, renaming, `init`, and every
  commit that the window makes. While GPGME waits in it the loop is blocked.
* A **decryption thread** per selected entry (`window.c:179`), a **revision
  thread** per commit selected in the history dialog (`history.c:212`), and a
  **re-encryption thread** (`recipient-view.c:81`). They share nothing with the
  main loop but their job, the window the job holds a reference to, and the
  store; results come back through `g_idle_add`.
* **Other programs**: `pass`, `git`, `gpg`, another window, other owners of the
  clipboard. They follow no protocol of this program.

### Components

| Component | State | Operations | Talks to |
|---|---|---|---|
| Main window, `app/window.c` | `current_rel`, `decrypt_epoch`, `editing`, `edit_mtime`, `pending_name/content/message`, the sidebar, the pages | select, new, edit, cancel, save, delete, history, recipients, rename/duplicate, HOTP rewrite, refresh, dispose, and the callback of each thread and dialog | everything below |
| Entry view, `app/entry-view.c` | the entry shown, `clip_*`, row timers | show, take, copy a secret, copy a value, reveal, TOTP tick, HOTP generate | clipboard, window |
| Entry editor, `app/entry-edit.c` | rows over a text, is_new | begin, content, add/remove row, generate | entry parser, generator |
| History dialog, `app/history.c` | `log`, `job_epoch`, `sel_entry` | select a commit, show a diff, restore | vcs, crypto, window |
| Recipients dialog, `app/recipient-view.c` | the target, spinner | show recipients, re-encrypt | recipients, store, vcs, window |
| Store, files: `engine/store.c` `make_parents`, `write_entry`, `delete_entry`; `engine/crypto.c` `atomic_write` | the tree of directories and files, temporary files | write, delete | file system, gpg |
| Store, keys: `reencrypt`, `needs_reencrypt`, `init_ids`, `deinit`, `move`, `copy`; `engine/recipients.c`; key ids of `engine/crypto.c` | the `.gpg-id` files, the keys each file is encrypted to | re-encrypt a subtree, init, deinit, rename, copy, resolve, groups, signature check | gpg, vcs |
| Git history, `engine/vcs.c` | index, branch, commits | commit one file, commit paths or all, history, file at a revision, messages | libgit2, GPGME |
| Store, scan and names: `scan`, `flatten`, `entry_path` | none | list the tree, filter, name to path | file system |
| Store, watch: `engine/store.c` `watch_*` | monitors, `coalesce_id` | new, rearm, free, coalesce events | GFileMonitor, window |
| Entry text, `engine/entry.c` | none | parse, serialise | editor, view |
| Generator, `engine/generate.c` | none | expand a character set, draw | getrandom |
| One-time codes, `engine/otp.c` | none | parse a URI, base32, TOTP/HOTP code, next counter | view, window |
| Crypto, `engine/crypto.c` | one-time init | decrypt, encrypt, verify, sign, secure buffers | GPGME |
| Application start, `app/main.c` | none | create the window | window |

Tests (`*_test.c`, `window_smoke.c`), `docs/`, build files and icons were read
for what they say of the program and are not part of it.

### How they interact

* Selecting an entry: `on_selection_changed` → `open_entry` raises
  `decrypt_epoch` and starts a thread; the thread decrypts, asks
  `passfl_store_entry_needs_reencrypt`, and posts `decrypt_done`, which drops
  its result unless its epoch is still the window's, then fills the view and
  sets `current_rel`.
* Editing: `act_edit` takes the text from the view and the file's modification
  time; `act_save` compares that time, perhaps asks through a modal dialog, and
  `do_write` writes, commits, and opens the entry again.
* Every operation that changes the store then commits (`vcs_commit`,
  `passfl_vcs_commit_paths`): a failed commit is a toast, the change stands.
* Any change in the store reaches `on_store_changed` through the watch, 400 ms
  later; it rebuilds the sidebar and rearms the watches.
* Re-encryption runs in its own thread while the dialog can be closed and the
  window be used; its completion opens the current entry again.

### What is hard about it

* Results of threads come in any order and late: after another selection, over
  an open editor, after a dialog or the window was closed.
* What is shown (`view`), what the actions act on (`current_rel`) and what is
  being opened (`decrypt_epoch`) are three pieces of state, changed at different
  moments by a dozen handlers.
* Check-then-act on files shared with other programs: modification times,
  `g_file_test` before `g_mkdir`, the parent of a commit, recipients read before
  an encryption, a decrypted text written back.
* Partial failure: any system call of a write; init half done; a rename that
  succeeded and a re-encryption that did not; a commit that failed after the
  index was written.
* Crashes between the system calls of a write.
* Asynchronous clipboard reads against a countdown, a fallback timer, other
  programs, a second copy and the end of the window.

`PROJECT.json` lists each of these at the line where it bites (`hazards`) with
the properties that watch it.

### What makes each component correct

* Window: the view settles on the entry opened last; a save is the editor's and
  overwrites nothing it has not seen; nothing acts on NULL or on an entry other
  than the one named to the user; what a thread reads is still there.
* Clipboard: the secret copied last always has a countdown; other programs'
  contents are never overwritten; the content found is restored; every copy ends.
* Files: an entry is always one complete text, in every failure and crash; no
  temporary file and no empty directory stays.
* Keys: entries are encrypted to their recipients, or the operation that has to
  see to it is under way or was reported as failed; re-encrypting repairs it.
* Git: what was reported as committed can be restored; the branch only moves forward.
* Watch: the sidebar is eventually what the store is, and every directory that
  exists is watched.
* History dialog: the revision restored is the one selected and on screen, and it
  is written byte for byte.
* Editor: what is not touched is given back exactly.
* Pure parts: the entry text round trip, character sets, uniform draws,
  the counter of a HOTP URI, the key ids of a file, the line diff:
  each against a plain definition of what it is meant to compute.

## 2. Plan

In the order of importance; all of them are written.

| # | Module | Of | Abstract specification | Theorems |
|---|---|---|---|---|
| 1 | `EntryWindow` | `window.c`, with the callbacks of its dialogs | – | type, save and view invariants: proved |
| 2 | `Clipboard` | `entry-view.c` | – | all safety properties: proved |
| 3 | `StoreFile` | writes and deletes, system call by system call | `AtomicStore` | refinement, no temporary file, no empty directory: proved |
| 4 | `Vcs` | `vcs.c` | – | types, the branch moves forward, what was saved can be restored: proved |
| 5 | `Rekey` | recipients, init, rename, copy, re-encryption | – | all four properties: proved |
| 6 | `StoreWatch` | watch, debounce, rearm, with the scan | – | types, the monitors cover the store, the sidebar shows it: proved |
| 7 | `EntryScreens` | `entry-edit.c`, `history.c` and the HOTP rows, over one entry | – | all safety properties: proved |
| 8 | `EntryText`, `LineDiff`, `Otp`, `Generator`, `KeyIds` | the pure parts | a reference definition each | text round trips, the diff is a shortest one, draws and alphabets are fair, key ids are read: proved |

Composition: `StoreFile` implements `AtomicStore`, and `EntryWindow`, `Vcs` and
`Rekey` take a write to be what `AtomicStore` says it is (one step at the moment
of the rename); that is why the refinement comes with crashes and failures. `EntryWindow`
contains the dialogs' callbacks but not their inner state: a restore of
`EntryScreens` is its `OnHistoryRestore`, a rebuild of `StoreWatch` its `Refresh`.
`EntryScreens` extends `EntryText`, `LineDiff`, `Otp` and `Generator`, `Rekey`
extends `KeyIds`: a pure part is used where the program uses it, and the
states it is checked in are those the program reaches.
Every module is written to be proved about as well as checked: bounds and sets
are CONSTANTS with named assumptions, recursion is a recursive function of numbers
or of pairs of them, invariants are conjunctions of named parts. `Recursion` has the
lemmas about such functions that the proofs use.

Left for later: directories as rename targets and copied trees in `Rekey`; the signature check of
`.gpg-id`; the scan of a store with symbolic links that form a loop; base32 and the
periods of TOTP codes.

## 3. Modules and how they correspond to the code

The `map` in `PROJECT.json` gives the lines of each definition.

### EntryWindow

State: `disk`, `past` (git's texts per entry) and `clock` are the store, shared
with the command line; `current_rel`, `epoch`, `editing`, `edit.mtime` are the
fields of `PassflWindow`; `view` is what the entry view holds (`edit` and
`view` hold a text or have given it away, as `passfl_entry_view_take_entry`
does); `jobs` are the `DecryptJob`s with the phase their thread is in; `dialog` is the
modal dialog with the `pending_*` fields; `busy` is a `do_write` under way,
during which the main loop runs nothing; `reencs` counts re-encryption threads.

One action per handler; a handler that opens a dialog ends there and the answer
is an action of its own, so everything that can happen in between does.
`OpenEntry` (one helper, used by every action that ends in `open_entry`) starts
a job with a new epoch. `Decrypt` and `CheckRecipients` are the two halves of the
thread, `DecryptDone` the idle callback. `RebuildSidebar` (another helper) is the scan of
the store that most handlers end with. A scan may fail at any time: the sidebar is
then empty and a "No password store" page is in the view, about no entry, while
`current_rel` stays; selecting the entry it names is ignored until another
one was opened. The result of an entry that the same handler opens next takes the
page's place when it arrives. At the start the page may say that GPGME is unavailable. `CliWrite`, `CliRemove` and `Rewrite` are the
other programs. `wanted`, `edit.since` and `busy.checked` are history
variables: only properties read them.

A text is the credential it describes and a revision, which is what tells
"another entry's text", "an older text of this entry" and "this text" apart.
Modification times are those of the model's clock; the code compares
microseconds.

### Clipboard

State: `clip_pending`, `clip_cancel`, `clip_fallback_id`, `clip_restore`,
`clip_timer_id`/`clip_remaining`, `clip_changed_id`, one variable each, with the
clipboard and the reads that GDK has in flight. `CopyTimed`, `OnPrevClipRead`,
`ClipReadFallback`, `ClipTick`, `OtherCopies` (with `on_clip_changed`),
`CopyValue` and `Dispose` are the functions of the same names; `Disarm` is
`clip_disarm`, part of four of them.

### StoreFile and AtomicStore

`StoreFile` has one action per system call of `make_parents` (`Parents`,
`Mkdir`), of `atomic_write` (`Open` to `Rename`, `Fails`, `Undo`) and of
`passfl_store_delete_entry` (`Test`, `Unlink`, `Prune`, `PruneFails`), and an error
path for each. The file system keeps what all see (`dirs`, `entry`, `temps`, `data`)
apart from what a crash leaves (`journal`, `stable`): directory changes
reach the disk in order, at any time; data is only sure to be there after `fsync`.
`AtomicStore` is what a caller is promised: a call changes one entry at
one moment or not at all, the answer says which, and a crash goes back to a
state the store was in. The refinement mapping reads an entry as the number of
its file when the file is complete and as `Torn`, which is no text of the abstract
store, otherwise; a call has acted from its rename or unlink on.

### Vcs

One action per libgit2 call that reads or changes what others can change: the index
is read and changed in memory (`Stage`), written back whole (`WriteIndex`), read again by
the only-if-changed guard (`Guard`), the parent is read (`Parent`), and the
commit is made and the branch moved (`CommitTree`). A job has the `paths` it commits:
`single` is `passfl_vcs_commit_file` with its one file, whose guard asks for the status
of the file (`FileUnchanged`; a file git does not know at all goes on to the
commit) and whose tree is that of the index read again; the others are
`passfl_vcs_commit_paths`, which keeps the tree it staged and compares it with that
of HEAD, if there is one (`TreeUnchanged`). The operations being committed are
`Change` (a write or a removal), `CopyMove` (a rename commits two files at once)
and `ChangeBelow` (recipients and re-encryption: a file or all of a directory); the
first two run on the main loop, re-encryptions on threads beside it.
`CliChange`, `CliAdd` and `CliCommit` are pass. `History`,
`Touches` and `Restorable` are what the history dialog can list and bring back.
`SignCommits` selects the signed path, whose branch update is forced.

### Rekey

State: the `.gpg-id` of each directory, the text and keys of each entry, what each
process is at. `Resolve` is the nearest recipients file; `Desired` and `Used`
are the two different rules by which `passfl_crypto_desired_keyids` names subkeys (all
that can encrypt) and by which gpg picks one. `Write`, `CopyMove`/`Test`/`Place`,
`InitIds` and `Reencrypt` begin the operations, `Visit`/`Decrypt`/`Seal` are
`reencrypt_walk` with `reencrypt_one`, `Fail` ends an operation at any call.
`owed` and `alone` are history variables.

`KeyIds` says how the keys of an entry are read: `FileKeyIds` walks over the packets
at the front of a file as `passfl_crypto_file_keyids` does, byte by byte, and
`Files` are the files gpg and other programs may write for a set of keys (in the
old and the new packet format, with a length in one, two, four or five bytes, behind a
session key for a passphrase or not). The actions of `Rekey` take the keys of a file
to be known; `KeysAreRead` says that for the keys of each entry, in every state, the
walk finds just these, in every file they can be written in: `KeyId` is the id of a
subkey, `Sizes` how long the encrypted session key is, and `Misread` the sets
of keys with a file that is not read so. A file that is cut off shows no other id.

### StoreWatch

State: `disk` is the tree as it is, `sidebar` as it is shown; `monitors`, `timer` and
`phase` with `todo` and `listing` are `PassflStoreWatch` and what the main loop is
doing; `events` are the monitors' undelivered events. `ScanDir` is one call of
`scan_dir`, `WatchDir` one of `watch_dir` with the descent of `watch_add_tree`,
so that directories are made, removed and changed between two of them; `ScanEnds`
and `ArmEnds` are what `rebuild_sidebar` does in between and after. `OnDirChanged`
and `WatchFire` are the callbacks; `Rebuild` is every handler that calls
`rebuild_sidebar` itself. `Create`, `Remove` and `Churn` are the other programs and
the files that neither scan nor watch look at. `unread` and `missed` are history
variables: a directory that changed after its turn in the scan and before it got its
monitor is `missed`, the one gap the code leaves.

### EntryScreens, EntryText, LineDiff, Otp

`EntryText` has the lines of a text: `Parse`, `Assemble` (the loop that
`entry-edit.c`, `history.c` and `entry-view.c` each have), and the NUL byte at which
a C string ends. A symbol is a byte, or stands for a run of bytes without newline;
a HOTP URI is one symbol with its parameters, which `Otp` reads and whose
counter `IncrementedUri` raises in the text. `LineDiff` is the table and the walk of
`diff_lines`, both over the pairs of places in the two texts; `IsDiff` says what a
diff is.

`EntryScreens` puts them to use. State: `log` are the texts committed (the
entry is the last one), `view` the parsed entry in the view; `password`, `rows`,
`final_newline` and `edit_orig` are `PassflEntryEdit`; `revisions`, `selected`,
`job_epoch`, `jobs`, `sel_entry`, `diff`, `stack` and `restore_btn` are
`PassflHistory`. The actions have the names of the handlers: `ActEdit`, `SetRow`,
`OnAddLine`, `OnRemoveLine`, `ActSave`, `OnCommitSelected`, `RevisionShown`,
`RevisionFails` and `RevisionDropped` (the three outcomes of `revision_done`),
`OnRestoreClicked`, `OnHotpGenerate`. `CliWrite` is another program, at any time. `codes`
and `source` are history variables: the text the view was parsed from, and the codes
used since another text was written. A HOTP code is made from the view and written as
the view's text with one counter raised; the view is read again later. A code of
another row in between is made from the old view, and its write takes the first
row's counter back (`on_hotp_generate`, `entry-view.c:335`): what the code does then
is in the model, and `CodesAreFresh` speaks of views that are up to date.

### Generator

`ExpandSet` is the parser of character sets, classes, ranges and duplicates
included, and the signed counter of its loop; `Draw` is one byte of the rejection
sampling. `IsFair` counts the bytes that give each character.

## 4. Runs, bounds and what they show

| Run | Instance | Properties | Shows |
|---|---|---|---|
| `window_safe` | 2 names, 2 decryptions, 1 change of the store, 1 re-encryption, any scan failing; 271 k states | `TypeOK`, `SettledView`, `UnpromptedSaveIsSafe`, `SaveMatchesEditor`, `NoNullName`, `ViewSettles` | every operation of the window against overlapping decryptions, failing scans and an outside change; view and `current_rel` agree in the end |
| `clipboard` | 4 copies, 2 other contents, 2 s | `TypeOK`, `LatestCopyIsTimed`, `WaitingMeansStopped`, `ReadIsUnderWay`, `RestoresFound`, `NeverClobbersOthers`, `CopyEnds` | reads, timers, other programs, dispose in every order |
| `store_file` | 2 processes, entries `d/x` and `d/e/y`, 2 writes, 1 crash, any call failing; 1.1 M states | `TypeOK`, `NoTempLeft`, `NoEmptyDirs`, `StoredAtomically` | writes and deletes implement `AtomicStore` |
| `vcs` | the main loop, a re-encryption and git, 2 files, 3 changes, 2 commits, unsigned; 2.7 M states | `TypeOK`, `SavedIsRestorable`, `FastForward` | nothing committed is lost |
| `rekey` | 2 processes, 2 entries under 2 recipients files, 2 lists, 3 operations; 868 k states | `TypeOK`, `KeysFollowIds`, `KeysAreRead`, `WalkRepairs` | wrong keys are always accounted for, a walk repairs them, and keys are what is in the bytes |
| `store_watch` | the root, a directory in a directory, a linked one, 4 changes; 206 k states | `TypeOK`, `QuietMeansShown`, `QuietMeansWatched`, `SidebarCatchesUp` | scan, monitors, events and the timer against changes at any moment |
| `entry_screens` | 4 texts, 3 commits, 2 changes typed, 2 codes, 2 selections; 354 k states | `TypeOK`, `RestorableIsShown`, `DiffTellsTheChange`, `EditorIsExact`, `CodesAreFresh`, `GeneratorIsFair`, `RestoreIsExact`, `RevisionsSettle` | the text of an entry through editor, history and HOTP rows, with late revisions and outside changes |
| `window_overwrite`, `window_delete`, `clipboard_cleared`, `vcs_signed`, `rekey_saves` | as small as the case allows | one each | the disagreements of section 7 |

Why these bounds are enough to be of use:

* Window: the hazards need a result that belongs to another entry than the one
  wanted (two names), two jobs at once (two epochs; three where the prompt of an entry
  must be reached with a job left over), a change during an edit
  (clock 1; 2 in `window_overwrite`), a re-encryption that outlives its dialog (1). The
  safety properties are also proved for all bounds.
* Clipboard: a read overtaken by a copy whose own read is overtaken needs three
  copies; four leave one more. The countdown needs a tick that is not the last.
* Files: one directory inside the other makes pruning go up two levels and
  meet a neighbour; two processes race in every pair of calls; one block suffices,
  as a file is complete or not. A second crash starts from a state that
  the first could have left.
* Git: two threads with git between them; a file and another that may be
  swept along by a commit, renamed to or committed with it. Two commits are one that
  moves the tip and one made on it or on the tip before; three changes leave one
  to undo or to displace them. The theorems have no bounds.
* Keys: a directory list that hides the root's; a list with a member with
  two subkeys, so that `Desired` and `Used` differ; three operations let
  recipients change twice during a walk. The key ids differ in their first or
  last byte only and contain bytes that could begin a packet; the packets are of 12 and
  of 249 bytes, so that each of the six forms of a header occurs. `MaxCut` is how far
  into a file the run cuts it off; the theorem has no such bound.
* Watch: a directory in a directory is made after its parent got its
  monitor; four changes let both be made, removed and made again. A linked
  directory is scanned and not watched.
* Screens: texts with and without a final newline, empty ones, an empty last line,
  lines that change places, a NUL byte; the counters grow by a digit (9) and overflow
  (`MaxCounter` stands for the largest guint64). Two selections overtake each other.
  Three revisions make a first, a middle and a last one, and a list that is not
  the newest any more. The character sets have classes, duplicates, overlapping
  ranges, a dash at the end or after a class, and a range into the bytes above 127.

The bounds `MaxClock`, `MaxEpoch`, `MaxReencs`, `MaxCopies`, `MaxChanges`,
`MaxWrites`, `MaxCrashes`, `MaxTexts`, `MaxCommits`, `MaxOps`, `MaxLog`, `MaxRows`,
`MaxTyped` and `MaxCodes` appear in guards, and `MaxCounter` is where counters
wrap; they are natural numbers in the proofs, which hold for all values. When
they are used up, or the window is closed, nothing may be left to do: that is
why the configurations say `CHECK_DEADLOCK FALSE`. Symmetry is used only in
runs of safety properties.

Each property of a passing run has a mutant: a plausible mistake in one
definition of the model (marked "(mutant)" in the modules), with which the run finds the property
violated.

## 5. Fairness

* `EntryWindow`: `WF(Worker)`: GPGME returns. `WF(Saving)`: a write in the main
  loop ends. `SF(Callback)`: the main loop gets to an idle callback although
  writes block it again and again, for between two blocking handlers it
  dispatches what is queued. Nothing is assumed of the user or of other programs;
  the bound on their actions is the assumption that they leave the window
  alone in the end.
* `Clipboard`: GLib's timers fire and a cancelled read ends. A read that is not
  cancelled may never end: its owner is another program.
* `StoreWatch`: `WF(Working)`: a scan or a rearming that has begun goes on.
  `SF(WatchFire)` and `SF(OnDirChanged(d, TRUE))`: the main loop gets to its timers
  and to the events of each directory in spite of the rebuilds that keep it busy again
  and again; GLib serves sources of one priority in turn. `WF(Deliver)` would not do, as
  the events of `.git` could be delivered for ever instead.
* `EntryScreens`: `WF(RevisionDone)`: gpg answers or fails, and the idle callback runs.
* `StoreFile`, `Vcs`, `Rekey` are checked for safety only and have no fairness.

## 6. Proofs

All theorems hold for every value of the constants that satisfies the module's
named assumption. Each follows the same argument: an inductive invariant, the
lemma that `Init` implies it, the lemma that a step keeps it (one step of the proof
per action), and a last step by temporal logic.

* `EntryWindowProofs`. `EditorInv` is `TypeOK`, `NoNullName` and
  `SaveMatchesEditor` together: that a save is the editor's depends on dialogs and
  on `busy` being exclusive, and that nothing is NULL on an edit keeping
  `current_rel`. `SettledInv` adds what the epochs are for: no job is
  newer than the window's epoch, and a job of that epoch is for the entry wanted;
  it gives `SettledView`, as a scan only ever takes an entry out of the view
  (`SettledScan`). `SaveInv` adds the order of the times (`since`, modification
  times, `clock`): it gives `UnpromptedSaveIsSafe`.
* `ClipboardProofs`. `ClipInv` relates the fields, the reads in flight and the
  numbers of copies; the types, all four safety invariants and the action property
  `NeverClobbersOthers` follow.
* `StoreFileProofs`. `FileInv` says who owns which file number and which
  temporary file at each step of a call, and that whatever is in an entry, on the
  disk or in memory, is complete and stable. From it: types, `NoTempLeft`, and
  `StoredAtomically` by a step simulation, an action at a time. `TidyInv` is for
  `NoEmptyDirs`: while nothing has failed, what is there has its directories, and every
  directory has an entry below it, or a write on its way, or a deletion that stands at
  or below it in a directory that is still there. The deletion whose directory another
  one has removed gives up, so it cannot be relied on for the directories above; the
  other one can. This is the one place that needs the paths to form a tree
  (`PathAssumption`).
* `VcsProofs`. `TypeOK` is inductive as it stands; with it a thread that is not idle
  has files to commit (`HasPaths`).
  `BranchMovesForward` proves `FastForward` under `SignCommits = FALSE`; with signing it
  does not hold (section 7). Under the same hypothesis `ChainInv` says that the commits
  form one line with the branch at its end, that a text reported as saved is in the
  tree of one of them, and where the texts of a change are until then (`Carries`): in a
  thread's copy of the index, in the index while nobody displaces them, in the tree
  about to be committed. `NoCommitIsLost`
  follows, and `SavedCanBeRestored`: the first commit of the line that has the text
  is one that the history lists.
* `RekeyProofs`. `KeysInv` is `TypeOK`, `KeysFollowIds` and what a job is at each
  step (a process at rest owes nothing, one about to rename owes nothing
  yet): with that `KeysFollowIds` is inductive, each step leaving an entry as it was,
  putting it right or owing it. `RepairInv` says that a walk nobody disturbed holds
  the recipients in force and has put right all that is no longer before it:
  when nothing is, `WalkRepairs` follows. `KeysAreFound` is about the bytes.
  The walk is a recursive function of the offset, which a header moves on
  (`PacketIs`): what is found from an offset on is given by its equation
  (`WalkUnfolds`), for any bytes, also those no program wrote. `CutOffFindsNoOther` is
  by induction from the end: as long as the two files have the packet at an offset in
  common they find the same in it, and the first one that is cut off ends the walk
  of the shorter file. `FilesAreRead` goes the other way, from what was written to what is
  read: `HeaderRead` for the six forms of a header, `WalkBehind` (a walk that begins
  behind other bytes finds what it finds without them), and an induction over the
  packets of the session keys (`KeyPacketsAdd`).
* `StoreWatchProofs`. `WatchInv` is `TypeOK`, `Fits` (a directory holds what it can
  hold, and exists if it holds anything) and `Armed`: outside a scan the root has its
  monitor or is still to get it, and so has each directory in a directory with a
  monitor - or the timer runs, or an event of its parent is on its way. When all is
  quiet only the monitor is left; that it goes for the whole tree takes the conjunct
  of the module's assumption that a set of directories which has the root and the
  children of its members has all. `ShowInv` is for `QuietMeansShown`: a scan reckons with
  a set of directories, those it has read and those that did not exist when it came to
  their parents (and which are empty until they change); all of the set is as listed
  unless it changed since, and when nothing is left to read it is the whole tree.
* `Recursion`. What is proved of a recursive definition is proved by induction, and
  the induction takes a set where a textbook has a predicate: `MeasureInduction`
  says that a set which holds every element whose smaller ones it holds is all, where
  smaller is by a measure in `Nat`. `RecursiveFunction` is the theorem that a
  definition whose argument gets smaller defines a function, of the type
  expected. The proofs about texts, tables, walks and alphabets apply it to the text
  from a byte on, to the pairs of places from the end, and so on.
* `EntryScreensProofs` is in the order of the modules below it.
  - Texts: `AssembleOfParse` and `ParseOfAssemble`, the round trips, by induction over
    the places where lines begin and over the lines. A text with a NUL byte, or lines with
    an empty last one that is not ended, do not come back, and the hypotheses say so.
  - Characters: `DrawIsUniform` counts the bytes that give one character by a
    bijection to an interval; `AlphabetIsFair` adds that an expansion has each
    character once, and `EditorIsFair` states it of the sets given to the editor.
  - Diff: `LongestCommonIs` (the table holds the longest common subsequence of the two
    rests, with a common one to show for each entry and none longer) and `WalkIs` (the
    walk's sides are the two rests, and it keeps as many lines as the table says) give
    `DiffIsShortest` for any two texts.
  - States: `TextsInv` (what `log`, view and editor hold are texts, entries, lines) and
    `RevisionsInv` (the same of the dialog) give `TypeCorrect` and `EditorGivesBack`.
    `HistoryInv` says that a job of the dialog's epoch is for the revision
    selected, no job is newer, and while the button is sensitive none has that epoch,
    so that nothing can replace what is shown: `RevisionIsShown`, and with the round
    trip `RestoredByteForByte`. `DiffInv` (the rows on screen are the walk over some
    revision and its neighbour) gives `DiffIsTrue`. `CodesInv` is for `CodesStayFresh`:
    the counters used of a row are no more raises old than there are codes, counted
    across the largest counter, and there are fewer codes than counters; it needs that
    an increment changes one counter in the text and nothing else, in any row.

Only model-checked: the liveness properties (`ViewSettles`, `CopyEnds`,
`SidebarCatchesUp`, `RevisionsSettle`), which the prover cannot do. Every safety
property of the passing runs has a theorem. The violated properties of section 7
have counterexamples and no theorems.

## 7. Where code and documentation disagree

Each has a run whose counterexample shows it; `findings` in `PROJECT.json` quotes
the lines.

1. `window_overwrite`: the modification time is sampled by `act_edit`, the text
   was decrypted before: a change in between is overwritten without a question.
2. `window_delete`: the prompt names one entry, the answer removes `current_rel`
   as it is then.
3. `clipboard_cleared`: a second copy during the countdown takes the first secret
   for the content to restore, and puts it back for good.
4. `vcs_signed`: a signed commit moves the branch by force to a commit whose
   parent was read before the signature was made.
5. `rekey_saves`: re-encryption writes back the text it decrypted, over a save or a
   removal made meanwhile.

## 8. Assumptions and what is not modelled

* The file system: changes of directories are atomic and are journalled in order;
  the unlink of a process's own temporary file succeeds; file modes and
  ownership are left out.
* git holds `index.lock` through a command, so a command is one step; merges,
  rebases, several branches and a detached head are left out. The store is one
  repository that is open: how it is found, a store without one, and a rename whose
  old side lies in another repository are left out.
* GPGME, libgit2, GDK and GLib are external, modelled from the way the code
  calls them. GPG either fails or does what it was asked.
* `GFileMonitor` queues an event for every change in a directory it watches; two
  undelivered events of one directory count as one.
* Not modelled: widgets, titles, toasts, search and sidebar layout (no property
  depends on them); the strength meter; the TOTP rows' timers, base32, HMAC and labels;
  the split of a line into key and value; parsing of `.gpg-id`, groups and
  the signature check; a rename onto a directory; directories reached by two paths and
  loops of symbolic links; repository discovery, commit messages.
* Pointers are not modelled. A decryption thread reads `store_dir` of the window
  (`window.c:186`), which `dispose` frees; the lines show it without a model.
* What a property excludes is said in its comment and in `hazards`: changes between
  the scan and the rearming (`missed`), a NUL byte in a text, a HOTP counter that is the
  first parameter or given twice (the code does not raise it), a HOTP code made from a
  view that is out of date (it takes another counter back), a range of
  characters that ends at 127 (its loop does not end).
