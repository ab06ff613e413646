------------------------- MODULE EntryWindowProofs -------------------------
(***************************************************************************)
(* Machine-checked proofs about EntryWindow, for every set of names and    *)
(* every value of the bounds: its type invariant, and the four safety      *)
(* invariants that the runs check on small instances.                      *)
(***************************************************************************)
EXTENDS EntryWindow, TLAPS

USE DEF life

(***************************************************************************)
(* What the shared operators do to the types.                              *)
(***************************************************************************)

LEMMA TextTypes ==
  /\ NoText \in Text
  /\ NoFile \in File
  /\ NoView \in [rel : Option, text : Text]
  /\ NoEdit \in [name : Option, text : Text, mtime : Nat \cup {-1}, since : Nat]
  /\ NoDialog \in [kind : DialogKinds, rel : Option, text : Text, copy : BOOLEAN]
  /\ NoWrite \in [name : Option, text : Text, checked : Nat, prompted : BOOLEAN]
  BY DEF NoText, Text, NoFile, File, NoView, NoEdit, NoDialog, Dialog,
         DialogKinds, NoWrite, Write, Option

LEMMA RevisedType ==
  ASSUME clock \in Nat, NEW text \in Text
  PROVE  Revised(text) \in Text
  BY DEF Revised, Text

LEMMA PutFileType ==
  ASSUME TypeOK, NEW n \in Names, NEW text \in Text, PutFile(n, text)
  PROVE  /\ disk' \in [Names -> File]
         /\ clock' \in Nat
         /\ past' \in [Names -> SUBSET Text]
  BY DEF TypeOK, PutFile, File

LEMMA OpenEntryType ==
  ASSUME TypeOK, NEW n \in Names, OpenEntry(n)
  PROVE  epoch' \in Nat /\ wanted' \in Option /\ jobs' \in SUBSET Job
  BY TextTypes DEF TypeOK, OpenEntry, Option, Job, Phases

\* a scan, whether it fails or not, leaves the page or puts one without an entry
LEMMA RebuildTypes ==
  ASSUME NEW page, RebuildSidebar(page)
  PROVE  side' \in SUBSET Names /\ view' \in {page, NoView}
  BY DEF RebuildSidebar

LEMMA MoveCopyFileType ==
  ASSUME TypeOK, current_rel \in Names, NEW n \in Names, NEW rekey \in BOOLEAN,
         MoveCopyFile(n, rekey)
  PROVE  /\ disk' \in [Names -> File]
         /\ clock' \in Nat
         /\ past' \in [Names -> SUBSET Text]
<1> DEFINE old  == disk[current_rel]
           file == IF dialog.copy \/ rekey THEN [old EXCEPT !.mtime = clock + 1]
                                           ELSE old
           kept == IF dialog.copy \/ n = current_rel THEN old ELSE NoFile
<1>1. old \in File /\ clock \in Nat
  BY DEF TypeOK
<1>2. file \in File
  BY <1>1 DEF File
<1>3. kept \in File /\ old.text \in Text
  BY <1>1, TextTypes DEF File
<1>4. disk' = [disk EXCEPT ![current_rel] = kept, ![n] = file]
  BY DEF MoveCopyFile
<1>5. disk' \in [Names -> File]
  BY <1>2, <1>3, <1>4 DEF TypeOK
<1>. HIDE DEF old
<1>6. past' = [past EXCEPT ![n] = @ \cup {old.text}] /\ clock' = clock + 1
  BY DEF MoveCopyFile, old
<1>7. QED
  BY <1>1, <1>3, <1>5, <1>6 DEF TypeOK

(***************************************************************************)
(* The type invariant is not inductive alone: act_save and do_write pass   *)
(* names on that must not be NULL, which is NoNullName; and that holds     *)
(* because the dialogs and the editor exclude each other, SaveMatchesEditor.*)
(***************************************************************************)

EditorInv == TypeOK /\ NoNullName /\ SaveMatchesEditor

LEMMA EditorInvInit == Init => EditorInv
<1> SUFFICES ASSUME Init PROVE EditorInv
  OBVIOUS
<1> USE TextTypes, WindowAssumption DEF Init
<1>1. PICK S \in SUBSET Names :
        /\ disk = [n \in Names |->
                     IF n \in S THEN [mtime |-> 0, text |-> [cred |-> n, rev |-> 0]]
                                ELSE NoFile]
        /\ past = [n \in Names |->
                     IF n \in S THEN {[cred |-> n, rev |-> 0]} ELSE {}]
        /\ side = S \/ side = {}
  OBVIOUS
<1>2. \A n \in Names : [cred |-> n, rev |-> 0] \in Text
  BY DEF Text, Option
<1>3. disk \in [Names -> File] /\ past \in [Names -> SUBSET Text]
  BY <1>1, <1>2 DEF File
<1>4. TypeOK
  BY <1>1, <1>3 DEF TypeOK, Option
<1>5. NoNullName /\ SaveMatchesEditor
  BY DEF NoNullName, SaveMatchesEditor, NoDialog, Dialog
<1>6. QED
  BY <1>4, <1>5 DEF EditorInv

LEMMA TypeOKStep == EditorInv /\ [Next]_vars => TypeOK'
<1> SUFFICES ASSUME EditorInv, [Next]_vars PROVE TypeOK'
  OBVIOUS
<1> USE TextTypes, WindowAssumption
<1>0. TypeOK /\ NoNullName /\ SaveMatchesEditor
  BY DEF EditorInv
<1>1. ASSUME NEW j \in jobs, NEW outcome \in {"checking", "failed", "cancelled"},
             Decrypt(j, outcome)
      PROVE  TypeOK'
  <2>1. j \in Job /\ disk[j.rel].text \in Text
    BY <1>0 DEF TypeOK, Job, File
  <2>2. [j EXCEPT !.phase = outcome,
                  !.text = IF outcome = "checking" THEN disk[j.rel].text ELSE @] \in Job
    BY <2>1 DEF Job, Phases
  <2>3. jobs' \in SUBSET Job
    BY <1>0, <1>1, <2>2 DEF TypeOK, Decrypt
  <2>4. QED
    BY <1>0, <1>1, <2>3 DEF TypeOK, Decrypt, store, editor
<1>2. ASSUME NEW j \in jobs, CheckRecipients(j)
      PROVE  TypeOK'
  <2>1. [j EXCEPT !.phase = "done"] \in Job
    BY <1>0 DEF TypeOK, Job, Phases
  <2>2. QED
    BY <1>0, <1>2, <2>1 DEF TypeOK, CheckRecipients, store, editor
<1>3. ASSUME NEW j \in jobs, DecryptDone(j)
      PROVE  TypeOK'
  <2>1. j \in Job
    BY <1>0 DEF TypeOK
  <2>2. view' \in [rel : Option, text : Text] /\ current_rel' \in Option
    BY <1>0, <1>3, <2>1 DEF TypeOK, DecryptDone, Job, Option
  <2>3. QED
    BY <1>0, <1>3, <2>2 DEF TypeOK, DecryptDone, store, editor
<1>4. ASSUME NEW n \in Names, SelectEntry(n)
      PROVE  TypeOK'
  BY <1>0, <1>4, OpenEntryType DEF TypeOK, SelectEntry, store, editor
<1>5. CASE Refresh
  BY <1>0, <1>5, RebuildTypes DEF TypeOK, Refresh, store, opened, editor
<1>6. CASE ActNew
  BY <1>0, <1>6 DEF TypeOK, ActNew, store, shown, opened
<1>7. CASE ActEdit
  <2>1. current_rel \in Names
    BY <1>0, <1>7 DEF ActEdit, OnShownEntry, TypeOK, Option
  <2>2. disk[current_rel].mtime \in Nat \cup {-1} /\ view.text \in Text
    BY <1>0, <2>1 DEF TypeOK, File
  <2>3. QED
    BY <1>0, <1>7, <2>2 DEF TypeOK, ActEdit, store, opened
<1>8. CASE ActCancel
  <2>1. current_rel # None => current_rel \in Names
    BY <1>0 DEF TypeOK, Option
  <2>2. epoch' \in Nat /\ wanted' \in Option /\ jobs' \in SUBSET Job
    BY <1>0, <1>8, <2>1, OpenEntryType DEF TypeOK, ActCancel, opened
  <2>3. view' \in [rel : Option, text : Text]
    BY <1>0, <1>8 DEF TypeOK, ActCancel
  <2>4. QED
    BY <1>0, <1>8, <2>2, <2>3 DEF TypeOK, ActCancel, store
<1>9. CASE ActSaveUnchanged
  <2>1. current_rel \in Names
    BY <1>0, <1>9 DEF ActSaveUnchanged, UserTurn, MainLoop, NoNullName, TypeOK, Option
  <2>2. epoch' \in Nat /\ wanted' \in Option /\ jobs' \in SUBSET Job
    BY <1>0, <1>9, <2>1, OpenEntryType DEF ActSaveUnchanged
  <2>3. QED
    BY <1>0, <1>9, <2>2 DEF TypeOK, ActSaveUnchanged, store
<1>10. ASSUME NEW n \in Names, ActSave(n)
       PROVE  TypeOK'
  <2>1. SaveText(n) \in Text
    BY <1>0 DEF SaveText, Text, TypeOK, Option
  <2>2. /\ Dialog("save", n, SaveText(n), FALSE)
             \in [kind : DialogKinds, rel : Option, text : Text, copy : BOOLEAN]
        /\ Write(n, SaveText(n), clock, FALSE)
             \in [name : Option, text : Text, checked : Nat, prompted : BOOLEAN]
    BY <1>0, <2>1 DEF Dialog, Write, DialogKinds, Option, TypeOK
  <2>3. QED
    BY <1>0, <1>10, <2>2 DEF TypeOK, ActSave, store, shown, opened, editor
<1>11. ASSUME NEW overwrite \in BOOLEAN, OnConfirmSave(overwrite)
       PROVE  TypeOK'
  <2>1. Write(dialog.rel, dialog.text, clock, TRUE)
          \in [name : Option, text : Text, checked : Nat, prompted : BOOLEAN]
    BY <1>0 DEF Write, TypeOK
  <2>2. QED
    BY <1>0, <1>11, <2>1 DEF TypeOK, OnConfirmSave, store, shown, opened, editor
<1>12. CASE DoWrite
  <2>1. busy.name \in Names /\ busy.text \in Text
    BY <1>0, <1>12 DEF DoWrite, NoNullName, TypeOK, Option
  <2>2. Revised(busy.text) \in Text
    BY <1>0, <2>1, RevisedType DEF TypeOK
  <2>3. /\ disk' \in [Names -> File]
        /\ clock' \in Nat
        /\ past' \in [Names -> SUBSET Text]
    BY <1>0, <1>12, <2>1, <2>2, PutFileType DEF DoWrite
  <2>4. epoch' \in Nat /\ wanted' \in Option /\ jobs' \in SUBSET Job
    BY <1>0, <1>12, <2>1, OpenEntryType DEF DoWrite
  <2>5. QED
    BY <1>0, <1>12, <2>1, <2>3, <2>4, RebuildTypes DEF TypeOK, DoWrite, Option
<1>13. CASE DoWriteFails
  BY <1>0, <1>13 DEF TypeOK, DoWriteFails, store, shown, opened, editor
<1>14. CASE ActDelete
  BY <1>0, <1>14 DEF TypeOK, ActDelete, Dialog, DialogKinds, store, shown, opened, editor
<1>15. CASE OnConfirmDelete
  <2>1. disk' \in [Names -> File]
    BY <1>0, <1>15 DEF TypeOK, OnConfirmDelete
  <2>2. QED
    BY <1>0, <1>15, <2>1, RebuildTypes DEF TypeOK, OnConfirmDelete, Option, opened, editor
<1>16. CASE CloseDialog
  BY <1>0, <1>16 DEF TypeOK, CloseDialog, store, shown, opened, editor
<1>17. CASE ActHistory
  BY <1>0, <1>17 DEF TypeOK, ActHistory, Dialog, DialogKinds, store, shown, opened, editor
<1>18. ASSUME NEW n \in Names, NEW text \in past[n], OnHistoryRestore(text)
       PROVE  TypeOK'
  <2>1. dialog.rel \in Names /\ text \in Text
    BY <1>0, <1>18 DEF OnHistoryRestore, NoNullName, TypeOK, Option
  <2>2. /\ disk' \in [Names -> File]
        /\ clock' \in Nat
        /\ past' \in [Names -> SUBSET Text]
    BY <1>0, <1>18, <2>1, PutFileType DEF OnHistoryRestore
  <2>3. epoch' \in Nat /\ wanted' \in Option /\ jobs' \in SUBSET Job
    BY <1>0, <1>18, <2>1, OpenEntryType DEF OnHistoryRestore
  <2>4. QED
    BY <1>0, <1>18, <2>2, <2>3, RebuildTypes DEF TypeOK, OnHistoryRestore, editor
<1>19. CASE ActRecipients
  BY <1>0, <1>19 DEF TypeOK, ActRecipients, Dialog, DialogKinds, store, shown, opened, editor
<1>20. CASE OnReencrypted
  <2>1. current_rel # None => current_rel \in Names
    BY <1>0 DEF TypeOK, Option
  <2>2. epoch' \in Nat /\ wanted' \in Option /\ jobs' \in SUBSET Job
    BY <1>0, <1>20, <2>1, OpenEntryType DEF TypeOK, OnReencrypted, ReencDone, opened
  <2>3. QED
    BY <1>0, <1>20, <2>2, RebuildTypes DEF TypeOK, OnReencrypted, ReencDone, store, editor
<1>20a. CASE OnReencryptClicked
  <2>1. dialog' \in [kind : DialogKinds, rel : Option, text : Text, copy : BOOLEAN]
    BY <1>0, <1>20a DEF TypeOK, OnReencryptClicked
  <2>2. reencs' \in Nat /\ UNCHANGED <<store, alive, side, shown, editor, busy>>
    BY <1>0, <1>20a DEF TypeOK, OnReencryptClicked
  <2>. QED
    BY <1>0, <2>1, <2>2 DEF TypeOK, store, shown, opened, editor
<1>20b. CASE ReencryptFails
  <2>1. dialog' = dialog \/ dialog' = [dialog EXCEPT !.copy = FALSE]
    BY <1>20b DEF ReencryptFails, ReencDone
  <2>2. reencs' \in Nat
    BY <1>0, <1>20b DEF TypeOK, ReencryptFails, ReencDone
  <2>. QED
    BY <1>0, <1>20b, <2>1, <2>2 DEF TypeOK, ReencryptFails, ReencDone, store, opened, editor
<1>21. ASSUME NEW copy \in BOOLEAN, ActMoveCopy(copy)
       PROVE  TypeOK'
  BY <1>0, <1>21 DEF TypeOK, ActMoveCopy, Dialog, DialogKinds, store, shown, opened, editor
<1>22. ASSUME NEW n \in Names, MoveCopyExists(n)
       PROVE  TypeOK'
  <2>1. dialog' \in [kind : DialogKinds, rel : Option, text : Text, copy : BOOLEAN]
    BY <1>0, <1>22 DEF TypeOK, MoveCopyExists, Dialog, DialogKinds, Option
  <2>2. QED
    BY <1>0, <1>22, <2>1 DEF TypeOK, MoveCopyExists, store, shown, opened, editor
<1>23. ASSUME NEW n \in Names, NEW rekey \in BOOLEAN, NEW ok \in BOOLEAN,
              MoveCopy(n, rekey, ok)
       PROVE  TypeOK'
  <2>1. current_rel \in Names
    BY <1>0, <1>23 DEF MoveCopy, MoveCopyAnswer, TypeOK, Option
  <2>2. /\ disk' \in [Names -> File]
        /\ clock' \in Nat
        /\ past' \in [Names -> SUBSET Text]
    BY <1>0, <1>23, <2>1, MoveCopyFileType DEF MoveCopy
  <2>3. epoch' \in Nat /\ wanted' \in Option /\ jobs' \in SUBSET Job
    BY <1>0, <1>23, OpenEntryType DEF TypeOK, MoveCopy, opened
  <2>4. /\ current_rel' \in Option /\ side' \in SUBSET Names
        /\ view' \in [rel : Option, text : Text]
    BY <1>0, <1>23, RebuildTypes DEF TypeOK, MoveCopy, Option
  <2>5. QED
    BY <1>0, <1>23, <2>2, <2>3, <2>4 DEF TypeOK, MoveCopy, editor
<1>24. CASE HotpGenerate
  <2>1. current_rel \in Names /\ Revised(view.text) \in Text
    BY <1>0, <1>24, RevisedType DEF HotpGenerate, OnShownEntry, TypeOK, Option
  <2>2. /\ disk' \in [Names -> File]
        /\ clock' \in Nat
        /\ past' \in [Names -> SUBSET Text]
    BY <1>0, <1>24, <2>1, PutFileType DEF HotpGenerate
  <2>3. epoch' \in Nat /\ wanted' \in Option /\ jobs' \in SUBSET Job
    BY <1>0, <1>24, <2>1, OpenEntryType DEF HotpGenerate
  <2>4. QED
    BY <1>0, <1>24, <2>2, <2>3 DEF TypeOK, HotpGenerate, editor
<1>25. CASE Dispose
  <2>1. epoch' \in Nat
    BY <1>0, <1>25 DEF TypeOK, Dispose
  <2>2. current_rel' \in Option /\ alive' = FALSE /\ view' = NoView /\ dialog' = NoDialog
    BY <1>25 DEF Dispose, Option
  <2>3. UNCHANGED <<disk, clock, past, reencs, side, wanted, jobs, editing, edit, busy>>
    BY <1>25 DEF Dispose, store, editor
  <2>4. QED
    BY <1>0, <2>1, <2>2, <2>3 DEF TypeOK
<1>26. ASSUME NEW n \in Names, CliWrite(n)
       PROVE  TypeOK'
  <2>1. (IF Exists(n) THEN disk[n].text ELSE [cred |-> n, rev |-> 0]) \in Text
    BY <1>0 DEF TypeOK, File, Text, Option
  <2>2. Revised(IF Exists(n) THEN disk[n].text ELSE [cred |-> n, rev |-> 0]) \in Text
    BY <1>0, <2>1, RevisedType DEF TypeOK
  <2>3. /\ disk' \in [Names -> File]
        /\ clock' \in Nat
        /\ past' \in [Names -> SUBSET Text]
    BY <1>0, <1>26, <2>2, PutFileType DEF CliWrite
  <2>4. QED
    BY <1>0, <1>26, <2>3 DEF TypeOK, CliWrite, shown, opened, editor
<1>27. ASSUME NEW n \in Names, CliRemove(n)
       PROVE  TypeOK'
  <2>1. disk' \in [Names -> File]
    BY <1>0, <1>27 DEF TypeOK, CliRemove
  <2>2. QED
    BY <1>0, <1>27, <2>1 DEF TypeOK, CliRemove, shown, opened, editor
<1>28. ASSUME NEW n \in Names, Rewrite(n)
       PROVE  TypeOK'
  <2>1. disk[n].text \in Text
    BY <1>0 DEF TypeOK, File
  <2>2. /\ disk' \in [Names -> File]
        /\ clock' \in Nat
        /\ past' \in [Names -> SUBSET Text]
    BY <1>0, <1>28, <2>1, PutFileType DEF Rewrite
  <2>3. QED
    BY <1>0, <1>28, <2>2 DEF TypeOK, Rewrite, shown, opened, editor
<1>29. CASE UNCHANGED vars
  BY <1>0, <1>29 DEF TypeOK, vars, store, shown, opened, editor
<1>30. CASE Worker
  BY <1>1, <1>2, <1>30 DEF Worker
<1>31. CASE Callback
  BY <1>3, <1>31 DEF Callback
<1>32. CASE Saving
  BY <1>12, <1>13, <1>32 DEF Saving
<1>33. CASE User
  BY <1>4, <1>5, <1>6, <1>7, <1>8, <1>9, <1>10, <1>11, <1>14, <1>15, <1>16, <1>17,
     <1>18, <1>19, <1>20, <1>20a, <1>20b, <1>21, <1>22, <1>23, <1>24, <1>25, <1>33 DEF User
<1>34. CASE Others
  BY <1>26, <1>27, <1>28, <1>34 DEF Others
<1>35. QED
  BY <1>29, <1>30, <1>31, <1>32, <1>33, <1>34 DEF Next

(***************************************************************************)
(* The editor, the dialogs and the write in progress stay consistent.      *)
(***************************************************************************)

LEMMA EditorStep == EditorInv /\ [Next]_vars => NoNullName' /\ SaveMatchesEditor'
<1> SUFFICES ASSUME EditorInv, [Next]_vars PROVE NoNullName' /\ SaveMatchesEditor'
  OBVIOUS
<1> USE WindowAssumption
<1>0. TypeOK /\ NoNullName /\ SaveMatchesEditor
  BY DEF EditorInv
<1>1. ASSUME NEW j \in jobs, NEW outcome \in {"checking", "failed", "cancelled"},
             Decrypt(j, outcome)
      PROVE  NoNullName' /\ SaveMatchesEditor'
  BY <1>0, <1>1 DEF NoNullName, SaveMatchesEditor, Decrypt, editor
<1>2. ASSUME NEW j \in jobs, CheckRecipients(j)
      PROVE  NoNullName' /\ SaveMatchesEditor'
  BY <1>0, <1>2 DEF NoNullName, SaveMatchesEditor, CheckRecipients, editor
<1>3. ASSUME NEW j \in jobs, DecryptDone(j)
      PROVE  NoNullName' /\ SaveMatchesEditor'
  <2>1. j.rel # None
    BY <1>0 DEF TypeOK, Job
  <2>2. current_rel # None => current_rel' # None
    BY <1>3, <2>1 DEF DecryptDone
  <2>3. UNCHANGED <<alive, editing, edit, dialog, busy>>
    BY <1>3 DEF DecryptDone, editor
  <2>4. QED
    BY <1>0, <2>2, <2>3 DEF NoNullName, SaveMatchesEditor
<1>4. ASSUME NEW n \in Names, SelectEntry(n)
      PROVE  NoNullName' /\ SaveMatchesEditor'
  BY <1>0, <1>4 DEF NoNullName, SaveMatchesEditor, SelectEntry, editor
<1>5. CASE Refresh
  BY <1>0, <1>5 DEF NoNullName, SaveMatchesEditor, Refresh, shown, editor
<1>6. CASE ActNew
  BY <1>0, <1>6 DEF NoNullName, SaveMatchesEditor, ActNew, NoEdit, NoDialog, Dialog,
                   UserTurn, MainLoop
<1>7. CASE ActEdit
  BY <1>0, <1>7 DEF NoNullName, SaveMatchesEditor, ActEdit, OnShownEntry, UserTurn, MainLoop, NoDialog, Dialog
<1>8. CASE ActCancel
  BY <1>0, <1>8 DEF NoNullName, SaveMatchesEditor, ActCancel, UserTurn, MainLoop, NoDialog, Dialog
<1>9. CASE ActSaveUnchanged
  BY <1>0, <1>9 DEF NoNullName, SaveMatchesEditor, ActSaveUnchanged, UserTurn, MainLoop, NoDialog, Dialog
<1>10. ASSUME NEW n \in Names, ActSave(n)
       PROVE  NoNullName' /\ SaveMatchesEditor'
  <2>1. n # None /\ editing /\ dialog = NoDialog /\ busy = NoWrite
    BY <1>10 DEF ActSave, UserTurn, MainLoop
  <2>2. edit.name # None => n = edit.name /\ SaveText(n) = edit.text
    BY <1>10 DEF ActSave, SaveName, SaveText
  <2>3. UNCHANGED <<alive, current_rel, editing, edit>>
    BY <1>10 DEF ActSave, shown, editor
  <2>4. CASE NeedsPrompt(n)
    BY <1>0, <1>10, <2>1, <2>2, <2>3, <2>4
       DEF ActSave, NoNullName, SaveMatchesEditor, Dialog
  <2>5. CASE ~NeedsPrompt(n)
    BY <1>0, <1>10, <2>1, <2>2, <2>3, <2>5
       DEF ActSave, NoNullName, SaveMatchesEditor, Write, NoDialog, Dialog
  <2>6. QED
    BY <2>4, <2>5
<1>11. ASSUME NEW overwrite \in BOOLEAN, OnConfirmSave(overwrite)
       PROVE  NoNullName' /\ SaveMatchesEditor'
  <2>1. dialog.kind = "save" /\ dialog' = NoDialog /\ busy = NoWrite
    BY <1>11 DEF OnConfirmSave, MainLoop
  <2>2. dialog.rel # None /\ editing
    BY <1>0, <2>1 DEF NoNullName, SaveMatchesEditor
  <2>3. UNCHANGED <<alive, current_rel, editing, edit>>
    BY <1>11 DEF OnConfirmSave, shown, editor
  <2>4. busy' = NoWrite \/ busy' = Write(dialog.rel, dialog.text, clock, TRUE)
    BY <1>11 DEF OnConfirmSave
  <2>5. QED
    BY <1>0, <2>1, <2>2, <2>3, <2>4
       DEF NoNullName, SaveMatchesEditor, NoDialog, Dialog, Write
<1>12. CASE DoWrite
  BY <1>0, <1>12 DEF NoNullName, SaveMatchesEditor, DoWrite, NoDialog, Dialog
<1>13. CASE DoWriteFails
  BY <1>0, <1>13 DEF NoNullName, SaveMatchesEditor, DoWriteFails, shown, editor
<1>14. CASE ActDelete
  BY <1>0, <1>14 DEF NoNullName, SaveMatchesEditor, ActDelete, OnShownEntry, UserTurn, MainLoop, Dialog, shown, editor
<1>15. CASE OnConfirmDelete
  BY <1>0, <1>15 DEF NoNullName, SaveMatchesEditor, OnConfirmDelete, MainLoop, NoDialog, Dialog, editor
<1>16. CASE CloseDialog
  BY <1>0, <1>16 DEF NoNullName, SaveMatchesEditor, CloseDialog, MainLoop, NoDialog, Dialog, shown, editor
<1>17. CASE ActHistory
  BY <1>0, <1>17 DEF NoNullName, SaveMatchesEditor, ActHistory, OnShownEntry, UserTurn, MainLoop, Dialog, shown, editor
<1>18. ASSUME NEW n \in Names, NEW text \in past[n], OnHistoryRestore(text)
       PROVE  NoNullName' /\ SaveMatchesEditor'
  BY <1>0, <1>18 DEF NoNullName, SaveMatchesEditor, OnHistoryRestore, MainLoop, NoDialog, Dialog, editor
<1>19. CASE ActRecipients
  BY <1>0, <1>19 DEF NoNullName, SaveMatchesEditor, ActRecipients, OnShownEntry, UserTurn, MainLoop, Dialog, shown, editor
<1>20. CASE OnReencrypted
  BY <1>0, <1>20 DEF NoNullName, SaveMatchesEditor, OnReencrypted, ReencDone, MainLoop, NoDialog, Dialog, editor
<1>20a. CASE OnReencryptClicked
  <2>1. /\ dialog' = [dialog EXCEPT !.copy = TRUE]
        /\ UNCHANGED <<alive, current_rel, editing, edit, busy>>
    BY <1>20a DEF OnReencryptClicked, shown, editor
  <2>2. /\ dialog'.kind = dialog.kind /\ dialog'.rel = dialog.rel /\ dialog'.text = dialog.text
        /\ dialog.kind = "recipients" /\ busy = NoWrite
    BY <1>0, <1>20a, <2>1 DEF TypeOK, OnReencryptClicked, MainLoop
  <2>. QED
    BY <1>0, <2>1, <2>2 DEF NoNullName, SaveMatchesEditor
<1>20b. CASE ReencryptFails
  <2>1. /\ dialog' = dialog \/ dialog' = [dialog EXCEPT !.copy = FALSE]
        /\ UNCHANGED <<alive, current_rel, editing, edit, busy>>
    BY <1>20b DEF ReencryptFails, ReencDone, editor
  <2>2. /\ dialog'.kind = dialog.kind /\ dialog'.rel = dialog.rel /\ dialog'.text = dialog.text
        /\ busy = NoWrite
    BY <1>0, <1>20b, <2>1 DEF TypeOK, ReencryptFails, ReencDone, MainLoop
  <2>. QED
    BY <1>0, <2>1, <2>2 DEF NoNullName, SaveMatchesEditor
<1>21. ASSUME NEW copy \in BOOLEAN, ActMoveCopy(copy)
       PROVE  NoNullName' /\ SaveMatchesEditor'
  BY <1>0, <1>21 DEF NoNullName, SaveMatchesEditor, ActMoveCopy, OnShownEntry, UserTurn, MainLoop, Dialog, shown, editor
<1>22. ASSUME NEW n \in Names, MoveCopyExists(n)
       PROVE  NoNullName' /\ SaveMatchesEditor'
  BY <1>0, <1>22 DEF NoNullName, SaveMatchesEditor, MoveCopyExists, MoveCopyAnswer, MainLoop, Dialog, shown, editor
<1>23. ASSUME NEW n \in Names, NEW rekey \in BOOLEAN, NEW ok \in BOOLEAN,
              MoveCopy(n, rekey, ok)
       PROVE  NoNullName' /\ SaveMatchesEditor'
  BY <1>0, <1>23 DEF NoNullName, SaveMatchesEditor, MoveCopy, MoveCopyAnswer, MainLoop, NoDialog, Dialog, editor
<1>24. CASE HotpGenerate
  BY <1>0, <1>24 DEF NoNullName, SaveMatchesEditor, HotpGenerate, OnShownEntry, editor
<1>25. CASE Dispose
  BY <1>0, <1>25 DEF NoNullName, SaveMatchesEditor, Dispose, MainLoop, NoDialog, Dialog, editor
<1>26. ASSUME NEW n \in Names, CliWrite(n)
       PROVE  NoNullName' /\ SaveMatchesEditor'
  BY <1>0, <1>26 DEF NoNullName, SaveMatchesEditor, CliWrite, shown, editor
<1>27. ASSUME NEW n \in Names, CliRemove(n)
       PROVE  NoNullName' /\ SaveMatchesEditor'
  BY <1>0, <1>27 DEF NoNullName, SaveMatchesEditor, CliRemove, shown, editor
<1>28. ASSUME NEW n \in Names, Rewrite(n)
       PROVE  NoNullName' /\ SaveMatchesEditor'
  BY <1>0, <1>28 DEF NoNullName, SaveMatchesEditor, Rewrite, shown, editor
<1>29. CASE UNCHANGED vars
  BY <1>0, <1>29 DEF NoNullName, SaveMatchesEditor, vars, shown, editor
<1>30. CASE Worker
  BY <1>1, <1>2, <1>30 DEF Worker
<1>31. CASE Callback
  BY <1>3, <1>31 DEF Callback
<1>32. CASE Saving
  BY <1>12, <1>13, <1>32 DEF Saving
<1>33. CASE User
  BY <1>4, <1>5, <1>6, <1>7, <1>8, <1>9, <1>10, <1>11, <1>14, <1>15, <1>16, <1>17,
     <1>18, <1>19, <1>20, <1>20a, <1>20b, <1>21, <1>22, <1>23, <1>24, <1>25, <1>33 DEF User
<1>34. CASE Others
  BY <1>26, <1>27, <1>28, <1>34 DEF Others
<1>35. QED
  BY <1>29, <1>30, <1>31, <1>32, <1>33, <1>34 DEF Next

(***************************************************************************)
(* The two invariants of EditorInv hold of every behaviour.                *)
(***************************************************************************)

LEMMA EditorInvariant == Spec => []EditorInv
<1>1. Init => EditorInv
  BY EditorInvInit
<1>2. EditorInv /\ [Next]_vars => EditorInv'
  BY TypeOKStep, EditorStep DEF EditorInv
<1>3. QED
  BY <1>1, <1>2, PTL DEF Spec

\* Every variable of the window keeps its type: whatever the interleaving,
\* the record fields, names and texts are ones the code can hold.
THEOREM TypeCorrect == Spec => []TypeOK
<1>1. EditorInv => TypeOK
  BY DEF EditorInv
<1>2. QED
  BY <1>1, EditorInvariant, PTL

\* on_confirm_save and do_write act for the editor on screen: the pending
\* fields never survive the editor they were filled from.
THEOREM SaveIsTheEditors == Spec => []SaveMatchesEditor
<1>1. EditorInv => SaveMatchesEditor
  BY DEF EditorInv
<1>2. QED
  BY <1>1, EditorInvariant, PTL

\* open_entry, passfl_store_write_entry and the dialogs get a name.
THEOREM NamesAreGiven == Spec => []NoNullName
<1>1. EditorInv => NoNullName
  BY DEF EditorInv
<1>2. QED
  BY <1>1, EditorInvariant, PTL

(***************************************************************************)
(* SettledView.  The epochs are what makes it inductive: a job is never    *)
(* newer than the window's epoch, and a job of that epoch decrypts the     *)
(* entry open_entry was last called for.                                   *)
(***************************************************************************)

SettledInv ==
  /\ ~alive => view = NoView
  /\ \A j \in jobs :
       /\ j.epoch <= epoch
       /\ j.epoch = epoch => j.rel = wanted
       /\ j.phase \in {"decrypting", "failed", "cancelled"} => j.text = NoText
  /\ SettledView

LEMMA SettledQuiet ==
  ASSUME SettledInv, UNCHANGED <<alive, view, current_rel, opened>>
  PROVE  SettledInv'
  BY DEF SettledInv, SettledView, Awaited, opened

LEMMA SettledOpen ==
  ASSUME TypeOK, SettledInv, NEW n \in Names, OpenEntry(n),
         view' \in {view, NoView}, UNCHANGED alive
  PROVE  SettledInv'
<1> DEFINE k == [epoch |-> epoch + 1, rel |-> n,
                 phase |-> "decrypting", text |-> NoText]
<1>1. epoch \in Nat /\ \A j \in jobs : j.epoch \in Nat /\ j.epoch <= epoch
  BY DEF TypeOK, Job, SettledInv
<1>2. epoch' = epoch + 1 /\ wanted' = n /\ jobs' = jobs \cup {k}
  BY DEF OpenEntry
<1>3. k \in jobs' /\ k.epoch = epoch'
  BY <1>2
<1>4. Awaited'
  BY <1>3 DEF Awaited
<1>5. QED
  BY <1>1, <1>2, <1>4 DEF SettledInv, SettledView

LEMMA SettledNoView ==
  ASSUME SettledInv, view' = NoView, UNCHANGED <<alive, epoch, wanted, jobs>>
  PROVE  SettledInv'
  BY DEF SettledInv, SettledView, NoView

LEMMA SettledScan ==
  ASSUME SettledInv, RebuildSidebar(view), UNCHANGED <<alive, current_rel, opened>>
  PROVE  SettledInv'
  BY RebuildTypes, SettledQuiet, SettledNoView DEF opened

\* a job that changes its phase keeps its epoch and its entry
LEMMA SettledReplace ==
  ASSUME SettledInv, NEW j \in jobs, NEW k, jobs' = (jobs \ {j}) \cup {k},
         k.epoch = j.epoch, k.rel = j.rel,
         j.phase = "decrypting" \/ k.phase = "done",
         k.phase \notin {"checking", "done"} => k.text = j.text,
         UNCHANGED <<alive, view, current_rel, epoch, wanted>>
  PROVE  SettledInv'
<1>1. Awaited' <=> Awaited
  BY DEF Awaited
<1>2. \A i \in jobs' :
        /\ i.epoch <= epoch
        /\ i.epoch = epoch => i.rel = wanted
        /\ i.phase \in {"decrypting", "failed", "cancelled"} => i.text = NoText
  BY DEF SettledInv
<1>3. QED
  BY <1>1, <1>2 DEF SettledInv, SettledView

LEMMA SettledStep == EditorInv /\ SettledInv /\ [Next]_vars => SettledInv'
<1> SUFFICES ASSUME EditorInv, SettledInv, [Next]_vars PROVE SettledInv'
  OBVIOUS
<1>0. TypeOK /\ NoNullName /\ SettledInv
  BY DEF EditorInv
<1>1. ASSUME NEW j \in jobs, NEW outcome \in {"checking", "failed", "cancelled"},
             Decrypt(j, outcome)
      PROVE  SettledInv'
  <2> DEFINE k == [j EXCEPT !.phase = outcome,
                   !.text = IF outcome = "checking" THEN disk[j.rel].text ELSE j.text]
  <2>2. jobs' = (jobs \ {j}) \cup {k} /\ UNCHANGED <<alive, view, current_rel, epoch, wanted>>
    BY <1>1 DEF Decrypt
  <2>3. j.phase = "decrypting" /\ j \in Job
    BY <1>0, <1>1 DEF Decrypt, TypeOK
  <2>4. /\ k.epoch = j.epoch /\ k.rel = j.rel /\ k.phase = outcome
        /\ outcome # "checking" => k.text = j.text
    BY <2>3 DEF Job
  <2>5. QED
    BY <1>0, <2>2, <2>3, <2>4, SettledReplace
<1>2. ASSUME NEW j \in jobs, CheckRecipients(j)
      PROVE  SettledInv'
  <2> DEFINE k == [j EXCEPT !.phase = "done"]
  <2>2. jobs' = (jobs \ {j}) \cup {k} /\ UNCHANGED <<alive, view, current_rel, epoch, wanted>>
    BY <1>2 DEF CheckRecipients
  <2>3. k.epoch = j.epoch /\ k.rel = j.rel /\ k.phase = "done"
    BY <1>0 DEF TypeOK, Job
  <2>4. QED
    BY <1>0, <2>2, <2>3, SettledReplace
<1>3. ASSUME NEW j \in jobs, DecryptDone(j)
      PROVE  SettledInv'
  <2>1. jobs' = jobs \ {j} /\ UNCHANGED <<alive, epoch, wanted>>
    BY <1>3 DEF DecryptDone
  <2>2. CASE StaleResult(j)
    <3>1. UNCHANGED <<view, current_rel>>
      BY <1>3, <2>2 DEF DecryptDone
    <3>2. alive => (Awaited => Awaited')
      BY <2>1, <2>2 DEF StaleResult, Awaited
    <3>3. ~alive => view.rel = None
      BY <1>0 DEF SettledInv, NoView
    <3>4. QED
      BY <1>0, <2>1, <3>1, <3>2, <3>3 DEF SettledInv, SettledView
  <2>3. CASE ~StaleResult(j)
    <3>1. alive /\ j.epoch = epoch /\ j.rel = wanted /\ j.rel \in Names
      BY <1>0, <2>3 DEF StaleResult, SettledInv, TypeOK, Job
    <3>2. j.phase # "done" => j.text = NoText
      BY <1>0, <1>3 DEF SettledInv, DecryptDone
    <3>3. /\ view' = IF j.phase = "cancelled"
                     THEN NoView ELSE [rel |-> j.rel, text |-> j.text]
          /\ current_rel' = IF j.phase = "done" THEN j.rel ELSE current_rel
      BY <1>3, <2>3 DEF DecryptDone
    <3>4. \/ view' = NoView
          \/ /\ view'.rel = wanted /\ wanted # None
             /\ view'.text # NoText => current_rel' = wanted
      BY <3>1, <3>2, <3>3, WindowAssumption
    <3>5. QED
      BY <1>0, <2>1, <3>1, <3>4 DEF SettledInv, SettledView, NoView
  <2>4. QED
    BY <2>2, <2>3
<1>4. ASSUME NEW n \in Names, SelectEntry(n)
      PROVE  SettledInv'
  BY <1>0, <1>4, SettledOpen DEF SelectEntry
<1>5. CASE Refresh
  BY <1>0, <1>5, SettledScan DEF Refresh
<1>6. CASE ActNew
  BY <1>6, SettledQuiet DEF ActNew, shown
<1>7. CASE ActEdit
  BY <1>0, <1>7, SettledNoView DEF ActEdit, opened
<1>8. CASE ActCancel
  <2>1. CASE edit.name # None /\ current_rel # None
    <3>1. current_rel \in Names
      BY <1>0, <2>1 DEF TypeOK, Option
    <3>2. QED
      BY <1>0, <1>8, <2>1, <3>1, SettledOpen DEF ActCancel
  <2>2. CASE ~(edit.name # None /\ current_rel # None)
    BY <1>0, <1>8, <2>2, SettledNoView DEF ActCancel, opened
  <2>3. QED
    BY <2>1, <2>2
<1>9. CASE ActSaveUnchanged
  <2>1. current_rel \in Names
    BY <1>0, <1>9 DEF ActSaveUnchanged, UserTurn, MainLoop, NoNullName, TypeOK, Option
  <2>2. QED
    BY <1>0, <1>9, <2>1, SettledOpen DEF ActSaveUnchanged
<1>10. ASSUME NEW n \in Names, ActSave(n)
       PROVE  SettledInv'
  BY <1>10, SettledQuiet DEF ActSave, shown
<1>11. ASSUME NEW overwrite \in BOOLEAN, OnConfirmSave(overwrite)
       PROVE  SettledInv'
  BY <1>11, SettledQuiet DEF OnConfirmSave, shown
<1>12. CASE DoWrite
  <2>1. busy.name \in Names
    BY <1>0, <1>12 DEF DoWrite, NoNullName, TypeOK, Option
  <2>2. QED
    BY <1>0, <1>12, <2>1, SettledOpen, RebuildTypes DEF DoWrite
<1>13. CASE DoWriteFails
  BY <1>13, SettledQuiet DEF DoWriteFails, shown
<1>14. CASE ActDelete
  BY <1>14, SettledQuiet DEF ActDelete, shown
<1>15. CASE OnConfirmDelete
  BY <1>0, <1>15, SettledNoView, RebuildTypes DEF OnConfirmDelete, opened
<1>16. CASE CloseDialog
  BY <1>16, SettledQuiet DEF CloseDialog, shown
<1>17. CASE ActHistory
  BY <1>17, SettledQuiet DEF ActHistory, shown
<1>18. ASSUME NEW n \in Names, NEW text \in past[n], OnHistoryRestore(text)
       PROVE  SettledInv'
  <2>1. dialog.rel \in Names
    BY <1>0, <1>18 DEF OnHistoryRestore, NoNullName, TypeOK, Option
  <2>2. QED
    BY <1>0, <1>18, <2>1, SettledOpen, RebuildTypes DEF OnHistoryRestore
<1>19. CASE ActRecipients
  BY <1>19, SettledQuiet DEF ActRecipients, shown
<1>20. CASE OnReencrypted
  <2>1. CASE current_rel # None
    <3>1. current_rel \in Names
      BY <1>0, <2>1 DEF TypeOK, Option
    <3>2. QED
      BY <1>0, <1>20, <2>1, <3>1, SettledOpen, RebuildTypes DEF OnReencrypted, ReencDone
  <2>2. CASE current_rel = None
    BY <1>0, <1>20, <2>2, SettledScan DEF OnReencrypted, ReencDone
  <2>3. QED
    BY <2>1, <2>2
<1>20a. CASE OnReencryptClicked
  BY <1>20a, SettledQuiet DEF OnReencryptClicked, shown
<1>20b. CASE ReencryptFails
  BY <1>20b, SettledQuiet DEF ReencryptFails, ReencDone
<1>21. ASSUME NEW copy \in BOOLEAN, ActMoveCopy(copy)
       PROVE  SettledInv'
  BY <1>21, SettledQuiet DEF ActMoveCopy, shown
<1>22. ASSUME NEW n \in Names, MoveCopyExists(n)
       PROVE  SettledInv'
  BY <1>22, SettledQuiet DEF MoveCopyExists, shown
<1>23. ASSUME NEW n \in Names, NEW rekey \in BOOLEAN, NEW ok \in BOOLEAN,
              MoveCopy(n, rekey, ok)
       PROVE  SettledInv'
  <2>1. CASE ok
    BY <1>0, <1>23, <2>1, SettledOpen, RebuildTypes DEF MoveCopy
  <2>2. CASE ~ok
    BY <1>23, <2>2, SettledQuiet DEF MoveCopy
  <2>3. QED
    BY <2>1, <2>2
<1>24. CASE HotpGenerate
  <2>1. current_rel \in Names
    BY <1>0, <1>24 DEF HotpGenerate, OnShownEntry, TypeOK, Option
  <2>2. QED
    BY <1>0, <1>24, <2>1, SettledOpen DEF HotpGenerate
<1>25. CASE Dispose
  <2>1. view' = NoView /\ epoch' = epoch + 1 /\ UNCHANGED <<wanted, jobs>>
    BY <1>25 DEF Dispose
  <2>2. \A j \in jobs : j.epoch \in Nat /\ j.epoch <= epoch /\ epoch \in Nat
    BY <1>0 DEF SettledInv, TypeOK, Job
  <2>3. QED
    BY <1>0, <2>1, <2>2 DEF SettledInv, SettledView, NoView
<1>26. ASSUME NEW n \in Names, CliWrite(n)
       PROVE  SettledInv'
  BY <1>26, SettledQuiet DEF CliWrite, shown
<1>27. ASSUME NEW n \in Names, CliRemove(n)
       PROVE  SettledInv'
  BY <1>27, SettledQuiet DEF CliRemove, shown
<1>28. ASSUME NEW n \in Names, Rewrite(n)
       PROVE  SettledInv'
  BY <1>28, SettledQuiet DEF Rewrite, shown
<1>29. CASE UNCHANGED vars
  BY <1>29, SettledQuiet DEF vars, shown
<1>30. CASE Worker
  BY <1>1, <1>2, <1>30 DEF Worker
<1>31. CASE Callback
  BY <1>3, <1>31 DEF Callback
<1>32. CASE Saving
  BY <1>12, <1>13, <1>32 DEF Saving
<1>33. CASE User
  BY <1>4, <1>5, <1>6, <1>7, <1>8, <1>9, <1>10, <1>11, <1>14, <1>15, <1>16, <1>17,
     <1>18, <1>19, <1>20, <1>20a, <1>20b, <1>21, <1>22, <1>23, <1>24, <1>25, <1>33 DEF User
<1>34. CASE Others
  BY <1>26, <1>27, <1>28, <1>34 DEF Others
<1>35. QED
  BY <1>29, <1>30, <1>31, <1>32, <1>33, <1>34 DEF Next

\* Decryptions that overtake each other, dialogs answered late, renames,
\* deletions and scans that fail: none leaves the view on an entry that was
\* not asked for last, or on a text of another entry than current_rel
\* (decrypt_done, open_entry, rebuild_sidebar).
THEOREM ViewIsWanted == Spec => []SettledView
<1>1. Init => SettledInv
  BY DEF Init, SettledInv, SettledView, NoView
<1>2. EditorInv /\ SettledInv /\ [Next]_vars => SettledInv'
  BY SettledStep
<1>3. SettledInv => SettledView
  BY DEF SettledInv
<1>4. QED
  BY <1>1, <1>2, <1>3, EditorInvariant, PTL DEF Spec

(***************************************************************************)
(* UnpromptedSaveIsSafe.  It rests on the clock: no file, no edit and no   *)
(* check is from the future, and an edit starts with a file no newer than  *)
(* itself.                                                                 *)
(***************************************************************************)

TimesBounded == \A n \in Names : disk[n].mtime <= clock

SaveInv ==
  /\ TimesBounded
  /\ edit.since <= clock
  /\ edit.name # None => edit.mtime <= edit.since
  /\ busy.checked <= clock
  /\ UnpromptedSaveIsSafe

LEMMA PutFileTimes ==
  ASSUME TypeOK, TimesBounded, NEW n \in Names, NEW text, PutFile(n, text)
  PROVE  TimesBounded'
<1>1. /\ disk' = [disk EXCEPT ![n] = [mtime |-> clock + 1, text |-> text]]
      /\ clock' = clock + 1 /\ clock \in Nat
  BY DEF PutFile, TypeOK
<1>2. \A m \in Names : disk[m].mtime \in Nat \cup {-1} /\ disk[m].mtime <= clock
  BY DEF TypeOK, File, TimesBounded
<1>3. \A m \in Names : disk'[m].mtime <= clock + 1
  BY <1>1, <1>2 DEF TypeOK
<1>4. QED
  BY <1>1, <1>3 DEF TimesBounded

LEMMA MoveCopyTimes ==
  ASSUME TypeOK, TimesBounded, current_rel \in Names, NEW n \in Names,
         NEW rekey \in BOOLEAN, MoveCopyFile(n, rekey)
  PROVE  TimesBounded'
<1> DEFINE old  == disk[current_rel]
           file == IF dialog.copy \/ rekey THEN [old EXCEPT !.mtime = clock + 1]
                                           ELSE old
           kept == IF dialog.copy \/ n = current_rel THEN old ELSE NoFile
<1>1. old \in File /\ clock \in Nat /\ old.mtime <= clock
  BY DEF TypeOK, TimesBounded
<1>2. file.mtime <= clock + 1 /\ kept.mtime <= clock + 1
  BY <1>1 DEF File, NoFile
<1>3. /\ disk' = [disk EXCEPT ![current_rel] = kept, ![n] = file]
      /\ clock' = clock + 1
  BY DEF MoveCopyFile
<1>4. \A m \in Names : disk[m].mtime \in Nat \cup {-1} /\ disk[m].mtime <= clock
  BY DEF TypeOK, File, TimesBounded
<1> HIDE DEF file, kept
<1>5. \A m \in Names : disk'[m].mtime <= clock + 1
  BY <1>1, <1>2, <1>3, <1>4 DEF TypeOK
<1>6. QED
  BY <1>3, <1>5 DEF TimesBounded

LEMMA SaveQuiet ==
  ASSUME SaveInv, UNCHANGED <<disk, clock, edit, busy>>
  PROVE  SaveInv'
  BY DEF SaveInv, TimesBounded, UnpromptedSaveIsSafe, Exists

\* the editor opens empty or closes while nothing is being written
LEMMA SaveEditorEnds ==
  ASSUME TypeOK, SaveInv, busy = NoWrite, edit' = NoEdit, UNCHANGED <<disk, clock, busy>>
  PROVE  SaveInv'
  BY DEF SaveInv, TimesBounded, UnpromptedSaveIsSafe, NoEdit, TypeOK

LEMMA SaveWriteEnds ==
  ASSUME TypeOK, SaveInv, busy' = NoWrite, UNCHANGED <<disk, clock, edit>>
  PROVE  SaveInv'
  BY DEF SaveInv, TimesBounded, UnpromptedSaveIsSafe, NoWrite, Write, TypeOK

\* nothing is being written after a step that may have changed the store
LEMMA SaveIdle ==
  ASSUME TypeOK, SaveInv, TimesBounded', clock' \in {clock, clock + 1},
         edit' = edit \/ edit' = NoEdit, busy' = NoWrite
  PROVE  SaveInv'
<1>1. clock' \in Nat /\ clock <= clock' /\ edit.since \in Nat
  BY DEF TypeOK
<1>2. edit'.since <= clock' /\ (edit'.name # None => edit'.mtime <= edit'.since)
  BY <1>1 DEF SaveInv, NoEdit, TypeOK
<1>3. busy'.checked <= clock' /\ UnpromptedSaveIsSafe'
  BY <1>1 DEF NoWrite, Write, UnpromptedSaveIsSafe
<1>4. QED
  BY <1>2, <1>3 DEF SaveInv

\* another program writes a file: it is newer than any check
LEMMA SaveOthersPut ==
  ASSUME TypeOK, NoNullName, SaveInv, NEW n \in Names, NEW text, PutFile(n, text),
         UNCHANGED <<edit, busy>>
  PROVE  SaveInv'
<1>1. /\ disk' = [disk EXCEPT ![n] = [mtime |-> clock + 1, text |-> text]]
      /\ clock' = clock + 1 /\ clock \in Nat
  BY DEF PutFile, TypeOK
<1>2. TimesBounded'
  BY PutFileTimes DEF SaveInv
<1>3. /\ disk'[n].mtime = clock + 1
      /\ \A m \in Names : m # n => disk'[m] = disk[m]
  BY <1>1 DEF TypeOK
<1>4. busy # NoWrite => busy.name \in Names
  BY DEF NoNullName, TypeOK, Option
<1>5. clock + 1 > busy.checked
  BY <1>1 DEF SaveInv, TypeOK
<1>6. UnpromptedSaveIsSafe'
  <2> SUFFICES ASSUME busy # NoWrite, ~busy.prompted
               PROVE  \/ disk'[busy.name] = NoFile
                      \/ disk'[busy.name].mtime > busy.checked
                      \/ edit.name # None /\ disk'[busy.name].mtime <= edit.since
    BY DEF UnpromptedSaveIsSafe, Exists
  <2>1. CASE busy.name = n
    BY <2>1, <1>3, <1>5
  <2>2. CASE busy.name # n
    <3>1. disk'[busy.name] = disk[busy.name]
      BY <2>2, <1>3, <1>4
    <3>2. QED
      BY <3>1 DEF SaveInv, UnpromptedSaveIsSafe, Exists
  <2>3. QED
    BY <2>1, <2>2
<1>7. QED
  BY <1>1, <1>2, <1>6 DEF SaveInv, TypeOK

LEMMA SaveStep == EditorInv /\ SaveInv /\ [Next]_vars => SaveInv'
<1> SUFFICES ASSUME EditorInv, SaveInv, [Next]_vars PROVE SaveInv'
  OBVIOUS
<1>0. TypeOK /\ NoNullName /\ SaveInv
  BY DEF EditorInv
<1>1. ASSUME NEW j \in jobs, NEW outcome \in {"checking", "failed", "cancelled"},
             Decrypt(j, outcome)
      PROVE  SaveInv'
  BY <1>0, <1>1, SaveQuiet DEF Decrypt, store, editor
<1>2. ASSUME NEW j \in jobs, CheckRecipients(j)
      PROVE  SaveInv'
  BY <1>0, <1>2, SaveQuiet DEF CheckRecipients, store, editor
<1>3. ASSUME NEW j \in jobs, DecryptDone(j)
      PROVE  SaveInv'
  BY <1>0, <1>3, SaveQuiet DEF DecryptDone, store, editor
<1>4. ASSUME NEW n \in Names, SelectEntry(n)
      PROVE  SaveInv'
  BY <1>0, <1>4, SaveQuiet DEF SelectEntry, store, editor
<1>5. CASE Refresh
  BY <1>0, <1>5, SaveQuiet DEF Refresh, store, editor
<1>6. CASE ActNew
  BY <1>0, <1>6, SaveEditorEnds DEF ActNew, UserTurn, MainLoop, store
<1>7. CASE ActEdit
  <2>1. current_rel \in Names /\ busy = NoWrite
    BY <1>0, <1>7 DEF ActEdit, OnShownEntry, UserTurn, MainLoop, TypeOK, Option
  <2>2. edit'.since = clock /\ edit'.mtime = disk[current_rel].mtime
    BY <1>7 DEF ActEdit
  <2>3. UNCHANGED <<disk, clock, busy>>
    BY <1>7 DEF ActEdit, store
  <2>4. QED
    BY <1>0, <2>1, <2>2, <2>3
       DEF SaveInv, TimesBounded, UnpromptedSaveIsSafe, TypeOK
<1>8. CASE ActCancel
  BY <1>0, <1>8, SaveEditorEnds DEF ActCancel, UserTurn, MainLoop, store
<1>9. CASE ActSaveUnchanged
  BY <1>0, <1>9, SaveEditorEnds DEF ActSaveUnchanged, UserTurn, MainLoop, store
<1>10. ASSUME NEW n \in Names, ActSave(n)
       PROVE  SaveInv'
  <2>1. UNCHANGED <<disk, clock, edit>>
    BY <1>10 DEF ActSave, store, editor
  <2>2. CASE NeedsPrompt(n)
    BY <1>0, <1>10, <2>1, <2>2, SaveQuiet DEF ActSave
  <2>3. CASE ~NeedsPrompt(n)
    <3>1. busy'.name = n /\ busy'.checked = clock
      BY <1>10, <2>3 DEF ActSave, Write
    <3>2. CASE edit.name = None
      <4>1. ~Exists(n)
        BY <2>3, <3>2 DEF NeedsPrompt
      <4>2. QED
        BY <1>0, <2>1, <3>1, <3>2, <4>1
           DEF SaveInv, TimesBounded, UnpromptedSaveIsSafe, Exists, TypeOK
    <3>3. CASE edit.name # None
      <4>1. disk[n].mtime = edit.mtime
        BY <2>3, <3>3 DEF NeedsPrompt
      <4>2. QED
        BY <1>0, <2>1, <3>1, <3>3, <4>1
           DEF SaveInv, TimesBounded, UnpromptedSaveIsSafe, TypeOK
    <3>4. QED
      BY <3>2, <3>3
  <2>4. QED
    BY <2>2, <2>3
<1>11. ASSUME NEW overwrite \in BOOLEAN, OnConfirmSave(overwrite)
       PROVE  SaveInv'
  <2>1. busy' = NoWrite \/ busy' = Write(dialog.rel, dialog.text, clock, TRUE)
    BY <1>11 DEF OnConfirmSave
  <2>2. UNCHANGED <<disk, clock, edit>>
    BY <1>11 DEF OnConfirmSave, store, editor
  <2>3. busy'.checked <= clock /\ (busy' = NoWrite \/ busy'.prompted)
    BY <1>0, <2>1 DEF NoWrite, Write, TypeOK
  <2>4. QED
    BY <1>0, <2>2, <2>3 DEF SaveInv, TimesBounded, UnpromptedSaveIsSafe, Exists
<1>12. CASE DoWrite
  <2>1. busy.name \in Names
    BY <1>0, <1>12 DEF DoWrite, NoNullName, TypeOK, Option
  <2>2. TimesBounded'
    BY <1>0, <1>12, <2>1, PutFileTimes DEF DoWrite, SaveInv
  <2>3. clock' = clock + 1 /\ edit' = NoEdit /\ busy' = NoWrite
    BY <1>12 DEF DoWrite, PutFile
  <2>4. QED
    BY <1>0, <2>2, <2>3, SaveIdle
<1>13. CASE DoWriteFails
  BY <1>0, <1>13, SaveWriteEnds DEF DoWriteFails, store, editor
<1>14. CASE ActDelete
  BY <1>0, <1>14, SaveQuiet DEF ActDelete, store, editor
<1>15. CASE OnConfirmDelete
  <2>1. current_rel \in Names
    BY <1>0, <1>15 DEF OnConfirmDelete, TypeOK, Option
  <2>2. disk' = [disk EXCEPT ![current_rel] = NoFile] /\ clock' = clock
    BY <1>15 DEF OnConfirmDelete
  <2>3. TimesBounded'
    BY <1>0, <2>1, <2>2 DEF SaveInv, TimesBounded, NoFile, TypeOK
  <2>4. edit' = edit /\ busy' = NoWrite
    BY <1>15 DEF OnConfirmDelete, MainLoop, editor
  <2>5. QED
    BY <1>0, <2>2, <2>3, <2>4, SaveIdle DEF TypeOK
<1>16. CASE CloseDialog
  BY <1>0, <1>16, SaveQuiet DEF CloseDialog, store, editor
<1>17. CASE ActHistory
  BY <1>0, <1>17, SaveQuiet DEF ActHistory, store, editor
<1>18. ASSUME NEW n \in Names, NEW text \in past[n], OnHistoryRestore(text)
       PROVE  SaveInv'
  <2>1. dialog.rel \in Names
    BY <1>0, <1>18 DEF OnHistoryRestore, NoNullName, TypeOK, Option
  <2>2. TimesBounded'
    BY <1>0, <1>18, <2>1, PutFileTimes DEF OnHistoryRestore, SaveInv
  <2>3. clock' = clock + 1 /\ edit' = edit /\ busy' = NoWrite
    BY <1>18 DEF OnHistoryRestore, PutFile, MainLoop, editor
  <2>4. QED
    BY <1>0, <2>2, <2>3, SaveIdle
<1>19. CASE ActRecipients
  BY <1>0, <1>19, SaveQuiet DEF ActRecipients, store, editor
<1>20. CASE OnReencrypted
  BY <1>0, <1>20, SaveQuiet DEF OnReencrypted, ReencDone, store, editor
<1>20a. CASE OnReencryptClicked
  BY <1>0, <1>20a, SaveQuiet DEF OnReencryptClicked, store, editor
<1>20b. CASE ReencryptFails
  BY <1>0, <1>20b, SaveQuiet DEF ReencryptFails, ReencDone, store, editor
<1>21. ASSUME NEW copy \in BOOLEAN, ActMoveCopy(copy)
       PROVE  SaveInv'
  BY <1>0, <1>21, SaveQuiet DEF ActMoveCopy, store, editor
<1>22. ASSUME NEW n \in Names, MoveCopyExists(n)
       PROVE  SaveInv'
  BY <1>0, <1>22, SaveQuiet DEF MoveCopyExists, store, editor
<1>23. ASSUME NEW n \in Names, NEW rekey \in BOOLEAN, NEW ok \in BOOLEAN,
              MoveCopy(n, rekey, ok)
       PROVE  SaveInv'
  <2>1. current_rel \in Names
    BY <1>0, <1>23 DEF MoveCopy, MoveCopyAnswer, TypeOK, Option
  <2>2. TimesBounded'
    BY <1>0, <1>23, <2>1, MoveCopyTimes DEF MoveCopy, SaveInv
  <2>3. clock' = clock + 1 /\ edit' = edit /\ busy' = NoWrite
    BY <1>23 DEF MoveCopy, MoveCopyFile, MoveCopyAnswer, MainLoop, editor
  <2>4. QED
    BY <1>0, <2>2, <2>3, SaveIdle
<1>24. CASE HotpGenerate
  <2>1. current_rel \in Names
    BY <1>0, <1>24 DEF HotpGenerate, OnShownEntry, TypeOK, Option
  <2>2. TimesBounded'
    BY <1>0, <1>24, <2>1, PutFileTimes DEF HotpGenerate, SaveInv
  <2>3. clock' = clock + 1 /\ edit' = edit /\ busy' = NoWrite
    BY <1>24 DEF HotpGenerate, PutFile, OnShownEntry, UserTurn, MainLoop, editor
  <2>4. QED
    BY <1>0, <2>2, <2>3, SaveIdle
<1>25. CASE Dispose
  BY <1>0, <1>25, SaveQuiet DEF Dispose, store, editor
<1>26. ASSUME NEW n \in Names, CliWrite(n)
       PROVE  SaveInv'
  BY <1>0, <1>26, SaveOthersPut DEF CliWrite, editor
<1>27. ASSUME NEW n \in Names, CliRemove(n)
       PROVE  SaveInv'
  <2>1. /\ disk' = [disk EXCEPT ![n] = NoFile]
        /\ clock' = clock + 1
        /\ UNCHANGED <<edit, busy>>
    BY <1>27 DEF CliRemove, editor
  <2>2. TimesBounded'
    BY <1>0, <2>1 DEF SaveInv, TimesBounded, NoFile, TypeOK, File
  <2>3. \A m \in Names : disk'[m] = disk[m] \/ disk'[m] = NoFile
    BY <1>0, <2>1 DEF TypeOK
  <2>4. busy # NoWrite => busy.name \in Names
    BY <1>0 DEF NoNullName, TypeOK, Option
  <2>5. UnpromptedSaveIsSafe'
    BY <1>0, <2>1, <2>3, <2>4 DEF SaveInv, UnpromptedSaveIsSafe, Exists
  <2>6. QED
    BY <1>0, <2>1, <2>2, <2>5 DEF SaveInv, TypeOK
<1>28. ASSUME NEW n \in Names, Rewrite(n)
       PROVE  SaveInv'
  BY <1>0, <1>28, SaveOthersPut DEF Rewrite, editor
<1>29. CASE UNCHANGED vars
  BY <1>0, <1>29, SaveQuiet DEF vars, store, editor
<1>30. CASE Worker
  BY <1>1, <1>2, <1>30 DEF Worker
<1>31. CASE Callback
  BY <1>3, <1>31 DEF Callback
<1>32. CASE Saving
  BY <1>12, <1>13, <1>32 DEF Saving
<1>33. CASE User
  BY <1>4, <1>5, <1>6, <1>7, <1>8, <1>9, <1>10, <1>11, <1>14, <1>15, <1>16, <1>17,
     <1>18, <1>19, <1>20, <1>20a, <1>20b, <1>21, <1>22, <1>23, <1>24, <1>25, <1>33 DEF User
<1>34. CASE Others
  BY <1>26, <1>27, <1>28, <1>34 DEF Others
<1>35. QED
  BY <1>29, <1>30, <1>31, <1>32, <1>33, <1>34 DEF Next

\* The modification time guard of act_save does its work: what another
\* program wrote after the edit began is not overwritten unasked.
THEOREM SaveIsGuarded == Spec => []UnpromptedSaveIsSafe
<1>1. Init => SaveInv
  <2> SUFFICES ASSUME Init PROVE SaveInv
    OBVIOUS
  <2>1. TimesBounded
    BY DEF Init, TimesBounded, NoFile
  <2>2. QED
    BY <2>1 DEF Init, SaveInv, UnpromptedSaveIsSafe, NoEdit, NoWrite, Write
<1>2. EditorInv /\ SaveInv /\ [Next]_vars => SaveInv'
  BY SaveStep
<1>3. SaveInv => UnpromptedSaveIsSafe
  BY DEF SaveInv
<1>4. QED
  BY <1>1, <1>2, <1>3, EditorInvariant, PTL DEF Spec
=============================================================================
