----------------------------- MODULE StoreFile -----------------------------
(***************************************************************************)
(* Writing and removing an entry (src/engine/store.c, src/engine/crypto.c) *)
(* one system call at a time: the parent directories, the temporary file,  *)
(* its data, fsync, rename; the unlink and the directories it empties.     *)
(* Any number of processes do so at once: the main loop, the re-encryption *)
(* thread, pass rm (whose rmdir -p the code follows), other windows.       *)
(* Every call can fail, and the machine can crash between any two.         *)
(*                                                                         *)
(* The file system is external.  A directory change is seen by all at once *)
(* and reaches the disk later, in order (a journal); the data of a file    *)
(* need not be there before fsync has returned, and the model takes it     *)
(* that they are not.  A file is the number of the call that wrote it, 0   *)
(* for those that were there; its ciphertext is the number of blocks it    *)
(* has.  Modes are left out.                                               *)
(***************************************************************************)
EXTENDS Integers, Sequences, FiniteSets

CONSTANTS
  Names,       \* entry names
  Dirs,        \* directories below the root of the store
  Path,        \* the directories of each name, the outermost first
  Procs,       \* processes
  None,        \* no name
  Blocks,      \* length of a ciphertext
  MaxWrites,   \* bound: files written in a behaviour
  MaxCrashes   \* bound: crashes in a behaviour

ASSUME FileAssumption ==
  /\ Path \in [Names -> Seq(Dirs)]
  /\ None \notin Names
  /\ Blocks \in Nat \ {0}
  /\ MaxWrites \in Nat
  /\ MaxCrashes \in Nat

\* a directory is in one directory: the paths form a tree
ASSUME PathAssumption ==
  \A m, n \in Names : \A i \in 1 .. Len(Path[m]), j \in 1 .. Len(Path[n]) :
     Path[m][i] = Path[n][j] => i = j /\ \A k \in 1 .. i : Path[m][k] = Path[n][k]

VARIABLES
  dirs,      \* the directories that exist
  entry,     \* the file of each name, or Absent
  temps,     \* the temporary files: their number and the entry they are for
  journal,   \* dirs, entry and temps as a crash would leave them
  data,      \* blocks each file has
  stable,    \* blocks each file has on the disk
  files,     \* number of files begun
  job,       \* what each process is doing
  ok,        \* what the last call of each process returned
  crashes,
  tidy,      \* (history) nothing has failed on the way so far
  lost       \* (history) files begun before the last crash

tree    == <<dirs, entry, temps>>
content == <<data, stable>>
history == <<crashes, tidy, lost>>
vars    == <<tree, journal, content, files, job, ok, history>>

Absent == -1
File   == 0 .. MaxWrites

Steps == {"idle", "parents", "mkdir", "open", "fill", "sync",
          "rename", "undo", "test", "unlink", "prune", "done", "failed"}

\* at: how many directories of the path are done with, or still to prune
Job == [step : Steps, name : Names \cup {None}, file : File \cup {Absent}, at : Nat]
Idle == [step |-> "idle", name |-> None, file |-> Absent, at |-> 0]

Temp == [file : File, name : Names]
Tree == [dirs : SUBSET Dirs, entry : [Names -> File \cup {Absent}], temps : SUBSET Temp]

TypeOK ==
  /\ dirs \in SUBSET Dirs
  /\ entry \in [Names -> File \cup {Absent}]
  /\ temps \in SUBSET Temp
  /\ journal \in Tree
  /\ data \in [File -> 0 .. Blocks]
  /\ stable \in [File -> 0 .. Blocks]
  /\ files \in File
  /\ job \in [Procs -> Job]
  /\ ok \in [Procs -> BOOLEAN]
  /\ crashes \in Nat
  /\ tidy \in BOOLEAN
  /\ lost \in File

Depth(n) == Len(Path[n])

\* the i-th directory of n's path is there; the root of the store always is
DirThere(n, i) == IF i = 0 THEN TRUE ELSE Path[n][i] \in dirs

\* name or temporary file of m lies somewhere below directory d
Below(m, d) == \E i \in 1 .. Depth(m) : Path[m][i] = d

Init ==
  /\ entry \in [Names -> {0, Absent}]
  /\ dirs = {d \in Dirs : \E n \in Names : entry[n] # Absent /\ Below(n, d)}
  /\ temps = {}
  /\ journal = [dirs |-> dirs, entry |-> entry, temps |-> temps]
  /\ data = [f \in File |-> IF f = 0 THEN Blocks ELSE 0]
  /\ stable = data
  /\ files = 0
  /\ job = [p \in Procs |-> Idle]
  /\ ok = [p \in Procs |-> FALSE]
  /\ crashes = 0
  /\ tidy = TRUE
  /\ lost = 0

-----------------------------------------------------------------------------
At(p, step) == job[p].step = step

Goto(p, step) == job' = [job EXCEPT ![p].step = step]
Walk(p, step, i) == job' = [job EXCEPT ![p].step = step, ![p].at = i]

\* a call fails on its way and leaves what it made so far
Trip(p, step) ==
  /\ Goto(p, step)
  /\ tidy' = FALSE
  /\ UNCHANGED <<crashes, lost>>

\* passfl_store_write_entry, which refuses a name or finds no recipients and
\* fails, or goes on to the parent directories; passfl_crypto_encrypt_file,
\* which the re-encryption thread calls with the path of an entry; and
\* passfl_store_delete_entry
Begin(p, n, step) ==
  /\ At(p, "idle")
  /\ step # "test" => files < MaxWrites
  /\ step = "open" => entry[n] # Absent
  /\ files' = IF step = "test" THEN files ELSE files + 1
  /\ job' = [job EXCEPT ![p] =
       [step |-> step, name |-> n, at |-> 0,
        file |-> IF step = "test" THEN Absent ELSE files + 1]]
  /\ ok' = [ok EXCEPT ![p] = FALSE]
  /\ UNCHANGED <<tree, journal, content, history>>

\* make_parents: is the next directory there?
Parents(p) ==
  LET n == job[p].name
      i == job[p].at + 1
  IN  /\ At(p, "parents")
      /\ \/ job[p].at = Depth(n) /\ Goto(p, "open")
         \/ job[p].at < Depth(n) /\ DirThere(n, i) /\ Walk(p, "parents", i)
         \/ job[p].at < Depth(n) /\ ~DirThere(n, i) /\ Goto(p, "mkdir")
      /\ UNCHANGED <<tree, journal, content, files, ok, history>>

\* make_parents: g_mkdir, g_chmod; another process may have made or removed
\* directories since the test
Mkdir(p) ==
  LET n == job[p].name
      i == job[p].at + 1
  IN  /\ At(p, "mkdir")
      /\ Path[n][i] \notin dirs
      /\ DirThere(n, i - 1)
      /\ dirs' = dirs \cup {Path[n][i]}
      /\ \/ /\ Walk(p, "parents", i)
            /\ UNCHANGED history
         \/ Trip(p, "failed")
      /\ UNCHANGED <<entry, temps, journal, content, files, ok>>

\* atomic_write: g_mkstemp beside the target
Open(p) ==
  LET n == job[p].name
  IN  /\ At(p, "open")
      /\ DirThere(n, Depth(n))
      /\ temps' = temps \cup {[file |-> job[p].file, name |-> n]}
      /\ Goto(p, "fill")
      /\ UNCHANGED <<dirs, entry, journal, content, files, ok, history>>

\* a call that did nothing and ends the operation: mkdir, mkstemp, or the
\* encryption before it
Refused(p) ==
  /\ At(p, "mkdir") \/ At(p, "open")
  /\ Trip(p, "failed")
  /\ UNCHANGED <<tree, journal, content, files, ok>>

\* (mutant) one block too many
FillOn(p) ==
  /\ At(p, "fill")
  /\ data' = [data EXCEPT ![job[p].file] = @ + 1]
  /\ IF data[job[p].file] > Blocks - 1 THEN Goto(p, "sync") ELSE UNCHANGED job
  /\ UNCHANGED <<tree, journal, stable, files, ok, history>>

\* write, until off = len
Fill(p) ==
  /\ At(p, "fill")
  /\ data' = [data EXCEPT ![job[p].file] = @ + 1]
  /\ IF data[job[p].file] = Blocks - 1 THEN Goto(p, "sync") ELSE UNCHANGED job
  /\ UNCHANGED <<tree, journal, stable, files, ok, history>>

\* (mutant) the file is renamed unsynced
SyncSkipped(p) ==
  /\ At(p, "sync")
  /\ Goto(p, "rename")
  /\ UNCHANGED <<tree, journal, content, files, ok, history>>

\* fsync and close
Sync(p) ==
  /\ At(p, "sync")
  /\ stable' = [stable EXCEPT ![job[p].file] = data[job[p].file]]
  /\ Goto(p, "rename")
  /\ UNCHANGED <<tree, journal, data, files, ok, history>>

\* rename over the target
Rename(p) ==
  LET t == [file |-> job[p].file, name |-> job[p].name]
  IN  /\ At(p, "rename")
      /\ temps' = temps \ {t}
      /\ entry' = [entry EXCEPT ![t.name] = t.file]
      /\ Goto(p, "done")
      /\ UNCHANGED <<dirs, journal, content, files, ok, history>>

\* fchmod, write, fsync, close or rename fails
Fails(p) ==
  /\ job[p].step \in {"fill", "sync", "rename"}
  /\ Trip(p, "undo")
  /\ UNCHANGED <<tree, journal, content, files, ok>>

\* (mutant) the temporary file is left behind
UndoKeeps(p) ==
  /\ At(p, "undo")
  /\ Goto(p, "failed")
  /\ UNCHANGED <<tree, journal, content, files, ok, history>>

\* the end of atomic_write on every failure: unlink (tmpl)
Undo(p) ==
  /\ At(p, "undo")
  /\ temps' = temps \ {[file |-> job[p].file, name |-> job[p].name]}
  /\ Goto(p, "failed")
  /\ UNCHANGED <<dirs, entry, journal, content, files, ok, history>>

\* passfl_store_delete_entry: only what is there is removed
Test(p) ==
  /\ At(p, "test")
  /\ Goto(p, IF entry[job[p].name] = Absent THEN "failed" ELSE "unlink")
  /\ UNCHANGED <<tree, journal, content, files, ok, history>>

\* g_unlink; fails when another process was first, or for any other reason
Unlink(p) ==
  LET n == job[p].name
  IN  /\ At(p, "unlink")
      /\ \/ /\ entry[n] # Absent
            /\ entry' = [entry EXCEPT ![n] = Absent]
            /\ Walk(p, "prune", Depth(n))
         \/ Goto(p, "failed") /\ UNCHANGED entry
      /\ UNCHANGED <<dirs, temps, journal, content, files, ok, history>>

\* directory d holds no entry, no temporary file and no directory
EmptyDir(d) ==
  /\ d \in dirs
  /\ \A n \in Names :
        /\ Below(n, d) => entry[n] = Absent /\ \A t \in temps : t.name # n
        /\ \A i \in 1 .. Depth(n) - 1 : Path[n][i] = d => Path[n][i + 1] \notin dirs

\* (mutant) only the entry's own directory is pruned
PruneOnce(p) ==
  LET n == job[p].name
      i == job[p].at
  IN  /\ At(p, "prune")
      /\ Goto(p, "done")
      /\ dirs' = IF i > 0 /\ EmptyDir(Path[n][i]) THEN dirs \ {Path[n][i]} ELSE dirs
      /\ UNCHANGED <<entry, temps, journal, content, files, ok, history>>

\* the loop of g_rmdir: upwards to the root, until one fails
Prune(p) ==
  LET n == job[p].name
      i == job[p].at
  IN  /\ At(p, "prune")
      /\ IF i > 0 /\ EmptyDir(Path[n][i])
         THEN /\ dirs' = dirs \ {Path[n][i]}
              /\ Walk(p, "prune", i - 1)
         ELSE Goto(p, "done") /\ UNCHANGED dirs
      /\ UNCHANGED <<entry, temps, journal, content, files, ok, history>>

\* a rmdir of an empty directory fails too: permissions
PruneFails(p) ==
  /\ At(p, "prune")
  /\ job[p].at > 0
  /\ Trip(p, "done")
  /\ UNCHANGED <<tree, journal, content, files, ok>>

Return(p) ==
  /\ At(p, "done") \/ At(p, "failed")
  /\ ok' = [ok EXCEPT ![p] = At(p, "done")]
  /\ job' = [job EXCEPT ![p] = Idle]
  /\ UNCHANGED <<tree, journal, content, files, history>>

-----------------------------------------------------------------------------
(* The file system and the machine: what reaches the disk after the last   *)
(* crash of a behaviour makes no difference to it.                         *)

Flush ==
  /\ crashes < MaxCrashes
  /\ journal' = [dirs |-> dirs, entry |-> entry, temps |-> temps]
  /\ UNCHANGED <<tree, content, files, job, ok, history>>

Crash ==
  /\ crashes < MaxCrashes
  /\ crashes' = crashes + 1
  /\ dirs' = journal.dirs
  /\ entry' = journal.entry
  /\ temps' = journal.temps
  /\ data' = stable
  /\ job' = [p \in Procs |-> Idle]
  /\ tidy' = FALSE
  /\ lost' = files
  /\ UNCHANGED <<journal, stable, files, ok>>

Step(p) ==
  \/ Parents(p) \/ Mkdir(p) \/ Open(p) \/ Refused(p)
  \/ Fill(p) \/ Sync(p) \/ Rename(p) \/ Fails(p) \/ Undo(p)
  \/ Test(p) \/ Unlink(p) \/ Prune(p) \/ PruneFails(p) \/ Return(p)

Next ==
  \/ \E p \in Procs :
        \/ Step(p)
        \/ \E n \in Names, step \in {"failed", "parents", "open", "test"} : Begin(p, n, step)
  \/ Flush \/ Crash

Spec == Init /\ [][Next]_vars
-----------------------------------------------------------------------------
(* Properties. *)

\* what a file with so many blocks says: its number, when it is complete
Torn == -2
Said(file, blocks) ==
  IF file = Absent THEN Absent ELSE IF blocks[file] = Blocks THEN file ELSE Torn

\* a call has acted from its rename or its unlink on
CallOf(p) ==
  IF job[p].step = "idle"
  THEN [name |-> None, text |-> Absent, done |-> FALSE]
  ELSE [name |-> job[p].name, text |-> job[p].file,
        done |-> job[p].step \in {"prune", "done"}]

Abstract == INSTANCE AtomicStore WITH
  Texts  <- File,
  mem    <- [n \in Names |-> Said(entry[n], data)],
  disk   <- [n \in Names |-> Said(journal.entry[n], stable)],
  call   <- [p \in Procs |-> CallOf(p)],
  result <- ok

\* Writes are atomic (docs/SPEC.md 7.7): whatever fails, whoever else writes
\* and removes, and wherever the machine crashes, an entry holds a complete
\* text that was there or was asked for, a call acts once or not at all, and
\* what it returns says which (atomic_write, passfl_store_delete_entry).
StoredAtomically == Abstract!Spec

\* "never leave the temp behind": a temporary file belongs to a call under
\* way, or was under way when the machine crashed.
NoTempLeft ==
  \A t \in temps :
    \/ t.file <= lost
    \/ \E p \in Procs : job[p].file = t.file /\ job[p].name = t.name
                        /\ job[p].step \in {"fill", "sync", "rename", "undo"}

\* Deleting leaves no empty directory, as rmdir -p does not: once every call
\* has returned and none failed on the way, each directory has an entry below
\* it, however deletions of neighbours and creations interleaved.
NoEmptyDirs ==
  tidy /\ (\A p \in Procs : job[p].step = "idle") =>
    \A d \in dirs : \E n \in Names : entry[n] # Absent /\ Below(n, d)
=============================================================================
