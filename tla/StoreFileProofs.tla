-------------------------- MODULE StoreFileProofs --------------------------
(***************************************************************************)
(* Machine-checked proofs about StoreFile, for every tree of directories,  *)
(* every number of processes and every length of a ciphertext: its types,  *)
(* that no temporary file and no empty directory is left, and that it      *)
(* implements AtomicStore.                                                 *)
(***************************************************************************)
EXTENDS StoreFile, TLAPS

(***************************************************************************)
(* Why an entry is never torn: a file is complete, in memory and on the    *)
(* disk, before it gets its name (JobOK), no two calls write the same file *)
(* (OwnFile), and a name leads to complete files only, also in the journal *)
(* that a crash brings back (Complete).                                    *)
(***************************************************************************)

Writing == {"parents", "mkdir", "open", "fill", "sync", "rename", "undo"}

JobOK(j) ==
  /\ j.step # "idle" => j.name \in Names
  /\ j.step \in Writing => j.file # Absent
  /\ j.step \in {"idle", "test", "unlink", "prune"} => j.file = Absent
  /\ j.file # Absent => j.file \in 1 .. files
  /\ j.step = "parents" => j.at <= Depth(j.name)
  /\ j.step = "mkdir" => j.at < Depth(j.name)
  /\ j.step \in {"parents", "mkdir", "open"} => data[j.file] = 0
  /\ j.step = "fill" => data[j.file] < Blocks
  /\ j.step = "sync" => data[j.file] = Blocks
  /\ j.step = "rename" => data[j.file] = Blocks /\ stable[j.file] = Blocks

JobsOK == \A p \in Procs : JobOK(job[p])

OwnFile ==
  \A p, q \in Procs : job[p].file # Absent /\ job[p].file = job[q].file => p = q

Fresh == \A f \in File : f > files => data[f] = 0 /\ stable[f] = 0

Whole(f) == f # Absent => data[f] = Blocks /\ stable[f] = Blocks

Complete == \A n \in Names : Whole(entry[n]) /\ Whole(journal.entry[n])

Begun == \A t \in temps \cup journal.temps : t.file <= files

FileInv ==
  /\ TypeOK /\ JobsOK /\ OwnFile /\ Fresh /\ Complete /\ Begun /\ NoTempLeft
  /\ lost <= files

USE FileAssumption

LEMMA FileInvInit == Init => FileInv
<1> SUFFICES ASSUME Init PROVE FileInv
  OBVIOUS
<1> USE DEF Init
<1>1. TypeOK
  BY DEF TypeOK, Tree, Temp, Job, Idle, Steps, File, Absent
<1>2. JobsOK /\ OwnFile
  BY DEF JobsOK, JobOK, OwnFile, Idle, Absent, Writing
<1>3. Fresh /\ Complete /\ Begun /\ NoTempLeft /\ lost <= files
  BY DEF Fresh, Complete, Whole, Begun, NoTempLeft, File, Absent
<1> QED
  BY <1>1, <1>2, <1>3 DEF FileInv

\* the paths the model walks, one directory at a time
LEMMA PathFacts ==
  \A n \in Names : /\ Depth(n) \in Nat
                  /\ \A i \in 1 .. Depth(n) : Path[n][i] \in Dirs
  BY DEF Depth

(***************************************************************************)
(* A step of p: the other calls, whose files are not touched, stay right   *)
(* if p's does; the temporary files stay accounted for if p's does.        *)
(***************************************************************************)
OnlyJob(p) ==
  /\ job' \in [Procs -> Job]
  /\ \A q \in Procs : q # p => job'[q] = job[q]

LEMMA GotoFacts ==
  ASSUME TypeOK, NEW p \in Procs, NEW step \in Steps, Goto(p, step)
  PROVE  /\ OnlyJob(p)
         /\ job'[p].step = step /\ job'[p].at = job[p].at
         /\ job'[p].name = job[p].name /\ job'[p].file = job[p].file
<1>1. job[p] \in Job /\ job \in [Procs -> Job]
  BY DEF TypeOK
<1>2. job'[p] = [job[p] EXCEPT !.step = step]
  BY <1>1 DEF Goto
<1>3. job'[p] \in Job
  BY <1>1, <1>2 DEF Job
<1>4. OnlyJob(p)
  BY <1>1, <1>3 DEF Goto, OnlyJob
<1> QED
  BY <1>1, <1>2, <1>4 DEF Job

LEMMA WalkFacts ==
  ASSUME TypeOK, NEW p \in Procs, NEW step \in Steps, NEW STATE i, i \in Nat,
         Walk(p, step, i)
  PROVE  /\ OnlyJob(p)
         /\ job'[p].step = step /\ job'[p].at = i
         /\ job'[p].name = job[p].name /\ job'[p].file = job[p].file
<1>1. job[p] \in Job /\ job \in [Procs -> Job]
  BY DEF TypeOK
<1>2. job'[p] = [job[p] EXCEPT !.step = step, !.at = i]
  BY <1>1 DEF Walk
<1>3. job'[p] \in Job
  BY <1>1, <1>2 DEF Job
<1>4. OnlyJob(p)
  BY <1>1, <1>3 DEF Walk, OnlyJob
<1> QED
  BY <1>1, <1>2, <1>4 DEF Job

LEMMA JobStep ==
  ASSUME TypeOK, JobsOK, OwnFile, NEW p \in Procs, OnlyJob(p), JobOK(job[p])',
         job'[p].file \in {job[p].file, Absent}, files' = files,
         \A f \in File : f # job[p].file => data'[f] = data[f] /\ stable'[f] = stable[f]
  PROVE  JobsOK' /\ OwnFile'
<1>1. JobsOK'
  <2> SUFFICES ASSUME NEW q \in Procs, q # p PROVE JobOK(job[q])'
    BY DEF JobsOK
  <2>1. job'[q] = job[q] /\ JobOK(job[q]) /\ job[q] \in Job
    BY DEF OnlyJob, JobsOK, TypeOK
  <2>2. CASE job[q].file = Absent
    BY <2>1, <2>2 DEF JobOK, Writing
  <2>3. CASE job[q].file # Absent
    <3>1. job[q].file \in File /\ job[q].file # job[p].file
      BY <2>1, <2>3 DEF OwnFile, Job
    <3>2. data'[job[q].file] = data[job[q].file] /\ stable'[job[q].file] = stable[job[q].file]
      BY <3>1
    <3> QED
      BY <2>1, <3>2 DEF JobOK, Depth
  <2> QED
    BY <2>2, <2>3
<1>2. OwnFile'
  BY DEF OwnFile, OnlyJob
<1> QED
  BY <1>1, <1>2

Holding(j) == j.step \in {"fill", "sync", "rename", "undo"}
TempOf(j) == [file |-> j.file, name |-> j.name]

LEMMA TempStep ==
  ASSUME TypeOK, NoTempLeft, NEW p \in Procs, OnlyJob(p), lost' = lost,
         temps' \in SUBSET (temps \cup {TempOf(job[p])}),
         TempOf(job[p]) \in temps' /\ (Holding(job[p]) \/ TempOf(job[p]) \notin temps) =>
            Holding(job'[p]) /\ TempOf(job'[p]) = TempOf(job[p])
  PROVE  NoTempLeft'
<1> SUFFICES ASSUME NEW t \in temps', ~(t.file <= lost)
             PROVE  \E q \in Procs : job'[q].file = t.file /\ job'[q].name = t.name
                        /\ job'[q].step \in {"fill", "sync", "rename", "undo"}
  BY DEF NoTempLeft
<1>1. CASE t \in temps
  <2>1. PICK q \in Procs : job[q].file = t.file /\ job[q].name = t.name /\ Holding(job[q])
    BY <1>1 DEF NoTempLeft, Holding
  <2>2. CASE q # p
    BY <2>1, <2>2 DEF OnlyJob, Holding
  <2>3. CASE q = p
    <3>1. t = TempOf(job[p])
      BY <1>1, <2>1, <2>3 DEF TypeOK, Temp, TempOf
    <3> QED
      BY <2>1, <2>3, <3>1 DEF Holding, TempOf
  <2> QED
    BY <2>2, <2>3
<1>2. CASE t \notin temps
  <2>1. t = TempOf(job[p])
    BY <1>2
  <2> QED
    BY <1>2, <2>1 DEF Holding, TempOf
<1> QED
  BY <1>1, <1>2

(***************************************************************************)
(* How each step moves its process, and that it keeps the invariant.       *)
(***************************************************************************)

LEMMA ParentsMoves ==
  ASSUME TypeOK, JobsOK, NEW p \in Procs, Parents(p)
  PROVE  /\ OnlyJob(p) /\ job'[p].file = job[p].file /\ job'[p].name = job[p].name
         /\ \/ job'[p].step = "open"
            \/ job'[p].step = "parents" /\ job'[p].at \in Nat /\ job'[p].at <= Depth(job[p].name)
            \/ job'[p].step = "mkdir" /\ job'[p].at \in Nat /\ job'[p].at < Depth(job[p].name)
<1> USE DEF Parents, At, Trip
<1>1. job[p] \in Job /\ JobOK(job[p])
  BY DEF TypeOK, JobsOK
<1>2. job[p].at \in Nat /\ job[p].name \in Names /\ Depth(job[p].name) \in Nat
  BY <1>1, PathFacts DEF Job, JobOK
<1>3. CASE Goto(p, "open")
  BY <1>3, GotoFacts DEF Steps
<1>4. CASE job[p].at < Depth(job[p].name) /\ Walk(p, "parents", job[p].at + 1)
  BY <1>2, <1>4, WalkFacts DEF Steps
<1>5. CASE job[p].at < Depth(job[p].name) /\ Goto(p, "mkdir")
  BY <1>2, <1>5, GotoFacts DEF Steps
<1> QED
  BY <1>3, <1>4, <1>5

LEMMA MkdirMoves ==
  ASSUME TypeOK, JobsOK, NEW p \in Procs, Mkdir(p)
  PROVE  /\ OnlyJob(p) /\ job'[p].file = job[p].file /\ job'[p].name = job[p].name
         /\ \/ job'[p].step = "parents" /\ job'[p].at <= Depth(job[p].name)
            \/ job'[p].step = "failed"
<1> USE DEF Mkdir, At, Trip
<1>1. job[p] \in Job /\ JobOK(job[p])
  BY DEF TypeOK, JobsOK
<1>2. /\ job[p].at \in Nat /\ job[p].name \in Names
      /\ Depth(job[p].name) \in Nat /\ job[p].at < Depth(job[p].name)
  BY <1>1, PathFacts DEF Job, JobOK
<1>3. CASE Walk(p, "parents", job[p].at + 1)
  BY <1>2, <1>3, WalkFacts DEF Steps
<1>4. CASE Goto(p, "failed")
  BY <1>4, GotoFacts DEF Steps
<1> QED
  BY <1>3, <1>4

LEMMA OpenMoves ==
  ASSUME TypeOK, JobsOK, NEW p \in Procs, Open(p)
  PROVE  /\ OnlyJob(p) /\ job'[p].file = job[p].file /\ job'[p].name = job[p].name
         /\ job'[p].step = "fill"
<1>1. job[p] \in Job /\ JobOK(job[p])
  BY DEF TypeOK, JobsOK
<1> QED
  BY <1>1, GotoFacts DEF Open, At, Trip, Steps, Job, JobOK

LEMMA RefusedMoves ==
  ASSUME TypeOK, JobsOK, NEW p \in Procs, Refused(p)
  PROVE  /\ OnlyJob(p) /\ job'[p].file = job[p].file /\ job'[p].name = job[p].name
         /\ job'[p].step = "failed"
<1>1. job[p] \in Job /\ JobOK(job[p])
  BY DEF TypeOK, JobsOK
<1> QED
  BY <1>1, GotoFacts DEF Refused, At, Trip, Steps, Job, JobOK

LEMMA FillMoves ==
  ASSUME TypeOK, JobsOK, NEW p \in Procs, Fill(p)
  PROVE  /\ OnlyJob(p) /\ job'[p].file = job[p].file /\ job'[p].name = job[p].name
         /\ \/ job'[p].step = "sync" /\ data[job[p].file] = Blocks - 1
            \/ job'[p].step = "fill" /\ data[job[p].file] # Blocks - 1
<1>1. job[p] \in Job /\ JobOK(job[p])
  BY DEF TypeOK, JobsOK
<1> QED
  BY <1>1, GotoFacts DEF Fill, At, Trip, Steps, Job, JobOK, OnlyJob, TypeOK

LEMMA SyncMoves ==
  ASSUME TypeOK, JobsOK, NEW p \in Procs, Sync(p)
  PROVE  /\ OnlyJob(p) /\ job'[p].file = job[p].file /\ job'[p].name = job[p].name
         /\ job'[p].step = "rename"
<1>1. job[p] \in Job /\ JobOK(job[p])
  BY DEF TypeOK, JobsOK
<1> QED
  BY <1>1, GotoFacts DEF Sync, At, Trip, Steps, Job, JobOK

LEMMA RenameMoves ==
  ASSUME TypeOK, JobsOK, NEW p \in Procs, Rename(p)
  PROVE  /\ OnlyJob(p) /\ job'[p].file = job[p].file /\ job'[p].name = job[p].name
         /\ job'[p].step = "done"
<1>1. job[p] \in Job /\ JobOK(job[p])
  BY DEF TypeOK, JobsOK
<1> QED
  BY <1>1, GotoFacts DEF Rename, At, Trip, Steps, Job, JobOK

LEMMA FailsMoves ==
  ASSUME TypeOK, JobsOK, NEW p \in Procs, Fails(p)
  PROVE  /\ OnlyJob(p) /\ job'[p].file = job[p].file /\ job'[p].name = job[p].name
         /\ job'[p].step = "undo"
<1>1. job[p] \in Job /\ JobOK(job[p])
  BY DEF TypeOK, JobsOK
<1> QED
  BY <1>1, GotoFacts DEF Fails, At, Trip, Steps, Job, JobOK

LEMMA UndoMoves ==
  ASSUME TypeOK, JobsOK, NEW p \in Procs, Undo(p)
  PROVE  /\ OnlyJob(p) /\ job'[p].file = job[p].file /\ job'[p].name = job[p].name
         /\ job'[p].step = "failed"
<1>1. job[p] \in Job /\ JobOK(job[p])
  BY DEF TypeOK, JobsOK
<1> QED
  BY <1>1, GotoFacts DEF Undo, At, Trip, Steps, Job, JobOK

LEMMA TestMoves ==
  ASSUME TypeOK, JobsOK, NEW p \in Procs, Test(p)
  PROVE  /\ OnlyJob(p) /\ job'[p].file = job[p].file /\ job'[p].name = job[p].name
         /\ job'[p].step \in {"failed", "unlink"}
<1>1. job[p] \in Job /\ JobOK(job[p])
  BY DEF TypeOK, JobsOK
<1> QED
  BY <1>1, GotoFacts DEF Test, At, Trip, Steps, Job, JobOK

LEMMA UnlinkMoves ==
  ASSUME TypeOK, JobsOK, NEW p \in Procs, Unlink(p)
  PROVE  /\ OnlyJob(p) /\ job'[p].file = job[p].file /\ job'[p].name = job[p].name
         /\ job'[p].step \in {"failed", "prune"}
<1>1. job[p] \in Job /\ JobOK(job[p])
  BY DEF TypeOK, JobsOK
<1> QED
  BY <1>1, GotoFacts, WalkFacts, PathFacts DEF Unlink, At, Trip, Steps, Job, JobOK

LEMMA PruneMoves ==
  ASSUME TypeOK, JobsOK, NEW p \in Procs, Prune(p)
  PROVE  /\ OnlyJob(p) /\ job'[p].file = job[p].file /\ job'[p].name = job[p].name
         /\ job'[p].step \in {"prune", "done"}
<1>1. job[p] \in Job /\ JobOK(job[p])
  BY DEF TypeOK, JobsOK
<1> QED
  BY <1>1, GotoFacts, WalkFacts, PathFacts DEF Prune, At, Trip, Steps, Job, JobOK

LEMMA PruneFailsMoves ==
  ASSUME TypeOK, JobsOK, NEW p \in Procs, PruneFails(p)
  PROVE  /\ OnlyJob(p) /\ job'[p].file = job[p].file /\ job'[p].name = job[p].name
         /\ job'[p].step = "done"
<1>1. job[p] \in Job /\ JobOK(job[p])
  BY DEF TypeOK, JobsOK
<1> QED
  BY <1>1, GotoFacts DEF PruneFails, At, Trip, Steps, Job, JobOK

LEMMA ParentsStep ==
  ASSUME FileInv, NEW p \in Procs, Parents(p)
  PROVE  FileInv'
<1> USE DEF Parents, At, Trip, tree, content, history
<1>1. TypeOK /\ JobsOK /\ OwnFile /\ Fresh /\ Complete /\ Begun /\ NoTempLeft /\ lost <= files
  BY DEF FileInv
<1>2. job[p] \in Job /\ JobOK(job[p])
  BY <1>1 DEF TypeOK, JobsOK
<1>3. /\ OnlyJob(p) /\ job'[p].file = job[p].file /\ job'[p].name = job[p].name
      /\ \/ job'[p].step = "open"
         \/ job'[p].step = "parents" /\ job'[p].at \in Nat /\ job'[p].at <= Depth(job[p].name)
         \/ job'[p].step = "mkdir" /\ job'[p].at \in Nat /\ job'[p].at < Depth(job[p].name)
  BY <1>1, ParentsMoves
<1>4. JobOK(job[p])'
  BY <1>1, <1>2, <1>3 DEF JobOK, Writing, TypeOK, Tree, Temp, Job, Steps, File, Absent
<1>5. JobsOK' /\ OwnFile'
  <2>1. files' = files /\ \A f \in File : f # job[p].file => data'[f] = data[f] /\ stable'[f] = stable[f]
    BY <1>1 DEF TypeOK
  <2> QED
    BY <1>1, <1>3, <1>4, <2>1, JobStep
<1>6. TypeOK'
  BY <1>1, <1>2, <1>3, PathFacts DEF OnlyJob, JobOK, Writing, DirThere, TypeOK, Tree, Temp, Job, Steps, File, Absent
<1>7. Fresh' /\ Begun' /\ lost' <= files'
  BY <1>1, <1>2, <1>3 DEF Fresh, Begun, JobOK, Writing, TypeOK, Tree, Temp, Job, Steps, File, Absent
<1>8. Complete'
  BY <1>1, <1>2 DEF Complete, Whole, JobOK, Writing, TypeOK, Tree, Temp, Job, Steps, File, Absent
<1>9. NoTempLeft'
  <2>1. /\ temps' \in SUBSET (temps \cup {TempOf(job[p])})
        /\ TempOf(job[p]) \in temps' /\ (Holding(job[p]) \/ TempOf(job[p]) \notin temps) =>
             Holding(job'[p]) /\ TempOf(job'[p]) = TempOf(job[p])
        /\ lost' = lost
    BY <1>1, <1>2, <1>3 DEF Holding, TempOf, TypeOK, Tree, Temp, Job, Steps, File, Absent
  <2> QED
    BY <1>1, <1>3, <2>1, TempStep
<1> QED
  BY <1>5, <1>6, <1>7, <1>8, <1>9 DEF FileInv

LEMMA MkdirStep ==
  ASSUME FileInv, NEW p \in Procs, Mkdir(p)
  PROVE  FileInv'
<1> USE DEF Mkdir, At, Trip, tree, content, history
<1>1. TypeOK /\ JobsOK /\ OwnFile /\ Fresh /\ Complete /\ Begun /\ NoTempLeft /\ lost <= files
  BY DEF FileInv
<1>2. job[p] \in Job /\ JobOK(job[p])
  BY <1>1 DEF TypeOK, JobsOK
<1>3. /\ OnlyJob(p) /\ job'[p].file = job[p].file /\ job'[p].name = job[p].name
      /\ \/ job'[p].step = "parents" /\ job'[p].at <= Depth(job[p].name)
         \/ job'[p].step = "failed"
  BY <1>1, MkdirMoves
<1>4. JobOK(job[p])'
  BY <1>1, <1>2, <1>3 DEF JobOK, Writing, TypeOK, Tree, Temp, Job, Steps, File, Absent
<1>5. JobsOK' /\ OwnFile'
  <2>1. files' = files /\ \A f \in File : f # job[p].file => data'[f] = data[f] /\ stable'[f] = stable[f]
    BY <1>1 DEF TypeOK
  <2> QED
    BY <1>1, <1>3, <1>4, <2>1, JobStep
<1>6. TypeOK'
  <2>1. /\ job[p].at \in Nat /\ job[p].name \in Names
        /\ Depth(job[p].name) \in Nat /\ job[p].at < Depth(job[p].name)
    BY <1>2, PathFacts DEF Job, JobOK
  <2>2. Path[job[p].name][job[p].at + 1] \in Dirs
    BY <2>1, PathFacts
  <2>3. dirs' \in SUBSET Dirs
    BY <1>1, <2>2 DEF TypeOK
  <2> QED
    BY <1>1, <1>3, <2>3 DEF OnlyJob, TypeOK
<1>7. Fresh' /\ Begun' /\ lost' <= files'
  BY <1>1, <1>2, <1>3 DEF Fresh, Begun, JobOK, Writing, TypeOK, Tree, Temp, Job, Steps, File, Absent
<1>8. Complete'
  BY <1>1, <1>2 DEF Complete, Whole, JobOK, Writing, TypeOK, Tree, Temp, Job, Steps, File, Absent
<1>9. NoTempLeft'
  <2>1. /\ temps' \in SUBSET (temps \cup {TempOf(job[p])})
        /\ TempOf(job[p]) \in temps' /\ (Holding(job[p]) \/ TempOf(job[p]) \notin temps) =>
             Holding(job'[p]) /\ TempOf(job'[p]) = TempOf(job[p])
        /\ lost' = lost
    BY <1>1, <1>2, <1>3 DEF Holding, TempOf, TypeOK, Tree, Temp, Job, Steps, File, Absent
  <2> QED
    BY <1>1, <1>3, <2>1, TempStep
<1> QED
  BY <1>5, <1>6, <1>7, <1>8, <1>9 DEF FileInv

LEMMA OpenStep ==
  ASSUME FileInv, NEW p \in Procs, Open(p)
  PROVE  FileInv'
<1> USE DEF Open, At, Trip, tree, content, history
<1>1. TypeOK /\ JobsOK /\ OwnFile /\ Fresh /\ Complete /\ Begun /\ NoTempLeft /\ lost <= files
  BY DEF FileInv
<1>2. job[p] \in Job /\ JobOK(job[p])
  BY <1>1 DEF TypeOK, JobsOK
<1>3. /\ OnlyJob(p) /\ job'[p].file = job[p].file /\ job'[p].name = job[p].name
      /\ job'[p].step = "fill"
  BY <1>1, OpenMoves
<1>4. JobOK(job[p])'
  BY <1>1, <1>2, <1>3 DEF JobOK, Writing, TypeOK, Tree, Temp, Job, Steps, File, Absent
<1>5. JobsOK' /\ OwnFile'
  <2>1. files' = files /\ \A f \in File : f # job[p].file => data'[f] = data[f] /\ stable'[f] = stable[f]
    BY <1>1 DEF TypeOK
  <2> QED
    BY <1>1, <1>3, <1>4, <2>1, JobStep
<1>6. TypeOK'
  <2>1. TempOf(job[p]) \in Temp
    BY <1>2 DEF JobOK, Writing, Temp, TempOf, Job
  <2>2. temps' \in SUBSET Temp
    BY <1>1, <2>1 DEF TypeOK, TempOf
  <2> QED
    BY <1>1, <1>3, <2>2 DEF OnlyJob, TypeOK
<1>7. Fresh' /\ Begun' /\ lost' <= files'
  BY <1>1, <1>2, <1>3 DEF Fresh, Begun, JobOK, Writing, TypeOK, Tree, Temp, Job, Steps, File, Absent
<1>8. Complete'
  BY <1>1, <1>2 DEF Complete, Whole, JobOK, Writing, TypeOK, Tree, Temp, Job, Steps, File, Absent
<1>9. NoTempLeft'
  <2>1. /\ temps' \in SUBSET (temps \cup {TempOf(job[p])})
        /\ TempOf(job[p]) \in temps' /\ (Holding(job[p]) \/ TempOf(job[p]) \notin temps) =>
             Holding(job'[p]) /\ TempOf(job'[p]) = TempOf(job[p])
        /\ lost' = lost
    BY <1>1, <1>2, <1>3 DEF Holding, TempOf, TypeOK, Tree, Temp, Job, Steps, File, Absent
  <2> QED
    BY <1>1, <1>3, <2>1, TempStep
<1> QED
  BY <1>5, <1>6, <1>7, <1>8, <1>9 DEF FileInv

LEMMA RefusedStep ==
  ASSUME FileInv, NEW p \in Procs, Refused(p)
  PROVE  FileInv'
<1> USE DEF Refused, At, Trip, tree, content, history
<1>1. TypeOK /\ JobsOK /\ OwnFile /\ Fresh /\ Complete /\ Begun /\ NoTempLeft /\ lost <= files
  BY DEF FileInv
<1>2. job[p] \in Job /\ JobOK(job[p])
  BY <1>1 DEF TypeOK, JobsOK
<1>3. /\ OnlyJob(p) /\ job'[p].file = job[p].file /\ job'[p].name = job[p].name
      /\ job'[p].step = "failed"
  BY <1>1, RefusedMoves
<1>4. JobOK(job[p])'
  BY <1>1, <1>2, <1>3 DEF JobOK, Writing, TypeOK, Tree, Temp, Job, Steps, File, Absent
<1>5. JobsOK' /\ OwnFile'
  <2>1. files' = files /\ \A f \in File : f # job[p].file => data'[f] = data[f] /\ stable'[f] = stable[f]
    BY <1>1 DEF TypeOK
  <2> QED
    BY <1>1, <1>3, <1>4, <2>1, JobStep
<1>6. TypeOK'
  BY <1>1, <1>2, <1>3 DEF OnlyJob, JobOK, Writing, DirThere, TypeOK, Tree, Temp, Job, Steps, File, Absent
<1>7. Fresh' /\ Begun' /\ lost' <= files'
  BY <1>1, <1>2, <1>3 DEF Fresh, Begun, JobOK, Writing, TypeOK, Tree, Temp, Job, Steps, File, Absent
<1>8. Complete'
  BY <1>1, <1>2 DEF Complete, Whole, JobOK, Writing, TypeOK, Tree, Temp, Job, Steps, File, Absent
<1>9. NoTempLeft'
  <2>1. /\ temps' \in SUBSET (temps \cup {TempOf(job[p])})
        /\ TempOf(job[p]) \in temps' /\ (Holding(job[p]) \/ TempOf(job[p]) \notin temps) =>
             Holding(job'[p]) /\ TempOf(job'[p]) = TempOf(job[p])
        /\ lost' = lost
    BY <1>1, <1>2, <1>3 DEF Holding, TempOf, TypeOK, Tree, Temp, Job, Steps, File, Absent
  <2> QED
    BY <1>1, <1>3, <2>1, TempStep
<1> QED
  BY <1>5, <1>6, <1>7, <1>8, <1>9 DEF FileInv

LEMMA FillStep ==
  ASSUME FileInv, NEW p \in Procs, Fill(p)
  PROVE  FileInv'
<1> USE DEF Fill, At, Trip, tree, content, history
<1>1. TypeOK /\ JobsOK /\ OwnFile /\ Fresh /\ Complete /\ Begun /\ NoTempLeft /\ lost <= files
  BY DEF FileInv
<1>2. job[p] \in Job /\ JobOK(job[p])
  BY <1>1 DEF TypeOK, JobsOK
<1>3. /\ OnlyJob(p) /\ job'[p].file = job[p].file /\ job'[p].name = job[p].name
      /\ \/ job'[p].step = "sync" /\ data[job[p].file] = Blocks - 1
         \/ job'[p].step = "fill" /\ data[job[p].file] # Blocks - 1
  BY <1>1, FillMoves
<1>a. /\ job[p].file \in File /\ data \in [File -> 0 .. Blocks]
      /\ job[p].file \in 1 .. files
      /\ data[job[p].file] \in 0 .. Blocks - 1
      /\ data'[job[p].file] = data[job[p].file] + 1
      /\ \A f \in File : f # job[p].file => data'[f] = data[f]
      /\ data' \in [File -> 0 .. Blocks]
  <2>1. job[p].file \in File /\ data \in [File -> 0 .. Blocks] /\ job[p].file \in 1 .. files
    BY <1>1, <1>2 DEF TypeOK, JobOK, Writing, Job
  <2>2. data[job[p].file] \in 0 .. Blocks - 1
    BY <1>2, <2>1 DEF JobOK
  <2> QED
    BY <2>1, <2>2
<1>4. JobOK(job[p])'
  BY <1>2, <1>3, <1>a DEF JobOK, Writing, Depth
<1>5. JobsOK' /\ OwnFile'
  <2>1. files' = files /\ \A f \in File : f # job[p].file => data'[f] = data[f] /\ stable'[f] = stable[f]
    BY <1>1 DEF TypeOK
  <2> QED
    BY <1>1, <1>3, <1>4, <2>1, JobStep
<1>6. TypeOK'
  BY <1>1, <1>3, <1>a DEF OnlyJob, TypeOK
<1>7. Fresh' /\ Begun' /\ lost' <= files'
  <2>1. Fresh'
    <3>1. files' = files /\ job[p].file <= files
      BY <1>a
    <3>2. \A f \in File : f # job[p].file => data'[f] = data[f] /\ stable'[f] = stable[f]
      BY <1>a
    <3>3. \A f \in File : f > files => f # job[p].file
      BY <1>1, <1>a DEF TypeOK, File
    <3> QED
      BY ONLY <1>1, <3>1, <3>2, <3>3 DEF Fresh
  <2> QED
    BY <1>1, <2>1 DEF Begun
<1>8. Complete'
  <2>1. \A f \in File \cup {Absent} : Whole(f) => Whole(f)'
    BY <1>a DEF Whole
  <2>2. \A n \in Names : entry[n] \in File \cup {Absent} /\ journal.entry[n] \in File \cup {Absent}
    BY <1>1 DEF TypeOK, Tree
  <2> QED
    BY <1>1, <2>1, <2>2 DEF Complete
<1>9. NoTempLeft'
  <2>1. /\ temps' \in SUBSET (temps \cup {TempOf(job[p])})
        /\ TempOf(job[p]) \in temps' /\ (Holding(job[p]) \/ TempOf(job[p]) \notin temps) =>
             Holding(job'[p]) /\ TempOf(job'[p]) = TempOf(job[p])
        /\ lost' = lost
    BY <1>1, <1>2, <1>3 DEF Holding, TempOf, TypeOK, Tree, Temp, Job, Steps, File, Absent
  <2> QED
    BY <1>1, <1>3, <2>1, TempStep
<1> QED
  BY <1>5, <1>6, <1>7, <1>8, <1>9 DEF FileInv

LEMMA SyncStep ==
  ASSUME FileInv, NEW p \in Procs, Sync(p)
  PROVE  FileInv'
<1> USE DEF Sync, At, Trip, tree, content, history
<1>1. TypeOK /\ JobsOK /\ OwnFile /\ Fresh /\ Complete /\ Begun /\ NoTempLeft /\ lost <= files
  BY DEF FileInv
<1>2. job[p] \in Job /\ JobOK(job[p])
  BY <1>1 DEF TypeOK, JobsOK
<1>3. /\ OnlyJob(p) /\ job'[p].file = job[p].file /\ job'[p].name = job[p].name
      /\ job'[p].step = "rename"
  BY <1>1, SyncMoves
<1>4. JobOK(job[p])'
  BY <1>1, <1>2, <1>3 DEF JobOK, Writing, TypeOK, Tree, Temp, Job, Steps, File, Absent
<1>5. JobsOK' /\ OwnFile'
  <2>1. files' = files /\ \A f \in File : f # job[p].file => data'[f] = data[f] /\ stable'[f] = stable[f]
    BY <1>1 DEF TypeOK
  <2> QED
    BY <1>1, <1>3, <1>4, <2>1, JobStep
<1>6. TypeOK'
  BY <1>1, <1>2, <1>3 DEF OnlyJob, JobOK, Writing, DirThere, TypeOK, Tree, Temp, Job, Steps, File, Absent
<1>7. Fresh' /\ Begun' /\ lost' <= files'
  BY <1>1, <1>2, <1>3 DEF Fresh, Begun, JobOK, Writing, TypeOK, Tree, Temp, Job, Steps, File, Absent
<1>8. Complete'
  BY <1>1, <1>2 DEF Complete, Whole, JobOK, Writing, TypeOK, Tree, Temp, Job, Steps, File, Absent
<1>9. NoTempLeft'
  <2>1. /\ temps' \in SUBSET (temps \cup {TempOf(job[p])})
        /\ TempOf(job[p]) \in temps' /\ (Holding(job[p]) \/ TempOf(job[p]) \notin temps) =>
             Holding(job'[p]) /\ TempOf(job'[p]) = TempOf(job[p])
        /\ lost' = lost
    BY <1>1, <1>2, <1>3 DEF Holding, TempOf, TypeOK, Tree, Temp, Job, Steps, File, Absent
  <2> QED
    BY <1>1, <1>3, <2>1, TempStep
<1> QED
  BY <1>5, <1>6, <1>7, <1>8, <1>9 DEF FileInv

LEMMA RenameStep ==
  ASSUME FileInv, NEW p \in Procs, Rename(p)
  PROVE  FileInv'
<1> USE DEF Rename, At, Trip, tree, content, history
<1>1. TypeOK /\ JobsOK /\ OwnFile /\ Fresh /\ Complete /\ Begun /\ NoTempLeft /\ lost <= files
  BY DEF FileInv
<1>2. job[p] \in Job /\ JobOK(job[p])
  BY <1>1 DEF TypeOK, JobsOK
<1>3. /\ OnlyJob(p) /\ job'[p].file = job[p].file /\ job'[p].name = job[p].name
      /\ job'[p].step = "done"
  BY <1>1, RenameMoves
<1>4. JobOK(job[p])'
  BY <1>1, <1>2, <1>3 DEF JobOK, Writing, TypeOK, Tree, Temp, Job, Steps, File, Absent
<1>5. JobsOK' /\ OwnFile'
  <2>1. files' = files /\ \A f \in File : f # job[p].file => data'[f] = data[f] /\ stable'[f] = stable[f]
    BY <1>1 DEF TypeOK
  <2> QED
    BY <1>1, <1>3, <1>4, <2>1, JobStep
<1>6. TypeOK'
  BY <1>1, <1>2, <1>3 DEF OnlyJob, JobOK, Writing, DirThere, TypeOK, Tree, Temp, Job, Steps, File, Absent
<1>7. Fresh' /\ Begun' /\ lost' <= files'
  BY <1>1, <1>2, <1>3 DEF Fresh, Begun, JobOK, Writing, TypeOK, Tree, Temp, Job, Steps, File, Absent
<1>8. Complete'
  BY <1>1, <1>2 DEF Complete, Whole, JobOK, Writing, TypeOK, Tree, Temp, Job, Steps, File, Absent
<1>9. NoTempLeft'
  <2>1. /\ temps' \in SUBSET (temps \cup {TempOf(job[p])})
        /\ TempOf(job[p]) \in temps' /\ (Holding(job[p]) \/ TempOf(job[p]) \notin temps) =>
             Holding(job'[p]) /\ TempOf(job'[p]) = TempOf(job[p])
        /\ lost' = lost
    BY <1>1, <1>2, <1>3 DEF Holding, TempOf, TypeOK, Tree, Temp, Job, Steps, File, Absent
  <2> QED
    BY <1>1, <1>3, <2>1, TempStep
<1> QED
  BY <1>5, <1>6, <1>7, <1>8, <1>9 DEF FileInv

LEMMA FailsStep ==
  ASSUME FileInv, NEW p \in Procs, Fails(p)
  PROVE  FileInv'
<1> USE DEF Fails, At, Trip, tree, content, history
<1>1. TypeOK /\ JobsOK /\ OwnFile /\ Fresh /\ Complete /\ Begun /\ NoTempLeft /\ lost <= files
  BY DEF FileInv
<1>2. job[p] \in Job /\ JobOK(job[p])
  BY <1>1 DEF TypeOK, JobsOK
<1>3. /\ OnlyJob(p) /\ job'[p].file = job[p].file /\ job'[p].name = job[p].name
      /\ job'[p].step = "undo"
  BY <1>1, FailsMoves
<1>4. JobOK(job[p])'
  BY <1>1, <1>2, <1>3 DEF JobOK, Writing, TypeOK, Tree, Temp, Job, Steps, File, Absent
<1>5. JobsOK' /\ OwnFile'
  <2>1. files' = files /\ \A f \in File : f # job[p].file => data'[f] = data[f] /\ stable'[f] = stable[f]
    BY <1>1 DEF TypeOK
  <2> QED
    BY <1>1, <1>3, <1>4, <2>1, JobStep
<1>6. TypeOK'
  BY <1>1, <1>2, <1>3 DEF OnlyJob, JobOK, Writing, DirThere, TypeOK, Tree, Temp, Job, Steps, File, Absent
<1>7. Fresh' /\ Begun' /\ lost' <= files'
  BY <1>1, <1>2, <1>3 DEF Fresh, Begun, JobOK, Writing, TypeOK, Tree, Temp, Job, Steps, File, Absent
<1>8. Complete'
  BY <1>1, <1>2 DEF Complete, Whole, JobOK, Writing, TypeOK, Tree, Temp, Job, Steps, File, Absent
<1>9. NoTempLeft'
  <2>1. /\ temps' \in SUBSET (temps \cup {TempOf(job[p])})
        /\ TempOf(job[p]) \in temps' /\ (Holding(job[p]) \/ TempOf(job[p]) \notin temps) =>
             Holding(job'[p]) /\ TempOf(job'[p]) = TempOf(job[p])
        /\ lost' = lost
    BY <1>1, <1>2, <1>3 DEF Holding, TempOf, TypeOK, Tree, Temp, Job, Steps, File, Absent
  <2> QED
    BY <1>1, <1>3, <2>1, TempStep
<1> QED
  BY <1>5, <1>6, <1>7, <1>8, <1>9 DEF FileInv

LEMMA UndoStep ==
  ASSUME FileInv, NEW p \in Procs, Undo(p)
  PROVE  FileInv'
<1> USE DEF Undo, At, Trip, tree, content, history
<1>1. TypeOK /\ JobsOK /\ OwnFile /\ Fresh /\ Complete /\ Begun /\ NoTempLeft /\ lost <= files
  BY DEF FileInv
<1>2. job[p] \in Job /\ JobOK(job[p])
  BY <1>1 DEF TypeOK, JobsOK
<1>3. /\ OnlyJob(p) /\ job'[p].file = job[p].file /\ job'[p].name = job[p].name
      /\ job'[p].step = "failed"
  BY <1>1, UndoMoves
<1>4. JobOK(job[p])'
  BY <1>1, <1>2, <1>3 DEF JobOK, Writing, TypeOK, Tree, Temp, Job, Steps, File, Absent
<1>5. JobsOK' /\ OwnFile'
  <2>1. files' = files /\ \A f \in File : f # job[p].file => data'[f] = data[f] /\ stable'[f] = stable[f]
    BY <1>1 DEF TypeOK
  <2> QED
    BY <1>1, <1>3, <1>4, <2>1, JobStep
<1>6. TypeOK'
  BY <1>1, <1>2, <1>3 DEF OnlyJob, JobOK, Writing, DirThere, TypeOK, Tree, Temp, Job, Steps, File, Absent
<1>7. Fresh' /\ Begun' /\ lost' <= files'
  BY <1>1, <1>2, <1>3 DEF Fresh, Begun, JobOK, Writing, TypeOK, Tree, Temp, Job, Steps, File, Absent
<1>8. Complete'
  BY <1>1, <1>2 DEF Complete, Whole, JobOK, Writing, TypeOK, Tree, Temp, Job, Steps, File, Absent
<1>9. NoTempLeft'
  <2>1. /\ temps' \in SUBSET (temps \cup {TempOf(job[p])})
        /\ TempOf(job[p]) \in temps' /\ (Holding(job[p]) \/ TempOf(job[p]) \notin temps) =>
             Holding(job'[p]) /\ TempOf(job'[p]) = TempOf(job[p])
        /\ lost' = lost
    BY <1>1, <1>2, <1>3 DEF Holding, TempOf, TypeOK, Tree, Temp, Job, Steps, File, Absent
  <2> QED
    BY <1>1, <1>3, <2>1, TempStep
<1> QED
  BY <1>5, <1>6, <1>7, <1>8, <1>9 DEF FileInv

LEMMA TestStep ==
  ASSUME FileInv, NEW p \in Procs, Test(p)
  PROVE  FileInv'
<1> USE DEF Test, At, Trip, tree, content, history
<1>1. TypeOK /\ JobsOK /\ OwnFile /\ Fresh /\ Complete /\ Begun /\ NoTempLeft /\ lost <= files
  BY DEF FileInv
<1>2. job[p] \in Job /\ JobOK(job[p])
  BY <1>1 DEF TypeOK, JobsOK
<1>3. /\ OnlyJob(p) /\ job'[p].file = job[p].file /\ job'[p].name = job[p].name
      /\ job'[p].step \in {"failed", "unlink"}
  BY <1>1, TestMoves
<1>4. JobOK(job[p])'
  BY <1>1, <1>2, <1>3 DEF JobOK, Writing, TypeOK, Tree, Temp, Job, Steps, File, Absent
<1>5. JobsOK' /\ OwnFile'
  <2>1. files' = files /\ \A f \in File : f # job[p].file => data'[f] = data[f] /\ stable'[f] = stable[f]
    BY <1>1 DEF TypeOK
  <2> QED
    BY <1>1, <1>3, <1>4, <2>1, JobStep
<1>6. TypeOK'
  BY <1>1, <1>2, <1>3 DEF OnlyJob, JobOK, Writing, DirThere, TypeOK, Tree, Temp, Job, Steps, File, Absent
<1>7. Fresh' /\ Begun' /\ lost' <= files'
  BY <1>1, <1>2, <1>3 DEF Fresh, Begun, JobOK, Writing, TypeOK, Tree, Temp, Job, Steps, File, Absent
<1>8. Complete'
  BY <1>1, <1>2 DEF Complete, Whole, JobOK, Writing, TypeOK, Tree, Temp, Job, Steps, File, Absent
<1>9. NoTempLeft'
  <2>1. /\ temps' \in SUBSET (temps \cup {TempOf(job[p])})
        /\ TempOf(job[p]) \in temps' /\ (Holding(job[p]) \/ TempOf(job[p]) \notin temps) =>
             Holding(job'[p]) /\ TempOf(job'[p]) = TempOf(job[p])
        /\ lost' = lost
    BY <1>1, <1>2, <1>3 DEF Holding, TempOf, TypeOK, Tree, Temp, Job, Steps, File, Absent
  <2> QED
    BY <1>1, <1>3, <2>1, TempStep
<1> QED
  BY <1>5, <1>6, <1>7, <1>8, <1>9 DEF FileInv

LEMMA UnlinkStep ==
  ASSUME FileInv, NEW p \in Procs, Unlink(p)
  PROVE  FileInv'
<1> USE DEF Unlink, At, Trip, tree, content, history
<1>1. TypeOK /\ JobsOK /\ OwnFile /\ Fresh /\ Complete /\ Begun /\ NoTempLeft /\ lost <= files
  BY DEF FileInv
<1>2. job[p] \in Job /\ JobOK(job[p])
  BY <1>1 DEF TypeOK, JobsOK
<1>3. /\ OnlyJob(p) /\ job'[p].file = job[p].file /\ job'[p].name = job[p].name
      /\ job'[p].step \in {"failed", "prune"}
  BY <1>1, UnlinkMoves
<1>4. JobOK(job[p])'
  BY <1>1, <1>2, <1>3 DEF JobOK, Writing, TypeOK, Tree, Temp, Job, Steps, File, Absent
<1>5. JobsOK' /\ OwnFile'
  <2>1. files' = files /\ \A f \in File : f # job[p].file => data'[f] = data[f] /\ stable'[f] = stable[f]
    BY <1>1 DEF TypeOK
  <2> QED
    BY <1>1, <1>3, <1>4, <2>1, JobStep
<1>6. TypeOK'
  BY <1>1, <1>2, <1>3, PathFacts DEF OnlyJob, JobOK, Writing, DirThere, TypeOK, Tree, Temp, Job, Steps, File, Absent
<1>7. Fresh' /\ Begun' /\ lost' <= files'
  BY <1>1, <1>2, <1>3 DEF Fresh, Begun, JobOK, Writing, TypeOK, Tree, Temp, Job, Steps, File, Absent
<1>8. Complete'
  BY <1>1, <1>2 DEF Complete, Whole, JobOK, Writing, TypeOK, Tree, Temp, Job, Steps, File, Absent
<1>9. NoTempLeft'
  <2>1. /\ temps' \in SUBSET (temps \cup {TempOf(job[p])})
        /\ TempOf(job[p]) \in temps' /\ (Holding(job[p]) \/ TempOf(job[p]) \notin temps) =>
             Holding(job'[p]) /\ TempOf(job'[p]) = TempOf(job[p])
        /\ lost' = lost
    BY <1>1, <1>2, <1>3 DEF Holding, TempOf, TypeOK, Tree, Temp, Job, Steps, File, Absent
  <2> QED
    BY <1>1, <1>3, <2>1, TempStep
<1> QED
  BY <1>5, <1>6, <1>7, <1>8, <1>9 DEF FileInv

LEMMA PruneStep ==
  ASSUME FileInv, NEW p \in Procs, Prune(p)
  PROVE  FileInv'
<1> USE DEF Prune, At, Trip, tree, content, history
<1>1. TypeOK /\ JobsOK /\ OwnFile /\ Fresh /\ Complete /\ Begun /\ NoTempLeft /\ lost <= files
  BY DEF FileInv
<1>2. job[p] \in Job /\ JobOK(job[p])
  BY <1>1 DEF TypeOK, JobsOK
<1>3. /\ OnlyJob(p) /\ job'[p].file = job[p].file /\ job'[p].name = job[p].name
      /\ job'[p].step \in {"prune", "done"}
  BY <1>1, PruneMoves
<1>4. JobOK(job[p])'
  BY <1>1, <1>2, <1>3 DEF JobOK, Writing, TypeOK, Tree, Temp, Job, Steps, File, Absent
<1>5. JobsOK' /\ OwnFile'
  <2>1. files' = files /\ \A f \in File : f # job[p].file => data'[f] = data[f] /\ stable'[f] = stable[f]
    BY <1>1 DEF TypeOK
  <2> QED
    BY <1>1, <1>3, <1>4, <2>1, JobStep
<1>6. TypeOK'
  BY <1>1, <1>2, <1>3, PathFacts DEF OnlyJob, JobOK, Writing, DirThere, TypeOK, Tree, Temp, Job, Steps, File, Absent
<1>7. Fresh' /\ Begun' /\ lost' <= files'
  BY <1>1, <1>2, <1>3 DEF Fresh, Begun, JobOK, Writing, TypeOK, Tree, Temp, Job, Steps, File, Absent
<1>8. Complete'
  BY <1>1, <1>2 DEF Complete, Whole, JobOK, Writing, TypeOK, Tree, Temp, Job, Steps, File, Absent
<1>9. NoTempLeft'
  <2>1. /\ temps' \in SUBSET (temps \cup {TempOf(job[p])})
        /\ TempOf(job[p]) \in temps' /\ (Holding(job[p]) \/ TempOf(job[p]) \notin temps) =>
             Holding(job'[p]) /\ TempOf(job'[p]) = TempOf(job[p])
        /\ lost' = lost
    BY <1>1, <1>2, <1>3 DEF Holding, TempOf, TypeOK, Tree, Temp, Job, Steps, File, Absent
  <2> QED
    BY <1>1, <1>3, <2>1, TempStep
<1> QED
  BY <1>5, <1>6, <1>7, <1>8, <1>9 DEF FileInv

LEMMA PruneFailsStep ==
  ASSUME FileInv, NEW p \in Procs, PruneFails(p)
  PROVE  FileInv'
<1> USE DEF PruneFails, At, Trip, tree, content, history
<1>1. TypeOK /\ JobsOK /\ OwnFile /\ Fresh /\ Complete /\ Begun /\ NoTempLeft /\ lost <= files
  BY DEF FileInv
<1>2. job[p] \in Job /\ JobOK(job[p])
  BY <1>1 DEF TypeOK, JobsOK
<1>3. /\ OnlyJob(p) /\ job'[p].file = job[p].file /\ job'[p].name = job[p].name
      /\ job'[p].step = "done"
  BY <1>1, PruneFailsMoves
<1>4. JobOK(job[p])'
  BY <1>1, <1>2, <1>3 DEF JobOK, Writing, TypeOK, Tree, Temp, Job, Steps, File, Absent
<1>5. JobsOK' /\ OwnFile'
  <2>1. files' = files /\ \A f \in File : f # job[p].file => data'[f] = data[f] /\ stable'[f] = stable[f]
    BY <1>1 DEF TypeOK
  <2> QED
    BY <1>1, <1>3, <1>4, <2>1, JobStep
<1>6. TypeOK'
  BY <1>1, <1>2, <1>3 DEF OnlyJob, JobOK, Writing, DirThere, TypeOK, Tree, Temp, Job, Steps, File, Absent
<1>7. Fresh' /\ Begun' /\ lost' <= files'
  BY <1>1, <1>2, <1>3 DEF Fresh, Begun, JobOK, Writing, TypeOK, Tree, Temp, Job, Steps, File, Absent
<1>8. Complete'
  BY <1>1, <1>2 DEF Complete, Whole, JobOK, Writing, TypeOK, Tree, Temp, Job, Steps, File, Absent
<1>9. NoTempLeft'
  <2>1. /\ temps' \in SUBSET (temps \cup {TempOf(job[p])})
        /\ TempOf(job[p]) \in temps' /\ (Holding(job[p]) \/ TempOf(job[p]) \notin temps) =>
             Holding(job'[p]) /\ TempOf(job'[p]) = TempOf(job[p])
        /\ lost' = lost
    BY <1>1, <1>2, <1>3 DEF Holding, TempOf, TypeOK, Tree, Temp, Job, Steps, File, Absent
  <2> QED
    BY <1>1, <1>3, <2>1, TempStep
<1> QED
  BY <1>5, <1>6, <1>7, <1>8, <1>9 DEF FileInv

LEMMA ReturnStep ==
  ASSUME FileInv, NEW p \in Procs, Return(p)
  PROVE  FileInv'
<1> USE DEF Return, At, tree, content, history
<1>1. TypeOK /\ JobsOK /\ OwnFile /\ Fresh /\ Complete /\ Begun /\ NoTempLeft /\ lost <= files
  BY DEF FileInv
<1>2. job[p] \in Job /\ JobOK(job[p]) /\ ~Holding(job[p])
  BY <1>1 DEF TypeOK, JobsOK, Holding
<1>3. Idle \in Job
  BY DEF Idle, Job, Steps
<1>4. OnlyJob(p) /\ job'[p] = Idle
  BY <1>1, <1>3 DEF OnlyJob, TypeOK
<1>5. JobsOK' /\ OwnFile'
  <2>1. JobOK(job[p])' /\ job'[p].file \in {job[p].file, Absent}
    BY <1>4 DEF JobOK, Idle, Writing
  <2> QED
    BY <1>1, <1>4, <2>1, JobStep
<1>6. TypeOK'
  BY <1>1, <1>4 DEF OnlyJob, TypeOK
<1>7. Fresh' /\ Begun' /\ Complete' /\ lost' <= files'
  BY <1>1 DEF Fresh, Begun, Complete, Whole
<1>8. NoTempLeft'
  <2> SUFFICES ASSUME NEW t \in temps, ~(t.file <= lost)
               PROVE  \E q \in Procs : job'[q].file = t.file /\ job'[q].name = t.name
                        /\ job'[q].step \in {"fill", "sync", "rename", "undo"}
    BY <1>1 DEF NoTempLeft
  <2>1. PICK q \in Procs : job[q].file = t.file /\ job[q].name = t.name /\ Holding(job[q])
    BY <1>1 DEF NoTempLeft, Holding
  <2>2. q # p
    BY <1>2, <2>1
  <2> QED
    BY <1>4, <2>1, <2>2 DEF OnlyJob, Holding
<1> QED
  BY <1>5, <1>6, <1>7, <1>8 DEF FileInv

LEMMA BeginStep ==
  ASSUME FileInv, NEW p \in Procs, NEW n \in Names,
         NEW step \in {"failed", "parents", "open", "test"}, Begin(p, n, step)
  PROVE  FileInv'
<1> USE DEF Begin, At, tree, content, history
<1> DEFINE f == IF step = "test" THEN Absent ELSE files + 1
           j == [step |-> step, name |-> n, at |-> 0, file |-> f]
<1>1. TypeOK /\ JobsOK /\ OwnFile /\ Fresh /\ Complete /\ Begun /\ NoTempLeft /\ lost <= files
  BY DEF FileInv
<1>2. job[p] \in Job /\ JobOK(job[p]) /\ job[p].step = "idle"
  BY <1>1 DEF TypeOK, JobsOK
<1>3. /\ files \in Nat /\ files' \in File /\ files <= files'
      /\ f # Absent => f = files' /\ f \in File /\ f > files /\ f \in 1 .. files'
  BY <1>1 DEF TypeOK, File, Absent
<1>4. j \in Job
  BY <1>3 DEF Job, Steps
<1>5. OnlyJob(p) /\ job'[p] = j
  <2>1. job' = [job EXCEPT ![p] = j]
    OBVIOUS
  <2> QED
    BY <1>1, <1>4, <2>1 DEF OnlyJob, TypeOK
<1>6. TypeOK'
  BY <1>1, <1>3, <1>5 DEF OnlyJob, TypeOK
<1>7. JobsOK'
  <2> SUFFICES ASSUME NEW q \in Procs PROVE JobOK(job[q])'
    BY DEF JobsOK
  <2>1. CASE q = p
    <3>1. step # "test" => data[f] = 0
      BY <1>1, <1>3 DEF Fresh, Absent
    <3>2. step # "test" => f # Absent
      BY <1>3 DEF Absent
    <3>3. Depth(n) \in Nat
      BY PathFacts
    <3> QED
      BY <1>3, <1>5, <2>1, <3>1, <3>2, <3>3 DEF JobOK, Writing
  <2>2. CASE q # p
    <3>1. job'[q] = job[q] /\ JobOK(job[q]) /\ job[q] \in Job
      BY <1>1, <1>5, <2>2 DEF OnlyJob, JobsOK, TypeOK
    <3> QED
      BY <1>3, <3>1 DEF JobOK, Writing, Job, File, Depth
  <2> QED
    BY <2>1, <2>2
<1>8. OwnFile'
  <2>1. \A q \in Procs : q # p => job'[q].file = job[q].file /\ (job[q].file # Absent => job[q].file <= files)
    BY <1>1, <1>5 DEF OnlyJob, JobsOK, JobOK
  <2>2. \A q \in Procs : q # p /\ f # Absent => job'[q].file # f
    BY <1>3, <2>1
  <2>3. job'[p].file = f
    BY <1>5
  <2> QED
    BY <1>1, <2>1, <2>2, <2>3 DEF OwnFile
<1>9. Fresh' /\ Begun' /\ Complete' /\ lost' <= files'
  <2>1. Fresh'
    BY <1>1, <1>3 DEF Fresh, File
  <2>2. Begun'
    <3>1. \A t \in temps \cup journal.temps : t.file \in Nat /\ t.file <= files
      BY <1>1 DEF Begun, TypeOK, Tree, Temp, File
    <3>2. temps' = temps /\ journal' = journal
      OBVIOUS
    <3> QED
      BY ONLY <1>3, <3>1, <3>2 DEF Begun, File
  <2>3. Complete'
    BY <1>1 DEF Complete, Whole
  <2>4. lost' <= files'
    BY <1>1, <1>3 DEF TypeOK, File
  <2> QED
    BY <2>1, <2>2, <2>3, <2>4
<1>10. NoTempLeft'
  <2> SUFFICES ASSUME NEW t \in temps, ~(t.file <= lost)
               PROVE  \E q \in Procs : job'[q].file = t.file /\ job'[q].name = t.name
                        /\ job'[q].step \in {"fill", "sync", "rename", "undo"}
    BY <1>1 DEF NoTempLeft
  <2>1. PICK q \in Procs : job[q].file = t.file /\ job[q].name = t.name /\ Holding(job[q])
    BY <1>1 DEF NoTempLeft, Holding
  <2>2. q # p
    BY <1>2, <2>1 DEF Holding
  <2> QED
    BY <1>5, <2>1, <2>2 DEF OnlyJob, Holding
<1> QED
  BY <1>6, <1>7, <1>8, <1>9, <1>10 DEF FileInv

LEMMA FlushStep == FileInv /\ Flush => FileInv'
<1> SUFFICES ASSUME FileInv, Flush PROVE FileInv'
  OBVIOUS
<1> USE DEF FileInv, Flush, tree, content, history
<1>1. TypeOK'
  BY DEF TypeOK, Tree
<1>2. JobsOK' /\ OwnFile' /\ Fresh' /\ NoTempLeft' /\ lost' <= files'
  BY DEF JobsOK, JobOK, OwnFile, Fresh, NoTempLeft, Depth
<1>3. Complete' /\ Begun'
  BY DEF Complete, Whole, Begun
<1> QED
  BY <1>1, <1>2, <1>3

LEMMA CrashStep == FileInv /\ Crash => FileInv'
<1> SUFFICES ASSUME FileInv, Crash PROVE FileInv'
  OBVIOUS
<1> USE DEF FileInv, Crash
<1>1. TypeOK'
  <2>1. Idle \in Job
    BY DEF Idle, Job, Steps
  <2>2. job' \in [Procs -> Job]
    BY <2>1
  <2>3. /\ dirs' \in SUBSET Dirs /\ entry' \in [Names -> File \cup {Absent}]
        /\ temps' \in SUBSET Temp /\ journal' \in Tree
    BY DEF TypeOK, Tree
  <2>4. /\ data' \in [File -> 0 .. Blocks] /\ stable' \in [File -> 0 .. Blocks]
        /\ files' \in File /\ ok' \in [Procs -> BOOLEAN]
        /\ tidy' \in BOOLEAN /\ lost' \in File
    BY DEF TypeOK
  <2>5. crashes' \in Nat
    BY DEF TypeOK
  <2> QED
    BY ONLY <2>2, <2>3, <2>4, <2>5 DEF TypeOK
<1>2. JobsOK' /\ OwnFile'
  BY DEF JobsOK, JobOK, OwnFile, Idle, Writing
<1>3. Fresh' /\ Complete' /\ lost' <= files'
  BY DEF Fresh, Complete, Whole, TypeOK, File
<1>4. Begun' /\ NoTempLeft'
  BY DEF Begun, NoTempLeft
<1> QED
  BY <1>1, <1>2, <1>3, <1>4

LEMMA FileInvStep == FileInv /\ [Next]_vars => FileInv'
<1> SUFFICES ASSUME FileInv, [Next]_vars PROVE FileInv'
  OBVIOUS
<1>1. CASE UNCHANGED vars
  BY <1>1 DEF vars, tree, content, history, FileInv, TypeOK, JobsOK, JobOK, OwnFile, Fresh,
              Complete, Whole, Begun, NoTempLeft, Depth
<1>2. ASSUME NEW p \in Procs, Step(p) PROVE FileInv'
  BY <1>2, ParentsStep, MkdirStep, OpenStep, RefusedStep, FillStep, SyncStep, RenameStep,
     FailsStep, UndoStep, TestStep, UnlinkStep, PruneStep, PruneFailsStep, ReturnStep DEF Step
<1> QED
  BY <1>1, <1>2, BeginStep, FlushStep, CrashStep DEF Next

LEMMA FileInvariant == Spec => []FileInv
  BY FileInvInit, FileInvStep, PTL DEF Spec

(***************************************************************************)
(* The theorems.                                                           *)
(***************************************************************************)

\* The variables keep their types (TypeOK of StoreFile).
THEOREM TypeCorrect == Spec => []TypeOK
<1>1. FileInv => TypeOK
  BY DEF FileInv
<1> QED
  BY <1>1, FileInvariant, PTL

\* No call of atomic_write that returns leaves its temporary file.
THEOREM TempsAreRemoved == Spec => []NoTempLeft
<1>1. FileInv => NoTempLeft
  BY DEF FileInv
<1> QED
  BY <1>1, FileInvariant, PTL

(***************************************************************************)
(* No empty directory is left.  While nothing has failed, a directory has  *)
(* an entry below it, or is on the way of a write, or of a deletion that   *)
(* stands at it or below, in a directory that is there.  The last part     *)
(* matters: of two deletions on one path the one that finds its directory  *)
(* gone gives up, and the other one has to see to the rest.                *)
(***************************************************************************)
Filled(d) == \E n \in Names : entry[n] # Absent /\ Below(n, d)

Making(j, d) ==
  /\ j.step \in {"parents", "mkdir", "open", "fill", "sync", "rename"}
  /\ Below(j.name, d)

Pruning(j, d, there) ==
  /\ j.step = "prune"
  /\ j.at \in 1 .. Depth(j.name)
  /\ Path[j.name][j.at] \in there
  /\ \E k \in 1 .. j.at : Path[j.name][k] = d

Kept(d) == Filled(d) \/ \E p \in Procs : Making(job[p], d) \/ Pruning(job[p], d, dirs)

JobTidy(j, there) ==
  /\ j.step # "undo"
  /\ j.step \in {"fill", "sync", "rename"} => TempOf(j) \in there
  /\ j.step = "prune" => j.at <= Depth(j.name)

\* what is there has its directories
Housed ==
  \A n \in Names :
    entry[n] # Absent \/ (\E t \in temps : t.name = n) =>
      \A i \in 1 .. Depth(n) : Path[n][i] \in dirs

Closed ==
  \A n \in Names : \A i \in 1 .. Depth(n) :
    Path[n][i] \in dirs => \A k \in 1 .. i : Path[n][k] \in dirs

Orderly ==
  /\ lost = 0
  /\ \A t \in temps : t.file >= 1
  /\ \A p \in Procs : JobTidy(job[p], temps)
  /\ Housed
  /\ Closed
  /\ \A d \in dirs : Kept(d)

TidyInv == tidy => Orderly

LEMMA OnePath ==
  ASSUME NEW m \in Names, NEW n \in Names, NEW i \in 1 .. Depth(m), NEW j \in 1 .. Depth(n),
         Path[m][i] = Path[n][j]
  PROVE  i = j /\ \A k \in 1 .. i : Path[m][k] = Path[n][k]
  BY PathAssumption DEF Depth

LEMMA BelowUp ==
  ASSUME NEW m \in Names, NEW n \in Names, NEW i \in 1 .. Depth(n), NEW k \in 1 .. i,
         Below(m, Path[n][i])
  PROVE  Below(m, Path[n][k])
<1>1. PICK j \in 1 .. Depth(m) : Path[m][j] = Path[n][i]
  BY DEF Below
<1>2. i = j /\ Path[m][k] = Path[n][k]
  BY <1>1, OnePath
<1>3. k \in 1 .. Depth(m)
  BY <1>2, PathFacts
<1> QED
  BY <1>2, <1>3 DEF Below

LEMMA TidyInit == Init => TidyInv
<1> SUFFICES ASSUME Init PROVE Orderly
  BY DEF TidyInv
<1>1. lost = 0 /\ temps = {} /\ \A p \in Procs : job[p].step = "idle"
  BY DEF Init, Idle
<1>2. \A d \in dirs : Filled(d)
  BY DEF Init, Filled
<1>3. \A n \in Names : entry[n] # Absent => \A i \in 1 .. Depth(n) : Path[n][i] \in dirs
  BY PathFacts DEF Init, Below
<1>4. Closed
  <2> SUFFICES ASSUME NEW n \in Names, NEW i \in 1 .. Depth(n), Path[n][i] \in dirs,
                      NEW k \in 1 .. i
               PROVE  Path[n][k] \in dirs
    BY DEF Closed
  <2>1. PICK m \in Names : entry[m] # Absent /\ Below(m, Path[n][i])
    BY <1>2 DEF Filled
  <2>2. Below(m, Path[n][k])
    BY <2>1, BelowUp
  <2> QED
    BY <2>1, <2>2, <1>3 DEF Below
<1> QED
  BY <1>1, <1>2, <1>3, <1>4 DEF Orderly, JobTidy, Housed, Kept

\* a step of p that changes nothing in the tree
LEMMA QuietStep ==
  ASSUME Orderly, NEW p \in Procs, OnlyJob(p), UNCHANGED <<dirs, entry, temps, lost>>,
         JobTidy(job'[p], temps), job[p].step # "prune",
         \A d \in dirs : Making(job[p], d) => Making(job'[p], d)
  PROVE  Orderly'
<1>1. \A q \in Procs : q # p => job'[q] = job[q]
  BY DEF OnlyJob
<1>2. \A q \in Procs : JobTidy(job'[q], temps')
  BY <1>1 DEF Orderly
<1>3. Housed' /\ Closed'
  BY DEF Orderly, Housed, Closed
<1>4. ASSUME NEW d \in dirs PROVE Kept(d)'
  <2>1. Kept(d)
    BY <1>4 DEF Orderly
  <2>2. CASE Filled(d)
    BY <2>2 DEF Kept, Filled
  <2>3. CASE \E q \in Procs : Making(job[q], d) \/ Pruning(job[q], d, dirs)
    <3>1. PICK q \in Procs : Making(job[q], d) \/ Pruning(job[q], d, dirs)
      BY <2>3
    <3>2. CASE q = p
      <4>1. Making(job'[p], d)
        BY <3>1, <3>2, <1>4 DEF Pruning
      <4> QED
        BY <4>1 DEF Kept
    <3>3. CASE q # p
      <4>1. Making(job'[q], d) \/ Pruning(job'[q], d, dirs')
        BY <3>1, <3>3, <1>1
      <4> QED
        BY <4>1 DEF Kept
    <3> QED
      BY <3>2, <3>3
  <2> QED
    BY <2>1, <2>2, <2>3 DEF Kept
<1> QED
  BY <1>2, <1>3, <1>4 DEF Orderly

LEMMA TidyQuiet ==
  ASSUME FileInv, TidyInv, NEW p \in Procs,
         \/ Parents(p) \/ Fill(p) \/ Sync(p) \/ Test(p)
         \/ At(p, "unlink") /\ UNCHANGED entry /\ Unlink(p)
  PROVE  TidyInv'
<1>1. TypeOK /\ JobsOK
  BY DEF FileInv
<1>2. UNCHANGED <<dirs, entry, temps, tidy, lost>>
  BY DEF Parents, Fill, Sync, Test, Unlink, tree, content, history
<1>3. /\ OnlyJob(p) /\ job'[p].file = job[p].file /\ job'[p].name = job[p].name
      /\ \/ job[p].step = "parents" /\ job'[p].step \in {"parents", "mkdir", "open"}
         \/ job[p].step = "fill" /\ job'[p].step \in {"fill", "sync"}
         \/ job[p].step = "sync" /\ job'[p].step = "rename"
         \/ job[p].step \in {"test", "unlink"} /\ job'[p].step = "failed"
         \/ job[p].step = "test" /\ job'[p].step = "unlink"
  <2>1. CASE Parents(p)
    BY <1>1, <2>1, ParentsMoves DEF Parents, At
  <2>2. CASE Fill(p)
    BY <1>1, <2>2, FillMoves DEF Fill, At
  <2>3. CASE Sync(p)
    BY <1>1, <2>3, SyncMoves DEF Sync, At
  <2>4. CASE Test(p)
    BY <1>1, <2>4, TestMoves DEF Test, At
  <2>5. CASE At(p, "unlink") /\ UNCHANGED entry /\ Unlink(p)
    <3>1. job[p] \in Job /\ JobOK(job[p]) /\ job[p].step = "unlink"
      BY <1>1, <2>5 DEF TypeOK, JobsOK, At
    <3>2. entry \in [Names -> File \cup {Absent}] /\ job[p].name \in Names
      BY <1>1, <3>1 DEF TypeOK, JobOK
    <3>3. Goto(p, "failed")
      BY <2>5, <3>2 DEF Unlink
    <3> QED
      BY <1>1, <3>1, <3>3, GotoFacts DEF Steps
  <2> QED
    BY <2>1, <2>2, <2>3, <2>4, <2>5
<1> SUFFICES ASSUME Orderly PROVE Orderly'
  BY <1>2 DEF TidyInv
<1>4. JobTidy(job'[p], temps)
  <2>1. JobTidy(job[p], temps)
    BY DEF Orderly
  <2> QED
    BY <1>3, <2>1 DEF JobTidy, TempOf
<1>5. job[p].step # "prune" /\ \A d \in dirs : Making(job[p], d) => Making(job'[p], d)
  BY <1>3 DEF Making
<1> QED
  BY <1>2, <1>3, <1>4, <1>5, QuietStep

\* a call begins or returns
LEMMA TidyEnds ==
  ASSUME FileInv, FileInv', TidyInv, NEW p \in Procs,
         Return(p) \/ \E n \in Names, step \in {"failed", "parents", "open", "test"} : Begin(p, n, step)
  PROVE  TidyInv'
<1>1. TypeOK /\ TypeOK'
  BY DEF FileInv
<1>2. UNCHANGED <<dirs, entry, temps, tidy, lost>>
  BY DEF Return, Begin, tree, content, history
<1>3. /\ job[p].step \in {"idle", "done", "failed"}
      /\ job'[p].step \in {"idle", "failed", "parents", "open", "test"}
      /\ \A q \in Procs : q # p => job'[q] = job[q]
  <2>1. job \in [Procs -> Job]
    BY <1>1 DEF TypeOK
  <2>2. CASE Return(p)
    BY <2>1, <2>2 DEF Return, At, Idle
  <2>3. ASSUME NEW n \in Names, NEW step \in {"failed", "parents", "open", "test"},
               Begin(p, n, step)
        PROVE  /\ job[p].step = "idle" /\ job'[p].step = step
               /\ \A q \in Procs : q # p => job'[q] = job[q]
    BY <2>1, <2>3 DEF Begin, At
  <2> QED
    BY <2>2, <2>3
<1>4. OnlyJob(p)
  BY <1>1, <1>3 DEF OnlyJob, TypeOK
<1> SUFFICES ASSUME Orderly PROVE Orderly'
  BY <1>2 DEF TidyInv
<1>5. JobTidy(job'[p], temps)
  BY <1>3 DEF JobTidy
<1>6. job[p].step # "prune" /\ \A d \in dirs : Making(job[p], d) => Making(job'[p], d)
  BY <1>3 DEF Making
<1> QED
  BY <1>2, <1>4, <1>5, <1>6, QuietStep

\* a call fails on its way: no promise after that, and there was none before
\* the temporary file of one that failed is removed
LEMMA TidyNoMore ==
  ASSUME FileInv, TidyInv, NEW p \in Procs,
         Refused(p) \/ Fails(p) \/ Undo(p) \/ PruneFails(p)
  PROVE  TidyInv'
<1>1. CASE Refused(p) \/ Fails(p) \/ PruneFails(p)
  BY <1>1 DEF Refused, Fails, PruneFails, Trip, TidyInv
<1>2. CASE Undo(p)
  <2>1. ~tidy /\ tidy' = tidy
    BY <1>2 DEF Undo, At, TidyInv, Orderly, JobTidy, history
  <2> QED
    BY <2>1 DEF TidyInv
<1> QED
  BY <1>1, <1>2

\* a temporary file is made in a directory that is there
LEMMA TidyOpen == ASSUME FileInv, TidyInv, NEW p \in Procs, Open(p) PROVE TidyInv'
<1>1. TypeOK /\ JobsOK
  BY DEF FileInv
<1>2. job[p] \in Job /\ JobOK(job[p]) /\ job[p].step = "open"
  BY <1>1 DEF TypeOK, JobsOK, Open, At
<1>3. /\ OnlyJob(p) /\ job'[p].file = job[p].file /\ job'[p].name = job[p].name
      /\ job'[p].step = "fill"
  BY <1>1, OpenMoves
<1>4. UNCHANGED <<dirs, entry, tidy, lost>> /\ temps' = temps \cup {TempOf(job[p])}
  BY DEF Open, history, TempOf
<1> SUFFICES ASSUME Orderly PROVE Orderly'
  BY <1>4 DEF TidyInv
<1>5. \A q \in Procs : q # p => job'[q] = job[q]
  BY <1>3 DEF OnlyJob
<1>6. job[p].name \in Names /\ job[p].file \in File /\ job[p].file >= 1
  BY <1>1, <1>2 DEF JobOK, Writing, TypeOK, File, Job, Absent
<1>7. \A t \in temps' : t.file >= 1
  BY <1>4, <1>6 DEF TempOf, Orderly
<1>8. \A q \in Procs : JobTidy(job'[q], temps')
  <2> SUFFICES ASSUME NEW q \in Procs PROVE JobTidy(job'[q], temps')
    OBVIOUS
  <2>1. CASE q = p
    BY <1>3, <1>4, <2>1 DEF JobTidy, TempOf
  <2>2. CASE q # p
    BY <1>4, <1>5, <2>2 DEF JobTidy, Orderly
  <2> QED
    BY <2>1, <2>2
<1>9. \A i \in 1 .. Depth(job[p].name) : Path[job[p].name][i] \in dirs
  <2> SUFFICES ASSUME NEW i \in 1 .. Depth(job[p].name)
               PROVE  Path[job[p].name][i] \in dirs
    OBVIOUS
  <2>1. Depth(job[p].name) \in Nat \ {0} /\ Depth(job[p].name) \in 1 .. Depth(job[p].name)
    BY <1>6, PathFacts
  <2>2. Path[job[p].name][Depth(job[p].name)] \in dirs
    BY <2>1 DEF Open, DirThere
  <2> QED
    BY <1>6, <2>1, <2>2 DEF Orderly, Closed
<1>10. Housed'
  <2> SUFFICES ASSUME NEW n \in Names, entry'[n] # Absent \/ (\E t \in temps' : t.name = n),
                      NEW i \in 1 .. Depth(n)
               PROVE  Path[n][i] \in dirs'
    BY DEF Housed
  <2>1. CASE n = job[p].name
    BY <1>4, <1>9, <2>1
  <2>2. CASE n # job[p].name
    <3>1. entry[n] # Absent \/ \E t \in temps : t.name = n
      BY <1>4, <2>2 DEF TempOf
    <3> QED
      BY <1>4, <3>1 DEF Orderly, Housed
  <2> QED
    BY <2>1, <2>2
<1>11. ASSUME NEW d \in dirs' PROVE Kept(d)'
  <2>1. Kept(d)
    BY <1>4, <1>11 DEF Orderly
  <2>2. CASE Filled(d)
    BY <1>4, <2>2 DEF Kept, Filled
  <2>3. CASE \E q \in Procs : Making(job[q], d) \/ Pruning(job[q], d, dirs)
    <3>1. PICK q \in Procs : Making(job[q], d) \/ Pruning(job[q], d, dirs)
      BY <2>3
    <3>2. Making(job'[q], d) \/ Pruning(job'[q], d, dirs')
      BY <1>2, <1>3, <1>4, <1>5, <3>1 DEF Making, Pruning
    <3> QED
      BY <3>2 DEF Kept
  <2> QED
    BY <2>1, <2>2, <2>3 DEF Kept
<1>12. lost' = 0 /\ Closed'
  BY <1>4 DEF Orderly, Closed
<1> QED
  BY <1>7, <1>8, <1>10, <1>11, <1>12 DEF Orderly

LEMMA TidyMkdir == ASSUME FileInv, TidyInv, NEW p \in Procs, Mkdir(p) PROVE TidyInv'
<1> DEFINE n == job[p].name
           i == job[p].at + 1
<1>1. TypeOK /\ JobsOK
  BY DEF FileInv
<1>2. job[p] \in Job /\ JobOK(job[p]) /\ job[p].step = "mkdir"
  BY <1>1 DEF TypeOK, JobsOK, Mkdir, At
<1>3. n \in Names /\ job[p].at \in Nat /\ Depth(n) \in Nat /\ i \in 1 .. Depth(n)
  BY <1>2, PathFacts DEF JobOK, Job
<1>4. UNCHANGED <<entry, temps>> /\ dirs' = dirs \cup {Path[n][i]} /\ DirThere(n, i - 1)
  BY DEF Mkdir
<1> SUFFICES ASSUME tidy' PROVE Orderly'
  BY DEF TidyInv
<1>5. Walk(p, "parents", i) /\ UNCHANGED <<tidy, lost>>
  BY DEF Mkdir, Trip, history
<1>6. /\ OnlyJob(p) /\ job'[p].name = n /\ job'[p].step = "parents"
  BY <1>1, <1>3, <1>5, WalkFacts DEF Steps
<1>7. Orderly /\ \A q \in Procs : q # p => job'[q] = job[q]
  BY <1>5, <1>6 DEF TidyInv, OnlyJob
<1> HIDE DEF n, i
<1>8. \A q \in Procs : JobTidy(job'[q], temps')
  BY <1>4, <1>6, <1>7 DEF Orderly, JobTidy
<1>9. Housed'
  BY <1>4, <1>7 DEF Orderly, Housed
<1>10. Closed'
  <2> SUFFICES ASSUME NEW m \in Names, NEW j \in 1 .. Depth(m), Path[m][j] \in dirs',
                      NEW k \in 1 .. j
               PROVE  Path[m][k] \in dirs'
    BY DEF Closed
  <2>1. CASE Path[m][j] \in dirs
    BY <1>4, <1>7, <2>1 DEF Orderly, Closed
  <2>2. CASE Path[m][j] = Path[n][i]
    <3>1. j = i /\ Path[m][k] = Path[n][k]
      BY <1>3, <2>2, OnePath
    <3>2. CASE k = i
      BY <1>4, <3>1, <3>2
    <3>3. CASE k # i
      <4>1. i - 1 \in 1 .. Depth(n) /\ k \in 1 .. i - 1 /\ i - 1 # 0
        BY <1>3, <3>1, <3>3
      <4>2. Path[n][i - 1] \in dirs
        BY <1>4, <4>1 DEF DirThere
      <4> QED
        BY <1>3, <1>4, <1>7, <3>1, <4>1, <4>2 DEF Orderly, Closed
    <3> QED
      BY <3>2, <3>3
  <2> QED
    BY <1>4, <2>1, <2>2
<1>11. ASSUME NEW d \in dirs' PROVE Kept(d)'
  <2>1. CASE d = Path[n][i]
    <3>1. Making(job'[p], d)
      BY <1>3, <1>6, <2>1 DEF Making, Below
    <3> QED
      BY <3>1 DEF Kept
  <2>2. CASE d \in dirs /\ Filled(d)
    BY <1>4, <2>2 DEF Kept, Filled
  <2>3. CASE d \in dirs /\ ~Filled(d)
    <3>1. PICK q \in Procs : Making(job[q], d) \/ Pruning(job[q], d, dirs)
      BY <1>7, <2>3 DEF Orderly, Kept
    <3>2. Making(job'[q], d) \/ Pruning(job'[q], d, dirs')
      BY <1>2, <1>4, <1>6, <1>7, <3>1 DEF Making, Pruning, n
    <3> QED
      BY <3>2 DEF Kept
  <2> QED
    BY <1>4, <2>1, <2>2, <2>3
<1>12. lost' = 0 /\ \A t \in temps' : t.file >= 1
  BY <1>4, <1>5, <1>7 DEF Orderly
<1> QED
  BY <1>8, <1>9, <1>10, <1>11, <1>12 DEF Orderly

LEMMA TidyRename == ASSUME FileInv, TidyInv, NEW p \in Procs, Rename(p) PROVE TidyInv'
<1> DEFINE n == job[p].name
<1>1. TypeOK /\ JobsOK /\ OwnFile
  BY DEF FileInv
<1>2. job[p] \in Job /\ JobOK(job[p]) /\ job[p].step = "rename"
  BY <1>1 DEF TypeOK, JobsOK, Rename, At
<1>3. n \in Names /\ job[p].file # Absent /\ entry \in [Names -> File \cup {Absent}]
  BY <1>1, <1>2 DEF JobOK, Writing, TypeOK
<1>4. /\ UNCHANGED <<dirs, tidy, lost>>
      /\ temps' = temps \ {TempOf(job[p])}
      /\ entry' = [entry EXCEPT ![n] = job[p].file]
  BY DEF Rename, history, TempOf
<1>5. /\ OnlyJob(p) /\ job'[p].step = "done" /\ \A q \in Procs : q # p => job'[q] = job[q]
  BY <1>1, RenameMoves DEF OnlyJob
<1> SUFFICES ASSUME Orderly PROVE Orderly'
  BY <1>4 DEF TidyInv
<1>6. \A m \in Names : entry[m] # Absent => entry'[m] # Absent
  BY <1>3, <1>4
<1>7. entry'[n] # Absent /\ \A m \in Names : m # n => entry'[m] = entry[m]
  BY <1>3, <1>4
<1>8. TempOf(job[p]) \in temps /\ TempOf(job[p]).name = n
  BY <1>2 DEF Orderly, JobTidy, TempOf
<1> HIDE DEF n
<1>9. \A q \in Procs : JobTidy(job'[q], temps')
  <2> SUFFICES ASSUME NEW q \in Procs PROVE JobTidy(job'[q], temps')
    OBVIOUS
  <2>1. CASE q = p
    BY <1>5, <2>1 DEF JobTidy
  <2>2. CASE q # p
    <3>1. job'[q] = job[q] /\ JobTidy(job[q], temps) /\ JobOK(job[q])
      BY <1>1, <1>5, <2>2 DEF Orderly, JobsOK
    <3>2. job[q].step \in {"fill", "sync", "rename"} => TempOf(job[q]) # TempOf(job[p])
      BY <1>1, <1>3, <2>2, <3>1 DEF OwnFile, TempOf, JobOK, Writing
    <3> QED
      BY <1>4, <3>1, <3>2 DEF JobTidy
  <2> QED
    BY <2>1, <2>2
<1>10. Housed' /\ Closed'
  BY <1>4, <1>7, <1>8 DEF Orderly, Housed, Closed
<1>11. ASSUME NEW d \in dirs' PROVE Kept(d)'
  <2>1. CASE Filled(d)
    BY <1>6, <2>1 DEF Kept, Filled
  <2>2. CASE ~Filled(d)
    <3>1. PICK q \in Procs : Making(job[q], d) \/ Pruning(job[q], d, dirs)
      BY <1>4, <1>11, <2>2 DEF Orderly, Kept
    <3>2. CASE q = p
      <4>1. Below(n, d)
        BY <1>2, <3>1, <3>2 DEF Making, Pruning, n
      <4> QED
        BY <1>3, <1>7, <4>1 DEF Kept, Filled, n
    <3>3. CASE q # p
      <4>1. Making(job'[q], d) \/ Pruning(job'[q], d, dirs')
        BY <1>4, <1>5, <3>1, <3>3
      <4> QED
        BY <4>1 DEF Kept
    <3> QED
      BY <3>2, <3>3
  <2> QED
    BY <2>1, <2>2
<1>12. lost' = 0 /\ \A t \in temps' : t.file >= 1
  BY <1>4 DEF Orderly
<1> QED
  BY <1>9, <1>10, <1>11, <1>12 DEF Orderly

\* the deletion takes over the directories that the entry has kept
LEMMA TidyUnlink ==
  ASSUME FileInv, TidyInv, NEW p \in Procs, Unlink(p), entry' # entry
  PROVE  TidyInv'
<1> DEFINE n == job[p].name
<1>1. TypeOK /\ JobsOK
  BY DEF FileInv
<1>2. job[p] \in Job /\ JobOK(job[p]) /\ job[p].step = "unlink"
  BY <1>1 DEF TypeOK, JobsOK, Unlink, At
<1>3. n \in Names /\ Depth(n) \in Nat /\ entry \in [Names -> File \cup {Absent}]
  BY <1>1, <1>2, PathFacts DEF JobOK, TypeOK
<1>4. /\ UNCHANGED <<dirs, temps, tidy, lost>>
      /\ entry[n] # Absent
      /\ entry' = [entry EXCEPT ![n] = Absent]
      /\ Walk(p, "prune", Depth(n))
  BY DEF Unlink, history
<1>5. /\ OnlyJob(p) /\ job'[p].step = "prune" /\ job'[p].at = Depth(n) /\ job'[p].name = n
      /\ \A q \in Procs : q # p => job'[q] = job[q]
  BY <1>1, <1>3, <1>4, WalkFacts DEF OnlyJob, Steps
<1> SUFFICES ASSUME Orderly PROVE Orderly'
  BY <1>4 DEF TidyInv
<1>6. \A m \in Names : m # n => entry'[m] = entry[m]
  BY <1>3, <1>4
<1>7. entry'[n] = Absent /\ \A i \in 1 .. Depth(n) : Path[n][i] \in dirs
  BY <1>3, <1>4 DEF Orderly, Housed
<1> HIDE DEF n
<1>8. \A q \in Procs : JobTidy(job'[q], temps')
  BY <1>3, <1>4, <1>5 DEF Orderly, JobTidy
<1>9. Housed' /\ Closed'
  BY <1>4, <1>6, <1>7 DEF Orderly, Housed, Closed
<1>10. ASSUME NEW d \in dirs' PROVE Kept(d)'
  <2>1. CASE Below(n, d)
    <3>1. PICK k \in 1 .. Depth(n) : Path[n][k] = d
      BY <2>1 DEF Below
    <3>2. Depth(n) \in 1 .. Depth(n)
      BY <1>3, <3>1
    <3>3. Pruning(job'[p], d, dirs')
      BY <1>4, <1>5, <1>7, <3>1, <3>2 DEF Pruning
    <3> QED
      BY <3>3 DEF Kept
  <2>2. CASE Filled(d) /\ ~Below(n, d)
    BY <1>6, <2>2 DEF Kept, Filled
  <2>3. CASE ~Filled(d)
    <3>1. PICK q \in Procs : Making(job[q], d) \/ Pruning(job[q], d, dirs)
      BY <1>4, <1>10, <2>3 DEF Orderly, Kept
    <3>2. q # p
      BY <1>2, <3>1 DEF Making, Pruning
    <3>3. Making(job'[q], d) \/ Pruning(job'[q], d, dirs')
      BY <1>4, <1>5, <3>1, <3>2
    <3> QED
      BY <3>3 DEF Kept
  <2> QED
    BY <2>1, <2>2, <2>3
<1>11. lost' = 0 /\ \A t \in temps' : t.file >= 1
  BY <1>4 DEF Orderly
<1> QED
  BY <1>8, <1>9, <1>10, <1>11 DEF Orderly

\* a directory that another one is in, or a file, keeps what it keeps
LEMMA KeptWhenUsed ==
  ASSUME FileInv, Orderly, NEW p \in Procs, job[p].step = "prune",
         NEW k \in 1 .. job[p].at, job[p].at \in 1 .. Depth(job[p].name),
         Path[job[p].name][job[p].at] \in dirs, ~EmptyDir(Path[job[p].name][job[p].at])
  PROVE  LET d == Path[job[p].name][k]
         IN  \/ Filled(d)
             \/ \E q \in Procs \ {p} : Making(job[q], d) \/ Pruning(job[q], d, dirs)
<1> DEFINE n == job[p].name
           i == job[p].at
           d == Path[n][k]
<1>1. TypeOK /\ JobsOK /\ NoTempLeft /\ n \in Names
  BY DEF FileInv, JobsOK, JobOK
<1>2. i \in 1 .. Depth(n) /\ k \in 1 .. i /\ job[p].step = "prune"
  OBVIOUS
<1>3. PICK m \in Names :
        \/ Below(m, Path[n][i]) /\ (entry[m] # Absent \/ \E t \in temps : t.name = m)
        \/ \E j \in 1 .. Depth(m) - 1 : Path[m][j] = Path[n][i] /\ Path[m][j + 1] \in dirs
  BY DEF EmptyDir
<1> HIDE DEF n, i
<1> SUFFICES Filled(d) \/ \E q \in Procs \ {p} : Making(job[q], d) \/ Pruning(job[q], d, dirs)
  BY DEF n
<1>4. CASE Below(m, Path[n][i]) /\ entry[m] # Absent
  BY <1>1, <1>2, <1>4, BelowUp DEF Filled
<1>5. CASE Below(m, Path[n][i]) /\ \E t \in temps : t.name = m
  <2>1. PICK t \in temps : t.name = m
    BY <1>5
  <2>2. ~(t.file <= lost)
    BY <1>1, <2>1 DEF Orderly, TypeOK, Temp, File
  <2>3. PICK q \in Procs : job[q].name = m /\ job[q].step \in {"fill", "sync", "rename", "undo"}
    BY <1>1, <2>1, <2>2 DEF NoTempLeft
  <2>4. job[q].step # "undo" /\ q # p
    BY <1>2, <2>3 DEF Orderly, JobTidy
  <2>5. Below(m, d)
    BY <1>1, <1>2, <1>5, BelowUp
  <2> QED
    BY <2>3, <2>4, <2>5 DEF Making
<1>6. CASE \E j \in 1 .. Depth(m) - 1 : Path[m][j] = Path[n][i] /\ Path[m][j + 1] \in dirs
  <2>1. PICK j \in 1 .. Depth(m) - 1 : Path[m][j] = Path[n][i] /\ Path[m][j + 1] \in dirs
    BY <1>6
  <2>2. Depth(m) \in Nat /\ j \in 1 .. Depth(m) /\ j + 1 \in 1 .. Depth(m)
    BY PathFacts
  <2>3. j = i /\ Path[m][k] = d
    BY <1>1, <1>2, <2>1, <2>2, OnePath
  <2>4. k \in 1 .. j + 1 /\ k \in 1 .. j
    BY <1>2, <2>2, <2>3
  <2>5. \A o \in Names : Below(o, Path[m][j + 1]) => Below(o, d)
    BY <2>2, <2>3, <2>4, BelowUp
  <2>6. CASE Filled(Path[m][j + 1])
    BY <2>5, <2>6 DEF Filled
  <2>7. CASE ~Filled(Path[m][j + 1])
    <3>1. PICK q \in Procs : \/ Making(job[q], Path[m][j + 1])
                             \/ Pruning(job[q], Path[m][j + 1], dirs)
      BY <2>1, <2>7 DEF Orderly, Kept
    <3>2. job[q].name \in Names
      BY <1>1, <3>1 DEF JobsOK, JobOK, Making, Pruning
    <3>3. CASE Making(job[q], Path[m][j + 1])
      <4>1. q # p
        BY <1>2, <3>3 DEF Making
      <4> QED
        BY <2>5, <3>2, <3>3, <4>1 DEF Making
    <3>4. CASE Pruning(job[q], Path[m][j + 1], dirs)
      <4> DEFINE o == job[q].name
      <4>1. PICK l \in 1 .. job[q].at : Path[o][l] = Path[m][j + 1]
        BY <3>4 DEF Pruning
      <4>2. job[q].at \in 1 .. Depth(o) /\ l \in 1 .. Depth(o)
        <5>1. Depth(o) \in Nat
          BY <3>2, PathFacts
        <5>2. job[q].at \in 1 .. Depth(o)
          BY ONLY <3>4 DEF Pruning
        <5>3. l \in 1 .. Depth(o)
          BY ONLY <5>1, <5>2, l \in 1 .. job[q].at
        <5> QED
          BY ONLY <5>2, <5>3
      <4>3. j + 1 = l /\ Path[m][k] = Path[o][k]
        <5> HIDE DEF o
        <5>1. l = j + 1 /\ \A h \in 1 .. l : Path[o][h] = Path[m][h]
          BY ONLY <2>2, <3>2, <4>1, <4>2, m \in Names, OnePath DEF o
        <5> QED
          BY ONLY <2>4, <5>1
      <4>4. q # p
        BY <1>2, <2>3, <4>1, <4>3 DEF i
      <4>5. k \in 1 .. job[q].at
        BY <2>4, <4>1, <4>2, <4>3
      <4>6. Pruning(job[q], d, dirs)
        BY <2>3, <3>4, <4>3, <4>5 DEF Pruning
      <4> QED
        BY <4>4, <4>6
    <3> QED
      BY <3>1, <3>3, <3>4
  <2> QED
    BY <2>6, <2>7
<1> QED
  BY <1>3, <1>4, <1>5, <1>6

\* rmdir of an empty directory: the deletion goes on above it
LEMMA TidyPruned ==
  ASSUME FileInv, TidyInv, NEW p \in Procs, Prune(p),
         job[p].at > 0, EmptyDir(Path[job[p].name][job[p].at])
  PROVE  TidyInv'
<1> DEFINE n == job[p].name
           i == job[p].at
<1>1. TypeOK /\ JobsOK
  BY DEF FileInv
<1>2. job[p] \in Job /\ JobOK(job[p]) /\ job[p].step = "prune"
  BY <1>1 DEF TypeOK, JobsOK, Prune, At
<1>3. /\ UNCHANGED <<entry, temps, tidy, lost>>
      /\ dirs' = dirs \ {Path[n][i]} /\ Walk(p, "prune", i - 1) /\ EmptyDir(Path[n][i])
  BY DEF Prune, history
<1> SUFFICES ASSUME Orderly PROVE Orderly'
  BY <1>3 DEF TidyInv
<1>4. n \in Names /\ Depth(n) \in Nat /\ i \in 1 .. Depth(n) /\ i - 1 \in Nat
  BY <1>2, PathFacts DEF JobOK, Job, Orderly, JobTidy
<1>5. /\ OnlyJob(p) /\ job'[p].step = "prune" /\ job'[p].at = i - 1 /\ job'[p].name = n
      /\ \A q \in Procs : q # p => job'[q] = job[q]
  BY <1>1, <1>3, <1>4, WalkFacts DEF OnlyJob, Steps
<1>6. i = job[p].at /\ n = job[p].name
  OBVIOUS
<1> HIDE DEF n, i
<1>7. \A q \in Procs : JobTidy(job'[q], temps')
  BY <1>3, <1>4, <1>5 DEF Orderly, JobTidy
<1>8. Housed'
  BY <1>3 DEF Orderly, Housed, EmptyDir, Below
<1>9. Closed'
  <2> SUFFICES ASSUME NEW m \in Names, NEW j \in 1 .. Depth(m), Path[m][j] \in dirs',
                      NEW k \in 1 .. j
               PROVE  Path[m][k] \in dirs'
    BY DEF Closed
  <2>1. Path[m][j] \in dirs /\ \A l \in 1 .. j : Path[m][l] \in dirs
    BY <1>3 DEF Orderly, Closed
  <2>2. ASSUME Path[m][k] = Path[n][i] PROVE FALSE
    <3>1. k # j
      BY <1>3, <2>2
    <3>2. k \in 1 .. Depth(m) - 1 /\ k + 1 \in 1 .. j
      BY <3>1, PathFacts
    <3> QED
      BY <1>3, <2>1, <2>2, <3>2 DEF EmptyDir
  <2> QED
    BY <1>3, <2>1, <2>2
<1>10. ASSUME NEW k \in 1 .. i, Path[n][k] \in dirs' PROVE Pruning(job'[p], Path[n][k], dirs')
  <2>1. k # i
    BY <1>3, <1>10
  <2>2. i - 1 \in 1 .. Depth(n) /\ i - 1 \in 1 .. i /\ k \in 1 .. i - 1
    BY <1>4, <2>1
  <2>3. Path[n][i - 1] \in dirs
    BY <1>3, <1>4, <2>2 DEF EmptyDir, Orderly, Closed
  <2>4. Path[n][i - 1] # Path[n][i]
    BY <1>4, <2>2, OnePath
  <2> QED
    BY <1>3, <1>5, <2>2, <2>3, <2>4 DEF Pruning
<1>11. ASSUME NEW d \in dirs' PROVE Kept(d)'
  <2>1. CASE Filled(d)
    BY <1>3, <2>1 DEF Kept, Filled
  <2>2. CASE ~Filled(d)
    <3>1. PICK q \in Procs : Making(job[q], d) \/ Pruning(job[q], d, dirs)
      BY <1>3, <1>11, <2>2 DEF Orderly, Kept
    <3>2. CASE Making(job[q], d)
      BY <1>2, <1>5, <3>2 DEF Making, Kept
    <3>3. CASE Pruning(job[q], d, dirs) /\ Path[job[q].name][job[q].at] = Path[n][i]
      <4>1. job[q].name \in Names /\ job[q].at \in 1 .. Depth(job[q].name)
        BY <1>1, <3>3 DEF JobsOK, JobOK, Pruning
      <4>2. job[q].at = i /\ \A k \in 1 .. i : Path[job[q].name][k] = Path[n][k]
        <5>1. n \in Names /\ i \in 1 .. Depth(n)
          BY <1>4
        <5>2. Path[job[q].name][job[q].at] = Path[n][i]
          BY <3>3
        <5>3. PICK o \in Names : o = job[q].name
          BY ONLY <4>1
        <5>4. PICK h \in 1 .. Depth(o) : h = job[q].at
          BY ONLY <4>1, <5>3
        <5>5. h = i /\ \A k \in 1 .. h : Path[o][k] = Path[n][k]
          BY ONLY <5>1, <5>2, <5>3, <5>4, OnePath
        <5> QED
          BY ONLY <5>3, <5>4, <5>5
      <4>3. PICK k \in 1 .. i : d = Path[n][k]
        BY <3>3, <4>2 DEF Pruning
      <4>4. Pruning(job'[p], d, dirs')
        BY <1>10, <1>11, <4>3
      <4> QED
        BY <4>4 DEF Kept
    <3>4. CASE Pruning(job[q], d, dirs) /\ Path[job[q].name][job[q].at] # Path[n][i]
      <4>1. q # p
        BY <1>6, <3>4
      <4>2. Pruning(job'[q], d, dirs')
        BY <1>3, <1>5, <3>4, <4>1 DEF Pruning
      <4> QED
        BY <4>2 DEF Kept
    <3> QED
      BY <3>1, <3>2, <3>3, <3>4
  <2> QED
    BY <2>1, <2>2
<1>12. lost' = 0 /\ \A t \in temps' : t.file >= 1
  BY <1>3 DEF Orderly
<1> QED
  BY <1>7, <1>8, <1>9, <1>11, <1>12 DEF Orderly

\* rmdir of a directory that is used, or gone: the deletion ends
LEMMA TidyPruneEnds ==
  ASSUME FileInv, TidyInv, NEW p \in Procs, Prune(p),
         ~(job[p].at > 0 /\ EmptyDir(Path[job[p].name][job[p].at]))
  PROVE  TidyInv'
<1>1. TypeOK /\ JobsOK
  BY DEF FileInv
<1>2. UNCHANGED <<dirs, entry, temps, tidy, lost>> /\ Goto(p, "done") /\ job[p].step = "prune"
  BY DEF Prune, history, At
<1>3. /\ OnlyJob(p) /\ job'[p].step = "done" /\ \A q \in Procs : q # p => job'[q] = job[q]
  BY <1>1, <1>2, GotoFacts DEF OnlyJob, Steps
<1> SUFFICES ASSUME Orderly PROVE Orderly'
  BY <1>2 DEF TidyInv
<1>4. \A q \in Procs : JobTidy(job'[q], temps')
  BY <1>2, <1>3 DEF Orderly, JobTidy
<1>5. Housed' /\ Closed'
  BY <1>2 DEF Orderly, Housed, Closed
<1>6. ASSUME NEW d \in dirs'
      PROVE  Filled(d) \/ \E q \in Procs \ {p} : Making(job[q], d) \/ Pruning(job[q], d, dirs)
  <2>1. Kept(d)
    BY <1>2, <1>6 DEF Orderly
  <2>2. CASE Pruning(job[p], d, dirs)
    <3>1. PICK k \in 1 .. job[p].at : Path[job[p].name][k] = d
      BY <2>2 DEF Pruning
    <3>2. job[p].at \in 1 .. Depth(job[p].name) /\ Path[job[p].name][job[p].at] \in dirs
      BY <2>2 DEF Pruning
    <3>3. job[p].at > 0
      BY <3>2, <1>1, PathFacts, <1>2 DEF JobsOK, JobOK
    <3> QED
      BY <1>2, <3>1, <3>2, <3>3, KeptWhenUsed
  <2>3. CASE ~Pruning(job[p], d, dirs)
    BY <1>2, <2>1, <2>3 DEF Kept, Making
  <2> QED
    BY <2>2, <2>3
<1>7. ASSUME NEW d \in dirs' PROVE Kept(d)'
  <2>1. Filled(d) => Filled(d)'
    BY <1>2 DEF Filled
  <2>2. \A q \in Procs \ {p} : Making(job[q], d) \/ Pruning(job[q], d, dirs) =>
                               Making(job'[q], d) \/ Pruning(job'[q], d, dirs')
    BY <1>2, <1>3
  <2> QED
    BY <1>6, <1>7, <2>1, <2>2 DEF Kept
<1>8. lost' = 0 /\ \A t \in temps' : t.file >= 1
  BY <1>2 DEF Orderly
<1> QED
  BY <1>4, <1>5, <1>7, <1>8 DEF Orderly

LEMMA TidyStep == FileInv /\ FileInv' /\ TidyInv /\ [Next]_vars => TidyInv'
<1> SUFFICES ASSUME FileInv, FileInv', TidyInv, [Next]_vars PROVE TidyInv'
  OBVIOUS
<1>1. CASE UNCHANGED vars \/ Flush
  BY <1>1 DEF vars, tree, content, history, Flush, TidyInv, Orderly, JobTidy, Housed, Closed,
              Kept, Filled
<1>2. CASE Crash
  BY <1>2 DEF Crash, TidyInv
<1>3. ASSUME NEW p \in Procs, Step(p) PROVE TidyInv'
  <2>1. CASE Unlink(p)
    <3>1. At(p, "unlink")
      BY <2>1 DEF Unlink
    <3> QED
      BY <2>1, <3>1, TidyUnlink, TidyQuiet
  <2>2. CASE Prune(p)
    BY <2>2, TidyPruned, TidyPruneEnds
  <2> QED
    BY <1>3, <2>1, <2>2, TidyQuiet, TidyEnds, TidyNoMore, TidyOpen, TidyMkdir, TidyRename DEF Step
<1>4. ASSUME NEW p \in Procs,
             \E n \in Names, step \in {"failed", "parents", "open", "test"} : Begin(p, n, step)
      PROVE  TidyInv'
  BY <1>4, TidyEnds
<1> QED
  BY <1>1, <1>2, <1>3, <1>4 DEF Next

\* Deleting leaves no empty directory, and neither do writes that race with it,
\* while no call fails on its way (the loop of g_rmdir in
\* passfl_store_delete_entry, make_parents): NoEmptyDirs of StoreFile.
THEOREM DirsArePruned == Spec => []NoEmptyDirs
<1>1. FileInv /\ TidyInv => NoEmptyDirs
  BY DEF TidyInv, Orderly, Kept, Filled, Making, Pruning, NoEmptyDirs
<1>2. Spec => []TidyInv
  <2>1. FileInv /\ FileInv' /\ TidyInv /\ [Next]_vars => TidyInv'
    BY TidyStep
  <2> QED
    BY <2>1, TidyInit, FileInvariant, PTL DEF Spec
<1> QED
  BY <1>1, <1>2, FileInvariant, PTL

(***************************************************************************)
(* StoreFile implements AtomicStore.                                       *)
(***************************************************************************)

AMem  == [n \in Names |-> Said(entry[n], data)]
ADisk == [n \in Names |-> Said(journal.entry[n], stable)]
ACall == [p \in Procs |-> CallOf(p)]
ANone == [name |-> None, text |-> Absent, done |-> FALSE]

\* a complete file says what it is, and nothing it says is Torn
LEMMA SaidWhole ==
  ASSUME FileInv
  PROVE  AMem = entry /\ ADisk = journal.entry
  BY DEF FileInv, AMem, ADisk, Said, Complete, Whole, TypeOK, Tree

LEMMA CallShape ==
  ASSUME FileInv, NEW p \in Procs
  PROVE  /\ CallOf(p) = ANone <=> job[p].step = "idle"
         /\ job[p].step # "idle" => CallOf(p).done = (job[p].step \in {"prune", "done"})
         /\ job[p].step # "idle" => CallOf(p).name = job[p].name /\ job[p].name \in Names
         /\ job[p].step # "idle" => CallOf(p).text = job[p].file
         /\ job[p].file \in File \cup {Absent}
  BY DEF FileInv, JobsOK, JobOK, CallOf, ANone, TypeOK, Job

LEMMA RefinesInit == Init => Abstract!Init
<1> SUFFICES ASSUME Init PROVE Abstract!Init
  OBVIOUS
<1>1. FileInv
  BY FileInvInit
<1>2. AMem = entry /\ ADisk = entry
  BY <1>1, SaidWhole DEF Init
<1>3. ACall = [p \in Procs |-> ANone]
  BY DEF ACall, CallOf, ANone, Init, Idle
<1>4. entry \in [Names -> File \cup {Absent}]
  BY <1>1 DEF FileInv, TypeOK
<1> QED
  BY <1>2, <1>3, <1>4 DEF Abstract!Init, Abstract!NoCall, AMem, ADisk, ACall, ANone, Init

\* a step of p that does not act is a stutter
LEMMA RefinesQuiet ==
  ASSUME FileInv, FileInv', NEW p \in Procs, OnlyJob(p),
         job'[p].name = job[p].name, job'[p].file = job[p].file,
         job[p].step # "idle", job'[p].step # "idle",
         job'[p].step \in {"prune", "done"} <=> job[p].step \in {"prune", "done"},
         entry' = entry, journal' = journal, ok' = ok
  PROVE  UNCHANGED Abstract!vars
<1>1. AMem' = AMem /\ ADisk' = ADisk
  <2>1. AMem' = entry' /\ ADisk' = journal'.entry
    BY DEF FileInv, AMem, ADisk, Said, Complete, Whole, TypeOK, Tree
  <2> QED
    BY <2>1, SaidWhole
<1>2. CallOf(p)' = CallOf(p)
  BY DEF CallOf
<1>3. ACall' = ACall
  BY <1>2 DEF ACall, CallOf, OnlyJob
<1> QED
  BY <1>1, <1>3 DEF Abstract!vars, AMem, ADisk, ACall

\* a step of p that gives its entry the file of its call, or no file
LEMMA RefinesAct ==
  ASSUME FileInv, FileInv', NEW p \in Procs, OnlyJob(p),
         job'[p].name = job[p].name, job'[p].file = job[p].file,
         job[p].step \notin {"idle", "prune", "done"}, job'[p].step \in {"prune", "done"},
         job[p].file = Absent => entry[job[p].name] # Absent,
         entry' = [entry EXCEPT ![job[p].name] = job[p].file],
         journal' = journal, ok' = ok
  PROVE  Abstract!Act(p)
<1>1. AMem = entry /\ ADisk = journal.entry
  BY SaidWhole
<1>2. AMem' = entry' /\ ADisk' = journal'.entry
  BY DEF FileInv, AMem, ADisk, Said, Complete, Whole, TypeOK, Tree
<1>3. /\ job[p].name \in Names /\ CallOf(p).name = job[p].name
      /\ CallOf(p).text = job[p].file
  BY CallShape
<1>4. CallOf(p) # ANone
  BY CallShape
<1>5. ~CallOf(p).done /\ CallOf(p)' = [CallOf(p) EXCEPT !.done = TRUE]
  <2>1. (job[p].step \in {"prune", "done"}) = FALSE /\ (job'[p].step \in {"prune", "done"}) = TRUE
    OBVIOUS
  <2>2. CallOf(p) = [name |-> job[p].name, text |-> job[p].file, done |-> FALSE]
    BY <2>1 DEF CallOf
  <2>3. CallOf(p)' = [name |-> job[p].name, text |-> job[p].file, done |-> TRUE]
    BY <2>1 DEF CallOf
  <2>4. ~CallOf(p).done
    BY <2>2
  <2>5. CallOf(p)' = [CallOf(p) EXCEPT !.done = TRUE]
    <3> DEFINE S == [name : Names, text : File \cup {Absent}, done : BOOLEAN]
               c == [CallOf(p) EXCEPT !.done = TRUE]
    <3>1. CallOf(p) \in S /\ CallOf(p)' \in S
      BY <1>3, <2>2, <2>3, CallShape
    <3>2. c \in S /\ c.name = CallOf(p).name /\ c.text = CallOf(p).text /\ c.done = TRUE
      BY <3>1
    <3>3. CallOf(p)'.name = CallOf(p).name /\ CallOf(p)'.text = CallOf(p).text /\ CallOf(p)'.done = TRUE
      BY <2>2, <2>3
    <3> HIDE DEF c
    <3> QED
      BY <3>1, <3>2, <3>3 DEF c
  <2> QED
    BY <2>4, <2>5
<1>6. ACall' = [ACall EXCEPT ![p].done = TRUE]
  BY <1>5 DEF ACall, CallOf, OnlyJob
<1>7. ACall[p] = CallOf(p)
  BY DEF ACall
<1>8. AMem' = [AMem EXCEPT ![ACall[p].name] = ACall[p].text]
  BY <1>1, <1>2, <1>3, <1>7
<1>9. ACall[p].text = Absent => AMem[ACall[p].name] # Absent
  BY <1>1, <1>3, <1>7
<1>10. ADisk' = ADisk
  BY <1>1, <1>2
<1>11. ACall[p] # ANone /\ ~ACall[p].done
  BY <1>4, <1>5, <1>7
<1> QED
  BY <1>6, <1>8, <1>9, <1>10, <1>11
     DEF Abstract!Act, Abstract!NoCall, ANone, AMem, ADisk, ACall

LEMMA RefinesStep == FileInv /\ FileInv' /\ [Next]_vars => [Abstract!Next]_(Abstract!vars)
<1> SUFFICES ASSUME FileInv, FileInv', [Next]_vars
             PROVE  Abstract!Next \/ UNCHANGED Abstract!vars
  OBVIOUS
<1> USE DEF At, Trip, tree, content, history
<1>1. AMem = entry /\ ADisk = journal.entry
  BY SaidWhole
<1>2. AMem' = entry' /\ ADisk' = journal'.entry
  BY DEF FileInv, AMem, ADisk, Said, Complete, Whole, TypeOK, Tree
<1>3. TypeOK /\ TypeOK'
  BY DEF FileInv
<1>4. CASE UNCHANGED vars
  BY <1>4 DEF vars, Abstract!vars, CallOf, Said
<1>5. ASSUME NEW p \in Procs, NEW n \in Names,
             NEW step \in {"failed", "parents", "open", "test"}, Begin(p, n, step)
      PROVE  \E text \in File \cup {Absent} : Abstract!Ask(p, n, text)
  <2> DEFINE f == IF step = "test" THEN Absent ELSE files + 1
  <2>1. f \in File \cup {Absent}
    BY <1>3, <1>5 DEF Begin, TypeOK
  <2>2. job' = [job EXCEPT ![p] = [step |-> step, name |-> n, at |-> 0, file |-> f]]
    BY <1>5 DEF Begin
  <2>3. ACall' = [ACall EXCEPT ![p] = [name |-> n, text |-> f, done |-> FALSE]]
    <3>1. job'[p] = [step |-> step, name |-> n, at |-> 0, file |-> f] /\ \A q \in Procs : q # p => job'[q] = job[q]
      BY <1>3, <2>2 DEF TypeOK
    <3>2. (job'[p].step \in {"prune", "done"}) = FALSE /\ job'[p].step # "idle"
      BY <3>1
    <3>3. CallOf(p)' = [name |-> n, text |-> f, done |-> FALSE]
      <4>1. job'[p].name = n /\ job'[p].file = f
        BY <3>1
      <4> HIDE DEF f
      <4> QED
        BY <3>2, <4>1 DEF CallOf
    <3> QED
      BY <3>1, <3>3 DEF ACall, CallOf
  <2>4. ACall[p] = ANone
    BY <1>5 DEF ACall, CallOf, ANone, Begin
  <2>5. AMem' = AMem /\ ADisk' = ADisk /\ ok' = [ok EXCEPT ![p] = FALSE]
    BY <1>1, <1>2, <1>5 DEF Begin
  <2>6. Abstract!Ask(p, n, f)
    BY <2>3, <2>4, <2>5 DEF Abstract!Ask, Abstract!NoCall, ANone, ACall, AMem, ADisk
  <2> QED
    BY <2>1, <2>6
<1>6. ASSUME NEW p \in Procs, Parents(p) PROVE UNCHANGED Abstract!vars
  BY <1>3, <1>6, ParentsMoves, RefinesQuiet DEF Parents, FileInv
<1>7. ASSUME NEW p \in Procs, Mkdir(p) PROVE UNCHANGED Abstract!vars
  BY <1>3, <1>7, MkdirMoves, RefinesQuiet DEF Mkdir, FileInv
<1>8. ASSUME NEW p \in Procs, Open(p) PROVE UNCHANGED Abstract!vars
  BY <1>3, <1>8, OpenMoves, RefinesQuiet DEF Open, FileInv
<1>9. ASSUME NEW p \in Procs, Refused(p) PROVE UNCHANGED Abstract!vars
  BY <1>3, <1>9, RefusedMoves, RefinesQuiet DEF Refused, FileInv
<1>10. ASSUME NEW p \in Procs, Fill(p) PROVE UNCHANGED Abstract!vars
  BY <1>3, <1>10, FillMoves, RefinesQuiet DEF Fill, FileInv
<1>11. ASSUME NEW p \in Procs, Sync(p) PROVE UNCHANGED Abstract!vars
  BY <1>3, <1>11, SyncMoves, RefinesQuiet DEF Sync, FileInv
<1>12. ASSUME NEW p \in Procs, Fails(p) PROVE UNCHANGED Abstract!vars
  BY <1>3, <1>12, FailsMoves, RefinesQuiet DEF Fails, FileInv
<1>13. ASSUME NEW p \in Procs, Undo(p) PROVE UNCHANGED Abstract!vars
  BY <1>3, <1>13, UndoMoves, RefinesQuiet DEF Undo, FileInv
<1>14. ASSUME NEW p \in Procs, Test(p) PROVE UNCHANGED Abstract!vars
  BY <1>3, <1>14, TestMoves, RefinesQuiet DEF Test, FileInv
<1>15. ASSUME NEW p \in Procs, Prune(p) PROVE UNCHANGED Abstract!vars
  BY <1>3, <1>15, PruneMoves, RefinesQuiet DEF Prune, FileInv
<1>16. ASSUME NEW p \in Procs, PruneFails(p) PROVE UNCHANGED Abstract!vars
  BY <1>3, <1>16, PruneFailsMoves, RefinesQuiet DEF PruneFails, FileInv
<1>17. ASSUME NEW p \in Procs, Rename(p) PROVE Abstract!Act(p)
  <2>1. job[p].file # Absent
    BY <1>17 DEF Rename, FileInv, JobsOK, JobOK, Writing
  <2> QED
    BY <1>3, <1>17, <2>1, RenameMoves, RefinesAct DEF Rename, FileInv
<1>18. ASSUME NEW p \in Procs, Unlink(p) PROVE Abstract!Act(p) \/ UNCHANGED Abstract!vars
  <2>1. job[p].file = Absent
    BY <1>18 DEF Unlink, FileInv, JobsOK, JobOK
  <2>2. /\ OnlyJob(p) /\ job'[p].file = job[p].file /\ job'[p].name = job[p].name
        /\ job[p].step = "unlink" /\ journal' = journal /\ ok' = ok
    BY <1>18, UnlinkMoves DEF Unlink, FileInv
  <2>3. CASE /\ entry[job[p].name] # Absent
             /\ entry' = [entry EXCEPT ![job[p].name] = Absent]
             /\ Walk(p, "prune", Depth(job[p].name))
    <3>1. job[p].name \in Names
      BY <2>2 DEF FileInv, JobsOK, JobOK
    <3>2. job'[p].step = "prune"
      BY <1>3, <2>3, <3>1, PathFacts, WalkFacts DEF Steps
    <3> QED
      BY <2>1, <2>2, <2>3, <3>2, RefinesAct
  <2>4. CASE Goto(p, "failed") /\ entry' = entry
    <3>1. job'[p].step = "failed"
      BY <1>3, <2>4, GotoFacts DEF Steps
    <3> QED
      BY <2>2, <2>4, <3>1, RefinesQuiet
  <2> QED
    BY <1>18, <2>3, <2>4 DEF Unlink
<1>19. ASSUME NEW p \in Procs, Return(p) PROVE Abstract!Answer(p)
  <2>1. ACall[p] = CallOf(p) /\ CallOf(p) # ANone
    BY <1>19, CallShape DEF ACall, Return
  <2>2. CallOf(p).done = At(p, "done")
    <3>1. CASE job[p].step = "done"
      <4>1. (job[p].step \in {"prune", "done"}) = TRUE /\ (job[p].step = "done") = TRUE
        BY <3>1
      <4> QED
        BY <3>1, <4>1 DEF CallOf
    <3>2. CASE job[p].step = "failed"
      <4>1. (job[p].step \in {"prune", "done"}) = FALSE /\ (job[p].step = "done") = FALSE
        BY <3>2
      <4> QED
        BY <3>2, <4>1 DEF CallOf
    <3> QED
      BY <1>19, <3>1, <3>2 DEF Return
  <2>3. ACall' = [ACall EXCEPT ![p] = ANone]
    BY <1>3, <1>19 DEF Return, ACall, CallOf, ANone, Idle, TypeOK
  <2>4. AMem' = AMem /\ ADisk' = ADisk
    BY <1>1, <1>2, <1>19 DEF Return
  <2>5. ok' = [ok EXCEPT ![p] = ACall[p].done]
    BY <1>19, <2>1, <2>2 DEF Return
  <2> QED
    BY <2>1, <2>3, <2>4, <2>5 DEF Abstract!Answer, Abstract!NoCall, ANone, AMem, ADisk, ACall
<1>20. ASSUME Flush PROVE Abstract!Flush
  <2>1. ADisk' = AMem /\ AMem' = AMem
    BY <1>1, <1>2, <1>20 DEF Flush
  <2>2. ACall' = ACall /\ ok' = ok
    BY <1>20 DEF Flush, ACall, CallOf
  <2> QED
    BY <2>1, <2>2 DEF Abstract!Flush, AMem, ADisk, ACall
<1>21. ASSUME Crash PROVE Abstract!Crash
  <2>1. AMem' = ADisk /\ ADisk' = ADisk
    BY <1>1, <1>2, <1>21 DEF Crash
  <2>2. ACall' = [p \in Procs |-> ANone] /\ ok' = ok
    BY <1>21 DEF Crash, ACall, CallOf, ANone, Idle
  <2> QED
    BY <2>1, <2>2 DEF Abstract!Crash, Abstract!NoCall, ANone, AMem, ADisk, ACall
<1>22. ASSUME NEW p \in Procs, Step(p) PROVE Abstract!Act(p) \/ Abstract!Answer(p) \/ UNCHANGED Abstract!vars
  BY <1>22, <1>6, <1>7, <1>8, <1>9, <1>10, <1>11, <1>12, <1>13, <1>14, <1>15, <1>16, <1>17, <1>18, <1>19 DEF Step
<1> QED
  BY <1>4, <1>5, <1>20, <1>21, <1>22 DEF Next, Abstract!Next

\* Whatever fails, is interleaved or crashes, entries change as AtomicStore
\* says: at one moment and completely, or not at all (StoredAtomically).
THEOREM WritesAreAtomic == Spec => StoredAtomically
  BY FileInvariant, RefinesInit, RefinesStep, PTL DEF Spec, StoredAtomically, Abstract!Spec

=============================================================================
