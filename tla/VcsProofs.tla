----------------------------- MODULE VcsProofs -----------------------------
(***************************************************************************)
(* Proofs about Vcs, for any files, threads and bounds: the types, and,    *)
(* where commits are not signed, that the branch only moves forward, that  *)
(* no commit leaves the history and that what was saved can be restored    *)
(* from it.                                                                *)
(***************************************************************************)
EXTENDS Vcs, SequenceTheorems, Recursion, TLAPS

USE VcsAssumption

LEMMA JobFields ==
  ASSUME NEW j \in Job
  PROVE  /\ j.step \in Steps
         /\ j.paths \in SUBSET Files
         /\ j.single \in BOOLEAN
         /\ j.staged \in Tree
         /\ j.tree \in Tree
         /\ j.parent \in Nat
  BY DEF Job

LEMMA IdleIsJob == NoTree \in Tree /\ Idle \in Job /\ HasPaths(Idle)
<1>1. NoTree \in Tree
  BY DEF NoTree, Tree, Text
<1>. QED
  BY <1>1 DEF Idle, Job, Steps, Text, HasPaths

\* A commit added to the others: what AddCommit does to the history.
LEMMA Adds ==
  ASSUME commits \in Seq(Commit), NEW parent \in Nat, NEW tree \in Tree,
         AddCommit(parent, tree)
  PROVE  /\ commits' \in Seq(Commit)
         /\ head' \in 0 .. Len(commits')
         /\ commits'[head'].parent = parent
<1>1. [parent |-> parent, tree |-> tree] \in Commit
  BY DEF Commit
<1>2. /\ commits' = Append(commits, [parent |-> parent, tree |-> tree])
      /\ head' = Len(commits) + 1
  BY DEF AddCommit
<1>3. /\ commits' \in Seq(Commit)
      /\ Len(commits') = Len(commits) + 1
      /\ commits'[Len(commits) + 1] = [parent |-> parent, tree |-> tree]
  BY <1>1, <1>2, AppendProperties
<1>. QED
  BY <1>2, <1>3, LenProperties

\* A thread that gets a job which is typed and has paths: so have all.
LEMMA Sets ==
  ASSUME TypeOK, NEW p \in Threads, NEW j \in Job, HasPaths(j),
         job' = [job EXCEPT ![p] = j]
  PROVE  /\ job' \in [Threads -> Job]
         /\ \A q \in Threads : HasPaths(job'[q])
<1>1. job \in [Threads -> Job] /\ \A q \in Threads : HasPaths(job[q])
  BY DEF TypeOK
<1>2. ASSUME NEW q \in Threads PROVE job'[q] \in Job /\ HasPaths(job'[q])
  <2>1. CASE q = p
    BY <1>1, <2>1
  <2>2. CASE q # p
    BY <1>1, <2>2
  <2>. QED
    BY <2>1, <2>2
<1>. QED
  BY <1>1, <1>2

\* A thread that is not idle goes on with its operation, and keeps its paths.
LEMMA GoesOn ==
  ASSUME TypeOK, NEW p \in Threads, ~At(p, "idle"),
         NEW step \in Steps, NEW staged \in Tree, NEW tree \in Tree, NEW parent \in Nat,
         job' = [job EXCEPT ![p].step = step, ![p].staged = staged,
                            ![p].tree = tree, ![p].parent = parent]
  PROVE  /\ job' \in [Threads -> Job]
         /\ \A q \in Threads : HasPaths(job'[q])
<1>1. job[p] \in Job /\ HasPaths(job[p]) /\ job \in [Threads -> Job]
  BY DEF TypeOK
<1>. DEFINE j == [job[p] EXCEPT !.step = step, !.staged = staged,
                                !.tree = tree, !.parent = parent]
<1>2. j \in Job /\ j.paths = job[p].paths /\ j.single = job[p].single
  BY <1>1 DEF Job
<1>3. HasPaths(j)
  BY <1>1, <1>2 DEF HasPaths, At
<1>4. job' = [job EXCEPT ![p] = j]
  BY <1>1
<1>. HIDE DEF j
<1>. QED
  BY <1>2, <1>3, <1>4, Sets

\* A thread that has returned is idle again.
LEMMA Returns ==
  ASSUME TypeOK, NEW p \in Threads, NEW success \in BOOLEAN, Finish(p, success)
  PROVE  /\ job' \in [Threads -> Job]
         /\ \A q \in Threads : HasPaths(job'[q])
         /\ saved' \in SUBSET (Files \X Text)
<1>1. job[p] \in Job /\ saved \in SUBSET (Files \X Text)
  BY DEF TypeOK
<1>2. job[p].paths \in SUBSET Files /\ job[p].staged \in Tree
  BY <1>1, JobFields
<1>3. \A f \in job[p].paths : <<f, job[p].staged[f]>> \in Files \X Text
  BY <1>2 DEF Tree
<1>4. saved' \in SUBSET (Files \X Text)
  BY <1>1, <1>3 DEF Finish
<1>5. job' = [job EXCEPT ![p] = Idle]
  BY DEF Finish
<1>. QED
  BY <1>4, <1>5, IdleIsJob, Sets

\* An operation begins: its thread has paths.
LEMMA Begins ==
  ASSUME TypeOK, NEW p \in Threads, NEW paths \in SUBSET Files, NEW single \in BOOLEAN,
         single => \E f \in Files : paths = {f},
         Commits(p, paths, single), work' \in Tree
  PROVE  TypeOK'
<1>. DEFINE j == [Idle EXCEPT !.step = "stage", !.paths = paths, !.single = single]
<1>1. /\ paths # {} /\ texts < MaxTexts /\ texts' = texts + 1
      /\ job' = [job EXCEPT ![p] = j]
      /\ displaced' = displaced \ {p}
      /\ UNCHANGED <<index, commits, head, saved>>
  BY DEF Commits, repo
<1>2. j \in Job /\ HasPaths(j)
  BY <1>1, IdleIsJob DEF Idle, Job, Steps, HasPaths
<1>3. texts' \in Text
  BY <1>1 DEF TypeOK, Text
<1>. HIDE DEF j
<1>4. /\ job' \in [Threads -> Job]
      /\ \A q \in Threads : HasPaths(job'[q])
  BY <1>1, <1>2, Sets
<1>. QED
  BY <1>1, <1>3, <1>4 DEF TypeOK

-----------------------------------------------------------------------------
LEMMA InitInv == Init => TypeOK
<1>. SUFFICES ASSUME Init PROVE TypeOK
  OBVIOUS
<1>1. work = NoTree /\ index = NoTree /\ commits = <<>> /\ head = 0 /\ texts = 0
  BY DEF Init
<1>2. /\ job = [p \in Threads |-> Idle]
      /\ saved = {}
      /\ displaced = {}
  BY DEF Init
<1>3. commits \in Seq(Commit) /\ head \in 0 .. Len(commits)
  BY <1>1
<1>4. job \in [Threads -> Job] /\ \A p \in Threads : HasPaths(job[p])
  BY <1>2, IdleIsJob
<1>. QED
  BY <1>1, <1>2, <1>3, <1>4, IdleIsJob DEF TypeOK, Text

\* Whoever is displaced, displaced stays a set of threads.
LEMMA Displaces ==
  ASSUME TypeOK, Displace
  PROVE  displaced' \in SUBSET Threads
  BY DEF TypeOK, Displace

\* The tree of any commit, or of none, is a tree.
LEMMA TreesAreTrees ==
  ASSUME TypeOK
  PROVE  TreeOf(head) \in Tree
<1>1. CASE head = 0
  BY <1>1, IdleIsJob DEF TreeOf
<1>2. CASE head # 0
  <2>1. commits[head] \in Commit
    BY <1>2 DEF TypeOK
  <2>. QED
    BY <1>2, <2>1 DEF TreeOf, Commit
<1>. QED
  BY <1>1, <1>2

LEMMA NextInv == TypeOK /\ [Next]_vars => TypeOK'
<1>. SUFFICES ASSUME TypeOK, [Next]_vars PROVE TypeOK'
  OBVIOUS
<1>t. /\ work \in Tree /\ index \in Tree /\ commits \in Seq(Commit)
      /\ head \in 0 .. Len(commits) /\ texts \in Text
      /\ job \in [Threads -> Job]
      /\ \A p \in Threads : HasPaths(job[p])
      /\ saved \in SUBSET (Files \X Text) /\ displaced \in SUBSET Threads
  BY DEF TypeOK
<1>n. NewText \in SUBSET Text
  BY <1>t DEF NewText, Text
<1>1. ASSUME NEW f \in Files, NEW text \in Text, Change(f, text)
      PROVE  TypeOK'
  <2>1. work' \in Tree /\ Commits(MainLoop, {f}, TRUE)
    BY <1>1, <1>t DEF Change, Tree
  <2>. QED
    BY <2>1, Begins
<1>1a. ASSUME NEW f \in Files, NEW to \in Files, NEW text \in Text, NEW move \in BOOLEAN,
              CopyMove(f, to, text, move)
       PROVE  TypeOK'
  <2>1. work' = [g \in Files |-> CASE g = to -> text
                               [] g = f /\ move -> 0
                               [] OTHER -> work[g]]
    BY <1>1a DEF CopyMove
  <2>2. \A g \in Files : (CASE g = to -> text
                          [] g = f /\ move -> 0
                          [] OTHER -> work[g]) \in Text
    BY <1>t DEF Tree, Text
  <2>3. work' \in Tree
    BY <2>1, <2>2 DEF Tree
  <2>4. Commits(MainLoop, IF move THEN {f, to} ELSE {to}, FALSE)
    BY <1>1a DEF CopyMove
  <2>. QED
    BY <2>3, <2>4, Begins
<1>1b. ASSUME NEW p \in Threads, NEW f \in Files, NEW text \in Text,
              NEW paths \in SUBSET Files, ChangeBelow(p, f, text, paths)
       PROVE  TypeOK'
  <2>1. work' \in Tree /\ Commits(p, paths, FALSE)
    BY <1>1b, <1>t DEF ChangeBelow, Tree
  <2>. QED
    BY <2>1, Begins
<1>2. ASSUME NEW p \in Threads, Stage(p) PROVE TypeOK'
  <2>1. ~At(p, "idle")
    BY <1>2 DEF Stage, At
  <2>. DEFINE staged == [f \in Files |-> IF f \in job[p].paths THEN work[f] ELSE 0]
              tree == [f \in Files |-> IF f \in job[p].paths THEN work[f] ELSE index[f]]
  <2>2. staged \in Tree /\ tree \in Tree
    BY <1>t DEF Tree, Text
  <2>3. job[p] \in Job /\ job[p].parent \in Nat
    BY <1>t, JobFields
  <2>4. job' = [job EXCEPT ![p].step = "write", ![p].staged = staged, ![p].tree = tree]
    BY <1>2 DEF Stage
  <2>. HIDE DEF staged, tree
  <2>5. job' = [job EXCEPT ![p].step = "write", ![p].staged = staged,
                           ![p].tree = tree, ![p].parent = job[p].parent]
    BY <1>t, <2>3, <2>4 DEF Job
  <2>6. job' \in [Threads -> Job] /\ \A q \in Threads : HasPaths(job'[q])
    BY <2>1, <2>2, <2>3, <2>5, GoesOn DEF Steps
  <2>7. UNCHANGED <<work, index, commits, head, texts, saved, displaced>>
    BY <1>2 DEF Stage, repo
  <2>. QED
    BY <2>6, <2>7, <1>t DEF TypeOK
<1>3. ASSUME NEW p \in Threads, WriteIndex(p) PROVE TypeOK'
  <2>1. ~At(p, "idle")
    BY <1>3 DEF WriteIndex, At
  <2>2. job[p] \in Job /\ job[p].parent \in Nat /\ job[p].staged \in Tree /\ job[p].tree \in Tree
    BY <1>t, JobFields
  <2>3. job' = [job EXCEPT ![p].step = "guard", ![p].staged = job[p].staged,
                           ![p].tree = job[p].tree, ![p].parent = job[p].parent]
    BY <1>3, <1>t, <2>2 DEF WriteIndex, Job
  <2>4. job' \in [Threads -> Job] /\ \A q \in Threads : HasPaths(job'[q])
    BY <2>1, <2>2, <2>3, GoesOn DEF Steps
  <2>5. UNCHANGED <<work, commits, head, texts, saved>> /\ index' = job[p].tree
    BY <1>3 DEF WriteIndex
  <2>6. displaced' \in SUBSET Threads
    BY <1>3, Displaces DEF WriteIndex
  <2>. QED
    BY <2>2, <2>4, <2>5, <2>6, <1>t DEF TypeOK
<1>4. ASSUME NEW p \in Threads, Guard(p) PROVE TypeOK'
  <2>. DEFINE tree == IF job[p].single THEN index ELSE job[p].tree
  <2>1. ~At(p, "idle")
    BY <1>4 DEF Guard, At
  <2>2. job[p] \in Job /\ job[p].parent \in Nat /\ job[p].staged \in Tree /\ job[p].tree \in Tree
    BY <1>t, JobFields
  <2>3. UNCHANGED <<work, index, commits, head, texts, displaced>>
    BY <1>4 DEF Guard, repo
  <2>4. \/ Finish(p, TRUE)
        \/ /\ job' = [job EXCEPT ![p].step = "parent", ![p].tree = tree]
           /\ UNCHANGED saved
    BY <1>4 DEF Guard
  <2>5. CASE Finish(p, TRUE)
    BY <2>3, <2>5, Returns, <1>t DEF TypeOK
  <2>6. CASE /\ job' = [job EXCEPT ![p].step = "parent", ![p].tree = tree]
             /\ UNCHANGED saved
    <3>1. tree \in Tree
      BY <2>2, <1>t
    <3>2. job' = [job EXCEPT ![p].step = "parent", ![p].staged = job[p].staged,
                             ![p].tree = tree, ![p].parent = job[p].parent]
      BY <2>6, <1>t, <2>2 DEF Job
    <3>3. job' \in [Threads -> Job] /\ \A q \in Threads : HasPaths(job'[q])
      BY <2>1, <2>2, <3>1, <3>2, GoesOn DEF Steps
    <3>. QED
      BY <2>3, <2>6, <3>3, <1>t DEF TypeOK
  <2>. QED
    BY <2>4, <2>5, <2>6
<1>5. ASSUME NEW p \in Threads, Parent(p) PROVE TypeOK'
  <2>1. ~At(p, "idle")
    BY <1>5 DEF Parent, At
  <2>2. job[p] \in Job /\ job[p].staged \in Tree /\ job[p].tree \in Tree
    BY <1>t, JobFields
  <2>3. job' = [job EXCEPT ![p].step = "commit", ![p].staged = job[p].staged,
                           ![p].tree = job[p].tree, ![p].parent = head]
    BY <1>5, <1>t, <2>2 DEF Parent, Job
  <2>4. head \in Nat
    BY <1>t, LenProperties
  <2>5. job' \in [Threads -> Job] /\ \A q \in Threads : HasPaths(job'[q])
    BY <2>1, <2>2, <2>3, <2>4, GoesOn DEF Steps
  <2>6. UNCHANGED <<work, index, commits, head, texts, saved, displaced>>
    BY <1>5 DEF Parent, repo
  <2>. QED
    BY <2>5, <2>6, <1>t DEF TypeOK
<1>6. ASSUME NEW p \in Threads, CommitTree(p) PROVE TypeOK'
  <2>1. AddCommit(job[p].parent, job[p].tree) /\ Finish(p, TRUE)
    BY <1>6 DEF CommitTree
  <2>2. job[p].parent \in Nat /\ job[p].tree \in Tree
    BY <1>t, JobFields
  <2>3. commits' \in Seq(Commit) /\ head' \in 0 .. Len(commits')
    BY <2>1, <2>2, <1>t, Adds
  <2>4. UNCHANGED <<work, index, texts, displaced>>
    BY <1>6 DEF CommitTree
  <2>. QED
    BY <2>1, <2>3, <2>4, Returns, <1>t DEF TypeOK
<1>7. ASSUME NEW p \in Threads, Fail(p) PROVE TypeOK'
  <2>1. Finish(p, FALSE) /\ UNCHANGED <<work, index, commits, head, texts, displaced>>
    BY <1>7 DEF Fail, repo
  <2>. QED
    BY <2>1, Returns, <1>t DEF TypeOK
<1>8. ASSUME NEW f \in Files, NEW text \in Text, CliChange(f, text) PROVE TypeOK'
  <2>1. texts' \in Text
    BY <1>8, <1>t DEF CliChange, NewText, Text
  <2>2. work' \in Tree
    BY <1>8, <1>t DEF CliChange, Tree
  <2>3. UNCHANGED <<index, commits, head, job, saved, displaced>>
    BY <1>8 DEF CliChange, repo
  <2>. QED
    BY <2>1, <2>2, <2>3, <1>t DEF TypeOK
<1>9. ASSUME NEW f \in Files, CliAdd(f) PROVE TypeOK'
  <2>1. index' \in Tree
    BY <1>9, <1>t DEF CliAdd, Tree
  <2>2. displaced' \in SUBSET Threads
    BY <1>9, Displaces DEF CliAdd
  <2>3. UNCHANGED <<work, commits, head, texts, job, saved>>
    BY <1>9 DEF CliAdd
  <2>. QED
    BY <2>1, <2>2, <2>3, <1>t DEF TypeOK
<1>10. ASSUME CliCommit PROVE TypeOK'
  <2>1. AddCommit(head, index) /\ UNCHANGED <<work, index, texts, job, saved, displaced>>
    BY <1>10 DEF CliCommit
  <2>2. head \in Nat
    BY <1>t, LenProperties
  <2>3. commits' \in Seq(Commit) /\ head' \in 0 .. Len(commits')
    BY <2>1, <2>2, <1>t, Adds
  <2>. QED
    BY <2>1, <2>3, <1>t DEF TypeOK
<1>11. CASE UNCHANGED vars
  BY <1>11, <1>t DEF TypeOK, vars, repo
<1>. QED
  BY <1>1, <1>1a, <1>1b, <1>2, <1>3, <1>4, <1>5, <1>6, <1>7, <1>8, <1>9, <1>10, <1>11 DEF Next

\* The types of Vcs, which are inductive (passfl_vcs_commit_file,
\* passfl_vcs_commit_paths): the branch points to a commit that was stored, a
\* thread in an operation has files to commit, and one that commits a single
\* file has exactly one.
THEOREM TypeCorrect == Spec => []TypeOK
  BY InitInv, NextInv, PTL DEF Spec

\* Where commits are not signed, every move of the branch adds a commit whose
\* parent is the one it pointed to: nothing that anybody committed leaves the
\* history (commit_tree with git_commit_create).
THEOREM BranchMovesForward ==
  ASSUME SignCommits = FALSE
  PROVE  Spec => FastForward
<1>1. ASSUME TypeOK, [Next]_vars PROVE [head' # head => commits'[head'].parent = head]_vars
  <2>. SUFFICES ASSUME Next, head' # head PROVE commits'[head'].parent = head
    BY <1>1
  <2>0. TypeOK /\ commits \in Seq(Commit) /\ head \in Nat /\ job \in [Threads -> Job]
        /\ index \in Tree
    BY <1>1, LenProperties DEF TypeOK
  <2>1. ASSUME NEW p \in Threads, CommitTree(p) PROVE commits'[head'].parent = head
    <3>1. AddCommit(job[p].parent, job[p].tree) /\ head = job[p].parent
      BY <2>1 DEF CommitTree
    <3>2. job[p].parent \in Nat /\ job[p].tree \in Tree
      BY <2>0, JobFields
    <3>. QED
      BY <2>0, <3>1, <3>2, Adds
  <2>2. CASE CliCommit
    BY <2>0, <2>2, Adds DEF CliCommit
  <2>3. ASSUME NEW p \in Threads,
               Stage(p) \/ WriteIndex(p) \/ Guard(p) \/ Parent(p) \/ Fail(p)
        PROVE  head' = head
    BY <2>3 DEF Stage, WriteIndex, Guard, Parent, Fail, repo
  <2>4. ASSUME NEW p, NEW paths, NEW single, Commits(p, paths, single)
        PROVE  head' = head
    BY <2>4 DEF Commits, repo
  <2>5. ASSUME NEW f, NEW text, Change(f, text) \/ CliChange(f, text) \/ CliAdd(f)
        PROVE  head' = head
    BY <2>4, <2>5 DEF Change, CliChange, CliAdd, repo
  <2>6. ASSUME NEW f, NEW to, NEW text, NEW move, CopyMove(f, to, text, move)
        PROVE  head' = head
    BY <2>4, <2>6 DEF CopyMove
  <2>7. ASSUME NEW p, NEW f, NEW text, NEW paths, ChangeBelow(p, f, text, paths)
        PROVE  head' = head
    BY <2>4, <2>7 DEF ChangeBelow
  <2>. QED
    BY <2>1, <2>2, <2>3, <2>5, <2>6, <2>7 DEF Next
<1>. QED
  BY <1>1, TypeCorrect, PTL DEF Spec, FastForward

-----------------------------------------------------------------------------
(* Where commits are not signed, the history is one line of commits, and a *)
(* text on its way into it stays where its thread left it.                 *)

\* Each commit is the parent of the next, the branch points to the last one.
Chain ==
  /\ head = Len(commits)
  /\ \A c \in 1 .. Len(commits) : commits[c].parent = c - 1

\* A tree has the texts a thread staged.
Holds(tree, j) == \A f \in j.paths : tree[f] = j.staged[f]

\* Where the texts of a thread's change are: in the copy of the index it writes,
\* in the index until somebody displaces it, in the tree it commits.
Carries(p) ==
  /\ At(p, "write") \/ At(p, "guard") => Holds(job[p].tree, job[p])
  /\ At(p, "guard") /\ job[p].single /\ p \notin displaced => Holds(index, job[p])
  /\ At(p, "parent") \/ At(p, "commit") => p \in displaced \/ Holds(job[p].tree, job[p])

\* A text that was saved is in the tree of a commit.
IsKept(s, cs) == s[2] # 0 => \E c \in 1 .. Len(cs) : cs[c].tree[s[1]] = s[2]
Kept == \A s \in saved : IsKept(s, commits)

ChainInv == TypeOK /\ Chain /\ Kept /\ \A p \in Threads : Carries(p)

\* A commit is its own ancestor and so are those before it.
LEMMA ChainAncestors ==
  ASSUME TypeOK, Chain
  PROVE  \A c \in 0 .. Len(commits) : Ancestors[c] = 1 .. c
<1>. PICK cs \in Seq(Commit) : cs = commits
  BY DEF TypeOK
<1>. PICK N \in Nat : N = Len(cs)
  BY LenProperties
<1>. DEFINE F(g) == [c \in 0 .. N |-> IF c = 0 THEN {} ELSE {c} \cup g[cs[c].parent]]
            w == [c \in 0 .. N |-> 1 .. c]
<1>1. \A c \in 1 .. N : cs[c].parent = c - 1
  BY DEF Chain
<1>2. ASSUME NEW c \in 0 .. N
      PROVE  w[c] = IF c = 0 THEN {} ELSE {c} \cup w[cs[c].parent]
  <2>1. CASE c = 0
    BY <2>1
  <2>2. CASE c # 0
    <3>1. c - 1 \in 0 .. N /\ cs[c].parent = c - 1
      BY <1>1, <2>2
    <3>2. 1 .. c = {c} \cup 1 .. c - 1
      BY <2>2
    <3>. QED
      BY <2>2, <3>1, <3>2
  <2>. QED
    BY <2>1, <2>2
<1>3. w = F(w)
  BY <1>2
<1>4. Ancestors = CHOOSE g : g = F(g)
  BY DEF Ancestors
<1>. HIDE DEF F
<1>5. Ancestors = F(Ancestors)
  BY <1>3, <1>4
<1>. DEFINE T == {c \in Nat : c <= N => Ancestors[c] = 1 .. c}
<1>6. ASSUME NEW c \in Nat, \A b \in Nat : b < c => b \in T PROVE c \in T
  <2>. SUFFICES ASSUME c <= N PROVE Ancestors[c] = 1 .. c
    OBVIOUS
  <2>0. c \in 0 .. N
    OBVIOUS
  <2>1. Ancestors[c] = IF c = 0 THEN {} ELSE {c} \cup Ancestors[cs[c].parent]
    BY ONLY <1>5, <2>0 DEF F
  <2>2. CASE c = 0
    BY <2>1, <2>2
  <2>3. CASE c # 0
    <3>1. c - 1 \in Nat /\ c - 1 < c /\ c - 1 <= N /\ cs[c].parent = c - 1
      BY <1>1, <2>3
    <3>2. Ancestors[c - 1] = 1 .. c - 1
      BY <1>6, <3>1
    <3>3. 1 .. c = {c} \cup 1 .. c - 1
      BY <2>3
    <3>. QED
      BY <2>1, <2>3, <3>1, <3>2, <3>3
  <2>. QED
    BY <2>2, <2>3
<1>. HIDE DEF T
<1>7. \A c \in Nat : c \in T
  BY <1>6, Induction
<1>. QED
  BY <1>7 DEF T

\* In a line of commits a text that is in the tree of one of them was brought
\* there by the first of them that has it.
LEMMA KeptIsRestorable ==
  ASSUME TypeOK, Chain, NEW f \in Files, NEW text \in Text, IsKept(<<f, text>>, commits), text # 0
  PROVE  text \in Restorable(f)
<1>1. commits \in Seq(Commit) /\ Len(commits) \in Nat
  BY LenProperties DEF TypeOK
<1>. DEFINE T == {c \in 1 .. Len(commits) : commits[c].tree[f] = text}
<1>2. T \in SUBSET Nat /\ T # {}
  BY <1>1 DEF IsKept
<1>. HIDE DEF T
<1>3. PICK c \in T : \A b \in T : c <= b
  BY <1>2, LeastElement
<1>4. c \in 1 .. Len(commits) /\ commits[c].tree[f] = text
  BY DEF T
<1>5. TreeOf(c)[f] = text
  BY <1>1, <1>4 DEF TreeOf
<1>6. TreeOf(c - 1)[f] # text
  <2>1. CASE c = 1
    BY <2>1 DEF TreeOf, NoTree
  <2>2. CASE c # 1
    <3>1. c - 1 \in 1 .. Len(commits) /\ c - 1 \notin T
      BY <1>1, <1>3, <1>4, <2>2
    <3>. QED
      BY <1>4, <3>1 DEF TreeOf, T
  <2>. QED
    BY <2>1, <2>2
<1>7. Touches(c, f)
  BY <1>4, <1>5, <1>6 DEF Touches, Chain
<1>8. c \in Ancestors[head]
  BY <1>1, <1>4, ChainAncestors DEF Chain
<1>. QED
  BY <1>5, <1>7, <1>8 DEF History, Restorable

\* What a step does to the commits: nothing, or one is added to the line.
Grows == UNCHANGED <<commits, head>> \/ \E tree \in Tree : AddCommit(head, tree)

LEMMA ChainGrows ==
  ASSUME TypeOK, Chain, Grows
  PROVE  /\ Chain'
         /\ Len(commits) <= Len(commits')
         /\ \A c \in 1 .. Len(commits) : commits'[c] = commits[c]
<1>1. commits \in Seq(Commit) /\ Len(commits) \in Nat /\ head = Len(commits)
  BY LenProperties DEF TypeOK, Chain
<1>2. CASE UNCHANGED <<commits, head>>
  BY <1>1, <1>2 DEF Chain
<1>3. ASSUME NEW tree \in Tree, AddCommit(head, tree)
      PROVE  /\ Chain'
             /\ Len(commits) <= Len(commits')
             /\ \A c \in 1 .. Len(commits) : commits'[c] = commits[c]
  <2>. DEFINE new == [parent |-> head, tree |-> tree]
  <2>1. new \in Commit /\ new.parent = head
    BY <1>1 DEF Commit
  <2>2. commits' = Append(commits, new) /\ head' = Len(commits) + 1
    BY <1>3 DEF AddCommit
  <2>. HIDE DEF new
  <2>3. /\ Len(commits') = Len(commits) + 1
        /\ \A c \in 1 .. Len(commits) : commits'[c] = commits[c]
        /\ commits'[Len(commits) + 1] = new
    BY <1>1, <2>1, <2>2, AppendProperties
  <2>4. \A c \in 1 .. Len(commits') : commits'[c].parent = c - 1
    BY <1>1, <2>1, <2>3 DEF Chain
  <2>. QED
    BY <1>1, <2>2, <2>3, <2>4 DEF Chain
<1>. QED
  BY <1>2, <1>3 DEF Grows

\* What is kept stays; a text that is saved now has to be in a commit.
LEMMA KeptStays ==
  ASSUME TypeOK, Chain, Grows, Kept,
         \A s \in saved' : s \in saved \/ IsKept(s, commits')
  PROVE  Kept'
<1>1. Len(commits) \in Nat /\ Len(commits') \in Nat
  BY LenProperties, ChainGrows DEF TypeOK, Grows, Chain, AddCommit
<1>2. ASSUME NEW s \in saved PROVE IsKept(s, commits')
  BY <1>1, ChainGrows DEF Kept, IsKept
<1>. QED
  BY <1>2 DEF Kept

\* A thread that does nothing carries its text on, unless it is displaced.
LEMMA OthersCarry ==
  ASSUME NEW q \in Threads, Carries(q), job'[q] = job[q],
         index' = index \/ Displace,
         q \in displaced => q \in displaced'
  PROVE  Carries(q)'
<1>1. CASE index' = index
  BY <1>1 DEF Carries, At
<1>2. CASE Displace
  BY <1>2 DEF Carries, At, Displace, Holds
<1>. QED
  BY <1>1, <1>2

LEMMA InitChain == Init => ChainInv
<1>. SUFFICES ASSUME Init PROVE ChainInv
  OBVIOUS
<1>1. commits = <<>> /\ head = 0 /\ job = [p \in Threads |-> Idle] /\ saved = {}
  BY DEF Init
<1>2. Chain /\ Kept
  BY <1>1 DEF Chain, Kept
<1>3. \A p \in Threads : Carries(p)
  BY <1>1 DEF Carries, At, Idle
<1>. QED
  BY <1>2, <1>3, InitInv DEF ChainInv

\* The end of an operation: its thread is idle, and what is saved is kept.
LEMMA ChainReturns ==
  ASSUME ChainInv, Grows, NEW p \in Threads, NEW success \in BOOLEAN, Finish(p, success),
         UNCHANGED <<index, displaced>>,
         success /\ p \notin displaced =>
           \A f \in job[p].paths : IsKept(<<f, job[p].staged[f]>>, commits')
  PROVE  Chain' /\ Kept' /\ \A q \in Threads : Carries(q)'
<1>0. TypeOK /\ Chain /\ Kept /\ job \in [Threads -> Job]
  BY DEF ChainInv, TypeOK
<1>1. Chain'
  BY <1>0, ChainGrows
<1>2. Kept'
  <2>1. ASSUME NEW s \in saved' PROVE s \in saved \/ IsKept(s, commits')
    BY DEF Finish
  <2>. QED
    BY <1>0, <2>1, KeptStays
<1>3. ASSUME NEW q \in Threads PROVE Carries(q)'
  <2>1. CASE q = p
    BY <1>0, <2>1 DEF Finish, Carries, At, Idle
  <2>2. CASE q # p
    <3>1. job'[q] = job[q]
      BY <1>0, <2>2 DEF Finish
    <3>. QED
      BY <3>1, OthersCarry DEF ChainInv
  <2>. QED
    BY <2>1, <2>2
<1>. QED
  BY <1>1, <1>2, <1>3

\* A thread goes on: the commits and what is saved are as they were.
LEMMA ChainGoesOn ==
  ASSUME ChainInv, NEW p \in Threads, Carries(p)',
         UNCHANGED <<commits, head, saved>>,
         \A q \in Threads \ {p} : job'[q] = job[q],
         index' = index \/ Displace,
         \A q \in Threads \ {p} : q \in displaced => q \in displaced'
  PROVE  Chain' /\ Kept' /\ \A q \in Threads : Carries(q)'
<1>1. Chain' /\ Kept'
  BY DEF ChainInv, Chain, Kept
<1>2. ASSUME NEW q \in Threads, q # p PROVE Carries(q)'
  <2>1. q \in displaced => q \in displaced'
    BY <1>2
  <2>2. job'[q] = job[q] /\ Carries(q)
    BY <1>2 DEF ChainInv
  <2>. QED
    BY <2>1, <2>2, OthersCarry
<1>. QED
  BY <1>1, <1>2

\* An operation begins: it carries nothing yet.
LEMMA ChainBegins ==
  ASSUME ChainInv, NEW p \in Threads, NEW paths, NEW single, Commits(p, paths, single)
  PROVE  Chain' /\ Kept' /\ \A q \in Threads : Carries(q)'
<1>0. job \in [Threads -> Job]
  BY DEF ChainInv, TypeOK
<1>1. /\ UNCHANGED <<index, commits, head, saved>>
      /\ \A q \in Threads \ {p} : job'[q] = job[q]
      /\ \A q \in Threads \ {p} : q \in displaced => q \in displaced'
      /\ job'[p].step = "stage"
  BY <1>0 DEF Commits, repo, Idle
<1>2. Carries(p)'
  BY <1>1 DEF Carries, At
<1>. QED
  BY <1>1, <1>2, ChainGoesOn

LEMMA NextChain ==
  ASSUME SignCommits = FALSE
  PROVE  ChainInv /\ [Next]_vars => ChainInv'
<1>. SUFFICES ASSUME ChainInv, [Next]_vars PROVE Chain' /\ Kept' /\ \A q \in Threads : Carries(q)'
  BY NextInv DEF ChainInv
<1>t. /\ work \in Tree /\ index \in Tree /\ commits \in Seq(Commit)
      /\ job \in [Threads -> Job] /\ displaced \in SUBSET Threads
  BY DEF ChainInv, TypeOK
<1>c. \A p \in Threads : Carries(p)
  BY DEF ChainInv
<1>1. ASSUME NEW p \in Threads, NEW paths, NEW single, Commits(p, paths, single)
      PROVE  Chain' /\ Kept' /\ \A q \in Threads : Carries(q)'
  BY <1>1, ChainBegins
<1>2. ASSUME NEW p \in Threads, Stage(p)
      PROVE  Chain' /\ Kept' /\ \A q \in Threads : Carries(q)'
  <2>1. /\ UNCHANGED <<index, commits, head, saved, displaced>>
        /\ \A q \in Threads \ {p} : job'[q] = job[q]
    BY <1>2, <1>t DEF Stage, repo
  <2>2. job[p].paths \in SUBSET Files /\ job[p] \in Job
    BY <1>t, JobFields
  <2>. DEFINE staged == [f \in Files |-> IF f \in job[p].paths THEN work[f] ELSE 0]
              tree == [f \in Files |-> IF f \in job[p].paths THEN work[f] ELSE index[f]]
  <2>3. job' = [job EXCEPT ![p].step = "write", ![p].staged = staged, ![p].tree = tree]
    BY <1>2 DEF Stage
  <2>4. \A f \in job[p].paths : tree[f] = staged[f]
    BY <2>2
  <2>. HIDE DEF staged, tree
  <2>5. /\ job'[p].step = "write" /\ job'[p].paths = job[p].paths
        /\ job'[p].staged = staged /\ job'[p].tree = tree
    BY <1>t, <2>2, <2>3 DEF Job
  <2>6. Carries(p)'
    BY <2>4, <2>5 DEF Carries, At, Holds
  <2>. QED
    BY <2>1, <2>6, ChainGoesOn
<1>3. ASSUME NEW p \in Threads, WriteIndex(p)
      PROVE  Chain' /\ Kept' /\ \A q \in Threads : Carries(q)'
  <2>1. /\ UNCHANGED <<commits, head, saved>>
        /\ index' = job[p].tree
        /\ Displace
        /\ \A q \in Threads \ {p} : job'[q] = job[q]
    BY <1>3, <1>t DEF WriteIndex
  <2>2. \A q \in Threads : q \in displaced => q \in displaced'
    BY <2>1 DEF Displace
  <2>3. Holds(job[p].tree, job[p])
    BY <1>3, <1>c DEF WriteIndex, Carries
  <2>4. job'[p] = [job[p] EXCEPT !.step = "guard"]
    BY <1>3, <1>t DEF WriteIndex
  <2>5. job[p] \in Job
    BY <1>t
  <2>6. /\ job'[p].step = "guard" /\ job'[p].paths = job[p].paths
        /\ job'[p].staged = job[p].staged /\ job'[p].tree = job[p].tree
    BY <2>4, <2>5 DEF Job
  <2>7. Carries(p)'
    BY <2>1, <2>3, <2>6 DEF Carries, At, Holds
  <2>. QED
    BY <2>1, <2>2, <2>7, ChainGoesOn
<1>4. ASSUME NEW p \in Threads, Guard(p)
      PROVE  Chain' /\ Kept' /\ \A q \in Threads : Carries(q)'
  <2>. DEFINE tree == IF job[p].single THEN index ELSE job[p].tree
              same == IF job[p].single THEN FileUnchanged(p) ELSE TreeUnchanged(p)
  <2>1. UNCHANGED <<index, commits, head, displaced>> /\ At(p, "guard")
    BY <1>4 DEF Guard, repo
  <2>2. job[p] \in Job /\ job[p].paths \in SUBSET Files
    BY <1>t, JobFields
  <2>3. p \notin displaced => Holds(tree, job[p])
    BY <1>c, <2>1 DEF Carries
  <2>4. IF same THEN Finish(p, TRUE)
        ELSE job' = [job EXCEPT ![p].step = "parent", ![p].tree = tree] /\ UNCHANGED saved
    BY <1>4 DEF Guard
  <2>5. same => \A f \in job[p].paths : tree[f] = TreeOf(head)[f]
    BY DEF FileUnchanged, TreeUnchanged
  <2>. HIDE DEF same, tree
  <2>6. CASE same
    <3>1. ASSUME p \notin displaced, NEW f \in job[p].paths, job[p].staged[f] # 0
          PROVE  head \in 1 .. Len(commits) /\ commits[head].tree[f] = job[p].staged[f]
      <4>1. TreeOf(head)[f] = job[p].staged[f]
        BY <2>3, <2>5, <2>6, <3>1 DEF Holds
      <4>2. head # 0
        BY <2>2, <3>1, <4>1 DEF TreeOf, NoTree
      <4>3. head \in 0 .. Len(commits) /\ Len(commits) \in Nat
        BY LenProperties DEF ChainInv, TypeOK
      <4>. QED
        BY <4>1, <4>2, <4>3 DEF TreeOf
    <3>2. p \notin displaced =>
            \A f \in job[p].paths : IsKept(<<f, job[p].staged[f]>>, commits')
      BY <2>1, <3>1 DEF IsKept
    <3>. QED
      BY <2>1, <2>4, <2>6, <3>2, ChainReturns DEF Grows
  <2>7. CASE ~same
    <3>1. /\ job'[p].step = "parent" /\ job'[p].paths = job[p].paths
          /\ job'[p].staged = job[p].staged /\ job'[p].tree = tree
      BY <1>t, <2>2, <2>4, <2>7 DEF Job
    <3>2. Carries(p)'
      BY <2>1, <2>3, <3>1 DEF Carries, At, Holds
    <3>3. \A q \in Threads \ {p} : job'[q] = job[q]
      BY <1>t, <2>4, <2>7
    <3>. QED
      BY <2>1, <2>4, <2>7, <3>2, <3>3, ChainGoesOn
  <2>. QED
    BY <2>6, <2>7
<1>5. ASSUME NEW p \in Threads, Parent(p)
      PROVE  Chain' /\ Kept' /\ \A q \in Threads : Carries(q)'
  <2>1. /\ UNCHANGED <<index, commits, head, saved, displaced>>
        /\ \A q \in Threads \ {p} : job'[q] = job[q]
        /\ At(p, "parent")
    BY <1>5, <1>t DEF Parent, repo
  <2>2. job[p] \in Job
    BY <1>t
  <2>3. /\ job'[p].step = "commit" /\ job'[p].paths = job[p].paths
        /\ job'[p].staged = job[p].staged /\ job'[p].tree = job[p].tree
    BY <1>5, <1>t, <2>2 DEF Parent, Job
  <2>4. Carries(p)'
    BY <1>c, <2>1, <2>3 DEF Carries, At, Holds
  <2>. QED
    BY <2>1, <2>4, ChainGoesOn
<1>6. ASSUME NEW p \in Threads, CommitTree(p)
      PROVE  Chain' /\ Kept' /\ \A q \in Threads : Carries(q)'
  <2>1. /\ UNCHANGED <<index, displaced>> /\ At(p, "commit")
        /\ AddCommit(head, job[p].tree) /\ Finish(p, TRUE)
    BY <1>6 DEF CommitTree
  <2>2. job[p].tree \in Tree
    BY <1>t, JobFields
  <2>3. Grows
    BY <2>1, <2>2 DEF Grows
  <2>4. p \notin displaced => Holds(job[p].tree, job[p])
    BY <1>c, <2>1 DEF Carries
  <2>5. /\ Len(commits') \in Nat /\ Len(commits') = Len(commits) + 1
        /\ commits'[Len(commits')].tree = job[p].tree
    <3>1. head \in Nat /\ [parent |-> head, tree |-> job[p].tree] \in Commit
      BY <1>t, <2>2, LenProperties DEF ChainInv, TypeOK, Commit
    <3>2. commits' = Append(commits, [parent |-> head, tree |-> job[p].tree])
      BY <2>1 DEF AddCommit
    <3>. QED
      BY <1>t, <3>1, <3>2, AppendProperties, LenProperties
  <2>6. p \notin displaced =>
          \A f \in job[p].paths : IsKept(<<f, job[p].staged[f]>>, commits')
    BY <1>t, <2>4, <2>5, LenProperties DEF IsKept, Holds
  <2>. QED
    BY <2>1, <2>3, <2>6, ChainReturns
<1>7. ASSUME NEW p \in Threads, Fail(p)
      PROVE  Chain' /\ Kept' /\ \A q \in Threads : Carries(q)'
  <2>1. UNCHANGED <<index, commits, head, displaced>> /\ Finish(p, FALSE)
    BY <1>7 DEF Fail, repo
  <2>. QED
    BY <2>1, ChainReturns DEF Grows
<1>8. CASE CliCommit
  <2>1. AddCommit(head, index) /\ UNCHANGED <<index, job, saved, displaced>>
    BY <1>8 DEF CliCommit
  <2>2. Grows
    BY <1>t, <2>1 DEF Grows
  <2>3. Chain'
    BY <2>2, ChainGrows DEF ChainInv
  <2>4. Kept'
    BY <2>1, <2>2, KeptStays DEF ChainInv
  <2>5. \A q \in Threads : Carries(q)'
    BY <1>c, <2>1, OthersCarry
  <2>. QED
    BY <2>3, <2>4, <2>5
<1>9. ASSUME UNCHANGED <<commits, head, job, saved>>, index' = index \/ Displace,
             \A q \in Threads : q \in displaced => q \in displaced'
      PROVE  Chain' /\ Kept' /\ \A q \in Threads : Carries(q)'
  <2>1. Chain' /\ Kept'
    BY <1>9 DEF ChainInv, Chain, Kept
  <2>2. \A q \in Threads : Carries(q)'
    BY <1>c, <1>9, OthersCarry
  <2>. QED
    BY <2>1, <2>2
<1>10. ASSUME NEW f \in Files, CliAdd(f)
       PROVE  Chain' /\ Kept' /\ \A q \in Threads : Carries(q)'
  <2>1. UNCHANGED <<commits, head, job, saved>> /\ Displace
    BY <1>10 DEF CliAdd
  <2>2. \A q \in Threads : q \in displaced => q \in displaced'
    BY <2>1 DEF Displace
  <2>. QED
    BY <1>9, <2>1, <2>2
<1>11. ASSUME NEW f \in Files, NEW text \in Text, CliChange(f, text)
       PROVE  Chain' /\ Kept' /\ \A q \in Threads : Carries(q)'
  <2>1. UNCHANGED <<index, commits, head, job, saved, displaced>>
    BY <1>11 DEF CliChange, repo
  <2>. QED
    BY <1>9, <2>1
<1>12. CASE UNCHANGED vars
  <2>1. UNCHANGED <<index, commits, head, job, saved, displaced>>
    BY <1>12 DEF vars, repo
  <2>. QED
    BY <1>9, <2>1
<1>13. ASSUME NEW f \in Files, NEW text \in Text, Change(f, text)
       PROVE  Chain' /\ Kept' /\ \A q \in Threads : Carries(q)'
  BY <1>13, <1>1 DEF Change
<1>14. ASSUME NEW f \in Files, NEW to \in Files, NEW text \in Text, NEW move \in BOOLEAN,
              CopyMove(f, to, text, move)
       PROVE  Chain' /\ Kept' /\ \A q \in Threads : Carries(q)'
  BY <1>14, <1>1 DEF CopyMove
<1>15. ASSUME NEW p \in Threads, NEW f \in Files, NEW text \in Text,
              NEW paths \in SUBSET Files, ChangeBelow(p, f, text, paths)
       PROVE  Chain' /\ Kept' /\ \A q \in Threads : Carries(q)'
  BY <1>15, <1>1 DEF ChangeBelow
<1>. QED
  BY <1>2, <1>3, <1>4, <1>5, <1>6, <1>7, <1>8, <1>10, <1>11, <1>12, <1>13, <1>14, <1>15
     DEF Next

\* Where commits are not signed, whatever is saved, removed or committed by
\* whom, a text whose save was reported as committed is listed in the history
\* of its entry and can be brought back from it, for any number of files,
\* threads and commits (passfl_vcs_commit_file, passfl_vcs_commit_paths,
\* passfl_vcs_history, passfl_vcs_file_at).
THEOREM SavedCanBeRestored ==
  ASSUME SignCommits = FALSE
  PROVE  Spec => []SavedIsRestorable
<1>1. ChainInv => SavedIsRestorable
  <2>. SUFFICES ASSUME ChainInv, NEW s \in saved, s[2] # 0 PROVE s[2] \in Restorable(s[1])
    BY DEF SavedIsRestorable
  <2>1. TypeOK /\ Chain /\ IsKept(s, commits)
    BY DEF ChainInv, Kept
  <2>2. s \in Files \X Text
    BY <2>1 DEF TypeOK
  <2>3. PICK f \in Files, text \in Text : s = <<f, text>>
    BY <2>2
  <2>. QED
    BY <2>1, <2>3, KeptIsRestorable
<1>. QED
  BY <1>1, InitChain, NextChain, PTL DEF Spec

\* Where commits are not signed, no commit ever leaves the history, one that
\* git made meanwhile included (git_commit_create, passfl_vcs_history).
THEOREM NoCommitIsLost ==
  ASSUME SignCommits = FALSE
  PROVE  Spec => []CommitsStay
<1>1. ChainInv => CommitsStay
  <2>. SUFFICES ASSUME ChainInv, NEW c \in 1 .. Len(commits) PROVE c \in Ancestors[head]
    BY DEF CommitsStay
  <2>1. TypeOK /\ Chain /\ Len(commits) \in Nat
    BY LenProperties DEF ChainInv, TypeOK
  <2>. QED
    BY <2>1, ChainAncestors DEF Chain
<1>. QED
  BY <1>1, InitChain, NextChain, PTL DEF Spec
=============================================================================
