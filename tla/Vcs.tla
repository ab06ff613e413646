-------------------------------- MODULE Vcs --------------------------------
(***************************************************************************)
(* The git history of a store (src/engine/vcs.c): every operation stages   *)
(* what it changed and commits it, through libgit2, on the main loop or on *)
(* the re-encryption thread, while pass runs git in the same repository.   *)
(* The history dialog lists the commits that touched an entry and brings   *)
(* their texts back.                                                       *)
(*                                                                         *)
(* libgit2 and git are external: the index is read into memory, changed    *)
(* there and written back whole; git_status_file reads it again when it    *)
(* has changed on the disk; git_commit_create fails unless its parent is   *)
(* still the tip, and git_reference_create with force does not look.  git  *)
(* holds index.lock while it reads, changes and writes the index, so one   *)
(* git command is one step.  A text is the number of the change that made  *)
(* it, 0 for no file; merges, blobs, messages and signatures are left out, *)
(* and the store is one repository, open when the model begins.            *)
(***************************************************************************)
EXTENDS Integers, Sequences, FiniteSets

CONSTANTS
  Files,        \* the files of the repository
  Threads,      \* the threads of the application that commit
  MainLoop,     \* the one of them that is not a re-encryption
  SignCommits,  \* pass.signcommits or commit.gpgsign
  MaxTexts,     \* bound: changes of the files in a behaviour
  MaxCommits    \* bound: commits in a behaviour

ASSUME VcsAssumption ==
  /\ MainLoop \in Threads
  /\ SignCommits \in BOOLEAN
  /\ MaxTexts \in Nat
  /\ MaxCommits \in Nat

VARIABLES
  work,     \* the working tree
  index,    \* the index on the disk
  commits,  \* the commits made, in order: parent and tree; 0 is no commit
  head,     \* the commit the branch points to
  texts,    \* number of changes made
  job,      \* what each thread is doing
  saved,    \* (history) texts staged by a commit that was reported as done
  displaced \* (history) threads of which somebody else staged the file in
            \* another state before they read the index back

repo == <<index, commits, head>>
vars == <<work, repo, texts, job, saved, displaced>>

Text   == 0 .. MaxTexts
Tree   == [Files -> Text]
Commit == [parent : Nat, tree : Tree]
Steps  == {"idle", "stage", "write", "guard", "parent", "commit"}

\* paths: the files given to passfl_vcs_commit_paths, or below the directory
\* given to it; single: the one file of passfl_vcs_commit_file
Job == [step : Steps, paths : SUBSET Files, single : BOOLEAN, staged : Tree,
        tree : Tree, parent : Nat]
NoTree == [f \in Files |-> 0]
Idle == [step |-> "idle", paths |-> {}, single |-> FALSE, staged |-> NoTree,
         tree |-> NoTree, parent |-> 0]

\* what a thread that is not idle commits: some file, or the one file
HasPaths(j) ==
  /\ j.step # "idle" => j.paths # {}
  /\ j.single => \E f \in Files : j.paths = {f}

TypeOK ==
  /\ work \in Tree
  /\ index \in Tree
  /\ commits \in Seq(Commit)
  /\ head \in 0 .. Len(commits)
  /\ texts \in Text
  /\ job \in [Threads -> Job]
  /\ \A p \in Threads : HasPaths(job[p])
  /\ saved \in SUBSET (Files \X Text)
  /\ displaced \in SUBSET Threads

TreeOf(c) == IF c = 0 THEN NoTree ELSE commits[c].tree

Init ==
  /\ work = NoTree
  /\ index = NoTree
  /\ commits = <<>>
  /\ head = 0
  /\ texts = 0
  /\ job = [p \in Threads |-> Idle]
  /\ saved = {}
  /\ displaced = {}

-----------------------------------------------------------------------------
At(p, step) == job[p].step = step

NewText == IF texts < MaxTexts THEN {0, texts + 1} ELSE {}

\* the operation has changed the files, and passfl_vcs_commit_file or
\* passfl_vcs_commit_paths is called
Commits(p, paths, single) ==
  /\ At(p, "idle")
  /\ paths # {}
  /\ texts < MaxTexts
  /\ texts' = texts + 1
  /\ job' = [job EXCEPT ![p] = [Idle EXCEPT !.step = "stage", !.paths = paths,
                                            !.single = single]]
  /\ displaced' = displaced \ {p}
  /\ UNCHANGED <<repo, saved>>

\* an entry is written or removed
Change(f, text) ==
  /\ text \in NewText
  /\ text = 0 => work[f] # 0
  /\ work' = [work EXCEPT ![f] = text]
  /\ Commits(MainLoop, {f}, TRUE)

\* passfl_store_copy_move: the text of one file, perhaps encrypted again,
\* goes to another; a rename commits both
CopyMove(from, to, text, move) ==
  /\ from # to
  /\ work[from] # 0
  /\ text \in {work[from]} \cup (NewText \ {0})
  /\ work' = [f \in Files |-> CASE f = to -> text
                             [] f = from /\ move -> 0
                             [] OTHER -> work[f]]
  /\ Commits(MainLoop, IF move THEN {from, to} ELSE {to}, FALSE)

\* the recipients of a directory are written or removed, or an entry in it is
\* encrypted again: one file changes, it or the directory is committed
ChangeBelow(p, f, text, paths) ==
  /\ f \in paths
  /\ text \in NewText
  /\ text = 0 => work[f] # 0
  /\ work' = [work EXCEPT ![f] = text]
  /\ Commits(p, paths, FALSE)

\* the index is opened, and git_index_add_bypath, git_index_remove_bypath or,
\* for a directory, git_index_add_all and git_index_update_all
Stage(p) ==
  LET Staged(f) == f \in job[p].paths
  IN  /\ At(p, "stage")
      /\ job' = [job EXCEPT
           ![p].step = "write",
           ![p].staged = [f \in Files |-> IF Staged(f) THEN work[f] ELSE 0],
           ![p].tree = [f \in Files |-> IF Staged(f) THEN work[f] ELSE index[f]]]
      /\ UNCHANGED <<work, repo, texts, saved, displaced>>

\* the index changes: which threads are displaced, having to read it again
Displace ==
  displaced' = displaced \cup
    {q \in Threads : /\ At(q, "guard") /\ job[q].single
                     /\ \E f \in job[q].paths : index'[f] # index[f]}

\* git_index_write: the copy in memory becomes the index, whatever it holds now
WriteIndex(p) ==
  /\ At(p, "write")
  /\ index' = job[p].tree
  /\ job' = [job EXCEPT ![p].step = "guard"]
  /\ Displace
  /\ UNCHANGED <<work, commits, head, texts, saved>>

\* the operation returns; when it reports success, it is remembered
Finish(p, success) ==
  /\ job' = [job EXCEPT ![p] = Idle]
  /\ saved' = IF success /\ p \notin displaced
              THEN saved \cup {<<f, job[p].staged[f]>> : f \in job[p].paths} ELSE saved

\* the guard of passfl_vcs_commit_file: git_status_file knows the file (it fails
\* where it is neither in the index nor in HEAD nor there), staged as it is in HEAD
FileUnchanged(p) ==
  \A f \in job[p].paths : index[f] = TreeOf(head)[f] /\ (index[f] # 0 \/ work[f] # 0)

\* the guard of passfl_vcs_commit_paths: HEAD exists and has this tree
TreeUnchanged(p) == head # 0 /\ job[p].tree = TreeOf(head)

\* the only-if-changed guards; git_status_file reads the index again, and the
\* tree is written from what it read, where commit_paths keeps what it staged
Guard(p) ==
  LET tree == IF job[p].single THEN index ELSE job[p].tree
  IN  /\ At(p, "guard")
      /\ IF IF job[p].single THEN FileUnchanged(p) ELSE TreeUnchanged(p)
         THEN Finish(p, TRUE)
         ELSE job' = [job EXCEPT ![p].step = "parent", ![p].tree = tree] /\ UNCHANGED saved
      /\ UNCHANGED <<work, repo, texts, displaced>>

\* commit_tree: the parent is the tip now; then the signature is made
Parent(p) ==
  /\ At(p, "parent")
  /\ job' = [job EXCEPT ![p].step = "commit", ![p].parent = head]
  /\ UNCHANGED <<work, repo, texts, saved, displaced>>

\* (mutant) the branch is moved to a commit that could not be stored
AddCommitUnstored(parent, tree) ==
  /\ Len(commits) < MaxCommits
  /\ commits' = commits
  /\ head' = Len(commits) + 1

AddCommit(parent, tree) ==
  /\ Len(commits) < MaxCommits
  /\ commits' = Append(commits, [parent |-> parent, tree |-> tree])
  /\ head' = Len(commits) + 1

\* (mutant) the branch is moved without a look at the tip
CommitForced(p) ==
  /\ At(p, "commit")
  /\ AddCommit(job[p].parent, job[p].tree)
  /\ Finish(p, TRUE)
  /\ UNCHANGED <<work, index, texts, displaced>>

\* git_commit_create, or the signed commit and the branch moved by force
CommitTree(p) ==
  /\ At(p, "commit")
  /\ SignCommits \/ head = job[p].parent
  /\ AddCommit(job[p].parent, job[p].tree)
  /\ Finish(p, TRUE)
  /\ UNCHANGED <<work, index, texts, displaced>>

\* any of the calls fails: the lock is taken, no identity, the signature is
\* cancelled, the tip has moved.  The change stands, staged or not.
Fail(p) ==
  /\ ~At(p, "idle")
  /\ Finish(p, FALSE)
  /\ UNCHANGED <<work, repo, texts, displaced>>

-----------------------------------------------------------------------------
(* pass: gpg writes the file, git add stages it, git commit commits.       *)

CliChange(f, text) ==
  /\ text \in NewText
  /\ text = 0 => work[f] # 0
  /\ texts' = texts + 1
  /\ work' = [work EXCEPT ![f] = text]
  /\ UNCHANGED <<repo, job, saved, displaced>>

CliAdd(f) ==
  /\ index[f] # work[f]
  /\ index' = [index EXCEPT ![f] = work[f]]
  /\ Displace
  /\ UNCHANGED <<work, commits, head, texts, job, saved>>

CliCommit ==
  /\ index # TreeOf(head)
  /\ AddCommit(head, index)
  /\ UNCHANGED <<work, index, texts, job, saved, displaced>>

Next ==
  \/ \E p \in Threads :
        \/ Stage(p) \/ WriteIndex(p) \/ Guard(p) \/ Parent(p) \/ CommitTree(p) \/ Fail(p)
        \/ \E f \in Files, text \in Text, paths \in SUBSET Files :
              ChangeBelow(p, f, text, paths)
  \/ \E f \in Files, text \in Text :
        \/ Change(f, text) \/ CliChange(f, text)
        \/ \E to \in Files, move \in BOOLEAN : CopyMove(f, to, text, move)
  \/ \E f \in Files : CliAdd(f)
  \/ CliCommit

Spec == Init /\ [][Next]_vars
-----------------------------------------------------------------------------
(* What the history dialog sees. *)

\* the commits reachable from each commit: what git_revwalk goes through
Ancestors ==
  LET anc[c \in 0 .. Len(commits)] ==
        IF c = 0 THEN {} ELSE {c} \cup anc[commits[c].parent]
  IN  anc

\* (mutant) a commit without a parent touches nothing
TouchesParent(c, f) ==
  commits[c].parent # 0 /\ TreeOf(c)[f] # TreeOf(commits[c].parent)[f]

\* commit_touches: the file differs from the parent's, or from no file
Touches(c, f) == TreeOf(c)[f] # TreeOf(commits[c].parent)[f]

\* passfl_vcs_history
History(f) == {c \in Ancestors[head] : Touches(c, f)}

\* passfl_vcs_file_at each revision listed
Restorable(f) == {TreeOf(c)[f] : c \in History(f)}

(* Properties. *)

\* A text whose save was reported as committed can be brought back from the
\* history of its entry, whatever is saved, removed or committed later by
\* whom (passfl_vcs_commit_file, passfl_vcs_commit_paths, passfl_vcs_history,
\* passfl_vcs_file_at).  Excluded: somebody else's copy of the index displaced
\* it from there before the guard.
SavedIsRestorable ==
  \A s \in saved : s[2] # 0 => s[2] \in Restorable(s[1])

\* The branch only ever moves forward: no commit leaves the history, and none
\* of git's is undone by one made on a stale tip (git_commit_create).
FastForward == [][head' # head => commits'[head'].parent = head]_vars

\* docs/SPEC.md 7.7, "Concurrent access from the CLI is expected and normal":
\* every commit stays in the history, signed ones being made or not.
CommitsStay ==
  \A c \in 1 .. Len(commits) : c \in Ancestors[head]
=============================================================================
