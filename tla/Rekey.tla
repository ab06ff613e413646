------------------------------- MODULE Rekey -------------------------------
(***************************************************************************)
(* Who can read which entry: the recipients files of a store and the keys  *)
(* its entries are encrypted to (src/engine/store.c: write, rename, copy,  *)
(* init and deinit, and the re-encryption walk that ends the last four;    *)
(* src/engine/recipients.c; the key ids of src/engine/crypto.c; the worker *)
(* of src/app/recipient-view.c).  Any number of processes run these at     *)
(* once: the main loop, re-encryption threads, and pass, whose script they *)
(* follow.                                                                 *)
(*                                                                         *)
(* A recipients file is one of a few lists.  Desired is the set of         *)
(* encryption subkeys passfl_crypto_desired_keyids finds for a list; Used  *)
(* is what gpg encrypts to: one subkey of the first usable key of each     *)
(* recipient, nothing when one of them has none.  The store is a root with *)
(* directories in it; signatures on recipients files, symlinks, commits    *)
(* and empty directories are left out, and so is a target of a rename that *)
(* is a directory.                                                         *)
(***************************************************************************)
EXTENDS Integers, FiniteSets, KeyIds

CONSTANTS
  Names,    \* entry names
  Dirs,     \* the directories, the root among them
  Root,     \* the root of the store
  DirOf,    \* the directory of each name
  Lists,    \* what a recipients file can say
  Keys,     \* encryption subkeys
  Desired,  \* the subkeys wanted for each list
  Used,     \* the subkeys a file written for each list gets
  KeyId,    \* the key id of each subkey, eight bytes
  Sizes,    \* how long an encrypted session key can be
  Procs,    \* threads and programs
  None,     \* no list, no name
  MaxOps    \* bound: operations begun in a behaviour

ASSUME RekeyAssumption ==
  /\ Root \in Dirs
  /\ DirOf \in [Names -> Dirs]
  /\ None \notin Lists \cup Names
  /\ Desired \in [Lists -> SUBSET Keys]
  /\ Used \in [Lists -> SUBSET Keys]
  /\ \A l \in Lists : Used[l] \subseteq Desired[l]
  /\ IsFiniteSet(Keys) /\ KeyId \in [Keys -> KeyID] /\ Sizes \in SUBSET Nat
  /\ MaxOps \in Nat

VARIABLES
  ids,    \* the .gpg-id of each directory, or None
  file,   \* the entries: text and keys, or NoFile
  ops,    \* operations begun
  job,    \* what each process is doing
  owed,   \* (history) entries whose re-encryption failed, or was undone by
          \* a write for recipients that had been read before they changed
  alone   \* (history) processes since whose start no other has changed
          \* a file or a recipients file

vars == <<ids, file, ops, job, owed, alone>>

NoFile == [text |-> -1, keys |-> {}]
File   == [text : Nat, keys : SUBSET Keys]

Steps == {"idle", "test", "place", "walk", "decrypt", "seal"}
Ops   == {"none", "write", "move", "copy", "init", "reencrypt"}
\* name: the entry at hand; to: the target; todo: entries the walk has still
\* to see; list, text: what was read of the recipients and of the entry
Job == [op : Ops, step : Steps, name : Names \cup {None}, to : Names \cup {None},
        dir : Dirs, todo : SUBSET Names, list : Lists \cup {None}, text : Nat]
Idle == [op |-> "none", step |-> "idle", name |-> None, to |-> None,
         dir |-> Root, todo |-> {}, list |-> None, text |-> 0]

TypeOK ==
  /\ ids \in [Dirs -> Lists \cup {None}]
  /\ file \in [Names -> File \cup {NoFile}]
  /\ ops \in Nat
  /\ job \in [Procs -> Job]
  /\ \A p \in Procs :
       /\ job[p].step \in {"decrypt", "seal"} => job[p].name \in Names /\ job[p].list \in Lists
       /\ job[p].step \in {"test", "place"} => job[p].name \in Names /\ job[p].to \in Names
  /\ owed \in SUBSET Names
  /\ alone \in SUBSET Procs

-----------------------------------------------------------------------------
\* passfl_recipients_resolve: the nearest recipients file, None for an error
ResolveIn(where, n) == IF where[DirOf[n]] # None THEN where[DirOf[n]] ELSE where[Root]
Resolve(n) == ResolveIn(ids, n)

\* the entries a walk from directory d comes to
Under(d) == {n \in Names : d = Root \/ DirOf[n] = d}

Init ==
  /\ ids \in {i \in [Dirs -> Lists \cup {None}] : i[Root] # None}
  /\ file \in [Names -> {NoFile} \cup {[text |-> 0, keys |-> Used[l]] : l \in Lists}]
  /\ \A n \in Names : file[n] # NoFile => file[n].keys = Used[Resolve(n)]
  /\ ops = 0
  /\ job = [p \in Procs |-> Idle]
  /\ owed = {}
  /\ alone = {}

At(p, step) == job[p].step = step

Begin(p, op, step, change) ==
  /\ At(p, "idle")
  /\ ops < MaxOps
  /\ ops' = ops + 1
  /\ job' = [job EXCEPT ![p] = [change EXCEPT !.op = op, !.step = step]]
  /\ alone' = alone \cup {p}

\* p changes a file or a recipients file
Disturb(p) == alone' = alone \cap {p}

\* (mutant) the error of passfl_recipients_resolve is not looked at
WriteUnresolved(p, n) ==
  /\ Begin(p, "write", "seal", [Idle EXCEPT !.name = n, !.list = Resolve(n), !.text = ops + 1])
  /\ UNCHANGED <<ids, file, owed>>

\* passfl_store_write_entry, up to the encryption
Write(p, n) ==
  /\ Resolve(n) # None
  /\ Begin(p, "write", "seal", [Idle EXCEPT !.name = n, !.list = Resolve(n), !.text = ops + 1])
  /\ UNCHANGED <<ids, file, owed>>

\* copy_move, up to its tests; the window refuses the entry's own name
CopyMove(p, op, m, n, force) ==
  /\ op \in {"move", "copy"}
  /\ m # n
  /\ file[m] # NoFile
  /\ Begin(p, op, IF force THEN "place" ELSE "test", [Idle EXCEPT !.name = m, !.to = n])
  /\ UNCHANGED <<ids, file, owed>>

\* PASSFL_STORE_ERROR_EXISTS
Test(p) ==
  /\ At(p, "test")
  /\ job' = [job EXCEPT ![p] = IF file[job[p].to] = NoFile THEN [@ EXCEPT !.step = "place"]
                               ELSE Idle]
  /\ UNCHANGED <<ids, file, ops, owed, alone>>

\* g_rename or copy_tree, whatever is at the target now
Place(p) ==
  LET m == job[p].name
      n == job[p].to
  IN  /\ At(p, "place")
      /\ file[m] # NoFile
      /\ file' = [file EXCEPT ![n] = file[m],
                              ![m] = IF job[p].op = "move" THEN NoFile ELSE file[m]]
      /\ job' = [job EXCEPT ![p].step = "walk", ![p].todo = {n}]
      /\ Disturb(p)
      /\ UNCHANGED <<ids, ops, owed>>

\* passfl_store_init_ids: .gpg-id is written, or removed, then the walk
InitIds(p, d, l) ==
  /\ l # None \/ ids[d] # None
  /\ At(p, "idle")
  /\ ops < MaxOps
  /\ ops' = ops + 1
  /\ ids' = [ids EXCEPT ![d] = l]
  /\ job' = [job EXCEPT ![p] = [Idle EXCEPT !.op = "init", !.step = "walk",
                                            !.dir = d, !.todo = Under(d)]]
  /\ alone' = {p}
  /\ UNCHANGED <<file, owed>>

\* on_reencrypt_clicked: the subtree of the recipients file in force, or all
Reencrypt(p, d) ==
  /\ ids[d] # None \/ d = Root
  /\ Begin(p, "reencrypt", "walk", [Idle EXCEPT !.dir = d, !.todo = Under(d)])
  /\ UNCHANGED <<ids, file, owed>>

-----------------------------------------------------------------------------
(* reencrypt_walk: the entries of a directory come in any order. *)

\* (mutant) an entry is left alone when all who are wanted can read it
VisitSubset(p, n) ==
  LET l == Resolve(n)
  IN  /\ At(p, "walk")
      /\ n \in job[p].todo
      /\ file[n] # NoFile => l # None
      /\ IF file[n] = NoFile \/ Desired[l] \subseteq file[n].keys
         THEN job' = [job EXCEPT ![p].todo = @ \ {n}] /\ owed' = owed \ {n}
         ELSE /\ job' = [job EXCEPT ![p].todo = @ \ {n}, ![p].step = "decrypt",
                                    ![p].name = n, ![p].list = l]
              /\ UNCHANGED owed
      /\ UNCHANGED <<ids, file, ops, alone>>

\* reencrypt_one: the recipients and the keys of the file are compared; a
\* file that has gone is passed over, one without recipients is an error
Visit(p, n) ==
  LET l == Resolve(n)
  IN  /\ At(p, "walk")
      /\ n \in job[p].todo
      /\ file[n] # NoFile => l # None
      /\ IF file[n] = NoFile \/ Desired[l] = file[n].keys
         THEN job' = [job EXCEPT ![p].todo = @ \ {n}] /\ owed' = owed \ {n}
         ELSE /\ job' = [job EXCEPT ![p].todo = @ \ {n}, ![p].step = "decrypt",
                                    ![p].name = n, ![p].list = l]
              /\ UNCHANGED owed
      /\ UNCHANGED <<ids, file, ops, alone>>

\* passfl_crypto_decrypt_file
Decrypt(p) ==
  /\ At(p, "decrypt")
  /\ file[job[p].name] # NoFile
  /\ job' = [job EXCEPT ![p].step = "seal", ![p].text = file[job[p].name].text]
  /\ UNCHANGED <<ids, file, ops, owed, alone>>

\* the keys a file of n has when it was written for the recipients in force
Right(n, keys) ==
  /\ Resolve(n) # None
  /\ keys \in {Used[Resolve(n)], Desired[Resolve(n)]}

\* passfl_crypto_encrypt_file: for the recipients that were read, whatever
\* the entry is now
SealWith(p, next) ==
  LET n == job[p].name
      l == job[p].list
  IN  /\ At(p, "seal")
      /\ Used[l] # {}
      /\ file' = [file EXCEPT ![n] = [text |-> job[p].text, keys |-> Used[l]]]
      /\ job' = [job EXCEPT ![p] = next]
      /\ owed' = IF Right(n, Used[l]) THEN owed \ {n} ELSE owed \cup {n}
      /\ Disturb(p)
      /\ UNCHANGED <<ids, ops>>

\* (mutant) the walk ends at the first entry it wrote
SealEnds(p) ==
  SealWith(p, IF job[p].op = "write" THEN Idle
              ELSE [job[p] EXCEPT !.step = "walk", !.todo = {}])

Seal(p) ==
  SealWith(p, IF job[p].op = "write" THEN Idle ELSE [job[p] EXCEPT !.step = "walk"])

\* the walk is through: the operation has succeeded
Done(p) ==
  /\ At(p, "walk")
  /\ job[p].todo = {}
  /\ job' = [job EXCEPT ![p] = Idle]
  /\ UNCHANGED <<ids, file, ops, owed, alone>>

\* entries whose re-encryption p has to do before it returns
Duty(p) ==
  IF job[p].op \in {"write", "none"} THEN {}
  ELSE job[p].todo \cup (IF job[p].step \in {"decrypt", "seal"} THEN {job[p].name} ELSE {})

\* any call fails: the walk ends there, and what it has done stands
Fail(p) ==
  /\ ~At(p, "idle")
  /\ owed' = owed \cup Duty(p)
  /\ job' = [job EXCEPT ![p] = Idle]
  /\ UNCHANGED <<ids, file, ops, alone>>

\* passfl_store_delete_entry, pass rm
DeleteEntry(n) ==
  /\ ops < MaxOps
  /\ ops' = ops + 1
  /\ file[n] # NoFile
  /\ file' = [file EXCEPT ![n] = NoFile]
  /\ alone' = {}
  /\ UNCHANGED <<ids, job, owed>>

Step(p) ==
  \/ Test(p) \/ Place(p) \/ Decrypt(p) \/ Seal(p) \/ Done(p) \/ Fail(p)
  \/ \E n \in Names : Visit(p, n)

Start(p) ==
  \/ \E n \in Names : Write(p, n)
  \/ \E op \in {"move", "copy"}, m, n \in Names, force \in BOOLEAN : CopyMove(p, op, m, n, force)
  \/ \E d \in Dirs : Reencrypt(p, d) \/ \E l \in Lists \cup {None} : InitIds(p, d, l)

Next ==
  \/ \E p \in Procs : Step(p) \/ Start(p)
  \/ \E n \in Names : DeleteEntry(n)

Spec == Init /\ [][Next]_vars
-----------------------------------------------------------------------------
(* Properties. *)

KeyIdsOf(keys) == {KeyId[k] : k \in keys}

\* the sets of keys with a file, in any format, that is not read as it should
Misread ==
  UNION {{keys : f \in {g \in Files(KeyIdsOf(keys), Sizes) : ~IsReadAs(g, KeyIdsOf(keys))}}
           : keys \in SUBSET Keys}

\* The keys of an entry, which every decision to re-encrypt it compares, are
\* those that passfl_crypto_file_keyids finds in its bytes, whatever packets
\* they are written with; and nothing else is found in a file that is cut off.
KeysAreRead == \A n \in Names : file[n].keys \notin Misread

\* An entry that the recipients in force cannot read, or that others still
\* can, is one whose re-encryption some operation under way has still to do,
\* or failed to do, or that a process overtook which had read its recipients
\* before they changed: there is no other way, however writes, renames,
\* copies, inits and walks interleave (reencrypt_one, copy_move,
\* passfl_store_init_ids, passfl_store_write_entry).
KeysFollowIds ==
  \A n \in Names :
    file[n] # NoFile /\ ~Right(n, file[n].keys) =>
      n \in owed \/ \E p \in Procs : n \in Duty(p)

\* A walk that no other process disturbed and that reports success has put
\* its whole subtree right, whatever failed before it (passfl_store_reencrypt,
\* the recipients dialog's "Re-encrypt").
WalkRepairs ==
  [][\A p \in Procs :
       Done(p) /\ p \in alone /\ job[p].op \in {"init", "reencrypt"} =>
         \A n \in Under(job[p].dir) : file[n] # NoFile => Right(n, file[n].keys)]_vars

(* What the documentation says, and the code does not do. *)

\* docs/SPEC.md 7.7, "reload rather than overwrite blindly": re-encryption
\* writes back the text the entry has.
SavesStand ==
  [][\A p \in Procs :
       Seal(p) /\ job[p].op # "write" =>
         file[job[p].name] # NoFile /\ file[job[p].name].text = job[p].text]_vars
=============================================================================
