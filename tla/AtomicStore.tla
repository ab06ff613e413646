---------------------------- MODULE AtomicStore ----------------------------
(***************************************************************************)
(* What the engine promises about the files of a store (docs/SPEC.md 7.7,  *)
(* "Writes MUST be atomic"): a call changes one entry, at one moment and   *)
(* completely, or not at all, and tells its caller which; a crash takes    *)
(* the store back to a state it was in.                                    *)
(***************************************************************************)
CONSTANTS
  Names,    \* entry names
  Procs,    \* those who call: threads and programs
  Texts,    \* what an entry can hold
  None,     \* no name
  Absent    \* no entry

VARIABLES
  mem,      \* what each entry holds, as every process sees it
  disk,     \* what it would hold after a crash
  call,     \* the call each process is in
  result    \* what the last call of each process returned

vars == <<mem, disk, call, result>>

NoCall == [name |-> None, text |-> Absent, done |-> FALSE]

Init ==
  /\ mem \in [Names -> Texts \cup {Absent}]
  /\ disk = mem
  /\ call = [p \in Procs |-> NoCall]
  /\ result = [p \in Procs |-> FALSE]

\* p asks for name n to hold text, or to be removed
Ask(p, n, text) ==
  /\ call[p] = NoCall
  /\ call' = [call EXCEPT ![p] = [name |-> n, text |-> text, done |-> FALSE]]
  /\ result' = [result EXCEPT ![p] = FALSE]
  /\ UNCHANGED <<mem, disk>>

\* the moment of the call: only an entry that is there can be removed
Act(p) ==
  /\ call[p] # NoCall
  /\ ~call[p].done
  /\ call[p].text = Absent => mem[call[p].name] # Absent
  /\ mem' = [mem EXCEPT ![call[p].name] = call[p].text]
  /\ call' = [call EXCEPT ![p].done = TRUE]
  /\ UNCHANGED <<disk, result>>

\* the call tells whether it has acted
Answer(p) ==
  /\ call[p] # NoCall
  /\ result' = [result EXCEPT ![p] = call[p].done]
  /\ call' = [call EXCEPT ![p] = NoCall]
  /\ UNCHANGED <<mem, disk>>

Flush ==
  /\ disk' = mem
  /\ UNCHANGED <<mem, call, result>>

\* calls under way are forgotten
Crash ==
  /\ mem' = disk
  /\ call' = [p \in Procs |-> NoCall]
  /\ UNCHANGED <<disk, result>>

Next ==
  \/ \E p \in Procs :
        \/ Act(p) \/ Answer(p)
        \/ \E n \in Names, text \in Texts \cup {Absent} : Ask(p, n, text)
  \/ Flush \/ Crash

Spec == Init /\ [][Next]_vars
=============================================================================
