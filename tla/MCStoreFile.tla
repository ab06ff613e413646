---------------------------- MODULE MCStoreFile ----------------------------
(* An instance of StoreFile: two directories, one in the other. *)
EXTENDS StoreFile, TLC

CONSTANTS d, e, x, y, p, q

\* d/x and d/e/y
MCPath == x :> <<d>> @@ y :> <<d, e>>

ProcSymmetry == Permutations(Procs)
=============================================================================
