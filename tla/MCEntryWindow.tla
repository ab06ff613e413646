--------------------------- MODULE MCEntryWindow ---------------------------
(* Instances of EntryWindow for TLC. *)
EXTENDS EntryWindow, TLC

\* entry names are interchangeable, but not for liveness
NameSymmetry == Permutations(Names)
=============================================================================
