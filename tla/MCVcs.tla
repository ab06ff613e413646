------------------------------- MODULE MCVcs -------------------------------
(* Instances of Vcs for TLC. *)
EXTENDS Vcs, TLC

CONSTANTS f, g, main, worker

\* files are interchangeable
VcsSymmetry == Permutations(Files)
=============================================================================
