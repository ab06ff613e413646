------------------------------ MODULE MCRekey ------------------------------
(* An instance of Rekey: an entry in the root, one in a directory. *)
EXTENDS Rekey

CONSTANTS root, sub, x, y, alice, team, k1, k2, k3, main, worker

MCDirOf == x :> root @@ y :> sub

\* the team has a member with two encryption subkeys, of which gpg takes one
MCDesired == alice :> {k1} @@ team :> {k1, k2, k3}
MCUsed    == alice :> {k1} @@ team :> {k1, k2}

ProcSymmetry == Permutations(Procs)

\* their ids, the first and the last of which differ in a byte
MCKeyId == k1 :> <<1, 2, 3, 4, 5, 6, 7, 8>> @@ k2 :> <<133, 1, 0, 9, 133, 255, 0, 0>>
             @@ k3 :> <<1, 2, 3, 4, 5, 6, 7, 200>>
=============================================================================
