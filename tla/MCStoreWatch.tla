---------------------------- MODULE MCStoreWatch ----------------------------
(* An instance of StoreWatch: a directory in a directory, and a linked one. *)
EXTENDS StoreWatch, TLC

CONSTANTS root, sub, deep, link, x

MCParentOf == sub :> root @@ deep :> sub @@ link :> root
=============================================================================
