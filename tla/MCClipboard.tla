---------------------------- MODULE MCClipboard ----------------------------
(* Instances of Clipboard for TLC: the bounds are in the configurations. *)
EXTENDS Clipboard
=============================================================================
