---------------------------- MODULE MCDispatcher ----------------------------
(* Two scripts, which are alike, at a time. *)
EXTENDS Dispatcher, TLC

MCSymmetry == Permutations(Script)
=============================================================================
