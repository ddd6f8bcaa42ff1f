------------------------------ MODULE MCBoards ------------------------------
(* Fleets of one host, and of enough for four rows of dials and for odd     *)
(* columns.  Operators are alike.                                           *)
EXTENDS Boards, TLC

MCFleets == {1..1, 1..8}
MCFlaky == {"blocks", "util_v4_pct"}
MCSymmetry == Permutations(Runner)
=============================================================================
