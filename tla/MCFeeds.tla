------------------------------ MODULE MCFeeds ------------------------------
(***************************************************************************)
(* Two networks, one inside the other, or one alone; one feed, or two, the *)
(* first of which takes a network both list.                               *)
(***************************************************************************)
EXTENDS Feeds, TLC

CONSTANTS wide, narrow, first, second

Flat == (wide :> {})
Nested == (wide :> {narrow}) @@ (narrow :> {})
Single == <<first>>
InOrder == <<first, second>>

(* Processes are alike; every property checked with it is about safety. *)
Alike == Permutations(Loader)

(* A bound: the inner network is in use only until two processes meet or *)
(* something fails.                                                      *)
InnerUsed ==
  \/ block[narrow] # Absent \/ owner[narrow] # NoFeed
  \/ \E p \in Loader : my[p].owner[narrow] # NoFeed \/ narrow \in my[p].want \cup my[p].taken
OneOrTwo == InnerUsed => ~overlap /\ faults = 0
=============================================================================
