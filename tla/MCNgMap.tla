------------------------------ MODULE MCNgMap ------------------------------
(***************************************************************************)
(* Small instances of NgMap.  wide covers the two hosts one and two; one   *)
(* may also be allowlisted.  six is an IPv6 host.  loop is a never-block   *)
(* range and all is a network that would swallow it.                       *)
(***************************************************************************)
EXTENDS NgMap, TLC

CONSTANTS a1, a2, a3, a4, wide, one, two, six, loop, all

MCSpan == (wide :> {a1, a2}) @@ (one :> {a1}) @@ (two :> {a2}) @@
          (six :> {a4}) @@ (loop :> {a3}) @@ (all :> {a1, a2, a3})
MCBase == (wide :> a1) @@ (one :> a1) @@ (two :> a2) @@
          (six :> a4) @@ (loop :> a3) @@ (all :> a1)
NetSpan == [n \in Net |-> MCSpan[n] \cap Addr]
NetBase == [n \in Net |-> MCBase[n]]
NetVer == [n \in Net |-> IF n = six THEN 6 ELSE 4]

Symmetry == Permutations(Blocker)
=============================================================================
