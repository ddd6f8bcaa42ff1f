------------------------------ MODULE BoardsProofs ------------------------------
(***************************************************************************)
(* Proofs about Boards, for any group of hosts, any number of operators    *)
(* and any changes and faults.  What a run has written is still there, and *)
(* is the fleet, as long as the run was left alone; the values on a board  *)
(* are readable; and for up to 36 hosts the widgets are well laid.         *)
(***************************************************************************)
EXTENDS Boards, TLAPS, FiniteSetTheorems

(* The place of a host in the order of the names. *)
Place(S, h) == Cardinality({x \in S : x <= h})

LEMMA PlaceOf ==
  ASSUME NEW S \in SUBSET Nat, IsFiniteSet(S)
  PROVE  /\ \A h \in S : Place(S, h) \in 1..Cardinality(S)
         /\ \A h, g \in S : Place(S, h) = Place(S, g) => h = g
  <1>0. Cardinality(S) \in Nat
    BY FS_CardinalityType
  <1>1. \A h \in S : IsFiniteSet({x \in S : x <= h}) /\ Place(S, h) \in Nat /\ Place(S, h) <= Cardinality(S)
    <2> SUFFICES ASSUME NEW h \in S
                 PROVE  IsFiniteSet({x \in S : x <= h}) /\ Place(S, h) \in Nat /\ Place(S, h) <= Cardinality(S)
      OBVIOUS
    <2>1. {x \in S : x <= h} \in SUBSET S
      OBVIOUS
    <2>2. IsFiniteSet({x \in S : x <= h}) /\ Cardinality({x \in S : x <= h}) <= Cardinality(S)
      BY <2>1, FS_Subset
    <2>3. Cardinality({x \in S : x <= h}) \in Nat
      BY <2>2, FS_CardinalityType
    <2>4. QED
      BY <2>2, <2>3 DEF Place
  <1>2. \A h \in S : Place(S, h) # 0
    <2> SUFFICES ASSUME NEW h \in S, Place(S, h) = 0 PROVE FALSE
      OBVIOUS
    <2>1. {x \in S : x <= h} = {}
      BY <1>1, FS_EmptySet DEF Place
    <2>2. h \in {x \in S : x <= h}
      OBVIOUS
    <2>3. QED
      BY <2>1, <2>2
  <1>3. ASSUME NEW h \in S, NEW g \in S, h < g PROVE Place(S, h) # Place(S, g)
    <2> DEFINE H == {x \in S : x <= h}
               G == {x \in S : x <= g}
    <2>1. H \in SUBSET G
      <3> SUFFICES ASSUME NEW x \in S, x <= h PROVE x <= g
        OBVIOUS
      <3>1. x \in Nat /\ h \in Nat /\ g \in Nat
        OBVIOUS
      <3>2. QED
        BY <3>1, <1>3
    <2>2. g \in G /\ g \notin H
      BY <1>3
    <2>3. IsFiniteSet(G)
      BY <1>1
    <2> HIDE DEF H, G
    <2>4. Cardinality(G) # Cardinality(H)
      BY <2>1, <2>2, <2>3, FS_Subset
    <2>5. QED
      BY <2>4 DEF Place, H, G
  <1>4. \A h, g \in S : Place(S, h) = Place(S, g) => h = g
    <2> SUFFICES ASSUME NEW h \in S, NEW g \in S, h # g PROVE Place(S, h) # Place(S, g)
      OBVIOUS
    <2>1. h < g \/ g < h
      OBVIOUS
    <2>2. QED
      BY <1>3, <2>1
  <1>5. \A h \in S : Place(S, h) \in 1..Cardinality(S)
    <2> SUFFICES ASSUME NEW h \in S PROVE Place(S, h) \in 1..Cardinality(S)
      OBVIOUS
    <2>1. Place(S, h) \in Nat /\ Place(S, h) # 0 /\ Place(S, h) <= Cardinality(S)
      BY <1>1, <1>2
    <2> HIDE DEF Place
    <2>2. QED
      BY <1>0, <2>1
  <1>6. QED
    BY <1>4, <1>5

(* Every place is taken: InOrder lists each host of the group once. *)
LEMMA InOrderOf ==
  ASSUME NEW S \in SUBSET Nat, IsFiniteSet(S)
  PROVE  /\ DOMAIN InOrder(S) = 1..Cardinality(S)
         /\ \A i \in 1..Cardinality(S) : InOrder(S)[i] \in S /\ Place(S, InOrder(S)[i]) = i
         /\ \A h \in S : Place(S, h) \in 1..Cardinality(S) /\ InOrder(S)[Place(S, h)] = h
         /\ Fields(InOrder(S)) = S
  <1> DEFINE n == Cardinality(S)
             f == [h \in S |-> Place(S, h)]
  <1>0. n \in Nat
    BY FS_CardinalityType
  <1>1. f \in Injection(S, 1..n)
    BY PlaceOf DEF Injection, IsInjective
  <1>2. IsFiniteSet(1..n) /\ Cardinality(1..n) = n
    BY <1>0, FS_Interval
  <1>3. f \in Surjection(S, 1..n)
    BY <1>1, <1>2, FS_Injection
  <1>4. \A i \in 1..n : \E h \in S : Place(S, h) = i
    BY <1>3 DEF Surjection
  <1>5. InOrder(S) = [i \in 1..n |-> CHOOSE h \in S : Place(S, h) = i]
    BY DEF InOrder, Place
  <1> HIDE DEF n, f
  <1>6. \A i \in 1..n : InOrder(S)[i] \in S /\ Place(S, InOrder(S)[i]) = i
    <2> SUFFICES ASSUME NEW i \in 1..n PROVE InOrder(S)[i] \in S /\ Place(S, InOrder(S)[i]) = i
      OBVIOUS
    <2>1. PICK h \in S : Place(S, h) = i
      BY <1>4
    <2>2. InOrder(S)[i] = CHOOSE g \in S : Place(S, g) = i
      BY <1>5
    <2>3. QED
      BY <2>1, <2>2
  <1>7. \A h \in S : Place(S, h) \in 1..n /\ InOrder(S)[Place(S, h)] = h
    <2> SUFFICES ASSUME NEW h \in S PROVE Place(S, h) \in 1..n /\ InOrder(S)[Place(S, h)] = h
      OBVIOUS
    <2>1. Place(S, h) \in 1..n
      BY PlaceOf DEF n
    <2>2. InOrder(S)[Place(S, h)] \in S /\ Place(S, InOrder(S)[Place(S, h)]) = Place(S, h)
      BY <2>1, <1>6
    <2>3. InOrder(S)[Place(S, h)] = h
      <3> DEFINE g == InOrder(S)[Place(S, h)]
      <3>1. g \in S /\ Place(S, g) = Place(S, h)
        BY <2>2
      <3> HIDE DEF g
      <3>2. g = h
        BY <3>1, PlaceOf
      <3>3. QED
        BY <3>2 DEF g
    <2>4. QED
      BY <2>1, <2>3
  <1>8. DOMAIN InOrder(S) = 1..n
    BY <1>5
  <1>9. Fields(InOrder(S)) = S
    BY <1>6, <1>7, <1>8 DEF Fields
  <1>10. QED
    BY <1>6, <1>7, <1>8, <1>9 DEF n
-----------------------------------------------------------------------------
Labels == {"idle", "items", "get", "write", "done"}

(* What a run is, whatever the others do: a run that is to write has a board *)
(* left, and one that has ended has none.                                    *)
RunOf(r) == [c |-> r.c, plan |-> r.plan, asked |-> r.asked, confirm |-> r.confirm,
             exists |-> r.exists, alone |-> r.alone]
Orderly(r, label) ==
  /\ r = RunOf(r)
  /\ r.plan \in Seq(Board) /\ r.asked \subseteq Board
  /\ label = "items" => r.plan # <<>>
  /\ label \in {"get", "write"} => r.plan # <<>> /\ r.confirm
  /\ label = "done" /\ r.confirm => r.plan = <<>>

(* What a run that was left alone knows: at first the group, then the fleet; *)
(* and a board it was asked for is still to be written, or shows the fleet.  *)
Knows(r, label) ==
  r.alone =>
    /\ label = "items" => Fields(r.c.fleet) = members /\ r.asked \subseteq Fields(r.plan)
    /\ label \in {"get", "write", "done"} =>
         /\ r.c = Snapshot(members)
         /\ r.confirm => \A b \in r.asked : b \in Fields(r.plan) \/ board[b] = r.c

ShapeInv ==
  /\ members \in SUBSET Host
  /\ board = [b \in Board |-> board[b]]
  /\ pc \in [Runner -> Labels]
  /\ run = [p \in Runner |-> run[p]]
RunInv(p) == Orderly(run[p], pc[p]) /\ Knows(run[p], pc[p])
BoardsInv == ShapeInv /\ \A p \in Runner : RunInv(p)
-----------------------------------------------------------------------------
LEMMA MembersFinite ==
  ASSUME NEW S \in SUBSET Host
  PROVE  S \in SUBSET Nat /\ IsFiniteSet(S) /\ Fields(InOrder(S)) = S
  <1>1. S \in SUBSET Nat
    BY FleetAssumption
  <1>2. IsFiniteSet(S)
    BY FleetAssumption, FS_Subset
  <1>3. QED
    BY <1>1, <1>2, InOrderOf

LEMMA PlanTail ==
  ASSUME NEW s \in Seq(Board), s # <<>>
  PROVE  /\ Head(s) \in Board
         /\ Tail(s) \in Seq(Board)
         /\ \A b \in Fields(s) : b = Head(s) \/ b \in Fields(Tail(s))
  <1>1. Head(s) \in Board /\ Tail(s) \in Seq(Board) /\ Head(s) = s[1]
    OBVIOUS
  <1>2. ASSUME NEW i \in DOMAIN s, i # 1 PROVE s[i] \in Fields(Tail(s))
    <2>1. i - 1 \in 1..Len(Tail(s)) /\ Tail(s)[i - 1] = s[i]
      BY <1>2
    <2>2. i - 1 \in DOMAIN Tail(s)
      BY <2>1, <1>1
    <2>3. QED
      BY <2>1, <2>2 DEF Fields
  <1>3. QED
    BY <1>1, <1>2 DEF Fields

LEMMA NoFields == Fields(<<>>) = {}
  BY DEF Fields

(* The fields of a run are assigned one at a time. *)
Rec(c, plan, asked, confirm, exists, alone) ==
  [c |-> c, plan |-> plan, asked |-> asked, confirm |-> confirm, exists |-> exists,
   alone |-> alone]

LEMMA RecOf ==
  ASSUME NEW c, NEW plan, NEW asked, NEW confirm, NEW exists, NEW alone, NEW v,
         NEW r, r = Rec(c, plan, asked, confirm, exists, alone)
  PROVE  /\ [r EXCEPT !.alone = v] = Rec(c, plan, asked, confirm, exists, v)
         /\ [r EXCEPT !.c = v] = Rec(v, plan, asked, confirm, exists, alone)
         /\ [r EXCEPT !.plan = v] = Rec(c, v, asked, confirm, exists, alone)
         /\ [r EXCEPT !.exists = v] = Rec(c, plan, asked, confirm, v, alone)
  BY DEF Rec

LEMMA RecFields ==
  ASSUME NEW c, NEW plan, NEW asked, NEW confirm, NEW exists, NEW alone, NEW r,
         r = Rec(c, plan, asked, confirm, exists, alone)
  PROVE  /\ r.c = c /\ r.plan = plan /\ r.asked = asked /\ r.confirm = confirm
         /\ r.exists = exists /\ r.alone = alone
         /\ r = RunOf(r)
  BY DEF Rec, RunOf

LEMMA Assigned ==
  ASSUME NEW r, r = RunOf(r), NEW v
  PROVE  /\ [r EXCEPT !.alone = v] = Rec(r.c, r.plan, r.asked, r.confirm, r.exists, v)
         /\ [r EXCEPT !.c = v] = Rec(v, r.plan, r.asked, r.confirm, r.exists, r.alone)
         /\ [r EXCEPT !.plan = v] = Rec(r.c, v, r.asked, r.confirm, r.exists, r.alone)
         /\ [r EXCEPT !.exists = v] = Rec(r.c, r.plan, r.asked, r.confirm, v, r.alone)
  <1>1. r = Rec(r.c, r.plan, r.asked, r.confirm, r.exists, r.alone)
    BY DEF RunOf, Rec
  <1> DEFINE c == r.c
             plan == r.plan
             asked == r.asked
             confirm == r.confirm
             exists == r.exists
             alone == r.alone
  <1>2. r = Rec(c, plan, asked, confirm, exists, alone)
    BY <1>1
  <1> HIDE DEF c, plan, asked, confirm, exists, alone
  <1>3. /\ [r EXCEPT !.alone = v] = Rec(c, plan, asked, confirm, exists, v)
        /\ [r EXCEPT !.c = v] = Rec(v, plan, asked, confirm, exists, alone)
        /\ [r EXCEPT !.plan = v] = Rec(c, v, asked, confirm, exists, alone)
        /\ [r EXCEPT !.exists = v] = Rec(c, plan, asked, confirm, v, alone)
    BY <1>2, RecOf
  <1>4. QED
    BY <1>3 DEF c, plan, asked, confirm, exists, alone

(* A run that was disturbed claims nothing. *)
LEMMA Disturbed ==
  ASSUME NEW r, NEW label, Orderly(r, label)
  PROVE  /\ Orderly([r EXCEPT !.alone = FALSE], label)
         /\ [r EXCEPT !.alone = FALSE].alone = FALSE
  <1> DEFINE d == [r EXCEPT !.alone = FALSE]
  <1>1. d = Rec(r.c, r.plan, r.asked, r.confirm, r.exists, FALSE)
    <2> DEFINE no == FALSE
    <2> HIDE DEF no
    <2>1. r = RunOf(r)
      BY DEF Orderly
    <2>2. [r EXCEPT !.alone = no] = Rec(r.c, r.plan, r.asked, r.confirm, r.exists, no)
      BY <2>1, Assigned
    <2>3. QED
      BY <2>2 DEF no
  <1> HIDE DEF d
  <1>2. d = RunOf(d) /\ d.plan = r.plan /\ d.asked = r.asked /\ d.confirm = r.confirm /\ d.alone = FALSE
    <2>1. d = Rec(r.c, r.plan, r.asked, r.confirm, r.exists, FALSE)
      BY <1>1
    <2> DEFINE c == r.c
               plan == r.plan
               asked == r.asked
               confirm == r.confirm
               exists == r.exists
    <2>2. d = Rec(c, plan, asked, confirm, exists, FALSE)
      BY <2>1
    <2> HIDE DEF c, plan, asked, confirm, exists
    <2>3. d = RunOf(d) /\ d.plan = plan /\ d.asked = asked /\ d.confirm = confirm /\ d.alone = FALSE
      BY <2>2 DEF Rec, RunOf
    <2>4. QED
      BY <2>3 DEF plan, asked, confirm
  <1>3. Orderly(d, label)
    BY <1>2 DEF Orderly
  <1>4. QED
    BY <1>2, <1>3 DEF d

LEMMA IdleFits == Orderly(Idle, "idle") /\ Idle.alone = FALSE
  BY DEF Orderly, Idle, RunOf

LEMMA Init_Inv == Init => BoardsInv
  <1> SUFFICES ASSUME Init PROVE BoardsInv
    OBVIOUS
  <1>1. ShapeInv
    BY FleetAssumption DEF Init, ShapeInv, Labels
  <1>2. ASSUME NEW p \in Runner PROVE RunInv(p)
    <2>1. run[p] = Idle /\ pc[p] = "idle"
      BY DEF Init
    <2>2. Orderly(Idle, "idle") /\ Idle.alone = FALSE
      BY IdleFits
    <2>3. QED
      BY <2>1, <2>2 DEF RunInv, Knows
  <1>3. QED
    BY <1>1, <1>2 DEF BoardsInv
-----------------------------------------------------------------------------
(* A run that takes no step, disturbed or not. *)
LEMMA Carried ==
  ASSUME NEW p \in Runner, RunInv(p), pc'[p] = pc[p],
         \/ run'[p] = [run[p] EXCEPT !.alone = FALSE]
         \/ run'[p] = run[p] /\ UNCHANGED <<members, lacks, length, board>>
  PROVE  RunInv(p)'
  <1>1. CASE run'[p] = [run[p] EXCEPT !.alone = FALSE]
    <2>1. Orderly(run'[p], pc'[p]) /\ run'[p].alone = FALSE
      BY <1>1, Disturbed DEF RunInv
    <2>2. QED
      BY <2>1 DEF RunInv, Knows, Orderly, RunOf
  <1>2. CASE run'[p] = run[p] /\ UNCHANGED <<members, lacks, length, board>>
    BY <1>2 DEF RunInv, Knows, Orderly, RunOf, Snapshot
  <1>3. QED
    BY <1>1, <1>2

(* A run that has ended. *)
LEMMA Ended ==
  ASSUME NEW p \in Runner, run'[p] = Idle, pc'[p] = "idle"
  PROVE  RunInv(p)'
  <1>1. Orderly(Idle, "idle") /\ Idle.alone = FALSE
    BY IdleFits
  <1>2. Orderly(run'[p], pc'[p]) /\ run'[p].alone = FALSE
    BY <1>1
  <1>3. QED
    BY <1>2 DEF RunInv, Knows, Orderly, RunOf

(* A change of the world disturbs every run. *)
LEMMA ChangeKeeps ==
  ASSUME BoardsInv, Change, Others, members' \in SUBSET Host,
         board' = [b \in Board |-> board'[b]]
  PROVE  BoardsInv'
  <1>1. \A p \in Runner : run'[p] = [run[p] EXCEPT !.alone = FALSE] /\ pc'[p] = pc[p]
    BY DEF Change, Disturb, Others
  <1>2. ShapeInv'
    <2>1. run' = [p \in Runner |-> run'[p]]
      BY DEF Change, Disturb
    <2>2. QED
      BY <2>1 DEF BoardsInv, ShapeInv, Others
  <1>3. ASSUME NEW p \in Runner PROVE RunInv(p)'
    BY <1>1, Carried DEF BoardsInv
  <1>4. QED
    BY <1>2, <1>3 DEF BoardsInv

LEMMA WorldKeeps ==
  ASSUME BoardsInv, NEW h \in Changing, Join(h) \/ Leave(h) \/ Items(h)
  PROVE  BoardsInv'
  <1>1. Change /\ Others /\ board' = board
    BY DEF Join, Leave, Items
  <1>2. members' \in SUBSET Host
    BY FleetAssumption DEF Join, Leave, Items, BoardsInv, ShapeInv
  <1>3. QED
    BY <1>1, <1>2, ChangeKeeps DEF BoardsInv, ShapeInv

LEMMA DeleteKeeps ==
  ASSUME BoardsInv, NEW b \in Board, DeleteBoard(b)
  PROVE  BoardsInv'
  <1>1. Change /\ Others /\ members' = members
    BY DEF DeleteBoard, world
  <1>2. board' = [d \in Board |-> board'[d]]
    BY DEF DeleteBoard, BoardsInv, ShapeInv
  <1>3. QED
    BY <1>1, <1>2, ChangeKeeps DEF BoardsInv, ShapeInv

(* A step of one run that touches neither the world nor a board. *)
LEMMA OwnKeeps ==
  ASSUME BoardsInv, NEW p \in Runner, UNCHANGED <<world, board>>, NEW label \in Labels, NEW r,
         pc' = [pc EXCEPT ![p] = label], run' = [run EXCEPT ![p] = r],
         RunInv(p)'
  PROVE  BoardsInv'
  <1>1. ShapeInv'
    BY DEF BoardsInv, ShapeInv, world
  <1>2. ASSUME NEW q \in Runner PROVE RunInv(q)'
    <2>1. CASE q = p
      BY <2>1
    <2>2. CASE q # p
      <3>1. run'[q] = run[q] /\ pc'[q] = pc[q]
        BY <2>2 DEF BoardsInv, ShapeInv
      <3>2. QED
        BY <3>1, Carried DEF BoardsInv, world
    <2>3. QED
      BY <2>1, <2>2
  <1>3. QED
    BY <1>1, <1>2 DEF BoardsInv

LEMMA EndKeeps ==
  ASSUME BoardsInv, NEW p \in Runner, UNCHANGED <<world, board>>,
         Goto(p, "idle"), run' = [run EXCEPT ![p] = Idle]
  PROVE  BoardsInv'
  <1>1. run'[p] = Idle /\ pc'[p] = "idle"
    BY DEF Goto, BoardsInv, ShapeInv
  <1>2. RunInv(p)'
    BY <1>1, Ended
  <1>3. QED
    BY <1>2, OwnKeeps DEF Goto, Labels
-----------------------------------------------------------------------------
(* What Resolve makes of an idle run. *)
Started(r, c, plan, asked, confirm, alone) ==
  [r EXCEPT !.c = c, !.plan = plan, !.asked = asked, !.confirm = confirm, !.alone = alone]

LEMMA RecAssigned ==
  ASSUME NEW c0, NEW plan0, NEW asked0, NEW confirm0, NEW exists0, NEW alone0,
         NEW c, NEW plan, NEW asked, NEW confirm, NEW alone, NEW r,
         r = Rec(c0, plan0, asked0, confirm0, exists0, alone0)
  PROVE  Started(r, c, plan, asked, confirm, alone) = Rec(c, plan, asked, confirm, exists0, alone)
  <1> DEFINE r1 == [r EXCEPT !.c = c]
             r2 == [r1 EXCEPT !.plan = plan]
             r3 == [r2 EXCEPT !.asked = asked]
             r4 == [r3 EXCEPT !.confirm = confirm]
             r5 == [r4 EXCEPT !.alone = alone]
  <1>1. Started(r, c, plan, asked, confirm, alone) = r5
    BY DEF Started
  <1>2. r1 = Rec(c, plan0, asked0, confirm0, exists0, alone0)
    BY DEF Rec
  <1> HIDE DEF r1
  <1>3. r2 = Rec(c, plan, asked0, confirm0, exists0, alone0)
    BY <1>2 DEF Rec
  <1> HIDE DEF r2
  <1>4. r3 = Rec(c, plan, asked, confirm0, exists0, alone0)
    BY <1>3 DEF Rec
  <1> HIDE DEF r3
  <1>5. r4 = Rec(c, plan, asked, confirm, exists0, alone0)
    BY <1>4 DEF Rec
  <1> HIDE DEF r4
  <1>6. r5 = Rec(c, plan, asked, confirm, exists0, alone)
    BY <1>5 DEF Rec
  <1> HIDE DEF r5
  <1>7. QED
    BY <1>1, <1>6

(* A run that resolved the group has its hosts, and all it was asked for to do. *)
LEMMA ResolvedRun ==
  ASSUME ShapeInv, NEW p \in Runner, Resolve(p)
  PROVE  /\ run' = [run EXCEPT ![p] = run'[p]]
         /\ run'[p] = RunOf(run'[p]) /\ run'[p].c.fleet = InOrder(members)
         /\ run'[p].plan \in Seq(Board) /\ run'[p].plan # <<>>
         /\ run'[p].asked = Fields(run'[p].plan) /\ run'[p].asked \subseteq Board
  <1>1. PICK confirm \in BOOLEAN, plan \in {BuildOrder} \cup {<<b>> : b \in Board} :
          run' = [run EXCEPT ![p] =
                    [Idle EXCEPT !.c = [Snapshot(members) EXCEPT !.lacks = <<>>, !.length = <<>>],
                                 !.plan = plan, !.asked = Fields(plan), !.confirm = confirm,
                                 !.alone = TRUE]]
    BY DEF Resolve
  <1> DEFINE r == [Idle EXCEPT !.c = [Snapshot(members) EXCEPT !.lacks = <<>>, !.length = <<>>],
                               !.plan = plan, !.asked = Fields(plan), !.confirm = confirm,
                               !.alone = TRUE]
  <1>2. r = RunOf(r) /\ r.plan = plan /\ r.asked = Fields(plan) /\ r.c.fleet = InOrder(members)
    <2> DEFINE c == [Snapshot(members) EXCEPT !.lacks = <<>>, !.length = <<>>]
               f == Fields(plan)
    <2>1. c.fleet = InOrder(members)
      BY DEF Snapshot
    <2> HIDE DEF c, f
    <2>2. [Idle EXCEPT !.c = c, !.plan = plan, !.asked = f, !.confirm = confirm, !.alone = TRUE]
            = [c |-> c, plan |-> plan, asked |-> f, confirm |-> confirm, exists |-> FALSE,
               alone |-> TRUE]
      <3> DEFINE c0 == [fleet |-> <<>>, lacks |-> <<>>, length |-> <<>>]
                 no == FALSE
                 yes == TRUE
      <3>1. Idle = Rec(c0, <<>>, {}, no, no, no)
        BY DEF Idle, Rec
      <3> HIDE DEF c0, no, yes
      <3>2. Started(Idle, c, plan, f, confirm, yes) = Rec(c, plan, f, confirm, no, yes)
        BY <3>1, RecAssigned
      <3>3. QED
        BY <3>2 DEF Started, Rec, no, yes
    <2>3. r = [c |-> c, plan |-> plan, asked |-> f, confirm |-> confirm, exists |-> FALSE,
               alone |-> TRUE]
      BY <2>2 DEF c, f
    <2> HIDE DEF r
    <2>4. r = RunOf(r) /\ r.plan = plan /\ r.asked = f /\ r.c = c
      BY <2>3 DEF RunOf
    <2>5. QED
      BY <2>1, <2>4 DEF f
  <1>3. run' = [run EXCEPT ![p] = r]
    BY <1>1
  <1> HIDE DEF r
  <1>4. run'[p] = r
    BY <1>3 DEF ShapeInv
  <1>5. plan \in Seq(Board) /\ plan # <<>> /\ Fields(plan) \subseteq Board
    <2>1. plan \in Seq(Board) /\ plan # <<>>
      <3>1. CASE plan = BuildOrder
        BY <3>1 DEF BuildOrder, Board
      <3>2. ASSUME NEW b \in Board, plan = <<b>> PROVE plan \in Seq(Board) /\ plan # <<>>
        BY <3>2
      <3>3. QED
        BY <3>1, <3>2
    <2>2. QED
      BY <2>1 DEF Fields
  <1>6. QED
    BY <1>2, <1>3, <1>4, <1>5

LEMMA ResolveKeeps ==
  ASSUME BoardsInv, NEW p \in Runner, Resolve(p)
  PROVE  BoardsInv'
  <1> DEFINE r == run'[p]
  <1>1. /\ run' = [run EXCEPT ![p] = r]
        /\ r = RunOf(r) /\ r.c.fleet = InOrder(members)
        /\ r.plan \in Seq(Board) /\ r.plan # <<>>
        /\ r.asked = Fields(r.plan) /\ r.asked \subseteq Board
    BY ResolvedRun DEF BoardsInv
  <1>2. run'[p] = r /\ pc'[p] = "items"
    BY DEF BoardsInv, ShapeInv, Resolve, Goto
  <1> HIDE DEF r
  <1>3. Orderly(r, "items")
    BY <1>1 DEF Orderly
  <1>4. Fields(r.c.fleet) = members'
    BY <1>1, MembersFinite DEF BoardsInv, ShapeInv, Resolve, world
  <1>5. RunInv(p)'
    <2>1. Orderly(run[p], pc[p])'
      BY <1>2, <1>3 DEF Orderly, RunOf
    <2>2. Knows(run[p], pc[p])'
      BY <1>1, <1>2, <1>4 DEF Knows
    <2>3. QED
      BY <2>1, <2>2 DEF RunInv
  <1>6. QED
    BY <1>1, <1>5, OwnKeeps DEF Resolve, Goto, Labels

LEMMA ReadItemsKeeps ==
  ASSUME BoardsInv, NEW p \in Runner, ReadItems(p)
  PROVE  BoardsInv'
  <1> DEFINE r == [run[p] EXCEPT !.c = Snapshot(Fields(run[p].c.fleet))]
             label == IF run[p].confirm THEN "get" ELSE "done"
  <1>1. run' = [run EXCEPT ![p] = r] /\ pc' = [pc EXCEPT ![p] = label] /\ label \in Labels
    BY DEF ReadItems, Goto, Labels
  <1>2. Orderly(run[p], "items") /\ Knows(run[p], "items")
    BY DEF BoardsInv, RunInv, ReadItems
  <1>3. r = Rec(Snapshot(Fields(run[p].c.fleet)), run[p].plan, run[p].asked, run[p].confirm,
                run[p].exists, run[p].alone)
    BY <1>2, Assigned DEF Orderly
  <1> HIDE DEF r
  <1>4. /\ r = RunOf(r) /\ r.plan = run[p].plan /\ r.asked = run[p].asked
        /\ r.confirm = run[p].confirm /\ r.alone = run[p].alone
        /\ r.c = Snapshot(Fields(run[p].c.fleet))
    BY <1>3, RecFields
  <1>5. Orderly(r, label)
    BY <1>2, <1>4 DEF Orderly
  <1>6. run[p].alone => r.c = Snapshot(members)
    BY <1>2, <1>4 DEF Knows
  <1>7. run[p].alone => r.asked \subseteq Fields(r.plan)
    BY <1>2, <1>4 DEF Knows
  <1>8. Knows(r, label)
    BY <1>4, <1>6, <1>7 DEF Knows
  <1>9. run'[p] = r /\ pc'[p] = label
    BY <1>1 DEF BoardsInv, ShapeInv
  <1>10. UNCHANGED <<members, lacks, length, board>>
    BY DEF ReadItems, Stay, world
  <1> HIDE DEF label
  <1>11. RunInv(p)'
    BY <1>5, <1>8, <1>9, <1>10 DEF RunInv, Orderly, Knows, RunOf, Snapshot
  <1>12. QED
    BY <1>1, <1>11, OwnKeeps DEF ReadItems, Stay

LEMMA GetBoardKeeps ==
  ASSUME BoardsInv, NEW p \in Runner, GetBoard(p)
  PROVE  BoardsInv'
  <1> DEFINE e == (board[Head(run[p].plan)] # NoBoard)
             r == [run[p] EXCEPT !.exists = e]
  <1>1. run' = [run EXCEPT ![p] = r] /\ pc' = [pc EXCEPT ![p] = "write"]
    BY DEF GetBoard, Goto
  <1>2. Orderly(run[p], "get") /\ Knows(run[p], "get")
    BY DEF BoardsInv, RunInv, GetBoard
  <1> HIDE DEF e
  <1>3. r = Rec(run[p].c, run[p].plan, run[p].asked, run[p].confirm, e, run[p].alone)
    BY <1>2, Assigned DEF Orderly
  <1> HIDE DEF r
  <1>4. /\ r = RunOf(r) /\ r.plan = run[p].plan /\ r.asked = run[p].asked
        /\ r.confirm = run[p].confirm /\ r.alone = run[p].alone /\ r.c = run[p].c
    BY <1>3, RecFields
  <1>5. Orderly(r, "write") /\ Knows(r, "write")
    BY <1>2, <1>4 DEF Orderly, Knows
  <1>6. run'[p] = r /\ pc'[p] = "write"
    BY <1>1 DEF BoardsInv, ShapeInv
  <1>7. UNCHANGED <<members, lacks, length, board>>
    BY DEF GetBoard, Stay, world
  <1>8. RunInv(p)'
    BY <1>5, <1>6, <1>7 DEF RunInv, Orderly, Knows, RunOf, Snapshot
  <1>9. QED
    BY <1>1, <1>8, OwnKeeps DEF GetBoard, Stay, Labels

(* A write: the board shows what the run read, and the plan is one shorter; *)
(* the other runs are disturbed.                                            *)
LEMMA WriteKeeps ==
  ASSUME BoardsInv, NEW p \in Runner, WriteBoard(p)
  PROVE  BoardsInv'
  <1> DEFINE b == Head(run[p].plan)
             rest == Tail(run[p].plan)
             r == [run[p] EXCEPT !.plan = rest]
  <1>0. UNCHANGED <<members, lacks, length>> /\ board' = [board EXCEPT ![b] = run[p].c]
    BY DEF WriteBoard, Stay, world
  <1>1. Orderly(run[p], "write") /\ Knows(run[p], "write")
    BY DEF BoardsInv, RunInv, WriteBoard
  <1>2. b \in Board /\ rest \in Seq(Board) /\ \A d \in Fields(run[p].plan) : d = b \/ d \in Fields(rest)
    BY <1>1, PlanTail DEF Orderly
  <1>3. \A q \in Runner \ {p} : run'[q] = [run[q] EXCEPT !.alone = FALSE] /\ pc'[q] = pc[q]
    BY DEF WriteBoard, Goto, BoardsInv, ShapeInv
  <1>4. \A q \in Runner \ {p} : RunInv(q)'
    BY <1>3, Carried DEF BoardsInv
  <1>5. ASSUME ShapeInv', RunInv(p)' PROVE BoardsInv'
    BY <1>4, <1>5 DEF BoardsInv
  <1>6. members' \in SUBSET Host /\ board' = [d \in Board |-> board'[d]]
    BY <1>0 DEF BoardsInv, ShapeInv
  <1>7. CASE /\ Goto(p, IF rest = <<>> THEN "done" ELSE "get")
             /\ run' = [q \in Runner |-> IF q = p THEN r ELSE [run[q] EXCEPT !.alone = FALSE]]
    <2> DEFINE label == IF rest = <<>> THEN "done" ELSE "get"
    <2>1. run'[p] = r /\ pc'[p] = label /\ label \in {"done", "get"}
      BY <1>7 DEF BoardsInv, ShapeInv, Goto
    <2>2. ShapeInv'
      BY <1>6, <1>7 DEF BoardsInv, ShapeInv, Goto, Labels
    <2>3. r = Rec(run[p].c, rest, run[p].asked, run[p].confirm, run[p].exists, run[p].alone)
      BY <1>1, Assigned DEF Orderly
    <2>4. label = "done" <=> rest = <<>>
      OBVIOUS
    <2>5. label = "get" <=> rest # <<>>
      OBVIOUS
    <2> HIDE DEF r, label
    <2>6. /\ r = RunOf(r) /\ r.plan = rest /\ r.asked = run[p].asked
          /\ r.confirm = run[p].confirm /\ r.alone = run[p].alone /\ r.c = run[p].c
      BY <2>3, RecFields
    <2> HIDE DEF b, rest
    <2>7. Orderly(r, label)
      BY <1>1, <1>2, <2>1, <2>4, <2>5, <2>6 DEF Orderly
    <2>8. run[p].alone => r.c = Snapshot(members)'
      BY <1>0, <1>1, <2>6 DEF Knows, Snapshot
    <2>9. ASSUME run[p].alone, NEW d \in r.asked PROVE d \in Fields(rest) \/ board'[d] = r.c
      <3>1. d \in Board
        BY <1>1, <2>6, <2>9 DEF Orderly
      <3>2. d \in Fields(run[p].plan) \/ board[d] = r.c
        BY <1>1, <2>6, <2>9 DEF Knows, Orderly
      <3>3. CASE d = b
        BY <1>0, <1>2, <2>6, <3>3 DEF BoardsInv, ShapeInv
      <3>4. CASE d # b
        <4>1. board'[d] = board[d]
          BY <1>0, <3>1, <3>4 DEF BoardsInv, ShapeInv
        <4>2. QED
          BY <1>2, <3>2, <3>4, <4>1
      <3>5. QED
        BY <3>3, <3>4
    <2>10. Orderly(run[p], pc[p])'
      BY <2>1, <2>7 DEF Orderly, RunOf
    <2>11. Knows(run[p], pc[p])'
      BY <2>1, <2>6, <2>8, <2>9 DEF Knows
    <2>12. QED
      BY <1>5, <2>2, <2>10, <2>11 DEF RunInv
  <1>8. CASE /\ Goto(p, "idle")
             /\ run' = [q \in Runner |-> IF q = p THEN Idle ELSE [run[q] EXCEPT !.alone = FALSE]]
    <2>1. run'[p] = Idle /\ pc'[p] = "idle"
      BY <1>8 DEF BoardsInv, ShapeInv, Goto
    <2>2. ShapeInv'
      BY <1>6, <1>8 DEF BoardsInv, ShapeInv, Goto, Labels
    <2>3. QED
      BY <1>5, <2>1, <2>2, Ended
  <1>9. QED
    BY <1>7, <1>8 DEF WriteBoard
-----------------------------------------------------------------------------
LEMMA StepKeeps == BoardsInv /\ [Next]_vars => BoardsInv'
  <1> SUFFICES ASSUME BoardsInv, [Next]_vars PROVE BoardsInv'
    OBVIOUS
  <1>1. ASSUME NEW h \in Changing, Join(h) \/ Leave(h) \/ Items(h) PROVE BoardsInv'
    BY <1>1, WorldKeeps
  <1>2. ASSUME NEW b \in Board, DeleteBoard(b) PROVE BoardsInv'
    BY <1>2, DeleteKeeps
  <1>3. ASSUME NEW p \in Runner, RunStep(p) PROVE BoardsInv'
    <2>1. CASE Resolve(p)
      BY <2>1, ResolveKeeps
    <2>2. CASE ReadItems(p)
      BY <2>2, ReadItemsKeeps
    <2>3. CASE GetBoard(p)
      BY <2>3, GetBoardKeeps
    <2>4. CASE WriteBoard(p)
      BY <2>4, WriteKeeps
    <2>5. CASE WriteRefused(p) \/ CallFails(p) \/ Close(p)
      BY <2>5, EndKeeps DEF WriteRefused, CallFails, Close, Stay
    <2>6. QED
      BY <1>3, <2>1, <2>2, <2>3, <2>4, <2>5 DEF RunStep
  <1>4. ASSUME UNCHANGED vars PROVE BoardsInv'
    <2>1. /\ UNCHANGED <<members, lacks, length, board>>
          /\ run' = run /\ pc' = pc
      BY <1>4 DEF vars, world
    <2>2. ShapeInv'
      BY <2>1 DEF BoardsInv, ShapeInv
    <2>3. ASSUME NEW p \in Runner PROVE RunInv(p)'
      BY <2>1, Carried DEF BoardsInv
    <2>4. QED
      BY <2>2, <2>3 DEF BoardsInv
  <1>5. QED
    BY <1>1, <1>2, <1>3, <1>4 DEF Next

(* The invariant: a run that was left alone since it resolved the group has  *)
(* the fleet in its snapshot once it has read the items, and the boards it   *)
(* was asked for are left to be written or show that snapshot.               *)
THEOREM BoardsInvariant == Spec => []BoardsInv
  <1>1. QED
    BY Init_Inv, StepKeeps, PTL DEF Spec

(* A confirmed run that ends well and was left alone has put every board it  *)
(* was asked for on the server as the fleet is: adding a host costs one run, *)
(* whatever failed before it (write_dashboard creates or updates by name).   *)
THEOREM OneRunHolds == Spec => []OneRun
  <1>1. BoardsInv => OneRun
    <2> SUFFICES ASSUME BoardsInv, NEW p \in Runner, pc[p] = "done", run[p].confirm, run[p].alone,
                        NEW b \in run[p].asked
                 PROVE  board[b] = Snapshot(members)
      BY DEF OneRun
    <2>1. Orderly(run[p], "done") /\ Knows(run[p], "done")
      BY DEF BoardsInv, RunInv
    <2>2. run[p].plan = <<>> /\ run[p].c = Snapshot(members)
      BY <2>1 DEF Orderly, Knows
    <2>3. b \in Fields(run[p].plan) \/ board[b] = run[p].c
      BY <2>1 DEF Knows
    <2>4. QED
      BY <2>2, <2>3, NoFields
  <1>2. QED
    BY <1>1, BoardsInvariant, PTL
-----------------------------------------------------------------------------
(* The sizes of values. *)

LEMMA DivOf ==
  ASSUME NEW a \in Nat, NEW n \in Nat, n > 0
  PROVE  a \div n \in Nat /\ (a \div n) * n <= a /\ a < (a \div n + 1) * n
  OBVIOUS

(* Within bounds, the size is the greatest that leaves a tenth of the room. *)
LEMMA SizeOf ==
  ASSUME NEW chars \in Nat, chars > 0, NEW w \in Int, NEW h, h \in {2, 3}
  PROVE  /\ ValueSize(chars, w, h) \in Nat
         /\ ValueSize(chars, w, h) > 8 => Fits(chars, ValueSize(chars, w, h), w, h)
         /\ ValueSize(chars, w, h) < 45 => ~FitsWell(chars, ValueSize(chars, w, h) + 1, w, h)
  <1> DEFINE U == Usable(w)
             P == PX_PER_SIZE(h)
             D == 31 * (12 * chars) * P
             q == (U * 6250) \div D
             s == ValueSize(chars, w, h)
  <1>1. U \in Nat
    BY DEF Usable, Greatest
  <1>2. P \in {675, 1290}
    BY DEF PX_PER_SIZE
  <1>3. D = 31 * Greatest(10, 12 * chars) * P
    BY DEF Greatest
  <1>4. s = Greatest(8, Least(45, q))
    BY <1>3 DEF ValueSize
  <1> HIDE DEF U, P
  <1>5. D \in Nat /\ D > 0
    BY <1>2
  <1>6. U * 6250 \in Nat
    BY <1>1
  <1> HIDE DEF s
  <1>7. q \in Nat /\ q * D <= U * 6250 /\ U * 6250 < (q + 1) * D
    <2> HIDE DEF D
    <2>1. QED
      BY <1>5, <1>6, DivOf
  <1> HIDE DEF q
  <1>8. s \in Nat /\ (s > 8 => s <= q) /\ (s < 45 => q + 1 <= s + 1)
    BY <1>4, <1>7 DEF Greatest, Least
  <1>9. ASSUME s > 8 PROVE Fits(chars, s, w, h)
    <2>1. s * D <= q * D
      BY <1>5, <1>7, <1>8, <1>9
    <2>2. s * D <= U * 6250
      BY <2>1, <1>5, <1>6, <1>7, <1>8
    <2>3. s * D = 372 * (P * s * chars)
      BY <1>2, <1>8
    <2>4. P * s * chars \in Nat /\ 837 * P * s * chars = 837 * (P * s * chars)
      BY <1>2, <1>8
    <2>5. 837 * (P * s * chars) <= 15625 * U
      BY <1>1, <2>2, <2>3, <2>4
    <2>6. QED
      BY <2>4, <2>5 DEF Fits, P, U
  <1>10. ASSUME s < 45 PROVE ~FitsWell(chars, s + 1, w, h)
    <2>1. (q + 1) * D <= (s + 1) * D
      BY <1>5, <1>7, <1>8, <1>10
    <2>2. U * 6250 < (s + 1) * D
      BY <2>1, <1>5, <1>6, <1>7, <1>8
    <2>3. (s + 1) * D = 372 * (P * (s + 1) * chars)
      BY <1>2, <1>8
    <2>4. P * (s + 1) * chars \in Nat /\ 930 * P * (s + 1) * chars = 930 * (P * (s + 1) * chars)
      BY <1>2, <1>8
    <2>5. ~(930 * (P * (s + 1) * chars) <= 15625 * U)
      BY <1>1, <2>2, <2>3, <2>4
    <2>6. QED
      BY <2>4, <2>5 DEF FitsWell, P, U
  <1>11. QED
    BY <1>8, <1>9, <1>10 DEF s

LEMMA CharsOf ==
  ASSUME NEW field, NEW n \in Nat
  PROVE  RenderedChars(field, n) \in Nat /\ RenderedChars(field, n) > 0
  BY DEF RenderedChars, Decimals, Least

(* The hosts of a snapshot, and the lengths of their values. *)
Legible(c) ==
  /\ c.fleet \in Seq(Host)
  /\ \A i \in DOMAIN c.fleet : c.length[c.fleet[i]] \in Nat

(* Values are shown in tiles of two heights. *)
ItemOf(c, v) ==
  /\ v.w \in Int /\ v.h \in {2, 3}
  /\ \E i \in DOMAIN c.fleet : v.of[1] = c.fleet[i]

LEMMA TilesAreItems ==
  ASSUME NEW c, NEW i \in Hosts(c), NEW y, NEW tiles, NEW w \in Int,
         NEW v \in TileRow(c, i, y, tiles, w, 3)
  PROVE  ItemOf(c, v)
  BY DEF TileRow, Widget, ItemOf, Hosts

LEMMA RanksAreItems ==
  ASSUME NEW c, NEW i \in Hosts(c), NEW x, NEW y, NEW ranks, NEW w \in Int,
         NEW v \in Leaderboard(c, i, x, y, w, ranks)
  PROVE  ItemOf(c, v)
  BY DEF Leaderboard, Widget, ItemOf, Hosts

LEMMA OthersAreNot ==
  ASSUME NEW v, v.type = "item"
  PROVE  /\ \A n, y : v \notin Graphs(n, y)
         /\ \A c, y, h : v \notin PerHost(c, "piechart", y, h) /\ v \notin PerHost(c, "honeycomb", y, h)
         /\ \A c : v \notin Dials(c)
         /\ v # Legend
         /\ \A x, y, w, h, of : v # Widget("svggraph", x, y, w, h, of)
  <1>1. \A n, y : v \notin Graphs(n, y)
    BY DEF Graphs, Widget
  <1>2. \A c, y, h : v \notin PerHost(c, "piechart", y, h) /\ v \notin PerHost(c, "honeycomb", y, h)
    BY DEF PerHost, Widget
  <1>3. \A c : v \notin Dials(c)
    BY DEF Dials, Widget
  <1>4. v # Legend /\ \A x, y, w, h, of : v # Widget("svggraph", x, y, w, h, of)
    BY DEF Legend, Widget
  <1>5. QED
    BY <1>1, <1>2, <1>3, <1>4

LEMMA BuildItems ==
  ASSUME NEW b \in Board, NEW c, c.fleet \in Seq(Host), NEW v \in Build(b, c), v.type = "item"
  PROVE  ItemOf(c, v)
  <1>0. Len(c.fleet) \in Nat
    OBVIOUS
  <1>1. CASE b = "overview"
    <2>1. v \in BuildOverview(c)
      BY <1>1 DEF Build
    <2> DEFINE y == 3 + 3 * Len(c.fleet)
               tiles == UNION {TileRow(c, i, 3 * i, OverviewTiles, 12, 3) : i \in Hosts(c)}
               graphs == Graphs(6, y)
               pies == PerHost(c, "piechart", y + Below(6), 7)
    <2>2. v \notin graphs /\ v \notin pies /\ v # Legend
      BY OthersAreNot
    <2>3. BuildOverview(c) = {Legend} \cup tiles \cup graphs \cup pies
      BY DEF BuildOverview
    <2> HIDE DEF tiles, graphs, pies
    <2>4. v \in tiles
      BY <2>1, <2>2, <2>3

    <2>5. PICK i \in Hosts(c) : v \in TileRow(c, i, 3 * i, OverviewTiles, 12, 3)
      BY <2>4 DEF tiles
    <2>6. QED
      BY <2>5, TilesAreItems
  <1>2. CASE b = "security"
    <2> DEFINE column == GRID_COLUMNS \div Greatest(1, Len(c.fleet))
               half == column \div 2
               y == 18 + 3 * Len(c.fleet)
    <2>1. v \in BuildSecurity(c)
      BY <1>2 DEF Build
    <2>2. column \in Int
      <3>1. Greatest(1, Len(c.fleet)) \in Nat \ {0}
        BY <1>0 DEF Greatest
      <3>2. QED
        BY <3>1 DEF GRID_COLUMNS
    <2>3. half \in Int /\ column - half \in Int
      BY <2>2
    <2> DEFINE tiles == UNION {TileRow(c, i, 15 + 3 * i, SecurityTiles, 18, 3) : i \in Hosts(c)}
               left == UNION {Leaderboard(c, i, (i - 1) * column, y, half, TopBlocked) : i \in Hosts(c)}
               right == UNION {Leaderboard(c, i, (i - 1) * column + half, y, column - half, TopCountries) :
                                 i \in Hosts(c)}
               graphs == Graphs(2, 3)
               line == Widget("svggraph", 0, 10, 72, 8, <<2, "graph">>)
    <2>4. v \notin graphs /\ v # Legend /\ v # line
      BY OthersAreNot
    <2>5. BuildSecurity(c) = {Legend, line} \cup graphs \cup tiles \cup left \cup right
      BY DEF BuildSecurity
    <2>6. v \in tiles \/ v \in left \/ v \in right
      <3> HIDE DEF tiles, left, right, graphs, line
      <3>1. QED
        BY <2>1, <2>4, <2>5
    <2> HIDE DEF column, half
    <2>7. CASE v \in tiles
      BY <2>7, TilesAreItems
    <2>8. CASE v \in left
      BY <2>3, <2>8, RanksAreItems
    <2>9. CASE v \in right
      BY <2>3, <2>9, RanksAreItems
    <2>10. QED
      BY <2>6, <2>7, <2>8, <2>9
  <1>3. CASE b = "capacity"
    <2>1. v \in BuildCapacity(c)
      BY <1>3 DEF Build
    <2> DEFINE comb == 3 + 5 * ((2 * Len(c.fleet) + GAUGES_PER_ROW - 1) \div GAUGES_PER_ROW)
               y == comb + 5 + Below(3)
               first == UNION {TileRow(c, i, y + 6 * (i - 1), CapacityTilesA, 12, 3) : i \in Hosts(c)}
               second == UNION {TileRow(c, i, y + 6 * (i - 1) + 3, CapacityTilesB, 12, 3) :
                                  i \in Hosts(c)}
               graphs == Graphs(3, comb + 5)
               dials == Dials(c)
               combs == PerHost(c, "honeycomb", comb, 5)
               line == Widget("svggraph", 48, 3, 24, 5, <<3, "graph">>)
    <2>2. v \notin graphs /\ v \notin dials /\ v \notin combs /\ v # Legend /\ v # line
      BY OthersAreNot
    <2>3. BuildCapacity(c) = {Legend, line} \cup dials \cup combs \cup graphs \cup first \cup second
      BY DEF BuildCapacity
    <2>4. v \in first \/ v \in second
      <3> HIDE DEF first, second, graphs, dials, combs, line
      <3>1. QED
        BY <2>1, <2>2, <2>3
    <2> HIDE DEF y
    <2>5. QED
      BY <2>4, TilesAreItems
  <1>4. QED
    BY <1>1, <1>2, <1>3 DEF Board

LEMMA LegibleReads ==
  ASSUME NEW b \in Board, NEW c, Legible(c)
  PROVE  Readable(b, c)
  <1> SUFFICES ASSUME NEW v \in Build(b, c), v.type = "item"
               PROVE  LET chars == RenderedChars(v.of[2], c.length[v.of[1]])
                          size == ValueSize(chars, v.w, v.h)
                      IN /\ size > 8 => Fits(chars, size, v.w, v.h)
                         /\ size < 45 => ~FitsWell(chars, size + 1, v.w, v.h)
    BY DEF Readable
  <1>1. ItemOf(c, v)
    BY BuildItems DEF Legible
  <1>2. c.length[v.of[1]] \in Nat
    BY <1>1 DEF Legible, ItemOf
  <1> DEFINE chars == RenderedChars(v.of[2], c.length[v.of[1]])
  <1>3. chars \in Nat /\ chars > 0
    BY <1>2, CharsOf
  <1> HIDE DEF chars
  <1>4. /\ ValueSize(chars, v.w, v.h) > 8 => Fits(chars, ValueSize(chars, v.w, v.h), v.w, v.h)
        /\ ValueSize(chars, v.w, v.h) < 45 => ~FitsWell(chars, ValueSize(chars, v.w, v.h) + 1, v.w, v.h)
    BY <1>1, <1>3, SizeOf DEF ItemOf
  <1>5. QED
    BY <1>4 DEF chars
-----------------------------------------------------------------------------
(* A run that is to write has read each host once, and has a length for the  *)
(* values of every host.                                                     *)
Listed(c) == \E S \in SUBSET Host : c.fleet = InOrder(S)
ReadOf(r, label) ==
  /\ label = "items" => r.c.fleet \in Seq(Host)
  /\ label \in {"get", "write"} => Legible(r.c) /\ Listed(r.c)
ReadInv == length \in [Host -> Nat] /\ \A p \in Runner : ReadOf(run[p], pc[p])

LEMMA FieldsOfHosts ==
  ASSUME NEW s \in Seq(Host)
  PROVE  Fields(s) \in SUBSET Host
  BY DEF Fields

LEMMA InOrderSeq ==
  ASSUME NEW S \in SUBSET Host
  PROVE  InOrder(S) \in Seq(Host) /\ \A i \in DOMAIN InOrder(S) : InOrder(S)[i] \in S
  <1> DEFINE n == Cardinality(S)
  <1>1. S \in SUBSET Nat /\ IsFiniteSet(S)
    BY MembersFinite
  <1>2. n \in Nat
    BY <1>1, FS_CardinalityType
  <1>3. DOMAIN InOrder(S) = 1..n /\ \A i \in 1..n : InOrder(S)[i] \in S
    BY <1>1, InOrderOf
  <1>4. InOrder(S) = [i \in 1..n |-> InOrder(S)[i]]
    <2> DEFINE at(i) == CHOOSE h \in S : Cardinality({x \in S : x <= h}) = i
    <2>1. InOrder(S) = [i \in 1..n |-> at(i)]
      BY DEF InOrder
    <2> HIDE DEF at, n
    <2>2. QED
      BY <2>1
  <1> HIDE DEF n
  <1>5. InOrder(S) \in [1..n -> Host]
    BY <1>3, <1>4
  <1>6. QED
    BY <1>2, <1>3, <1>5

LEMMA SnapshotLegible ==
  ASSUME NEW S \in SUBSET Host, length \in [Host -> Nat]
  PROVE  Legible(Snapshot(S)) /\ Listed(Snapshot(S))
  <1>1. Snapshot(S).fleet = InOrder(S) /\ Snapshot(S).length = [h \in S |-> length[h]]
    BY DEF Snapshot
  <1>2. QED
    BY <1>1, InOrderSeq DEF Legible, Listed

LEMMA LengthsKept == ReadInv /\ [Next]_vars => length' \in [Host -> Nat]
  <1> SUFFICES ASSUME ReadInv, [Next]_vars PROVE length' \in [Host -> Nat]
    OBVIOUS
  <1>1. ASSUME NEW h \in Changing, Items(h) PROVE length' \in [Host -> Nat]
    BY <1>1, FleetAssumption DEF Items, ReadInv
  <1>2. CASE UNCHANGED length
    BY <1>2 DEF ReadInv
  <1>3. \/ \E h \in Changing : Items(h)
        \/ UNCHANGED length
    BY DEF Next, Join, Leave, DeleteBoard, RunStep, Resolve, ReadItems, GetBoard, WriteBoard,
           WriteRefused, CallFails, Close, Stay, world, vars
  <1>4. QED
    BY <1>1, <1>2, <1>3

(* What a step leaves of a run: the snapshot, and its label, or a new one. *)
LEMMA ReadsKept ==
  ASSUME BoardsInv, ReadInv, [Next]_vars, NEW q \in Runner
  PROVE  ReadOf(run'[q], pc'[q])
  <1>0. ShapeInv /\ Orderly(run[q], pc[q]) /\ ReadOf(run[q], pc[q]) /\ pc[q] \in Labels
    BY DEF BoardsInv, RunInv, ReadInv, ShapeInv
  <1>1. ASSUME run'[q] = run[q], pc'[q] = pc[q] PROVE ReadOf(run'[q], pc'[q])
    BY <1>0, <1>1
  <1>2. ASSUME run'[q] = [run[q] EXCEPT !.alone = FALSE], pc'[q] = pc[q] PROVE ReadOf(run'[q], pc'[q])
    <2>1. run'[q].c = run[q].c
      BY <1>0, <1>2 DEF Orderly, RunOf
    <2>2. QED
      BY <1>0, <1>2, <2>1 DEF ReadOf
  <1>3. ASSUME pc'[q] \in {"idle", "done"} PROVE ReadOf(run'[q], pc'[q])
    BY <1>3 DEF ReadOf
  <1>4. ASSUME Change, Others PROVE ReadOf(run'[q], pc'[q])
    BY <1>2, <1>4 DEF Change, Disturb, Others
  <1>5. ASSUME NEW p \in Runner, RunStep(p), q # p PROVE ReadOf(run'[q], pc'[q])
    <2>1. pc'[q] = pc[q]
      BY <1>0, <1>5 DEF RunStep, Resolve, ReadItems, GetBoard, WriteBoard, WriteRefused, CallFails, Close,
                   Goto, ShapeInv
    <2>2. run'[q] = run[q] \/ run'[q] = [run[q] EXCEPT !.alone = FALSE]
      <3>1. CASE WriteBoard(p)
        BY <1>5, <3>1 DEF WriteBoard
      <3>2. CASE Resolve(p) \/ ReadItems(p) \/ GetBoard(p) \/ WriteRefused(p) \/ CallFails(p) \/ Close(p)
        <4>1. \E r : run' = [run EXCEPT ![p] = r]
          BY <3>2 DEF Resolve, ReadItems, GetBoard, WriteRefused, CallFails, Close
        <4>2. QED
          BY <1>0, <1>5, <4>1 DEF ShapeInv
      <3>3. QED
        BY <1>5, <3>1, <3>2 DEF RunStep
    <2>3. QED
      BY <1>1, <1>2, <2>1, <2>2
  <1>6. ASSUME Resolve(q) PROVE ReadOf(run'[q], pc'[q])
    <2>1. pc'[q] = "items"
      BY <1>0, <1>6 DEF Resolve, Goto, ShapeInv
    <2>2. run'[q].c.fleet = InOrder(members)
      BY <1>0, <1>6, ResolvedRun
    <2>3. QED
      BY <1>0, <2>1, <2>2, InOrderSeq DEF ReadOf, ShapeInv
  <1>7. ASSUME ReadItems(q) PROVE ReadOf(run'[q], pc'[q])
    <2>1. run'[q].c = Snapshot(Fields(run[q].c.fleet))
      BY <1>0, <1>7 DEF ReadItems, Orderly, RunOf, ShapeInv
    <2>2. Fields(run[q].c.fleet) \in SUBSET Host
      BY <1>0, <1>7, FieldsOfHosts DEF ReadItems, ReadOf
    <2>3. Legible(run'[q].c) /\ Listed(run'[q].c)
      BY <2>1, <2>2, SnapshotLegible DEF ReadInv
    <2>4. pc'[q] \in {"get", "done"}
      BY <1>0, <1>7 DEF ReadItems, Goto, ShapeInv
    <2>5. QED
      BY <2>3, <2>4 DEF ReadOf
  <1>8. ASSUME GetBoard(q) PROVE ReadOf(run'[q], pc'[q])
    <2>1. run'[q].c = run[q].c /\ pc'[q] = "write" /\ pc[q] = "get"
      BY <1>0, <1>8 DEF GetBoard, Goto, Orderly, RunOf, ShapeInv
    <2>2. QED
      BY <1>0, <2>1 DEF ReadOf
  <1>9. ASSUME WriteBoard(q) PROVE ReadOf(run'[q], pc'[q])
    <2>1. pc[q] = "write" /\ pc'[q] \in {"get", "done", "idle"}
      BY <1>0, <1>9 DEF WriteBoard, Goto, ShapeInv
    <2>2. pc'[q] = "get" => run'[q] = [run[q] EXCEPT !.plan = Tail(run[q].plan)]
      BY <1>0, <1>9 DEF WriteBoard, Goto, ShapeInv
    <2>3. pc'[q] = "get" => run'[q].c = run[q].c
      BY <1>0, <2>2 DEF Orderly, RunOf
    <2>4. QED
      BY <1>0, <2>1, <2>3 DEF ReadOf
  <1>10. ASSUME WriteRefused(q) \/ CallFails(q) \/ Close(q) PROVE ReadOf(run'[q], pc'[q])
    <2>1. pc'[q] = "idle"
      BY <1>0, <1>10 DEF WriteRefused, CallFails, Close, Goto, ShapeInv
    <2>2. QED
      BY <1>3, <2>1
  <1>11. ASSUME NEW h \in Changing, Join(h) \/ Leave(h) \/ Items(h) PROVE ReadOf(run'[q], pc'[q])
    BY <1>4, <1>11 DEF Join, Leave, Items
  <1>12. ASSUME NEW b \in Board, DeleteBoard(b) PROVE ReadOf(run'[q], pc'[q])
    BY <1>4, <1>12 DEF DeleteBoard
  <1>13. ASSUME NEW p \in Runner, RunStep(p) PROVE ReadOf(run'[q], pc'[q])
    BY <1>5, <1>6, <1>7, <1>8, <1>9, <1>10, <1>13 DEF RunStep
  <1>14. CASE UNCHANGED vars
    BY <1>1, <1>14 DEF vars
  <1>15. QED
    BY <1>11, <1>12, <1>13, <1>14 DEF Next

LEMMA ReadInvariant == Spec => []ReadInv
  <1>1. Init => ReadInv
    <2> SUFFICES ASSUME Init PROVE ReadInv
      OBVIOUS
    <2>1. length \in [Host -> Nat]
      BY FleetAssumption DEF Init
    <2>2. \A p \in Runner : pc[p] = "idle"
      BY DEF Init
    <2>3. QED
      BY <2>1, <2>2 DEF ReadInv, ReadOf
  <1>2. BoardsInv /\ ReadInv /\ [Next]_vars => ReadInv'
    <2> SUFFICES ASSUME BoardsInv, ReadInv, [Next]_vars PROVE ReadInv'
      OBVIOUS
    <2>1. length' \in [Host -> Nat]
      BY LengthsKept
    <2>2. \A q \in Runner : ReadOf(run'[q], pc'[q])
      BY ReadsKept
    <2>3. QED
      BY <2>1, <2>2 DEF ReadInv, ReadOf, Legible, Listed, InOrder
  <1>3. QED
    BY <1>1, <1>2, BoardsInvariant, PTL DEF Spec

(* Whoever writes a board writes what the run has read. *)
LEMMA WrittenRead ==
  ASSUME BoardsInv, ReadInv, [Next]_vars, NEW b \in Board, Written(b)
  PROVE  Legible(board'[b]) /\ Listed(board'[b])
  <1>1. board' # board
    BY DEF Written
  <1>2. PICK p \in Runner : WriteBoard(p)
    <2>1. ASSUME NEW d \in Board, DeleteBoard(d) PROVE FALSE
      BY <2>1 DEF DeleteBoard, Written, BoardsInv, ShapeInv
    <2>2. QED
      BY <1>1, <2>1 DEF Next, Join, Leave, Items, RunStep, Resolve, ReadItems, GetBoard,
                        WriteRefused, CallFails, Close, Stay, vars
  <1>3. board' = [board EXCEPT ![Head(run[p].plan)] = run[p].c]
    BY <1>2 DEF WriteBoard
  <1>4. board'[b] = run[p].c
    BY <1>3 DEF Written, BoardsInv, ShapeInv
  <1>5. Legible(run[p].c) /\ Listed(run[p].c)
    BY <1>2 DEF WriteBoard, ReadInv, ReadOf
  <1>6. QED
    BY <1>4, <1>5

(* Values keep readable on every board that is written, for any fleet, any   *)
(* width a fleet leaves a tile and any length of a value: no size but the    *)
(* smallest clips a value that grows by a fifth, and none but the greatest   *)
(* is smaller than it has to be (value_size_for).                            *)
THEOREM ValuesStayReadable == Spec => ValuesReadable
  <1>1. BoardsInv /\ ReadInv /\ [Next]_vars
          => [\A b \in Board : Written(b) => Readable(b, board'[b])]_vars
    <2> SUFFICES ASSUME BoardsInv, ReadInv, [Next]_vars, NEW b \in Board, Written(b)
                 PROVE  Readable(b, board'[b])
      OBVIOUS
    <2>1. Legible(board'[b])
      BY WrittenRead
    <2>2. QED
      BY <2>1, LegibleReads
  <1>2. QED
    BY <1>1, BoardsInvariant, ReadInvariant, PTL DEF Spec, ValuesReadable
-----------------------------------------------------------------------------
(* The layout.  A set of widgets lies in a box when all of them do and no    *)
(* two overlap; boxes are put below each other, or side by side.             *)
Within(v, x0, x1, y0, y1) ==
  /\ v.x \in Int /\ v.y \in Int /\ v.w \in Int /\ v.h \in Int /\ v.w > 0
  /\ x0 <= v.x /\ v.x + v.w <= x1
  /\ y0 <= v.y /\ v.y + v.h <= y1

Boxed(A, x0, x1, y0, y1) ==
  /\ \A v \in A : Within(v, x0, x1, y0, y1)
  /\ \A v, u \in A : Overlap(v, u) => v = u

LEMMA OverlapBoth ==
  ASSUME NEW v, NEW u, Overlap(v, u)
  PROVE  Overlap(u, v)
  BY DEF Overlap

LEMMA InLarger ==
  ASSUME NEW A, NEW x0 \in Int, NEW x1 \in Int, NEW y0 \in Int, NEW y1 \in Int,
         NEW X0 \in Int, NEW X1 \in Int, NEW Y0 \in Int, NEW Y1 \in Int,
         Boxed(A, x0, x1, y0, y1), X0 <= x0, x1 <= X1, Y0 <= y0, y1 <= Y1
  PROVE  Boxed(A, X0, X1, Y0, Y1)
  BY DEF Boxed, Within

(* What lies in boxes that do not meet does not overlap. *)
LEMMA Apart ==
  ASSUME NEW x0 \in Int, NEW x1 \in Int, NEW y0 \in Int, NEW y1 \in Int,
         NEW X0 \in Int, NEW X1 \in Int, NEW Y0 \in Int, NEW Y1 \in Int,
         NEW v, NEW u, Within(v, x0, x1, y0, y1), Within(u, X0, X1, Y0, Y1),
         x1 <= X0 \/ y1 <= Y0
  PROVE  ~Overlap(v, u) /\ ~Overlap(u, v)
  BY DEF Within, Overlap

LEMMA Joined ==
  ASSUME NEW A, NEW B, NEW x0 \in Int, NEW x1 \in Int, NEW y0 \in Int, NEW y1 \in Int,
         Boxed(A, x0, x1, y0, y1), Boxed(B, x0, x1, y0, y1),
         \A v \in A, u \in B : ~Overlap(v, u)
  PROVE  Boxed(A \cup B, x0, x1, y0, y1)
  <1>1. \A v \in A \cup B : Within(v, x0, x1, y0, y1)
    BY DEF Boxed
  <1>2. ASSUME NEW v \in A \cup B, NEW u \in A \cup B, Overlap(v, u) PROVE v = u
    <2>1. Overlap(u, v)
      BY <1>2, OverlapBoth
    <2>2. QED
      BY <1>2, <2>1 DEF Boxed
  <1>3. QED
    BY <1>1, <1>2 DEF Boxed

LEMMA Under ==
  ASSUME NEW A, NEW B, NEW x0 \in Int, NEW x1 \in Int, NEW y0 \in Int, NEW y \in Int, NEW y1 \in Int,
         y0 <= y, y <= y1, Boxed(A, x0, x1, y0, y), Boxed(B, x0, x1, y, y1)
  PROVE  Boxed(A \cup B, x0, x1, y0, y1)
  <1>1. Boxed(A, x0, x1, y0, y1) /\ Boxed(B, x0, x1, y0, y1)
    BY InLarger
  <1>2. \A v \in A, u \in B : ~Overlap(v, u)
    BY Apart DEF Boxed
  <1>3. QED
    BY <1>1, <1>2, Joined

LEMMA Right ==
  ASSUME NEW A, NEW B, NEW x0 \in Int, NEW x \in Int, NEW x1 \in Int, NEW y0 \in Int, NEW y1 \in Int,
         x0 <= x, x <= x1, Boxed(A, x0, x, y0, y1), Boxed(B, x, x1, y0, y1)
  PROVE  Boxed(A \cup B, x0, x1, y0, y1)
  <1>1. Boxed(A, x0, x1, y0, y1) /\ Boxed(B, x0, x1, y0, y1)
    BY InLarger
  <1>2. \A v \in A, u \in B : ~Overlap(v, u)
    BY Apart DEF Boxed
  <1>3. QED
    BY <1>1, <1>2, Joined

(* A row for each host. *)
LEMMA Rows ==
  ASSUME NEW n \in Nat, NEW A, NEW x0 \in Int, NEW x1 \in Int, NEW y \in Int, NEW h \in Nat,
         \A i \in 1..n : Boxed(A[i], x0, x1, y + h * (i - 1), y + h * i)
  PROVE  Boxed(UNION {A[i] : i \in 1..n}, x0, x1, y, y + h * n)
  <1>1. ASSUME NEW i \in 1..n PROVE Boxed(A[i], x0, x1, y, y + h * n)
    <2>1. h * (i - 1) \in Nat /\ h * i \in Nat /\ h * i <= h * n /\ h * n \in Nat
      OBVIOUS
    <2>2. QED
      BY <2>1, InLarger
  <1>2. ASSUME NEW i \in 1..n, NEW j \in 1..n, i < j, NEW v \in A[i], NEW u \in A[j]
        PROVE  ~Overlap(v, u) /\ ~Overlap(u, v)
    <2>1. /\ h * (i - 1) \in Int /\ h * i \in Int /\ h * (j - 1) \in Int /\ h * j \in Int
          /\ h * i <= h * (j - 1)
      BY <1>2
    <2>2. Within(v, x0, x1, y + h * (i - 1), y + h * i) /\ Within(u, x0, x1, y + h * (j - 1), y + h * j)
      BY DEF Boxed
    <2>3. QED
      BY <2>1, <2>2, Apart
  <1>3. ASSUME NEW i \in 1..n, NEW j \in 1..n, NEW v \in A[i], NEW u \in A[j], Overlap(v, u)
        PROVE  v = u
    <2>1. i = j
      BY <1>2, <1>3
    <2>2. QED
      BY <1>1, <1>3, <2>1 DEF Boxed
  <1>4. QED
    BY <1>1, <1>3 DEF Boxed

(* A column for each host. *)
LEMMA Columns ==
  ASSUME NEW n \in Nat, NEW A, NEW y0 \in Int, NEW y1 \in Int, NEW w \in Nat,
         \A i \in 1..n : Boxed(A[i], w * (i - 1), w * i, y0, y1)
  PROVE  Boxed(UNION {A[i] : i \in 1..n}, 0, w * n, y0, y1)
  <1>1. ASSUME NEW i \in 1..n PROVE Boxed(A[i], 0, w * n, y0, y1)
    <2>1. w * (i - 1) \in Nat /\ w * i \in Nat /\ w * i <= w * n /\ w * n \in Nat
      OBVIOUS
    <2>2. QED
      BY <2>1, InLarger
  <1>2. ASSUME NEW i \in 1..n, NEW j \in 1..n, i < j, NEW v \in A[i], NEW u \in A[j]
        PROVE  ~Overlap(v, u) /\ ~Overlap(u, v)
    <2>1. /\ w * (i - 1) \in Int /\ w * i \in Int /\ w * (j - 1) \in Int /\ w * j \in Int
          /\ w * i <= w * (j - 1)
      BY <1>2
    <2>2. Within(v, w * (i - 1), w * i, y0, y1) /\ Within(u, w * (j - 1), w * j, y0, y1)
      BY DEF Boxed
    <2>3. QED
      BY <2>1, <2>2, Apart
  <1>3. ASSUME NEW i \in 1..n, NEW j \in 1..n, NEW v \in A[i], NEW u \in A[j], Overlap(v, u)
        PROVE  v = u
    <2>1. i = j
      BY <1>2, <1>3
    <2>2. QED
      BY <1>1, <1>3, <2>1 DEF Boxed
  <1>4. QED
    BY <1>1, <1>3 DEF Boxed
-----------------------------------------------------------------------------
(* The boxes of the parts of a board. *)
LEMMA WidgetOf ==
  ASSUME NEW type, NEW x, NEW y, NEW w, NEW h, NEW of, NEW v, v = Widget(type, x, y, w, h, of)
  PROVE  v.type = type /\ v.x = x /\ v.y = y /\ v.w = w /\ v.h = h /\ v.of = of
  BY DEF Widget

LEMMA OneBox ==
  ASSUME NEW type, NEW x \in Int, NEW y \in Int, NEW w \in Int, NEW h \in Int, NEW of, w > 0
  PROVE  Boxed({Widget(type, x, y, w, h, of)}, x, x + w, y, y + h)
  <1> DEFINE v == Widget(type, x, y, w, h, of)
  <1>1. v.x = x /\ v.y = y /\ v.w = w /\ v.h = h
    BY DEF Widget
  <1> HIDE DEF v
  <1>2. Boxed({v}, x, x + w, y, y + h)
    BY <1>1 DEF Boxed, Within
  <1>3. QED
    BY <1>2 DEF v

LEMMA TileRowBox ==
  ASSUME NEW c, NEW i, NEW y \in Int, NEW tiles, NEW m \in Nat, DOMAIN tiles = 1..m,
         NEW w, w \in {12, 18}, w * m <= 72
  PROVE  Boxed(TileRow(c, i, y, tiles, w, 3), 0, 72, y, y + 3)
  <1> DEFINE A == TileRow(c, i, y, tiles, w, 3)
             at(k) == Widget("item", (k - 1) * w, y, w, 3, <<c.fleet[i], tiles[k]>>)
  <1>1. \A v \in A : \E k \in 1..m : v = at(k)
    BY DEF TileRow
  <1>2. ASSUME NEW k \in 1..m, NEW v, v = at(k)
        PROVE  v.x = (k - 1) * w /\ v.y = y /\ v.w = w /\ v.h = 3
    BY <1>2, WidgetOf
  <1> HIDE DEF A
  <1>3. ASSUME NEW v \in A PROVE Within(v, 0, 72, y, y + 3)
    <2>1. PICK k \in 1..m : v = at(k)
      BY <1>1
    <2>2. v.x = (k - 1) * w /\ v.y = y /\ v.w = w /\ v.h = 3
      BY <1>2, <2>1
    <2>3. (k - 1) * w \in Int /\ 0 <= (k - 1) * w /\ (k - 1) * w + w <= 72
      <3>1. CASE w = 12
        BY <3>1
      <3>2. CASE w = 18
        BY <3>2
      <3>3. QED
        BY <3>1, <3>2
    <2>4. QED
      BY <2>2, <2>3 DEF Within
  <1>4. ASSUME NEW v \in A, NEW u \in A, Overlap(v, u) PROVE v = u
    <2>1. PICK k \in 1..m : v = at(k)
      BY <1>1
    <2>2. PICK l \in 1..m : u = at(l)
      BY <1>1
    <2>3. v.x = (k - 1) * w /\ v.w = w /\ u.x = (l - 1) * w /\ u.w = w
      BY <1>2, <2>1, <2>2
    <2>4. (k - 1) * w < (l - 1) * w + w /\ (l - 1) * w < (k - 1) * w + w
      BY <1>4, <2>3 DEF Overlap
    <2>5. k = l
      <3>1. CASE w = 12
        BY <2>4, <3>1
      <3>2. CASE w = 18
        BY <2>4, <3>2
      <3>3. QED
        BY <3>1, <3>2
    <2>6. QED
      BY <2>1, <2>2, <2>5
  <1>5. QED
    BY <1>3, <1>4 DEF Boxed, A

LEMMA LeaderboardBox ==
  ASSUME NEW c, NEW i, NEW x \in Int, NEW y \in Int, NEW w \in Int, w > 0,
         NEW ranks, NEW m \in Nat, DOMAIN ranks = 1..m
  PROVE  Boxed(Leaderboard(c, i, x, y, w, ranks), x, x + w, y, y + 2 * m)
  <1> DEFINE A == Leaderboard(c, i, x, y, w, ranks)
             at(k) == Widget("item", x, y + (k - 1) * 2, w, 2, <<c.fleet[i], ranks[k]>>)
  <1>1. \A v \in A : \E k \in 1..m : v = at(k)
    BY DEF Leaderboard
  <1>2. ASSUME NEW k \in 1..m, NEW v, v = at(k)
        PROVE  v.x = x /\ v.y = y + (k - 1) * 2 /\ v.w = w /\ v.h = 2
    BY <1>2, WidgetOf
  <1> HIDE DEF A
  <1>3. ASSUME NEW v \in A PROVE Within(v, x, x + w, y, y + 2 * m)
    <2>1. PICK k \in 1..m : v = at(k)
      BY <1>1
    <2>2. v.x = x /\ v.y = y + (k - 1) * 2 /\ v.w = w /\ v.h = 2
      BY <1>2, <2>1
    <2>3. QED
      BY <2>2 DEF Within
  <1>4. ASSUME NEW v \in A, NEW u \in A, Overlap(v, u) PROVE v = u
    <2>1. PICK k \in 1..m : v = at(k)
      BY <1>1
    <2>2. PICK l \in 1..m : u = at(l)
      BY <1>1
    <2>3. v.y = y + (k - 1) * 2 /\ v.h = 2 /\ u.y = y + (l - 1) * 2 /\ u.h = 2
      BY <1>2, <2>1, <2>2
    <2>4. k = l
      BY <1>4, <2>3 DEF Overlap
    <2>5. QED
      BY <2>1, <2>2, <2>4
  <1>5. QED
    BY <1>3, <1>4 DEF Boxed, A

LEMMA GraphsBox ==
  ASSUME NEW n \in Nat, NEW y \in Int
  PROVE  Boxed(Graphs(n, y), 0, 72, y, y + Below(n))
  <1> DEFINE A == Graphs(n, y)
             at(k) == Widget("svggraph", (k % 2) * 36, y + (k \div 2) * 7, 36, 7, <<k, "graph">>)
  <1>1. \A v \in A : \E k \in 0..n - 1 : v = at(k)
    BY DEF Graphs
  <1>2. ASSUME NEW k \in 0..n - 1, NEW v, v = at(k)
        PROVE  v.x = (k % 2) * 36 /\ v.y = y + (k \div 2) * 7 /\ v.w = 36 /\ v.h = 7
    BY <1>2, WidgetOf
  <1> HIDE DEF A
  <1>3. ASSUME NEW v \in A PROVE Within(v, 0, 72, y, y + Below(n))
    <2>1. PICK k \in 0..n - 1 : v = at(k)
      BY <1>1
    <2>2. v.x = (k % 2) * 36 /\ v.y = y + (k \div 2) * 7 /\ v.w = 36 /\ v.h = 7
      BY <1>2, <2>1
    <2>3. k % 2 \in {0, 1} /\ k \div 2 \in Nat /\ (k \div 2) + 1 <= (n + 1) \div 2
      OBVIOUS
    <2>4. QED
      BY <2>2, <2>3 DEF Within, Below
  <1>4. ASSUME NEW v \in A, NEW u \in A, Overlap(v, u) PROVE v = u
    <2>1. PICK k \in 0..n - 1 : v = at(k)
      BY <1>1
    <2>2. PICK l \in 0..n - 1 : u = at(l)
      BY <1>1
    <2>3. /\ v.x = (k % 2) * 36 /\ v.y = y + (k \div 2) * 7 /\ v.w = 36 /\ v.h = 7
          /\ u.x = (l % 2) * 36 /\ u.y = y + (l \div 2) * 7 /\ u.w = 36 /\ u.h = 7
      BY <1>2, <2>1, <2>2
    <2>4. k % 2 = l % 2 /\ k \div 2 = l \div 2
      BY <1>4, <2>3 DEF Overlap
    <2>5. k = l
      BY <2>4
    <2>6. QED
      BY <2>1, <2>2, <2>5
  <1>5. QED
    BY <1>3, <1>4 DEF Boxed, A

LEMMA PerHostBox ==
  ASSUME NEW c, NEW n \in Nat, Len(c.fleet) = n, Hosts(c) = 1..n, n <= 72,
         NEW type, NEW y \in Int, NEW h \in Int
  PROVE  Boxed(PerHost(c, type, y, h), 0, 72, y, y + h)
  <1> DEFINE w == 72 \div n
             A == [i \in 1..n |-> {Widget(type, (i - 1) * w, y, w, h, <<c.fleet[i], type>>)}]
  <1>1. CASE n = 0
    <2>1. PerHost(c, type, y, h) = {}
      BY <1>1 DEF PerHost
    <2>2. QED
      BY <2>1 DEF Boxed
  <1>2. CASE n > 0
    <2>1. w \in Nat /\ w * n <= 72 /\ 72 < (w + 1) * n
      BY <1>2, DivOf
    <2>2. w > 0
      BY <1>2, <2>1
    <2>3. PerHost(c, type, y, h) = {Widget(type, (i - 1) * w, y, w, h, <<c.fleet[i], type>>) : i \in 1..n}
      BY DEF PerHost, SplitColumns, GRID_COLUMNS
    <2> HIDE DEF w
    <2> DEFINE at(i) == Widget(type, (i - 1) * w, y, w, h, <<c.fleet[i], type>>)
    <2>4. PerHost(c, type, y, h) = UNION {A[i] : i \in 1..n}
      <3>1. \A i \in 1..n : A[i] = {at(i)}
        OBVIOUS
      <3>2. PerHost(c, type, y, h) = {at(i) : i \in 1..n}
        BY <2>3
      <3> HIDE DEF A, at
      <3>3. QED
        BY <3>1, <3>2
    <2>5. ASSUME NEW i \in 1..n PROVE Boxed(A[i], w * (i - 1), w * i, y, y + h)
      <3>1. (i - 1) * w \in Int /\ w * (i - 1) = (i - 1) * w /\ w * i = (i - 1) * w + w
        BY <2>1
      <3>2. A[i] = {Widget(type, (i - 1) * w, y, w, h, <<c.fleet[i], type>>)}
        OBVIOUS
      <3> HIDE DEF A
      <3>3. Boxed(A[i], (i - 1) * w, (i - 1) * w + w, y, y + h)
        <4> DEFINE x == (i - 1) * w
                   of == <<c.fleet[i], type>>
        <4>1. x \in Int /\ w \in Int /\ w > 0
          BY <3>1, <2>1, <2>2
        <4> HIDE DEF x, of
        <4>2. Boxed({Widget(type, x, y, w, h, of)}, x, x + w, y, y + h)
          BY <4>1, OneBox, Zenon
        <4>3. A[i] = {Widget(type, x, y, w, h, of)}
          BY <3>2 DEF x, of
        <4>4. Boxed(A[i], x, x + w, y, y + h)
          BY <4>2, <4>3
        <4>5. QED
          BY <4>4 DEF x
      <3>4. QED
        BY <3>1, <3>3
    <2> HIDE DEF A
    <2>6. Boxed(UNION {A[i] : i \in 1..n}, 0, w * n, y, y + h)
      <3>1. y + h \in Int
        OBVIOUS
      <3>2. QED
        BY <2>1, <2>5, <3>1, Columns
    <2>7. w * n \in Int /\ w * n <= 72
      BY <2>1
    <2>8. QED
      BY <2>4, <2>6, <2>7, InLarger
  <1>3. QED
    BY <1>1, <1>2

LEMMA DialsBox ==
  ASSUME NEW c, NEW n \in Nat, Len(c.fleet) = n
  PROVE  Boxed(Dials(c), 0, 48, 3, 3 + 5 * ((2 * n + 3) \div 4))
  <1> DEFINE A == Dials(c)
             s == Least(4, 2 * n)
             w == 48 \div s
             at(d) == Widget("gauge", (d % 4) * w, 3 + (d \div 4) * 5, w, 5,
                             <<c.fleet[1 + (d \div 2)], Gauges[1 + (d % 2)]>>)
  <1>0. ASSUME n > 0 PROVE s \in {2, 4} /\ w \in {12, 24} /\ s * w = 48 /\ (s = 2 => n = 1)
    <2>1. s = IF n = 1 THEN 2 ELSE 4
      BY <1>0 DEF Least
    <2>2. QED
      BY <2>1
  <1>1. ASSUME NEW d \in 0..2 * n - 1 PROVE d % 4 \in 0..s - 1 /\ n > 0
    <2>1. n > 0
      OBVIOUS
    <2>2. CASE s = 4
      BY <2>2
    <2>3. CASE s = 2
      BY <1>0, <2>1, <2>3
    <2>4. QED
      BY <1>0, <2>1, <2>2, <2>3
  <1>2. ASSUME NEW v \in A PROVE \E d \in 0..2 * n - 1 : v = at(d)
    <2> DEFINE slot == SplitColumns(Least(GAUGES_PER_ROW, 2 * n), GRID_COLUMNS - 24)
    <2>1. slot = [i \in 1..s |-> [x |-> (i - 1) * w, w |-> w]]
      BY DEF SplitColumns, GAUGES_PER_ROW, GRID_COLUMNS
    <2>2. PICK d \in 0..2 * n - 1 :
            v = Widget("gauge", slot[1 + (d % 4)].x, 3 + (d \div 4) * 5, slot[1 + (d % 4)].w, 5,
                       <<c.fleet[1 + (d \div 2)], Gauges[1 + (d % 2)]>>)
      BY DEF Dials, GAUGES_PER_ROW
    <2> HIDE DEF slot, s, w
    <2>3. 1 + (d % 4) \in 1..s
      BY <1>0, <1>1
    <2>4. slot[1 + (d % 4)] = [x |-> (1 + (d % 4) - 1) * w, w |-> w]
      BY <2>1, <2>3
    <2>5. 1 + (d % 4) - 1 = d % 4
      OBVIOUS
    <2>6. slot[1 + (d % 4)].x = (d % 4) * w /\ slot[1 + (d % 4)].w = w
      BY <2>4, <2>5
    <2>7. QED
      BY <2>2, <2>6
  <1>3. ASSUME NEW d \in 0..2 * n - 1, NEW v, v = at(d)
        PROVE  v.x = (d % 4) * w /\ v.y = 3 + (d \div 4) * 5 /\ v.w = w /\ v.h = 5
    BY <1>3, WidgetOf
  <1> HIDE DEF A, s, w
  <1>4. ASSUME NEW v \in A PROVE Within(v, 0, 48, 3, 3 + 5 * ((2 * n + 3) \div 4))
    <2>1. PICK d \in 0..2 * n - 1 : v = at(d)
      BY <1>2
    <2>2. v.x = (d % 4) * w /\ v.y = 3 + (d \div 4) * 5 /\ v.w = w /\ v.h = 5
      BY <1>3, <2>1
    <2>3. d \div 4 \in Nat /\ (d \div 4) + 1 <= (2 * n + 3) \div 4
      OBVIOUS
    <2>4. w \in {12, 24} /\ (d % 4) * w \in Int /\ 0 <= (d % 4) * w /\ (d % 4) * w + w <= 48
      <3>1. d % 4 \in 0..s - 1 /\ n > 0
        BY <1>1
      <3>2. CASE s = 2 /\ w = 24
        BY <3>1, <3>2
      <3>3. CASE s = 4 /\ w = 12
        BY <3>1, <3>3
      <3>4. QED
        BY <1>0, <3>1, <3>2, <3>3
    <2>5. QED
      BY <2>2, <2>3, <2>4 DEF Within
  <1>5. ASSUME NEW v \in A, NEW u \in A, Overlap(v, u) PROVE v = u
    <2>1. PICK d \in 0..2 * n - 1 : v = at(d)
      BY <1>2
    <2>2. PICK e \in 0..2 * n - 1 : u = at(e)
      BY <1>2
    <2>3. /\ v.x = (d % 4) * w /\ v.y = 3 + (d \div 4) * 5 /\ v.w = w /\ v.h = 5
          /\ u.x = (e % 4) * w /\ u.y = 3 + (e \div 4) * 5 /\ u.w = w /\ u.h = 5
      BY <1>3, <2>1, <2>2
    <2>4. d \div 4 = e \div 4
      <3>1. d \div 4 \in Int /\ e \div 4 \in Int
        OBVIOUS
      <3>2. 3 + (d \div 4) * 5 < 3 + (e \div 4) * 5 + 5 /\ 3 + (e \div 4) * 5 < 3 + (d \div 4) * 5 + 5
        BY <1>5, <2>3 DEF Overlap
      <3>3. QED
        BY <3>1, <3>2
    <2>5. d % 4 = e % 4
      <3>1. (d % 4) * w < (e % 4) * w + w /\ (e % 4) * w < (d % 4) * w + w
        BY <1>5, <2>3 DEF Overlap
      <3>2. d % 4 \in Int /\ e % 4 \in Int /\ w \in {12, 24}
        BY <1>0, <1>1
      <3>3. CASE w = 12
        BY <3>1, <3>2, <3>3
      <3>4. CASE w = 24
        BY <3>1, <3>2, <3>4
      <3>5. QED
        BY <3>2, <3>3, <3>4
    <2>6. d = e
      BY <2>4, <2>5
    <2>7. QED
      BY <2>1, <2>2, <2>6
  <1>6. QED
    BY <1>4, <1>5 DEF Boxed, A
-----------------------------------------------------------------------------
(* A board for a fleet of at most 36 hosts: each half of a column has a width. *)
Fleet36(c, n) == n \in Nat /\ n <= 36 /\ Len(c.fleet) = n /\ Hosts(c) = 1..n

LEMMA BoxedTiled ==
  ASSUME NEW A, NEW y \in Int, Boxed(A, 0, 72, 0, y)
  PROVE  Tiled(A)
  BY DEF Boxed, Within, Tiled, InGrid, GRID_COLUMNS

LEMMA LegendBox == Boxed({Legend}, 0, 72, 0, 3)
  <1>1. Boxed({Widget("url", 0, 0, 72, 3, <<0, "legend">>)}, 0, 0 + 72, 0, 0 + 3)
    <2> DEFINE of == <<0, "legend">>
    <2> HIDE DEF of
    <2>1. 0 \in Int /\ 72 \in Int /\ 3 \in Int /\ 72 > 0
      OBVIOUS
    <2>2. Boxed({Widget("url", 0, 0, 72, 3, of)}, 0, 0 + 72, 0, 0 + 3)
      BY <2>1, OneBox, Zenon
    <2>3. QED
      BY <2>2 DEF of
  <1>2. QED
    BY <1>1 DEF Legend

TileRows(c, y, tiles, w) == UNION {TileRow(c, i, y + 3 * i, tiles, w, 3) : i \in Hosts(c)}

LEMMA TileRowsBox ==
  ASSUME NEW c, NEW n, Fleet36(c, n), NEW y \in Int, NEW tiles, NEW m \in Nat, DOMAIN tiles = 1..m,
         NEW w, w \in {12, 18}, w * m <= 72
  PROVE  Boxed(TileRows(c, y, tiles, w), 0, 72, y + 3, y + 3 + 3 * n)
  <1> DEFINE A == [i \in 1..n |-> TileRow(c, i, y + 3 * i, tiles, w, 3)]
             z == y + 3
  <1>1. z \in Int /\ n \in Nat /\ Hosts(c) = 1..n
    BY DEF Fleet36
  <1>2. ASSUME NEW i \in 1..n PROVE Boxed(A[i], 0, 72, z + 3 * (i - 1), z + 3 * i)
    <2> DEFINE r == y + 3 * i
    <2>1. r \in Int /\ r = z + 3 * (i - 1) /\ r + 3 = z + 3 * i
      OBVIOUS
    <2>2. A[i] = TileRow(c, i, r, tiles, w, 3)
      OBVIOUS
    <2> HIDE DEF A, z, r
    <2>3. Boxed(TileRow(c, i, r, tiles, w, 3), 0, 72, r, r + 3)
      BY <2>1, TileRowBox
    <2>4. QED
      BY <2>1, <2>2, <2>3
  <1>3. TileRows(c, y, tiles, w) = UNION {A[i] : i \in 1..n}
    BY <1>1 DEF TileRows
  <1> HIDE DEF A, z
  <1>4. Boxed(UNION {A[i] : i \in 1..n}, 0, 72, z, z + 3 * n)
    <2> DEFINE h == 3
    <2>0. 0 \in Int /\ 72 \in Int
      OBVIOUS
    <2>1. h \in Nat /\ \A i \in 1..n : Boxed(A[i], 0, 72, z + h * (i - 1), z + h * i)
      BY <1>2
    <2> HIDE DEF h
    <2>2. Boxed(UNION {A[i] : i \in 1..n}, 0, 72, z, z + h * n)
      BY <1>1, <2>0, <2>1, Rows, Zenon
    <2>3. QED
      BY <2>2 DEF h
  <1>5. QED
    BY <1>3, <1>4 DEF z

LEMMA OverviewTiled ==
  ASSUME NEW c, NEW n, Fleet36(c, n)
  PROVE  Tiled(BuildOverview(c))
  <1> DEFINE y == 3 + 3 * n
             tiles == UNION {TileRow(c, i, 3 * i, OverviewTiles, 12, 3) : i \in Hosts(c)}
             graphs == Graphs(6, y)
             pies == PerHost(c, "piechart", y + Below(6), 7)
  <1>0. n \in Nat /\ n <= 72 /\ y \in Int /\ Below(6) = 21 /\ Len(c.fleet) = n /\ Hosts(c) = 1..n
    BY DEF Fleet36, Below
  <1>1. BuildOverview(c) = {Legend} \cup tiles \cup graphs \cup pies
    BY <1>0 DEF BuildOverview
  <1>2. Boxed(tiles, 0, 72, 3, y)
    <2>1. DOMAIN OverviewTiles = 1..6
      BY DEF OverviewTiles
    <2>2. Boxed(TileRows(c, 0, OverviewTiles, 12), 0, 72, 0 + 3, 0 + 3 + 3 * n)
      <3> DEFINE m == 6
      <3>1. DOMAIN OverviewTiles = 1..m /\ m \in Nat /\ 12 * m <= 72
        BY <2>1
      <3> HIDE DEF m
      <3>2. QED
        BY <3>1, TileRowsBox
    <2>3. \A i \in Hosts(c) : 0 + 3 * i = 3 * i
      BY <1>0
    <2>4. TileRows(c, 0, OverviewTiles, 12) = tiles
      BY <2>3 DEF TileRows
    <2>5. 0 + 3 = 3 /\ 0 + 3 + 3 * n = y
      BY <1>0
    <2> HIDE DEF tiles, y
    <2>6. QED
      BY <2>2, <2>4, <2>5
  <1> HIDE DEF y
  <1>3. Boxed(graphs, 0, 72, y, y + 21)
    BY <1>0, GraphsBox
  <1>4. Boxed(pies, 0, 72, y + 21, y + 21 + 7)
    BY <1>0, PerHostBox
  <1> HIDE DEF tiles, graphs, pies
  <1>5. 3 <= y /\ y + 21 \in Int /\ y + 28 \in Int /\ y + 21 + 7 = y + 28
    BY <1>0 DEF y
  <1>6. Boxed({Legend} \cup tiles, 0, 72, 0, y)
    BY <1>0, <1>2, <1>5, LegendBox, Under
  <1>7. Boxed({Legend} \cup tiles \cup graphs, 0, 72, 0, y + 21)
    BY <1>0, <1>3, <1>5, <1>6, Under
  <1>8. Boxed({Legend} \cup tiles \cup graphs \cup pies, 0, 72, 0, y + 28)
    BY <1>0, <1>4, <1>5, <1>7, Under
  <1>9. QED
    BY <1>1, <1>5, <1>8, BoxedTiled

LEMMA SecurityTiled ==
  ASSUME NEW c, NEW n, Fleet36(c, n)
  PROVE  Tiled(BuildSecurity(c))
  <1> DEFINE y == 18 + 3 * n
             column == GRID_COLUMNS \div Greatest(1, Len(c.fleet))
             half == column \div 2
             tiles == UNION {TileRow(c, i, 15 + 3 * i, SecurityTiles, 18, 3) : i \in Hosts(c)}
             L == [i \in 1..n |-> Leaderboard(c, i, (i - 1) * column, y, half, TopBlocked)]
             R == [i \in 1..n |-> Leaderboard(c, i, (i - 1) * column + half, y, column - half, TopCountries)]
             left == UNION {Leaderboard(c, i, (i - 1) * column, y, half, TopBlocked) : i \in Hosts(c)}
             right == UNION {Leaderboard(c, i, (i - 1) * column + half, y, column - half, TopCountries) :
                               i \in Hosts(c)}
             graphs == Graphs(2, 3)
             line == Widget("svggraph", 0, 10, 72, 8, <<2, "graph">>)
  <1>0. n \in Nat /\ n <= 36 /\ y \in Int /\ Below(2) = 7 /\ Len(c.fleet) = n /\ Hosts(c) = 1..n
    BY DEF Fleet36, Below
  <1>1. BuildSecurity(c) = {Legend, line} \cup graphs \cup tiles \cup left \cup right
    BY <1>0 DEF BuildSecurity
  <1>2. Boxed(tiles, 0, 72, 18, y)
    <2>1. DOMAIN SecurityTiles = 1..4
      BY DEF SecurityTiles
    <2>2. Boxed(TileRows(c, 15, SecurityTiles, 18), 0, 72, 15 + 3, 15 + 3 + 3 * n)
      <3> DEFINE m == 4
      <3>1. DOMAIN SecurityTiles = 1..m /\ m \in Nat /\ 18 * m <= 72
        BY <2>1
      <3> HIDE DEF m
      <3>2. QED
        BY <3>1, TileRowsBox
    <2>3. TileRows(c, 15, SecurityTiles, 18) = tiles
      BY DEF TileRows
    <2>4. 15 + 3 = 18 /\ 15 + 3 + 3 * n = y
      BY <1>0
    <2> HIDE DEF tiles, y
    <2>5. QED
      BY <2>2, <2>3, <2>4
  <1>3. column \in Nat /\ column * n <= 72 /\ (n > 0 => half \in Nat /\ half > 0 /\ column - half > 0)
    <2>1. CASE n = 0
      BY <1>0, <2>1 DEF Greatest, GRID_COLUMNS
    <2>2. CASE n > 0
      <3>1. Greatest(1, n) = n
        BY <1>0, <2>2 DEF Greatest
      <3>2. column = 72 \div n
        BY <1>0, <3>1 DEF GRID_COLUMNS
      <3> HIDE DEF column
      <3>3. column \in Nat /\ column * n <= 72 /\ 72 < (column + 1) * n
        BY <1>0, <2>2, <3>2, DivOf
      <3>4. (column + 1) * n \in Int /\ (column + 1) * n <= (column + 1) * 36
        BY <1>0, <3>3
      <3>5. column >= 2
        BY <3>3, <3>4
      <3>6. QED
        BY <3>3, <3>5
    <2>3. QED
      BY <1>0, <2>1, <2>2
  <1>4. left \cup right = UNION {L[i] \cup R[i] : i \in 1..n}
    BY <1>0
  <1>5. ASSUME NEW i \in 1..n
        PROVE  Boxed(L[i] \cup R[i], column * (i - 1), column * i, y, y + 10)
    <2> DEFINE x == (i - 1) * column
               m == 5
               w == column - half
               z == x + half
    <2>1. DOMAIN TopBlocked = 1..m /\ DOMAIN TopCountries = 1..m /\ m \in Nat /\ 2 * m = 10
      BY DEF TopBlocked, TopCountries
    <2>2. L[i] = Leaderboard(c, i, x, y, half, TopBlocked)
      OBVIOUS
    <2>3. R[i] = Leaderboard(c, i, z, y, w, TopCountries)
      OBVIOUS
    <2>4. half \in Int /\ half > 0 /\ w \in Int /\ w > 0
      BY <1>0, <1>3
    <2> HIDE DEF column, half, L, R
    <2>5. x \in Int
      BY <1>3
    <2>6. z \in Int /\ z = x + half /\ z + w = x + column
      BY <1>3, <2>4, <2>5
    <2>7. x = column * (i - 1) /\ x + column = column * i
      BY <1>3
    <2> HIDE DEF x, z, w, m, y
    <2>8. Boxed(L[i], x, x + half, y, y + 2 * m)
      BY <1>0, <2>1, <2>2, <2>4, <2>5, LeaderboardBox
    <2>9. Boxed(R[i], z, z + w, y, y + 2 * m)
      BY <1>0, <2>1, <2>3, <2>4, <2>6, LeaderboardBox
    <2>10. Boxed(L[i], x, z, y, y + 10) /\ Boxed(R[i], z, x + column, y, y + 10)
      BY <2>1, <2>6, <2>8, <2>9
    <2>11. x <= z /\ z <= x + column /\ x + column \in Int /\ y + 10 \in Int
      BY <1>0, <1>3, <2>4, <2>5, <2>6
    <2>12. Boxed(L[i] \cup R[i], x, x + column, y, y + 10)
      BY <1>0, <2>5, <2>6, <2>10, <2>11, Right
    <2>13. QED
      BY <2>7, <2>12
  <1> HIDE DEF y, column, L, R
  <1>6. Boxed(left \cup right, 0, 72, y, y + 10)
    <2> DEFINE A == [i \in 1..n |-> L[i] \cup R[i]]
    <2>1. \A i \in 1..n : Boxed(A[i], column * (i - 1), column * i, y, y + 10)
      BY <1>5
    <2>2. left \cup right = UNION {A[i] : i \in 1..n}
      <3>1. \A i \in 1..n : A[i] = L[i] \cup R[i]
        OBVIOUS
      <3> HIDE DEF A, left, right
      <3>2. QED
        BY <1>4, <3>1
    <2> HIDE DEF A, left, right
    <2>3. y + 10 \in Int /\ y \in Int /\ n \in Nat /\ column \in Nat
      BY <1>0, <1>3
    <2>4. Boxed(UNION {A[i] : i \in 1..n}, 0, column * n, y, y + 10)
      BY <2>1, <2>3, Columns, Zenon
    <2>5. column * n \in Int /\ column * n <= 72
      BY <1>0, <1>3
    <2> DEFINE k == column * n
               all == left \cup right
               b == y + 10
    <2>6. Boxed(all, 0, k, y, b)
      BY <2>2, <2>4
    <2>7. k \in Int /\ k <= 72 /\ b \in Int /\ y \in Int
      BY <2>3, <2>5
    <2> HIDE DEF k, all, b
    <2>8. Boxed(all, 0, 72, y, b)
      BY <2>6, <2>7, InLarger
    <2>9. QED
      BY <2>8 DEF all, b
  <1>7. Boxed(graphs, 0, 72, 3, 10)
    <2>1. Boxed(graphs, 0, 72, 3, 3 + Below(2))
      BY GraphsBox
    <2> HIDE DEF graphs
    <2>2. QED
      BY <1>0, <2>1
  <1>8. Boxed({line}, 0, 72, 10, 18)
    <2> DEFINE of == <<2, "graph">>
    <2> HIDE DEF of
    <2>1. 0 \in Int /\ 72 \in Int /\ 8 \in Int /\ 10 \in Int /\ 72 > 0
      OBVIOUS
    <2>2. Boxed({Widget("svggraph", 0, 10, 72, 8, of)}, 0, 0 + 72, 10, 10 + 8)
      BY <2>1, OneBox, Zenon
    <2>3. Boxed({Widget("svggraph", 0, 10, 72, 8, of)}, 0, 72, 10, 18)
      BY <2>2
    <2>4. QED
      BY <2>3 DEF of
  <1>9. BuildSecurity(c) = {Legend} \cup graphs \cup {line} \cup tiles \cup (left \cup right)
    <2> HIDE DEF tiles, left, right, graphs, line
    <2>1. QED
      BY <1>1
  <1> DEFINE both == left \cup right
  <1>10. Boxed(both, 0, 72, y, y + 10)
    BY <1>6
  <1> HIDE DEF tiles, left, right, graphs, line, both
  <1>11. 18 <= y /\ y + 10 \in Int /\ y <= y + 10
    BY <1>0 DEF y
  <1>12. Boxed({Legend} \cup graphs, 0, 72, 0, 10)
    BY <1>7, LegendBox, Under
  <1>13. Boxed({Legend} \cup graphs \cup {line}, 0, 72, 0, 18)
    BY <1>8, <1>12, Under
  <1>14. Boxed({Legend} \cup graphs \cup {line} \cup tiles, 0, 72, 0, y)
    BY <1>0, <1>2, <1>11, <1>13, Under
  <1>15. Boxed({Legend} \cup graphs \cup {line} \cup tiles \cup both, 0, 72, 0, y + 10)
    BY <1>0, <1>10, <1>11, <1>14, Under
  <1>16. QED
    BY <1>9, <1>11, <1>15, BoxedTiled DEF both

LEMMA CapacityTiled ==
  ASSUME NEW c, NEW n, Fleet36(c, n)
  PROVE  Tiled(BuildCapacity(c))
  <1> DEFINE comb == 3 + 5 * ((2 * n + 3) \div 4)
             top == IF n = 0 THEN 8 ELSE comb
             mid == comb + 5
             y == mid + 14
             dials == Dials(c)
             line == Widget("svggraph", 48, 3, 24, 5, <<3, "graph">>)
             combs == PerHost(c, "honeycomb", comb, 5)
             graphs == Graphs(3, mid)
             L == [i \in 1..n |-> TileRow(c, i, y + 6 * (i - 1), CapacityTilesA, 12, 3)]
             R == [i \in 1..n |-> TileRow(c, i, y + 6 * (i - 1) + 3, CapacityTilesB, 12, 3)]
             first == UNION {TileRow(c, i, y + 6 * (i - 1), CapacityTilesA, 12, 3) : i \in Hosts(c)}
             second == UNION {TileRow(c, i, y + 6 * (i - 1) + 3, CapacityTilesB, 12, 3) : i \in Hosts(c)}
  <1>0. n \in Nat /\ n <= 72 /\ Below(3) = 14 /\ Len(c.fleet) = n /\ Hosts(c) = 1..n
    BY DEF Fleet36, Below
  <1>1. /\ comb \in Int /\ top \in Int /\ mid \in Int /\ y \in Int
        /\ comb >= 3 /\ comb <= top /\ 8 <= top /\ top <= mid /\ (n = 0 => top = mid)
        /\ (n > 0 => top = comb)
    <2>1. (2 * n + 3) \div 4 \in Nat /\ (n > 0 => (2 * n + 3) \div 4 >= 1) /\ (n = 0 => (2 * n + 3) \div 4 = 0)
      BY <1>0
    <2>2. QED
      BY <1>0, <2>1
  <1>2. BuildCapacity(c) = {Legend, line} \cup dials \cup combs \cup graphs \cup first \cup second
    <2>1. 2 * n + GAUGES_PER_ROW - 1 = 2 * n + 3 /\ GAUGES_PER_ROW = 4
      BY <1>0 DEF GAUGES_PER_ROW
    <2>2. 3 + 5 * ((2 * Len(c.fleet) + GAUGES_PER_ROW - 1) \div GAUGES_PER_ROW) = comb
      BY <1>0, <2>1
    <2>3. comb + 5 + Below(3) = y
      BY <1>0
    <2>4. QED
      BY <2>2, <2>3 DEF BuildCapacity
  <1>3. Boxed(dials, 0, 48, 3, comb)
    BY <1>0, DialsBox
  <1>4. Boxed({line}, 48, 72, 3, 8)
    <2> DEFINE of == <<3, "graph">>
    <2> HIDE DEF of
    <2>1. 48 \in Int /\ 3 \in Int /\ 24 \in Int /\ 5 \in Int /\ 24 > 0
      OBVIOUS
    <2>2. Boxed({Widget("svggraph", 48, 3, 24, 5, of)}, 48, 48 + 24, 3, 3 + 5)
      BY <2>1, OneBox, Zenon
    <2>3. Boxed({Widget("svggraph", 48, 3, 24, 5, of)}, 48, 72, 3, 8)
      BY <2>2
    <2>4. QED
      BY <2>3 DEF of
  <1> HIDE DEF comb
  <1>5. Boxed(combs, 0, 72, top, mid)
    <2>1. CASE n = 0
      <3>1. combs = {}
        BY <1>0, <2>1 DEF PerHost
      <3>2. QED
        BY <3>1 DEF Boxed
    <2>2. CASE n > 0
      <3>1. Boxed(combs, 0, 72, comb, comb + 5)
        BY <1>0, <1>1, PerHostBox
      <3>2. QED
        BY <1>1, <2>2, <3>1
    <2>3. QED
      BY <1>0, <2>1, <2>2
  <1> HIDE DEF mid
  <1>6. Boxed(graphs, 0, 72, mid, y)
    <2>1. Boxed(graphs, 0, 72, mid, mid + Below(3))
      BY <1>1, GraphsBox
    <2>2. QED
      BY <1>0, <2>1
  <1>7. first \cup second = UNION {L[i] \cup R[i] : i \in 1..n}
    BY <1>0
  <1>8. DOMAIN CapacityTilesA = 1..6 /\ DOMAIN CapacityTilesB = 1..4
    BY DEF CapacityTilesA, CapacityTilesB
  <1> DEFINE h == 6
  <1>9. ASSUME NEW i \in 1..n
        PROVE  Boxed(L[i] \cup R[i], 0, 72, y + h * (i - 1), y + h * i)
    <2> DEFINE u == y + 6 * (i - 1)
               v == u + 3
    <2>1. u \in Int /\ v \in Int /\ v = u + 3 /\ u <= v /\ v <= v + 3 /\ v + 3 \in Int
      BY <1>1
    <2>2. L[i] = TileRow(c, i, u, CapacityTilesA, 12, 3) /\ R[i] = TileRow(c, i, v, CapacityTilesB, 12, 3)
      OBVIOUS
    <2>3. u = y + h * (i - 1) /\ v + 3 = y + h * i
      BY <1>1
    <2> HIDE DEF u, v, L, R, h, y
    <2>4. Boxed(L[i], 0, 72, u, v)
      <3> DEFINE m == 6
      <3>1. DOMAIN CapacityTilesA = 1..m /\ m \in Nat /\ 12 * m <= 72
        BY <1>8
      <3> HIDE DEF m
      <3>2. QED
        BY <2>1, <2>2, <3>1, TileRowBox
    <2>5. Boxed(R[i], 0, 72, v, v + 3)
      <3> DEFINE m == 4
      <3>1. DOMAIN CapacityTilesB = 1..m /\ m \in Nat /\ 12 * m <= 72
        BY <1>8
      <3> HIDE DEF m
      <3>2. QED
        BY <2>1, <2>2, <3>1, TileRowBox
    <2>6. Boxed(L[i] \cup R[i], 0, 72, u, v + 3)
      BY <2>1, <2>4, <2>5, Under
    <2>7. QED
      BY <2>3, <2>6
  <1> DEFINE both == first \cup second
  <1> HIDE DEF y, L, R, first, second
  <1>10. Boxed(both, 0, 72, y, y + h * n)
    <2> DEFINE A == [i \in 1..n |-> L[i] \cup R[i]]
    <2>1. \A i \in 1..n : Boxed(A[i], 0, 72, y + h * (i - 1), y + h * i)
      BY <1>9
    <2>2. both = UNION {A[i] : i \in 1..n}
      <3>1. \A i \in 1..n : A[i] = L[i] \cup R[i]
        OBVIOUS
      <3> HIDE DEF A
      <3>2. QED
        BY <1>7, <3>1
    <2>3. h \in Nat /\ 0 \in Int /\ 72 \in Int /\ n \in Nat /\ y \in Int
      BY <1>0, <1>1
    <2> HIDE DEF A, both, h
    <2>4. Boxed(UNION {A[i] : i \in 1..n}, 0, 72, y, y + h * n)
      BY <2>1, <2>3, Rows, Zenon
    <2>5. QED
      BY <2>2, <2>4
  <1>11. BuildCapacity(c) = {Legend} \cup (dials \cup {line}) \cup combs \cup graphs \cup both
    <2> HIDE DEF dials, line, combs, graphs
    <2>1. QED
      BY <1>2
  <1>12. h * n \in Nat
    BY <1>0
  <1> HIDE DEF dials, line, combs, graphs, both, top, h
  <1>13. Boxed(dials \cup {line}, 0, 72, 3, top)
    <2>1. Boxed(dials, 0, 48, 3, top) /\ Boxed({line}, 48, 72, 3, top)
      BY <1>1, <1>3, <1>4, InLarger
    <2>2. QED
      BY <1>1, <2>1, Right
  <1>14. mid <= y /\ y + h * n \in Int /\ y <= y + h * n
    BY <1>1, <1>12 DEF y
  <1>15. Boxed({Legend} \cup (dials \cup {line}), 0, 72, 0, top)
    BY <1>1, <1>13, LegendBox, Under
  <1>16. Boxed({Legend} \cup (dials \cup {line}) \cup combs, 0, 72, 0, mid)
    BY <1>1, <1>5, <1>15, Under
  <1>17. Boxed({Legend} \cup (dials \cup {line}) \cup combs \cup graphs, 0, 72, 0, y)
    BY <1>1, <1>6, <1>14, <1>16, Under
  <1>18. Boxed({Legend} \cup (dials \cup {line}) \cup combs \cup graphs \cup both, 0, 72, 0, y + h * n)
    BY <1>1, <1>10, <1>14, <1>17, Under
  <1>19. QED
    BY <1>11, <1>14, <1>18, BoxedTiled

LEMMA BoardTiled ==
  ASSUME NEW b \in Board, NEW c, NEW n, Fleet36(c, n)
  PROVE  Tiled(Build(b, c))
  BY OverviewTiled, SecurityTiled, CapacityTiled DEF Board, Build
-----------------------------------------------------------------------------
(* What is shown: a set of widgets shows some fields of the fleet if there is *)
(* one widget for each of them that a host has.                               *)
Shows(A, c, F) ==
  /\ \A v \in A : \E i \in Hosts(c), f \in F : Resolved(c, i, f) /\ v.of = <<c.fleet[i], f>>
  /\ \A i \in Hosts(c), f \in F : Resolved(c, i, f) => \E v \in A : v.of = <<c.fleet[i], f>>
  /\ \A v, u \in A : v.of = u.of => v = u

OnceEach(tiles) == \A k, l \in DOMAIN tiles : tiles[k] = tiles[l] => k = l
Distinct(c) == \A i, j \in Hosts(c) : c.fleet[i] = c.fleet[j] => i = j

LEMMA ShowsBoth ==
  ASSUME NEW A, NEW B, NEW c, NEW F, NEW G, Shows(A, c, F), Shows(B, c, G), F \cap G = {}
  PROVE  Shows(A \cup B, c, F \cup G)
  <1>1. \A v \in A \cup B : \E i \in Hosts(c), f \in F \cup G :
          Resolved(c, i, f) /\ v.of = <<c.fleet[i], f>>
    BY DEF Shows
  <1>2. \A i \in Hosts(c), f \in F \cup G :
          Resolved(c, i, f) => \E v \in A \cup B : v.of = <<c.fleet[i], f>>
    BY DEF Shows
  <1>3. ASSUME NEW v \in A, NEW u \in B PROVE v.of # u.of
    <2>1. PICK i \in Hosts(c), f \in F : v.of = <<c.fleet[i], f>>
      BY DEF Shows
    <2>2. PICK j \in Hosts(c), g \in G : u.of = <<c.fleet[j], g>>
      BY DEF Shows
    <2>3. f # g
      OBVIOUS
    <2>4. QED
      BY <2>1, <2>2, <2>3
  <1>4. ASSUME NEW v \in A \cup B, NEW u \in A \cup B, v.of = u.of PROVE v = u
    BY <1>3, <1>4 DEF Shows
  <1>5. QED
    BY <1>1, <1>2, <1>4 DEF Shows

RowSets(c, y, tiles, w, h) == UNION {TileRow(c, i, y[i], tiles, w, h) : i \in Hosts(c)}
RankSets(c, x, y, w, ranks) == UNION {Leaderboard(c, i, x[i], y, w, ranks) : i \in Hosts(c)}

LEMMA RowsShow ==
  ASSUME NEW c, Distinct(c), NEW tiles, OnceEach(tiles), NEW y, NEW w, NEW h, NEW A,
         A = RowSets(c, y, tiles, w, h)
  PROVE  Shows(A, c, Fields(tiles)) /\ \A v \in A : v.type = "item"
  <1> DEFINE at(i, k) == Widget("item", (k - 1) * w, y[i], w, h, <<c.fleet[i], tiles[k]>>)
  <1>1. ASSUME NEW v \in A
        PROVE  \E i \in Hosts(c), k \in DOMAIN tiles : Resolved(c, i, tiles[k]) /\ v = at(i, k)
    BY DEF TileRow, RowSets
  <1>2. ASSUME NEW i \in Hosts(c), NEW k \in DOMAIN tiles, Resolved(c, i, tiles[k])
        PROVE  at(i, k) \in A
    BY <1>2 DEF TileRow, RowSets
  <1>3. \A i, k : at(i, k).of = <<c.fleet[i], tiles[k]>> /\ at(i, k).type = "item"
    BY DEF Widget
  <1> HIDE DEF at
  <1>4. ASSUME NEW v \in A
        PROVE  \E i \in Hosts(c), f \in Fields(tiles) : Resolved(c, i, f) /\ v.of = <<c.fleet[i], f>>
    <2>1. PICK i \in Hosts(c), k \in DOMAIN tiles : Resolved(c, i, tiles[k]) /\ v = at(i, k)
      BY <1>1
    <2>2. tiles[k] \in Fields(tiles)
      BY DEF Fields
    <2>3. QED
      BY <1>3, <2>1, <2>2
  <1>5. ASSUME NEW i \in Hosts(c), NEW f \in Fields(tiles), Resolved(c, i, f)
        PROVE  \E v \in A : v.of = <<c.fleet[i], f>>
    <2>1. PICK k \in DOMAIN tiles : f = tiles[k]
      BY DEF Fields
    <2>2. at(i, k) \in A
      BY <1>2, <1>5, <2>1
    <2>3. QED
      BY <1>3, <2>1, <2>2
  <1>6. ASSUME NEW v \in A, NEW u \in A, v.of = u.of PROVE v = u
    <2>1. PICK i \in Hosts(c), k \in DOMAIN tiles : v = at(i, k)
      BY <1>1
    <2>2. PICK j \in Hosts(c), l \in DOMAIN tiles : u = at(j, l)
      BY <1>1
    <2>3. <<c.fleet[i], tiles[k]>> = <<c.fleet[j], tiles[l]>>
      BY <1>3, <1>6, <2>1, <2>2
    <2>4. i = j /\ k = l
      BY <2>3 DEF Distinct, OnceEach
    <2>5. QED
      BY <2>1, <2>2, <2>4
  <1>7. \A v \in A : v.type = "item"
    BY <1>1, <1>3
  <1>8. QED
    BY <1>4, <1>5, <1>6, <1>7 DEF Shows

LEMMA RanksShow ==
  ASSUME NEW c, Distinct(c), NEW ranks, OnceEach(ranks), NEW x, NEW y, NEW w, NEW A,
         A = RankSets(c, x, y, w, ranks)
  PROVE  Shows(A, c, Fields(ranks)) /\ \A v \in A : v.type = "item"
  <1> DEFINE at(i, k) == Widget("item", x[i], y + (k - 1) * 2, w, 2, <<c.fleet[i], ranks[k]>>)
  <1>1. ASSUME NEW v \in A
        PROVE  \E i \in Hosts(c), k \in DOMAIN ranks : Resolved(c, i, ranks[k]) /\ v = at(i, k)
    BY DEF Leaderboard, RankSets
  <1>2. ASSUME NEW i \in Hosts(c), NEW k \in DOMAIN ranks, Resolved(c, i, ranks[k])
        PROVE  at(i, k) \in A
    BY <1>2 DEF Leaderboard, RankSets
  <1>3. \A i, k : at(i, k).of = <<c.fleet[i], ranks[k]>> /\ at(i, k).type = "item"
    BY DEF Widget
  <1> HIDE DEF at
  <1>4. ASSUME NEW v \in A
        PROVE  \E i \in Hosts(c), f \in Fields(ranks) : Resolved(c, i, f) /\ v.of = <<c.fleet[i], f>>
    <2>1. PICK i \in Hosts(c), k \in DOMAIN ranks : Resolved(c, i, ranks[k]) /\ v = at(i, k)
      BY <1>1
    <2>2. ranks[k] \in Fields(ranks)
      BY DEF Fields
    <2>3. QED
      BY <1>3, <2>1, <2>2
  <1>5. ASSUME NEW i \in Hosts(c), NEW f \in Fields(ranks), Resolved(c, i, f)
        PROVE  \E v \in A : v.of = <<c.fleet[i], f>>
    <2>1. PICK k \in DOMAIN ranks : f = ranks[k]
      BY DEF Fields
    <2>2. at(i, k) \in A
      BY <1>2, <1>5, <2>1
    <2>3. QED
      BY <1>3, <2>1, <2>2
  <1>6. ASSUME NEW v \in A, NEW u \in A, v.of = u.of PROVE v = u
    <2>1. PICK i \in Hosts(c), k \in DOMAIN ranks : v = at(i, k)
      BY <1>1
    <2>2. PICK j \in Hosts(c), l \in DOMAIN ranks : u = at(j, l)
      BY <1>1
    <2>3. <<c.fleet[i], ranks[k]>> = <<c.fleet[j], ranks[l]>>
      BY <1>3, <1>6, <2>1, <2>2
    <2>4. i = j /\ k = l
      BY <2>3 DEF Distinct, OnceEach
    <2>5. QED
      BY <2>1, <2>2, <2>4
  <1>7. \A v \in A : v.type = "item"
    BY <1>1, <1>3
  <1>8. QED
    BY <1>4, <1>5, <1>6, <1>7 DEF Shows

(* Dial d is that of host 1 + d \div 2 and of gauge 1 + d % 2. *)
LEMMA DialsShow ==
  ASSUME NEW c, Distinct(c), NEW n, Fleet36(c, n)
  PROVE  Shows(Dials(c), c, Fields(Gauges)) /\ \A v \in Dials(c) : v.type = "gauge"
  <1> DEFINE slot == SplitColumns(Least(GAUGES_PER_ROW, 2 * n), GRID_COLUMNS - 24)
             i_(d) == 1 + (d \div 2)
             k_(d) == 1 + (d % 2)
             at(d) == Widget("gauge", slot[1 + (d % GAUGES_PER_ROW)].x, 3 + (d \div GAUGES_PER_ROW) * 5,
                             slot[1 + (d % GAUGES_PER_ROW)].w, 5, <<c.fleet[i_(d)], Gauges[k_(d)]>>)
             A == Dials(c)
  <1>0. n \in Nat /\ Len(c.fleet) = n /\ Hosts(c) = 1..n
    BY DEF Fleet36
  <1>1. ASSUME NEW v \in A
        PROVE  \E d \in 0..2 * n - 1 : Resolved(c, i_(d), Gauges[k_(d)]) /\ v = at(d)
    BY <1>0 DEF Dials
  <1>2. ASSUME NEW d \in 0..2 * n - 1, Resolved(c, i_(d), Gauges[k_(d)]) PROVE at(d) \in A
    BY <1>0, <1>2 DEF Dials
  <1>3. \A d : at(d).of = <<c.fleet[i_(d)], Gauges[k_(d)]>> /\ at(d).type = "gauge"
    BY DEF Widget
  <1>4. DOMAIN Gauges = 1..2 /\ Gauges[1] # Gauges[2]
    BY DEF Gauges
  <1>5. ASSUME NEW d \in 0..2 * n - 1
        PROVE  i_(d) \in 1..n /\ k_(d) \in {1, 2} /\ d = 2 * (i_(d) - 1) + (k_(d) - 1)
    BY <1>0
  <1>6. ASSUME NEW i \in 1..n, NEW k \in 1..2
        PROVE  \E d \in 0..2 * n - 1 : i_(d) = i /\ k_(d) = k
    <2> DEFINE e == 2 * (i - 1) + (k - 1)
    <2>1. e \in 0..2 * n - 1
      BY <1>0
    <2>2. e \div 2 = i - 1 /\ e % 2 = k - 1
      BY <1>0
    <2>3. 1 + (e \div 2) = i /\ 1 + (e % 2) = k
      BY <1>0, <2>2
    <2> HIDE DEF e
    <2>4. QED
      BY <2>1, <2>3
  <1> HIDE DEF at, A, i_, k_
  <1>7. ASSUME NEW v \in A
        PROVE  \E i \in Hosts(c), f \in Fields(Gauges) : Resolved(c, i, f) /\ v.of = <<c.fleet[i], f>>
    <2>1. PICK d \in 0..2 * n - 1 : Resolved(c, i_(d), Gauges[k_(d)]) /\ v = at(d)
      BY <1>1
    <2>2. Gauges[k_(d)] \in Fields(Gauges) /\ i_(d) \in Hosts(c)
      <3>1. i_(d) \in 1..n /\ k_(d) \in {1, 2}
        BY <1>5
      <3>2. k_(d) \in DOMAIN Gauges
        BY <1>4, <3>1
      <3>3. QED
        BY <1>0, <3>1, <3>2 DEF Fields
    <2>3. QED
      BY <1>3, <2>1, <2>2
  <1>8. ASSUME NEW i \in Hosts(c), NEW f \in Fields(Gauges), Resolved(c, i, f)
        PROVE  \E v \in A : v.of = <<c.fleet[i], f>>
    <2>1. PICK k \in 1..2 : f = Gauges[k]
      BY <1>4 DEF Fields
    <2>2. PICK d \in 0..2 * n - 1 : i_(d) = i /\ k_(d) = k
      BY <1>0, <1>6
    <2>3. at(d) \in A
      BY <1>2, <1>8, <2>1, <2>2
    <2>4. QED
      BY <1>3, <2>1, <2>2, <2>3
  <1>9. ASSUME NEW v \in A, NEW u \in A, v.of = u.of PROVE v = u
    <2>1. PICK d \in 0..2 * n - 1 : v = at(d)
      BY <1>1
    <2>2. PICK e \in 0..2 * n - 1 : u = at(e)
      BY <1>1
    <2>3. <<c.fleet[i_(d)], Gauges[k_(d)]>> = <<c.fleet[i_(e)], Gauges[k_(e)]>>
      BY <1>3, <1>9, <2>1, <2>2
    <2>4. i_(d) = i_(e)
      BY <1>0, <1>5, <2>3 DEF Distinct
    <2>5. k_(d) = k_(e)
      BY <1>4, <1>5, <2>3
    <2>6. d = e
      BY <1>5, <2>4, <2>5
    <2>7. QED
      BY <2>1, <2>2, <2>6
  <1>10. \A v \in A : v.type = "gauge"
    BY <1>1, <1>3
  <1>11. QED
    BY <1>7, <1>8, <1>9, <1>10 DEF Shows, A

LEMMA OthersShowNothing ==
  ASSUME NEW v, v.type \in {"item", "gauge"}
  PROVE  /\ \A n, y : v \notin Graphs(n, y)
         /\ \A c, y, h : v \notin PerHost(c, "piechart", y, h) /\ v \notin PerHost(c, "honeycomb", y, h)
         /\ v # Legend
         /\ \A x, y, w, h, of : v # Widget("svggraph", x, y, w, h, of)
  <1>1. \A n, y : v \notin Graphs(n, y)
    BY DEF Graphs, Widget
  <1>2. \A c, y, h : v \notin PerHost(c, "piechart", y, h) /\ v \notin PerHost(c, "honeycomb", y, h)
    BY DEF PerHost, Widget
  <1>3. v # Legend /\ \A x, y, w, h, of : v # Widget("svggraph", x, y, w, h, of)
    BY DEF Legend, Widget
  <1>4. QED
    BY <1>1, <1>2, <1>3

LEMMA TilesOnce ==
  /\ OnceEach(OverviewTiles) /\ OnceEach(SecurityTiles) /\ OnceEach(TopBlocked)
  /\ OnceEach(TopCountries) /\ OnceEach(CapacityTilesA) /\ OnceEach(CapacityTilesB)
  <1>1. OnceEach(OverviewTiles)
    BY DEF OnceEach, OverviewTiles
  <1>2. OnceEach(SecurityTiles)
    BY DEF OnceEach, SecurityTiles
  <1>3. OnceEach(TopBlocked)
    BY DEF OnceEach, TopBlocked
  <1>4. OnceEach(TopCountries)
    BY DEF OnceEach, TopCountries
  <1>5. OnceEach(CapacityTilesA)
    BY DEF OnceEach, CapacityTilesA
  <1>6. OnceEach(CapacityTilesB)
    BY DEF OnceEach, CapacityTilesB
  <1>7. QED
    BY <1>1, <1>2, <1>3, <1>4, <1>5, <1>6

LEMMA FieldsListed ==
  /\ Fields(SecurityTiles) = {"resp_last_alert_ts", "resp_last_action_ts", "wd_canary_fail", "top1_hits"}
  /\ Fields(TopBlocked) = {"top_blocked_1", "top_blocked_2", "top_blocked_3", "top_blocked_4",
                           "top_blocked_5"}
  /\ Fields(TopCountries) = {"geo_country_1", "geo_country_2", "geo_country_3", "geo_country_4",
                             "geo_country_5"}
  /\ Fields(Gauges) = {"util_v4_pct", "util_v6_pct"}
  /\ Fields(CapacityTilesA) = {"feeds_enforce", "feeds_approved", "feeds_entries", "feeds_failed",
                               "feeds_map_errors", "feeds_churn_held"}
  /\ Fields(CapacityTilesB) = {"feeds_journal_reset", "rearm_count", "wd_lifeline_fail", "sweep_age"}
  <1>1. Fields(SecurityTiles) = {"resp_last_alert_ts", "resp_last_action_ts", "wd_canary_fail", "top1_hits"}
    BY DEF Fields, SecurityTiles
  <1>2. Fields(TopBlocked) = {"top_blocked_1", "top_blocked_2", "top_blocked_3", "top_blocked_4",
                           "top_blocked_5"}
    BY DEF Fields, TopBlocked
  <1>3. Fields(TopCountries) = {"geo_country_1", "geo_country_2", "geo_country_3", "geo_country_4",
                             "geo_country_5"}
    BY DEF Fields, TopCountries
  <1>4. Fields(Gauges) = {"util_v4_pct", "util_v6_pct"}
    BY DEF Fields, Gauges
  <1>5. Fields(CapacityTilesA) = {"feeds_enforce", "feeds_approved", "feeds_entries", "feeds_failed",
                               "feeds_map_errors", "feeds_churn_held"}
    BY DEF Fields, CapacityTilesA
  <1>6. Fields(CapacityTilesB) = {"feeds_journal_reset", "rearm_count", "wd_lifeline_fail", "sweep_age"}
    BY DEF Fields, CapacityTilesB
  <1>7. QED
    BY <1>1, <1>2, <1>3, <1>4, <1>5, <1>6

LEMMA FieldsApart ==
  /\ Fields(SecurityTiles) \cap Fields(TopBlocked) = {}
  /\ (Fields(SecurityTiles) \cup Fields(TopBlocked)) \cap Fields(TopCountries) = {}
  /\ Fields(Gauges) \cap Fields(CapacityTilesA) = {}
  /\ (Fields(Gauges) \cup Fields(CapacityTilesA)) \cap Fields(CapacityTilesB) = {}
  <1>1. Fields(SecurityTiles) \cap Fields(TopBlocked) = {}
    BY FieldsListed
  <1>2. (Fields(SecurityTiles) \cup Fields(TopBlocked)) \cap Fields(TopCountries) = {}
    BY FieldsListed
  <1>3. Fields(Gauges) \cap Fields(CapacityTilesA) = {}
    BY FieldsListed
  <1>4. (Fields(Gauges) \cup Fields(CapacityTilesA)) \cap Fields(CapacityTilesB) = {}
    BY FieldsListed
  <1>5. QED
    BY <1>1, <1>2, <1>3, <1>4

LEMMA FieldsFinite ==
  ASSUME NEW tiles, NEW m \in Nat, DOMAIN tiles = 1..m
  PROVE  IsFiniteSet(Fields(tiles))
  <1> DEFINE f == [k \in 1..m |-> tiles[k]]
  <1>1. f \in Surjection(1..m, Fields(tiles))
    BY DEF Surjection, Fields
  <1>2. IsFiniteSet(1..m)
    BY FS_Interval
  <1>3. QED
    BY <1>1, <1>2, FS_Surjection

LEMMA FieldsOfFinite ==
  ASSUME NEW b \in Board
  PROVE  IsFiniteSet(FieldsOf(b))
  <1> DEFINE m4 == 4
             m5 == 5
             m6 == 6
             m2 == 2
  <1>1. /\ DOMAIN OverviewTiles = 1..m6 /\ DOMAIN SecurityTiles = 1..m4 /\ DOMAIN TopBlocked = 1..m5
        /\ DOMAIN TopCountries = 1..m5 /\ DOMAIN Gauges = 1..m2 /\ DOMAIN CapacityTilesA = 1..m6
        /\ DOMAIN CapacityTilesB = 1..m4 /\ m2 \in Nat /\ m4 \in Nat /\ m5 \in Nat /\ m6 \in Nat
    BY DEF OverviewTiles, SecurityTiles, TopBlocked, TopCountries, Gauges, CapacityTilesA, CapacityTilesB
  <1> HIDE DEF m2, m4, m5, m6
  <1>2. /\ IsFiniteSet(Fields(OverviewTiles)) /\ IsFiniteSet(Fields(SecurityTiles))
        /\ IsFiniteSet(Fields(TopBlocked)) /\ IsFiniteSet(Fields(TopCountries))
        /\ IsFiniteSet(Fields(Gauges)) /\ IsFiniteSet(Fields(CapacityTilesA))
        /\ IsFiniteSet(Fields(CapacityTilesB))
    BY <1>1, FieldsFinite
  <1>3. /\ IsFiniteSet(Fields(SecurityTiles) \cup Fields(TopBlocked))
        /\ IsFiniteSet(Fields(Gauges) \cup Fields(CapacityTilesA))
    BY <1>2, FS_Union
  <1>4. /\ IsFiniteSet(Fields(SecurityTiles) \cup Fields(TopBlocked) \cup Fields(TopCountries))
        /\ IsFiniteSet(Fields(Gauges) \cup Fields(CapacityTilesA) \cup Fields(CapacityTilesB))
    BY <1>2, <1>3, FS_Union
  <1>5. QED
    BY <1>2, <1>4 DEF FieldsOf, Board
-----------------------------------------------------------------------------
Shown(widgets) == {v \in widgets : v.type \in {"item", "gauge"}}

(* The widgets that show the fields of a board are as many as what they show. *)
LEMMA CountsAgree ==
  ASSUME NEW b \in Board, NEW c, c.fleet \in Seq(Host), NEW widgets,
         Shows(Shown(widgets), c, FieldsOf(b))
  PROVE  ShowsFleet(b, c, widgets)
  <1> DEFINE shown == Shown(widgets)
             had == UNION {{<<c.fleet[i], f>> : f \in FieldsOf(b) \ c.lacks[c.fleet[i]]} : i \in Hosts(c)}
             F == FieldsOf(b)
             of == [v \in shown |-> v.of]
  <1>1. ASSUME NEW o
        PROVE  o \in had <=> \E i \in Hosts(c), f \in F : Resolved(c, i, f) /\ o = <<c.fleet[i], f>>
    BY DEF Resolved
  <1>2. IsFiniteSet(had)
    <2>1. IsFiniteSet(Host \X F)
      BY FleetAssumption, FieldsOfFinite, FS_Product
    <2>2. \A i \in Hosts(c) : c.fleet[i] \in Host
      BY DEF Hosts
    <2> HIDE DEF had, F
    <2>3. had \subseteq Host \X F
      BY <1>1, <2>2
    <2>4. QED
      BY <2>1, <2>3, FS_Subset
  <1> HIDE DEF had, F
  <1>3. Shows(shown, c, F)
    BY DEF F
  <1> HIDE DEF shown
  <1>4. \A v \in shown : v.of \in had
    BY <1>1, <1>3 DEF Shows
  <1>5. \A o \in had : \E v \in shown : v.of = o
    BY <1>1, <1>3 DEF Shows
  <1>6. \A v, u \in shown : v.of = u.of => v = u
    BY <1>3 DEF Shows
  <1>7. {v.of : v \in shown} = had
    BY <1>4, <1>5
  <1>8. of \in Injection(shown, had) /\ of \in Surjection(shown, had)
    BY <1>4, <1>5, <1>6 DEF Injection, IsInjective, Surjection
  <1>9. Cardinality(shown) = Cardinality(had)
    BY <1>2, <1>8, FS_Injection
  <1>10. QED
    BY <1>7, <1>9 DEF ShowsFleet, shown, Shown, had

LEMMA OverviewShows ==
  ASSUME NEW c, NEW n, Fleet36(c, n), Distinct(c)
  PROVE  Shows(Shown(BuildOverview(c)), c, FieldsOf("overview"))
  <1> DEFINE y == 3 + 3 * n
             rows == [i \in 1..n |-> 3 * i]
             tiles == UNION {TileRow(c, i, 3 * i, OverviewTiles, 12, 3) : i \in Hosts(c)}
             graphs == Graphs(6, y)
             pies == PerHost(c, "piechart", y + Below(6), 7)
  <1>0. Hosts(c) = 1..n /\ Len(c.fleet) = n
    BY DEF Fleet36
  <1>1. BuildOverview(c) = {Legend} \cup tiles \cup graphs \cup pies
    BY <1>0 DEF BuildOverview
  <1>2. tiles = RowSets(c, rows, OverviewTiles, 12, 3)
    BY <1>0 DEF RowSets
  <1>3. \A v \in graphs \cup pies \cup {Legend} : v.type \notin {"item", "gauge"}
    BY OthersShowNothing
  <1> HIDE DEF rows, graphs, pies, tiles
  <1>4. Shows(tiles, c, Fields(OverviewTiles)) /\ \A v \in tiles : v.type = "item"
    BY <1>2, TilesOnce, RowsShow
  <1>5. Shown(BuildOverview(c)) = tiles
    BY <1>1, <1>3, <1>4 DEF Shown
  <1>6. FieldsOf("overview") = Fields(OverviewTiles)
    BY DEF FieldsOf
  <1>7. QED
    BY <1>4, <1>5, <1>6

LEMMA SecurityShows ==
  ASSUME NEW c, NEW n, Fleet36(c, n), Distinct(c)
  PROVE  Shows(Shown(BuildSecurity(c)), c, FieldsOf("security"))
  <1> DEFINE y == 18 + 3 * n
             column == GRID_COLUMNS \div Greatest(1, Len(c.fleet))
             half == column \div 2
             rest == column - half
             rows == [i \in 1..n |-> 15 + 3 * i]
             xl == [i \in 1..n |-> (i - 1) * column]
             xr == [i \in 1..n |-> (i - 1) * column + half]
             tiles == UNION {TileRow(c, i, 15 + 3 * i, SecurityTiles, 18, 3) : i \in Hosts(c)}
             left == UNION {Leaderboard(c, i, (i - 1) * column, y, half, TopBlocked) : i \in Hosts(c)}
             right == UNION {Leaderboard(c, i, (i - 1) * column + half, y, column - half, TopCountries) :
                               i \in Hosts(c)}
             graphs == Graphs(2, 3)
             line == Widget("svggraph", 0, 10, 72, 8, <<2, "graph">>)
  <1>0. Hosts(c) = 1..n /\ Len(c.fleet) = n
    BY DEF Fleet36
  <1>1. BuildSecurity(c) = {Legend, line} \cup graphs \cup tiles \cup left \cup right
    BY <1>0 DEF BuildSecurity
  <1>2. tiles = RowSets(c, rows, SecurityTiles, 18, 3)
    BY <1>0 DEF RowSets
  <1>3. left = RankSets(c, xl, y, half, TopBlocked)
    BY <1>0 DEF RankSets
  <1>4. right = RankSets(c, xr, y, rest, TopCountries)
    BY <1>0 DEF RankSets
  <1>5. \A v \in graphs \cup {Legend, line} : v.type \notin {"item", "gauge"}
    BY OthersShowNothing
  <1> HIDE DEF rows, xl, xr, tiles, left, right, graphs, line, y, half, rest
  <1>6. Shows(tiles, c, Fields(SecurityTiles)) /\ \A v \in tiles : v.type = "item"
    BY <1>2, TilesOnce, RowsShow
  <1>7. Shows(left, c, Fields(TopBlocked)) /\ \A v \in left : v.type = "item"
    BY <1>3, TilesOnce, RanksShow
  <1>8. Shows(right, c, Fields(TopCountries)) /\ \A v \in right : v.type = "item"
    BY <1>4, TilesOnce, RanksShow
  <1>9. Shown(BuildSecurity(c)) = tiles \cup left \cup right
    BY <1>1, <1>5, <1>6, <1>7, <1>8 DEF Shown
  <1>10. Shows(tiles \cup left, c, Fields(SecurityTiles) \cup Fields(TopBlocked))
    BY <1>6, <1>7, FieldsApart, ShowsBoth
  <1>11. Shows(tiles \cup left \cup right, c,
               Fields(SecurityTiles) \cup Fields(TopBlocked) \cup Fields(TopCountries))
    BY <1>8, <1>10, FieldsApart, ShowsBoth
  <1>12. FieldsOf("security") = Fields(SecurityTiles) \cup Fields(TopBlocked) \cup Fields(TopCountries)
    BY DEF FieldsOf
  <1>13. QED
    BY <1>9, <1>11, <1>12

LEMMA CapacityShows ==
  ASSUME NEW c, NEW n, Fleet36(c, n), Distinct(c)
  PROVE  Shows(Shown(BuildCapacity(c)), c, FieldsOf("capacity"))
  <1> DEFINE comb == 3 + 5 * ((2 * Len(c.fleet) + GAUGES_PER_ROW - 1) \div GAUGES_PER_ROW)
             y == comb + 5 + Below(3)
             r1 == [i \in 1..n |-> y + 6 * (i - 1)]
             r2 == [i \in 1..n |-> y + 6 * (i - 1) + 3]
             dials == Dials(c)
             line == Widget("svggraph", 48, 3, 24, 5, <<3, "graph">>)
             combs == PerHost(c, "honeycomb", comb, 5)
             graphs == Graphs(3, comb + 5)
             first == UNION {TileRow(c, i, y + 6 * (i - 1), CapacityTilesA, 12, 3) : i \in Hosts(c)}
             second == UNION {TileRow(c, i, y + 6 * (i - 1) + 3, CapacityTilesB, 12, 3) : i \in Hosts(c)}
  <1>0. Hosts(c) = 1..n
    BY DEF Fleet36
  <1>1. BuildCapacity(c) = {Legend, line} \cup dials \cup combs \cup graphs \cup first \cup second
    BY DEF BuildCapacity
  <1>2. first = RowSets(c, r1, CapacityTilesA, 12, 3)
    BY <1>0 DEF RowSets
  <1>3. second = RowSets(c, r2, CapacityTilesB, 12, 3)
    BY <1>0 DEF RowSets
  <1>4. \A v \in graphs \cup combs \cup {Legend, line} : v.type \notin {"item", "gauge"}
    BY OthersShowNothing
  <1> HIDE DEF r1, r2, first, second, graphs, combs, line, y
  <1>5. Shows(dials, c, Fields(Gauges)) /\ \A v \in dials : v.type = "gauge"
    BY DialsShow
  <1> HIDE DEF dials
  <1>6. Shows(first, c, Fields(CapacityTilesA)) /\ \A v \in first : v.type = "item"
    BY <1>2, TilesOnce, RowsShow
  <1>7. Shows(second, c, Fields(CapacityTilesB)) /\ \A v \in second : v.type = "item"
    BY <1>3, TilesOnce, RowsShow
  <1>8. Shown(BuildCapacity(c)) = dials \cup first \cup second
    BY <1>1, <1>4, <1>5, <1>6, <1>7 DEF Shown
  <1>9. Shows(dials \cup first, c, Fields(Gauges) \cup Fields(CapacityTilesA))
    BY <1>5, <1>6, FieldsApart, ShowsBoth
  <1>10. Shows(dials \cup first \cup second, c,
               Fields(Gauges) \cup Fields(CapacityTilesA) \cup Fields(CapacityTilesB))
    BY <1>7, <1>9, FieldsApart, ShowsBoth
  <1>11. FieldsOf("capacity") = Fields(Gauges) \cup Fields(CapacityTilesA) \cup Fields(CapacityTilesB)
    BY DEF FieldsOf
  <1>12. QED
    BY <1>8, <1>10, <1>11

LEMMA ListedOnce ==
  ASSUME NEW c, Listed(c), Cardinality(Host) <= 36
  PROVE  Distinct(c) /\ Fleet36(c, Len(c.fleet))
  <1>1. PICK S \in SUBSET Host : c.fleet = InOrder(S)
    BY DEF Listed
  <1> DEFINE s == InOrder(S)
             n == Cardinality(S)
  <1>2. S \in SUBSET Nat /\ IsFiniteSet(S)
    BY MembersFinite
  <1>3. n \in Nat /\ n <= 36
    <2>1. IsFiniteSet(Host) /\ Cardinality(Host) \in Nat
      BY FleetAssumption, FS_CardinalityType
    <2>2. n <= Cardinality(Host) /\ n \in Nat
      BY <1>2, <2>1, FS_Subset, FS_CardinalityType
    <2>3. QED
      BY <2>1, <2>2
  <1>4. s \in Seq(Host) /\ DOMAIN s = 1..n /\ \A i \in 1..n : Place(S, s[i]) = i
    BY <1>2, InOrderOf, InOrderSeq
  <1> HIDE DEF s, n
  <1>5. Len(s) = n
    BY <1>3, <1>4
  <1>6. \A i, j \in DOMAIN s : s[i] = s[j] => i = j
    BY <1>4
  <1>7. c.fleet = s
    BY <1>1 DEF s
  <1>8. QED
    BY <1>3, <1>4, <1>5, <1>6, <1>7 DEF Distinct, Fleet36, Hosts

(* For fleets of up to 36 hosts no widget of a board that is written leaves  *)
(* the grid or covers another, and every item its hosts had is shown once    *)
(* (build_overview, build_security, build_capacity): the columns of the      *)
(* security board are halved, and a half of less than one column is none.    *)
THEOREM FleetWellLaid ==
  ASSUME Cardinality(Host) <= 36
  PROVE  Spec => WellLaid
  <1>1. BoardsInv /\ ReadInv /\ [Next]_vars
          => [\A b \in Board : Written(b) =>
                \A widgets \in {Build(b, board'[b])} :
                  Tiled(widgets) /\ ShowsFleet(b, board'[b], widgets)]_vars
    <2> SUFFICES ASSUME BoardsInv, ReadInv, [Next]_vars, NEW b \in Board, Written(b)
                 PROVE  /\ Tiled(Build(b, board'[b]))
                        /\ ShowsFleet(b, board'[b], Build(b, board'[b]))
      OBVIOUS
    <2> DEFINE c == board'[b]
               n == Len(c.fleet)
    <2>1. Legible(c) /\ Listed(c)
      BY WrittenRead
    <2>2. Distinct(c) /\ Fleet36(c, n)
      BY <2>1, ListedOnce
    <2> HIDE DEF c, n
    <2>3. Tiled(Build(b, c))
      BY <2>2, BoardTiled
    <2>4. Shows(Shown(Build(b, c)), c, FieldsOf(b))
      <3>1. CASE b = "overview"
        BY <2>2, <3>1, OverviewShows DEF Build
      <3>2. CASE b = "security"
        BY <2>2, <3>2, SecurityShows DEF Build
      <3>3. CASE b = "capacity"
        BY <2>2, <3>3, CapacityShows DEF Build
      <3>4. QED
        BY <3>1, <3>2, <3>3 DEF Board
    <2>5. ShowsFleet(b, c, Build(b, c))
      BY <2>1, <2>4, CountsAgree DEF Legible
    <2>6. QED
      BY <2>3, <2>5 DEF c
  <1>2. QED
    BY <1>1, BoardsInvariant, ReadInvariant, PTL DEF Spec, WellLaid
=============================================================================
