--------------------------- MODULE TemplateProofs ---------------------------
(***************************************************************************)
(* Proofs about Template, for every set of objects, names and uuids.  Each *)
(* part of the invariant relates two of the three copies of the template:  *)
(* what HEAD lost of the last import is accounted for, every uuid is one   *)
(* that only its object can have, and what HEAD emits without a row was    *)
(* there before or slipped in.                                             *)
(***************************************************************************)
EXTENDS Template, TLAPS

(* The uuids that an object can have: its own by key, and its own of v1. *)
OwnUuid(o) == {Mint(o)} \cup {Legacy[x] : x \in DOMAIN Legacy \cap {o}}
Owned(file) == \A o \in Emitted(file) : file[o].uuid \in OwnUuid(o)

OwnInv == (tree # Torn => Owned(tree)) /\ Owned(headTree) /\ Owned(live)
LostInv == Lost(live, headTree) \subseteq retired \cup slipped
NameInv == Renamed(live, headTree) \subseteq retired \cup slipped
StaleInv ==
  \A o \in Emitted(headTree) : headTable[o] = Absent => o \in slipped \cup Emitted(live)

(* Two objects never mint the same uuid (make_uuid hashes kind and key). *)
LEMMA MintInjective ==
  ASSUME NEW o \in Obj, NEW x \in Obj, Mint(o) = Mint(x)
  PROVE  o = x
  <1>1. o.kind = x.kind /\ o.key = x.key
    BY DEF Mint
  <1>2. QED
    BY <1>1, ObjAssumption DEF ObjAssumption

(* Nor does an object have a uuid that another may have. *)
LEMMA OwnDisjoint ==
  ASSUME NEW o \in Obj, NEW x \in Obj, NEW u \in OwnUuid(o), u \in OwnUuid(x)
  PROVE  o = x
  <1>1. CASE u = Mint(o) /\ u = Mint(x)
    BY <1>1, MintInjective
  <1>2. CASE o \in DOMAIN Legacy /\ u = Legacy[o] /\ u = Mint(x)
    BY <1>2, LegacyAssumption DEF LegacyAssumption
  <1>3. CASE x \in DOMAIN Legacy /\ u = Legacy[x] /\ u = Mint(o)
    BY <1>3, LegacyAssumption DEF LegacyAssumption
  <1>4. CASE /\ o \in DOMAIN Legacy /\ u = Legacy[o]
             /\ x \in DOMAIN Legacy /\ u = Legacy[x]
    BY <1>4, LegacyAssumption DEF LegacyAssumption
  <1>5. QED
    BY <1>1, <1>2, <1>3, <1>4 DEF OwnUuid

(* A file in which every object has a uuid of its own has no uuid twice. *)
LEMMA OwnedDistinct ==
  ASSUME NEW file, Owned(file)
  PROVE  Distinct(file)
  BY OwnDisjoint DEF Owned, Distinct, Emitted

(* A rendering is a template file. *)
LEMMA RenderType ==
  ASSUME NEW rows \in Table, NEW base \in File
  PROVE  Render(rows, base) \in File
  <1>1. SUFFICES ASSUME NEW o \in Obj, rows[o] # Absent
                 PROVE  [uuid |-> MakeUuid(base, o), name |-> rows[o]] \in Entry
    BY <1>1 DEF Render, File
  <1>2. MakeUuid(base, o) \in Uuid
    BY DEF MakeUuid, Emitted, File, Entry, Uuid
  <1>3. rows[o] \in Title \cup {x.key : x \in Obj}
    BY <1>1 DEF Table
  <1>4. QED
    BY <1>2, <1>3 DEF Entry

(* A rendering emits the objects that have a row, each with the uuid that *)
(* make_uuid gives it.                                                    *)
LEMMA RenderEmits ==
  ASSUME NEW rows \in Table, NEW base \in File, NEW o \in Obj
  PROVE  /\ o \in Emitted(Render(rows, base)) <=> rows[o] # Absent
         /\ rows[o] # Absent => Render(rows, base)[o].uuid = MakeUuid(base, o)
  <1>1. CASE rows[o] = Absent
    BY <1>1 DEF Render, Emitted
  <1>2. CASE rows[o] # Absent
    <2>1. Render(rows, base)[o] = [uuid |-> MakeUuid(base, o), name |-> rows[o]]
      BY <1>2 DEF Render
    <2>2. MakeUuid(base, o) \in Uuid
      BY DEF MakeUuid, Emitted, File, Entry, Uuid
    <2>3. rows[o] \in Title \cup {x.key : x \in Obj}
      BY <1>2 DEF Table
    <2>4. Render(rows, base)[o] \in Entry
      BY <2>1, <2>2, <2>3 DEF Entry
    <2>5. Render(rows, base)[o] # Absent
      BY <2>4, AbsentAssumption DEF AbsentAssumption
    <2>6. QED
      BY <1>2, <2>1, <2>5 DEF Emitted
  <1>3. QED
    BY <1>1, <1>2

(* Rendering again from what was rendered changes nothing: the generator  *)
(* is byte-stable, and the carry-over works the next time (make_uuid).    *)
THEOREM RegenerationStable ==
  ASSUME NEW rows \in Table, NEW base \in File
  PROVE  Render(rows, Render(rows, base)) = Render(rows, base)
  <1> DEFINE once == Render(rows, base)
  <1>1. ASSUME NEW o \in Obj, rows[o] # Absent
        PROVE  MakeUuid(once, o) = MakeUuid(base, o)
    BY <1>1, RenderEmits DEF MakeUuid
  <1>2. QED
    BY <1>1 DEF Render

(* Carrying and minting keep every uuid with its object. *)
LEMMA RenderOwned ==
  ASSUME NEW rows \in Table, NEW base \in File, Owned(base)
  PROVE  Owned(Render(rows, base))
  <1>1. SUFFICES ASSUME NEW o \in Emitted(Render(rows, base))
                 PROVE  Render(rows, base)[o].uuid \in OwnUuid(o)
    BY DEF Owned
  <1>2. o \in Obj /\ rows[o] # Absent
    BY RenderEmits DEF Emitted
  <1>3. Render(rows, base)[o].uuid = MakeUuid(base, o)
    BY <1>2, RenderEmits
  <1>4. QED
    BY <1>3 DEF MakeUuid, Owned, OwnUuid
-----------------------------------------------------------------------------
LEMMA InitType == Init => TypeOK
  <1> SUFFICES ASSUME Init PROVE TypeOK
    OBVIOUS
  <1>1. table \in Table
    BY DEF Init, Table
  <1>2. ASSUME NEW o \in Obj, table[o] # Absent
        PROVE  [uuid |-> Legacy[o], name |-> table[o]] \in Entry
    <2>1. o \in DOMAIN Legacy
      BY <1>2 DEF Init
    <2>2. Legacy[o] \in Uuid
      BY <2>1 DEF Uuid
    <2>3. table[o] \in Title \cup {x.key : x \in Obj}
      BY <1>1, <1>2 DEF Table
    <2>4. QED
      BY <2>2, <2>3 DEF Entry
  <1>3. tree \in File
    BY <1>2 DEF Init, File
  <1>4. QED
    BY <1>1, <1>3 DEF Init, TypeOK

LEMMA NextType == TypeOK /\ [Next]_vars => TypeOK'
  <1> SUFFICES ASSUME TypeOK, [Next]_vars PROVE TypeOK'
    OBVIOUS
  <1> USE DEF TypeOK, work, head, past
  <1>1. ASSUME NEW o \in Obj, SetRow(o) PROVE TypeOK'
    <2>1. PICK t \in Names(o) : table' = [table EXCEPT ![o] = t]
      BY <1>1 DEF SetRow
    <2>2. t \in Title \cup {x.key : x \in Obj}
      BY DEF Names
    <2>3. table' \in Table
      BY <2>1, <2>2 DEF Table
    <2>4. QED
      BY <1>1, <2>3, BoundAssumption DEF SetRow, Edit
  <1>2. ASSUME NEW o \in Obj, DropRow(o) PROVE TypeOK'
    <2>1. table' \in Table
      BY <1>2 DEF DropRow, Table
    <2>2. QED
      BY <1>2, <2>1 DEF DropRow, Edit
  <1>3. ASSUME NEW line \in Line, Sanction(line) PROVE TypeOK'
    BY <1>3 DEF Sanction, Edit
  <1>4. CASE Regenerate
    BY <1>4, RenderType DEF Regenerate
  <1>5. CASE Checkout
    BY <1>5 DEF Checkout
  <1>6. CASE CommitBook
    BY <1>6 DEF CommitBook, Lost, Emitted
  <1>7. CASE CommitCareless
    BY <1>7 DEF CommitCareless, Lost, Renamed, OutOfStep, Emitted
  <1>8. CASE Release
    BY <1>8 DEF Release
  <1>9. CASE UNCHANGED vars
    BY <1>9 DEF vars
  <1>10. QED
    BY <1>1, <1>2, <1>3, <1>4, <1>5, <1>6, <1>7, <1>8, <1>9 DEF Next

(* Every reachable state is well typed: in particular neither HEAD nor an *)
(* import ever holds a torn file (gen-template.py writes in place).       *)
THEOREM TypeCorrect == Spec => []TypeOK
  BY InitType, NextType, PTL DEF Spec
-----------------------------------------------------------------------------
LEMMA InitOwn == Init => OwnInv
  <1> SUFFICES ASSUME Init, NEW o \in Emitted(tree) PROVE tree[o].uuid \in OwnUuid(o)
    BY DEF Init, OwnInv, Owned
  <1>1. o \in Obj /\ table[o] # Absent
    BY DEF Init, Emitted
  <1>2. o \in DOMAIN Legacy /\ tree[o].uuid = Legacy[o]
    BY <1>1 DEF Init
  <1>3. QED
    BY <1>2 DEF OwnUuid

LEMMA NextOwn == TypeOK /\ OwnInv /\ [Next]_vars => OwnInv'
  <1> SUFFICES ASSUME TypeOK, OwnInv, [Next]_vars PROVE OwnInv'
    OBVIOUS
  <1>1. CASE UNCHANGED <<tree, headTree, live>>
    BY <1>1 DEF OwnInv, Owned, Emitted
  <1>2. CASE Regenerate
    <2>1. tree' = Torn \/ Owned(tree')
      BY <1>2, RenderOwned DEF Regenerate, OwnInv, TypeOK
    <2>2. QED
      BY <1>2, <2>1 DEF Regenerate, OwnInv, Owned, Emitted, head
  <1>3. CASE Checkout
    BY <1>3 DEF Checkout, OwnInv, Owned, Emitted, head
  <1>4. CASE CommitBook \/ CommitCareless
    BY <1>4 DEF CommitBook, CommitCareless, OwnInv, Owned, Emitted, work
  <1>5. CASE Release
    BY <1>5 DEF Release, OwnInv, Owned, Emitted, work, head
  <1>6. QED
    BY <1>1, <1>2, <1>3, <1>4, <1>5
    DEF Next, SetRow, DropRow, Sanction, vars, work, head

(* No two objects of a template ever share a uuid, whatever is carried, *)
(* minted, dropped or brought back.                                     *)
THEOREM NoUuidTwice == Spec => []UuidsDistinct
  <1>1. TypeOK /\ OwnInv => UuidsDistinct
    BY OwnedDistinct DEF OwnInv, UuidsDistinct
  <1>2. QED
    BY <1>1, InitType, NextType, InitOwn, NextOwn, PTL DEF Spec
-----------------------------------------------------------------------------
(* What the checker lets a commit by the book do to the identity of objects. *)
LEMMA BookLoses ==
  ASSUME CommitBook
  PROVE  /\ Lost(headTree, tree) \subseteq sanctions
         /\ Renamed(headTree, tree) = {}
  <1>1. CheckUuids(tree, headTree, sanctions) /\ CheckNames(tree, headTree)
    BY DEF CommitBook, Gate
  <1>2. QED
    BY <1>1 DEF CheckUuids, CheckNames, Lost, Renamed

(* What a template has lost or renamed of an older one, it has lost or   *)
(* renamed of one in between, or that one had.                           *)
LEMMA LossesCompose ==
  ASSUME NEW a, NEW b, NEW c
  PROVE  /\ Lost(a, c) \subseteq Lost(a, b) \cup Lost(b, c)
         /\ Renamed(a, c) \subseteq Lost(a, b) \cup Renamed(a, b) \cup Renamed(b, c)
  BY DEF Lost, Renamed, Emitted

LEMMA NothingLost ==
  ASSUME NEW a
  PROVE  Lost(a, a) = {} /\ Renamed(a, a) = {}
  BY DEF Lost, Renamed

LEMMA NextLost ==
  LostInv /\ NameInv /\ [Next]_vars => LostInv' /\ NameInv'
  <1> SUFFICES ASSUME LostInv, NameInv, [Next]_vars PROVE LostInv' /\ NameInv'
    OBVIOUS
  <1> USE DEF LostInv, NameInv
  <1>1. CASE UNCHANGED <<headTree, live, retired, slipped>>
    BY <1>1 DEF Lost, Renamed, Emitted
  <1>2. CASE CommitBook
    <2>1. live' = live /\ headTree' = tree /\ slipped' = slipped
      BY <1>2 DEF CommitBook
    <2>2. retired' = retired \cup Lost(headTree, tree)
      BY <1>2, BookLoses DEF CommitBook
    <2>3. QED
      BY <1>2, <2>1, <2>2, BookLoses, LossesCompose
  <1>3. CASE CommitCareless
    <2>1. live' = live /\ headTree' = tree /\ retired' = retired
      BY <1>3 DEF CommitCareless
    <2>2. Lost(headTree, tree) \cup Renamed(headTree, tree) \cup slipped \subseteq slipped'
      BY <1>3 DEF CommitCareless
    <2>3. QED
      BY <2>1, <2>2, LossesCompose
  <1>4. CASE Release
    <2>1. live' = headTree /\ headTree' = headTree
      BY <1>4 DEF Release, head
    <2>2. QED
      BY <2>1, NothingLost
  <1>5. QED
    BY <1>1, <1>2, <1>3, <1>4
    DEF Next, SetRow, DropRow, Sanction, Regenerate, Checkout, vars, head, past

LEMMA InitLost == Init => LostInv /\ NameInv
  BY NothingLost DEF Init, LostInv, NameInv

(* An import replaces the last one by HEAD; other steps import nothing. *)
LEMMA ImportsHead ==
  ASSUME [Next]_vars
  PROVE  live' = live \/ (Release /\ live' = headTree)
  BY DEF Next, SetRow, DropRow, Sanction, Regenerate, Checkout, CommitBook,
         CommitCareless, Release, vars

(* No import deletes an object with its history but one that a sanction *)
(* retired or a careless commit lost.                                   *)
THEOREM HistorySafe == Spec => HistoryKept
  <1>1. LostInv /\ [Next]_vars => [Lost(live, live') \subseteq retired \cup slipped]_vars
    BY ImportsHead, NothingLost DEF LostInv
  <1>2. QED
    BY <1>1, InitLost, NextLost, PTL DEF Spec, HistoryKept

(* No import renames an item or prototype but for the same two. *)
THEOREM NamesSafe == Spec => NamesKept
  <1>1. NameInv /\ [Next]_vars => [Renamed(live, live') \subseteq retired \cup slipped]_vars
    BY ImportsHead, NothingLost DEF NameInv
  <1>2. QED
    BY <1>1, InitLost, NextLost, PTL DEF Spec, NamesKept
-----------------------------------------------------------------------------
LEMMA InitStale == Init => StaleInv
  BY DEF Init, StaleInv, Emitted

LEMMA NextStale == TypeOK /\ StaleInv /\ [Next]_vars => StaleInv'
  <1> SUFFICES ASSUME TypeOK, StaleInv, [Next]_vars PROVE StaleInv'
    OBVIOUS
  <1>1. CASE UNCHANGED <<headTable, headTree, live, slipped>>
    BY <1>1 DEF StaleInv, Emitted
  <1>2. ASSUME headTable' = table, headTree' = tree, OutOfStep \subseteq slipped'
        PROVE  StaleInv'
    <2>1. SUFFICES ASSUME NEW o \in Emitted(tree), table[o] = Absent
                   PROVE  o \in slipped'
      BY <1>2 DEF StaleInv, Emitted
    <2>2. o \in OutOfStep
      BY <2>1 DEF OutOfStep, Render, Emitted
    <2>3. QED
      BY <1>2, <2>2
  <1>3. CASE CommitBook
    BY <1>2, <1>3 DEF CommitBook
  <1>4. CASE CommitCareless
    BY <1>2, <1>4 DEF CommitCareless
  <1>5. CASE Release
    BY <1>5 DEF Release, StaleInv, Emitted, head
  <1>6. QED
    BY <1>1, <1>3, <1>4, <1>5
    DEF Next, SetRow, DropRow, Sanction, Regenerate, Checkout, vars, head, past

(* A retired object does not come back while its sanction stands, but from *)
(* a commit that left table and template out of step.                      *)
THEOREM RetiredStaysOut == Spec => NoResurrection
  <1> DEFINE A == \A o \in Emitted(live') \ Emitted(live) :
                    o \in headSanctions => o \in slipped
  <1>1. ASSUME TypeOK, StaleInv, [Next]_vars PROVE A
    <2>1. SUFFICES ASSUME NEW o \in Emitted(live') \ Emitted(live), o \in headSanctions
                   PROVE  o \in slipped
      OBVIOUS
    <2>2. Release /\ o \in Emitted(headTree)
      BY ImportsHead, <1>1
    <2>3. o \in Obj /\ o \notin Emitted(Render(headTable, headTree))
      BY <2>1, <2>2 DEF Release, Gate, CheckSanctions, Emitted
    <2>4. headTable[o] = Absent
      BY <1>1, <2>3, RenderEmits DEF TypeOK
    <2>5. QED
      BY <1>1, <2>1, <2>2, <2>4 DEF StaleInv
  <1>2. TypeOK /\ StaleInv /\ [Next]_vars => [A]_vars
    BY <1>1
  <1>3. QED
    BY <1>2, InitType, NextType, InitStale, NextStale, PTL DEF Spec, NoResurrection
=============================================================================
