---------------------------- MODULE NgMapProofs ----------------------------
(***************************************************************************)
(* Proofs about NgMap, for every set of networks and processes.            *)
(***************************************************************************)
EXTENDS NgMap, TLAPS

LEMMA NoArgsType == NoArgs \in Locals
  <1>1. SomeNet \in Net
    BY NetAssumption DEF SomeNet
  <1>2. QED
    BY <1>1 DEF NoArgs, Locals

LEMMA InitType == Init => TypeOK
  BY NoArgsType, NetAssumption DEF Init, TypeOK, Label, Critical

LEMMA ExitType ==
  ASSUME TypeOK, NEW p \in Proc, Exit(p)
  PROVE  /\ pc' \in [Proc -> Label] /\ loc' \in [Proc -> Locals]
         /\ missed' \in [Proc -> Nat] /\ lock' \in Proc \cup {Nobody}
  BY NoArgsType DEF TypeOK, Exit, Label, Critical

(* The label a step goes to, and the locals it updates, keep their types. *)
LEMMA GotoType ==
  ASSUME TypeOK, NEW p \in Proc, NEW l \in Label, Goto(p, l)
  PROVE  pc' \in [Proc -> Label]
  BY DEF TypeOK, Goto

LEMMA LocType ==
  ASSUME TypeOK, NEW p \in Proc, NEW r \in Locals, loc' = [loc EXCEPT ![p] = r]
  PROVE  loc' \in [Proc -> Locals]
  BY DEF TypeOK

(* Updates of several locals at once keep their types. *)
LEMMA RequestLocals ==
  ASSUME NEW r \in Locals, NEW n \in Net, NEW t \in Nat, NEW f \in BOOLEAN
  PROVE  [r EXCEPT !.net = n, !.ttl = t, !.force = f] \in Locals
  BY DEF Locals

LEMMA DumpLocals ==
  ASSUME NEW r \in Locals, NEW t \in Nat, NEW S \in SUBSET Net
  PROVE  [r EXCEPT !.now = t, !.todo = S] \in Locals
  BY DEF Locals

LEMMA UnblockLocals ==
  ASSUME NEW r \in Locals, NEW n \in Net
  PROVE  [r EXCEPT !.todo = {n}, !.ver = 6] \in Locals
  BY DEF Locals

LEMMA LabelsHave ==
  {"idle", "contain", "acquire", "dump", "pick", "queue", "lookup", "write",
   "purge", "examine", "evict", "done", "recheck", "collect"} \subseteq Label
  BY DEF Label, Critical

LEMMA NextFamilyType ==
  ASSUME TypeOK, NEW p \in Proc, NextFamily(p)
  PROVE  TypeOK'
  <1>1. /\ block' \in [Net -> Entry \cup {Absent}] /\ allow' \in SUBSET AllowNet
        /\ clock' \in Nat \ {0} /\ faults' \in Nat
    BY DEF TypeOK, NextFamily
  <1>2. CASE /\ loc' = [loc EXCEPT ![p].ver = 6]
             /\ Goto(p, "dump")
             /\ UNCHANGED <<lock, missed>>
    <2>1. [loc[p] EXCEPT !.ver = 6] \in Locals
      BY DEF TypeOK, Locals
    <2>2. loc' \in [Proc -> Locals]
      BY <1>2, <2>1, LocType
    <2>3. pc' \in [Proc -> Label]
      BY <1>2, GotoType, LabelsHave
    <2>4. QED
      BY <1>1, <1>2, <2>2, <2>3 DEF TypeOK
  <1>3. CASE Exit(p)
    BY <1>1, <1>3, ExitType DEF TypeOK
  <1>4. QED
    BY <1>2, <1>3 DEF NextFamily

LEMMA BlockStepType ==
  ASSUME TypeOK, NEW p \in Blocker, BlockRequest(p) \/ BlockStep(p)
  PROVE  TypeOK'
  <1> p \in Proc
    BY DEF Proc
  <1> USE DEF TypeOK
  <1>1. CASE BlockRequest(p)
    <2>1. PICK n \in Net, t \in TTL \cup {0}, f \in BOOLEAN :
            loc' = [loc EXCEPT ![p] = [@ EXCEPT !.net = n, !.ttl = t, !.force = f]]
      BY <1>1 DEF BlockRequest
    <2>2. t \in Nat
      BY ValueAssumption DEF ValueAssumption
    <2>3. [loc[p] EXCEPT !.net = n, !.ttl = t, !.force = f] \in Locals
      BY <2>2, RequestLocals
    <2>4. loc' \in [Proc -> Locals]
      BY <2>1, <2>3, LocType
    <2>5. pc' \in [Proc -> Label]
      BY <1>1, GotoType, LabelsHave DEF BlockRequest
    <2>6. QED
      BY <1>1, <2>4, <2>5 DEF BlockRequest
  <1>2. CASE BlockContain(p)
    <2>1. UNCHANGED <<block, allow, clock, faults>>
      BY <1>2 DEF BlockContain
    <2>2. CASE Exit(p)
      BY <2>1, <2>2, ExitType
    <2>3. CASE /\ loc' = [loc EXCEPT ![p].expiry =
                            IF loc[p].ttl = 0 THEN 0 ELSE clock + loc[p].ttl]
               /\ Goto(p, "acquire")
               /\ UNCHANGED <<lock, missed>>
      <3> DEFINE r == [loc[p] EXCEPT !.expiry =
                         IF loc[p].ttl = 0 THEN 0 ELSE clock + loc[p].ttl]
      <3>1. r \in Locals
        BY DEF Locals
      <3>2. loc' \in [Proc -> Locals]
        BY <2>3, <3>1, LocType
      <3>3. pc' \in [Proc -> Label]
        BY <2>3, GotoType, LabelsHave
      <3>4. QED
        BY <2>1, <2>3, <3>2, <3>3
    <2>4. QED
      BY <1>2, <2>2, <2>3 DEF BlockContain
  <1>3. CASE BlockLookup(p)
    BY <1>3, ExitType DEF BlockLookup, Goto, Label, Critical, Locals, Live, Entry
  <1>4. CASE BlockWrite(p)
    BY <1>4 DEF BlockWrite, Goto, Label, Critical, Locals, Entry
  <1>5. CASE PurgeDump(p)
    <2>1. PICK S \in SUBSET Net :
            loc' = [loc EXCEPT ![p] = [@ EXCEPT !.now = clock, !.todo = S]]
      BY <1>5 DEF PurgeDump
    <2>2. [loc[p] EXCEPT !.now = clock, !.todo = S] \in Locals
      BY DumpLocals
    <2>3. loc' \in [Proc -> Locals]
      BY <2>1, <2>2, LocType
    <2>4. pc' \in [Proc -> Label]
      BY <1>5, GotoType, LabelsHave DEF PurgeDump
    <2>5. QED
      BY <1>5, <2>3, <2>4 DEF PurgeDump
  <1>6. CASE PurgeExamine(p)
    <2>1. PICK c \in loc[p].todo :
            loc' = [loc EXCEPT ![p] = [@ EXCEPT !.todo = loc[p].todo \ {c}, !.key = c]]
      BY <1>6 DEF PurgeExamine
    <2>a. loc[p] \in Locals /\ c \in Net /\ loc[p].todo \ {c} \in SUBSET Net
      BY DEF Locals
    <2>b. [loc[p] EXCEPT !.todo = loc[p].todo \ {c}, !.key = c] \in Locals
      BY <2>a DEF Locals
    <2>2. loc' \in [Proc -> Locals]
      BY <2>1, <2>b
    <2>3. pc' \in [Proc -> Label]
      BY <1>6 DEF PurgeExamine, Goto, Label, Critical
    <2>4. QED
      BY <1>6, <2>2, <2>3 DEF PurgeExamine
  <1>7. CASE PurgeEvict(p)
    BY <1>7 DEF PurgeEvict, Goto, Label, Critical, Locals
  <1>8. CASE PurgeDone(p)
    BY <1>8 DEF PurgeDone, Goto, Label, Critical
  <1>9. CASE BlockDone(p)
    BY <1>9, ExitType DEF BlockDone
  <1>10. QED
    BY <1>1, <1>2, <1>3, <1>4, <1>5, <1>6, <1>7, <1>8, <1>9 DEF BlockStep

LEMMA SweepStepType ==
  ASSUME TypeOK, NEW p \in Sweeper, SweepStep(p)
  PROVE  TypeOK'
  <1> p \in Proc
    BY DEF Proc
  <1> USE DEF TypeOK
  <1>1. CASE SweepStart(p)
    <2> DEFINE r == [loc[p] EXCEPT !.now = clock]
    <2>1. r \in Locals
      BY DEF Locals
    <2>2. loc' = [loc EXCEPT ![p] = r]
      BY <1>1 DEF SweepStart
    <2>3. loc' \in [Proc -> Locals]
      BY <2>1, <2>2, LocType
    <2>4. pc' \in [Proc -> Label]
      BY <1>1, GotoType, LabelsHave DEF SweepStart
    <2>5. QED
      BY <1>1, <2>3, <2>4 DEF SweepStart
  <1>2. CASE SweepDump(p)
    BY <1>2 DEF SweepDump, Goto, Label, Critical, Locals
  <1>3. CASE SweepPick(p)
    <2>1. PICK k \in loc[p].todo :
            loc' = [loc EXCEPT ![p] = [@ EXCEPT !.todo = loc[p].todo \ {k}, !.key = k]]
      BY <1>3 DEF SweepPick
    <2>a. loc[p] \in Locals /\ k \in Net /\ loc[p].todo \ {k} \in SUBSET Net
      BY DEF Locals
    <2>b. [loc[p] EXCEPT !.todo = loc[p].todo \ {k}, !.key = k] \in Locals
      BY <2>a DEF Locals
    <2>2. loc' \in [Proc -> Locals]
      BY <2>1, <2>b
    <2>3. QED
      BY <1>3, <2>2 DEF SweepPick, Goto, Label, Critical
  <1>4. CASE SweepRecheck(p)
    BY <1>4 DEF SweepRecheck, Goto, Label, Critical
  <1>5. CASE SweepCollect(p)
    BY <1>5 DEF SweepCollect, Goto, Label, Critical, Locals
  <1>6. CASE NextFamily(p)
    BY <1>6, NextFamilyType
  <1>7. QED
    BY <1>1, <1>2, <1>3, <1>4, <1>5, <1>6 DEF SweepStep

LEMMA OperatorStepType ==
  ASSUME TypeOK, NEW p \in Operator,
         UnblockRequest(p) \/ FlushRequest(p) \/ OperatorStep(p)
  PROVE  TypeOK'
  <1> p \in Proc
    BY DEF Proc
  <1> USE DEF TypeOK
  <1>1. CASE UnblockRequest(p)
    <2>1. PICK n \in Net :
            loc' = [loc EXCEPT ![p] = [@ EXCEPT !.todo = {n}, !.ver = 6]]
      BY <1>1 DEF UnblockRequest
    <2>2. [loc[p] EXCEPT !.todo = {n}, !.ver = 6] \in Locals
      BY UnblockLocals
    <2>3. loc' \in [Proc -> Locals]
      BY <2>1, <2>2, LocType
    <2>4. pc' \in [Proc -> Label]
      BY <1>1, GotoType, LabelsHave DEF UnblockRequest
    <2>5. QED
      BY <1>1, <2>3, <2>4 DEF UnblockRequest
  <1>2. CASE FlushRequest(p)
    BY <1>2 DEF FlushRequest, Goto, Label, Critical
  <1>3. CASE FlushDump(p)
    <2>1. PICK S \in SUBSET Net : loc' = [loc EXCEPT ![p].todo = S]
      BY <1>3 DEF FlushDump, Keys
    <2> DEFINE r == [loc[p] EXCEPT !.todo = S]
    <2>2. r \in Locals
      BY DEF Locals
    <2>3. loc' = [loc EXCEPT ![p] = r]
      BY <2>1
    <2>4. loc' \in [Proc -> Locals]
      BY <2>2, <2>3, LocType
    <2>5. pc' \in [Proc -> Label]
      BY <1>3, GotoType, LabelsHave DEF FlushDump
    <2>6. QED
      BY <1>3, <2>4, <2>5 DEF FlushDump
  <1>4. CASE OperatorDelete(p)
    BY <1>4 DEF OperatorDelete, Locals
  <1>5. CASE NextFamily(p)
    BY <1>5, NextFamilyType
  <1>6. QED
    BY <1>1, <1>2, <1>3, <1>4, <1>5 DEF OperatorStep

(* A failed lookup sends p on from one of three labels, drops at most a    *)
(* candidate of its purge, and touches nothing of the map or of the others. *)
LEMMA MaskedEffect ==
  ASSUME TypeOK, NEW p \in Proc, MaskedLookup(p)
  PROVE  /\ UNCHANGED <<block, allow, clock, missed>> /\ faults' \in Nat
         /\ loc' \in [Proc -> Locals]
         /\ \A q \in Proc : q # p => loc'[q] = loc[q] /\ pc'[q] = pc[q]
         /\ loc'[p].net = loc[p].net /\ loc'[p].ttl = loc[p].ttl
         /\ loc'[p].force = loc[p].force /\ loc'[p].expiry = loc[p].expiry
         /\ loc'[p].hits = loc[p].hits /\ loc'[p].now = loc[p].now
         /\ loc'[p].key = loc[p].key
         /\ \/ /\ pc[p] = "lookup" /\ pc' = [pc EXCEPT ![p] = "write"]
               /\ "lookup" \in loc'[p].masked /\ UNCHANGED lock
            \/ /\ pc[p] = "examine" /\ UNCHANGED <<lock, pc>>
               /\ "examine" \in loc'[p].masked
            \/ /\ pc[p] = "recheck" /\ pc' = [pc EXCEPT ![p] = "pick"]
               /\ lock' = Nobody /\ UNCHANGED loc
  <1> DEFINE r == loc[p]
             l == [r EXCEPT !.masked = r.masked \cup {"lookup"}]
  <1>a. r \in Locals /\ faults \in Nat
    BY DEF TypeOK
  <1>b. faults' = faults + 1 /\ UNCHANGED <<block, allow, clock, missed>>
    BY DEF MaskedLookup
  <1>0. /\ r \in Locals /\ faults' \in Nat
        /\ UNCHANGED <<block, allow, clock, missed>>
    BY <1>a, <1>b
  <1>1. CASE /\ pc[p] = "lookup" /\ Goto(p, "write") /\ UNCHANGED lock
             /\ loc' = [loc EXCEPT ![p].masked = @ \cup {"lookup"}]
    <2>1. l \in Locals
      BY <1>0 DEF Locals
    <2>2. loc' = [loc EXCEPT ![p] = l]
      BY <1>1
    <2>3. loc' \in [Proc -> Locals]
      BY <2>1, <2>2, LocType
    <2>4. loc'[p] = l /\ \A q \in Proc : q # p => loc'[q] = loc[q]
      BY <2>2 DEF TypeOK
    <2>5. \A q \in Proc : q # p => pc'[q] = pc[q]
      BY <1>1 DEF Goto, TypeOK
    <2>6. QED
      BY <1>0, <1>1, <2>3, <2>4, <2>5 DEF Locals, Goto
  <1>2. CASE /\ pc[p] = "examine" /\ UNCHANGED <<lock, pc>>
             /\ \E c \in r.todo :
                  loc' = [loc EXCEPT ![p] = [@ EXCEPT !.todo = r.todo \ {c},
                                       !.masked = r.masked \cup {"examine"}]]
    <2>1. PICK c \in r.todo :
            loc' = [loc EXCEPT ![p] = [@ EXCEPT !.todo = r.todo \ {c},
                                 !.masked = r.masked \cup {"examine"}]]
      BY <1>2
    <2> DEFINE e == [r EXCEPT !.todo = r.todo \ {c},
                              !.masked = r.masked \cup {"examine"}]
    <2>2. e \in Locals
      BY <1>0 DEF Locals
    <2>3. loc' = [loc EXCEPT ![p] = e]
      BY <2>1
    <2>4. loc' \in [Proc -> Locals]
      BY <2>2, <2>3, LocType
    <2>5. loc'[p] = e /\ \A q \in Proc : q # p => loc'[q] = loc[q]
      BY <2>3 DEF TypeOK
    <2>6. QED
      BY <1>0, <1>2, <2>4, <2>5 DEF Locals
  <1>3. CASE /\ pc[p] = "recheck" /\ Goto(p, "pick") /\ lock' = Nobody
             /\ UNCHANGED loc
    BY <1>0, <1>3 DEF Goto, TypeOK
  <1>4. QED
    BY <1>1, <1>2, <1>3 DEF MaskedLookup

LEMMA SharedStepType ==
  ASSUME TypeOK, NEW p \in Proc, Acquire(p) \/ MaskedLookup(p) \/ Die(p)
  PROVE  TypeOK'
  <1> USE DEF TypeOK
  <1>1. CASE Acquire(p)
    BY <1>1 DEF Acquire, Goto, Label, Critical
  <1>2. CASE MaskedLookup(p)
    BY <1>2, MaskedEffect, LabelsHave
  <1>3. CASE Die(p)
    BY <1>3, ExitType DEF Die
  <1>4. QED
    BY <1>1, <1>2, <1>3

LEMMA EnvironmentType ==
  ASSUME TypeOK,
         (\E a \in Addr : Drop(a)) \/ AllowChange \/ Tick \/ Reboot
  PROVE  TypeOK'
  <1> USE DEF TypeOK
  <1>1. ASSUME NEW a \in Addr, Drop(a)
        PROVE  TypeOK'
    <2>1. PICK n \in Net :
            /\ Live(block[n], clock)
            /\ block' = [block EXCEPT ![n].hits = @ + 1]
            /\ missed' = [p \in Proc |->
                            IF pc[p] = "write" /\ loc[p].net = n
                            THEN missed[p] + 1 ELSE missed[p]]
      BY <1>1 DEF Drop
    <2>2. block[n] \in Entry
      BY <2>1 DEF Live
    <2>3. block' \in [Net -> Entry \cup {Absent}]
      BY <2>1, <2>2 DEF Entry
    <2>4. missed' \in [Proc -> Nat]
      BY <2>1
    <2>5. QED
      BY <1>1, <2>3, <2>4 DEF Drop
  <1>2. CASE AllowChange
    BY <1>2, NetAssumption DEF AllowChange
  <1>3. CASE Tick
    BY <1>3 DEF Tick
  <1>4. CASE Reboot
    BY <1>4, NoArgsType DEF Reboot, Label, Critical
  <1>5. QED
    BY <1>1, <1>2, <1>3, <1>4

(* Type correctness of every reachable state of the map and its commands. *)
THEOREM TypeCorrect == Spec => []TypeOK
  <1>1. Init => TypeOK
    BY InitType
  <1>2. TypeOK /\ [Next]_vars => TypeOK'
    <2> SUFFICES ASSUME TypeOK, [Next]_vars PROVE TypeOK'
      OBVIOUS
    <2>1. CASE UNCHANGED vars
      BY <2>1 DEF vars, TypeOK
    <2>2. CASE Next
      BY <2>2, BlockStepType, SweepStepType, OperatorStepType, SharedStepType,
         EnvironmentType DEF Next
    <2>3. QED
      BY <2>1, <2>2
  <1>3. QED
    BY <1>1, <1>2, PTL DEF Spec

LEMMA ExpiredStays ==
  ASSUME TypeOK, NEW n \in Net, NEW t \in Nat, NEW u \in Nat, t =< u,
         Expired(block[n], t)
  PROVE  Expired(block[n], u)
  BY DEF TypeOK, Expired, Entry

(* A drop adds one hit to a live entry and changes nothing else of the map. *)
LEMMA DropEffect ==
  ASSUME TypeOK, NEW a \in Addr, Drop(a)
  PROVE  \E n \in Net :
           /\ Live(block[n], clock)
           /\ block[n] \in Entry /\ block'[n] \in Entry
           /\ block'[n].exp = block[n].exp
           /\ block'[n].hits = block[n].hits + 1
           /\ \A m \in Net \ {n} : block'[m] = block[m]
           /\ missed' = [p \in Proc |->
                           IF pc[p] = "write" /\ loc[p].net = n
                           THEN missed[p] + 1 ELSE missed[p]]
  <1>1. PICK n \in Net :
          /\ Live(block[n], clock)
          /\ block' = [block EXCEPT ![n].hits = @ + 1]
          /\ missed' = [p \in Proc |->
                          IF pc[p] = "write" /\ loc[p].net = n
                          THEN missed[p] + 1 ELSE missed[p]]
    BY DEF Drop
  <1>2. block[n] \in Entry
    BY <1>1 DEF TypeOK, Live
  <1>3. QED
    BY <1>1, <1>2 DEF TypeOK, Entry

(* ... so it creates, removes, expires and revives no entry. *)
LEMMA DropKeeps ==
  ASSUME TypeOK, NEW a \in Addr, Drop(a)
  PROVE  /\ UNCHANGED <<allow, clock, lock, pc, loc, faults>>
         /\ Absent \notin Entry
         /\ \A m \in Net : /\ block'[m] = Absent <=> block[m] = Absent
                           /\ block[m] # Absent => block'[m].exp = block[m].exp
                           /\ \A t \in Nat : Expired(block'[m], t) <=> Expired(block[m], t)
  <1>1. Absent \notin Entry
    BY ValueAssumption DEF ValueAssumption
  <1>2. PICK n \in Net :
          /\ block[n] \in Entry /\ block'[n] \in Entry
          /\ block'[n].exp = block[n].exp
          /\ \A m \in Net \ {n} : block'[m] = block[m]
    BY DropEffect
  <1>3. ASSUME NEW m \in Net
        PROVE  /\ block'[m] = Absent <=> block[m] = Absent
               /\ block[m] # Absent => block'[m].exp = block[m].exp
    BY <1>1, <1>2
  <1>4. QED
    BY <1>1, <1>3 DEF Drop, Expired

LEMMA LockInvStep == TypeOK /\ LockInv /\ [Next]_vars => LockInv'
  <1> SUFFICES ASSUME TypeOK, LockInv, [Next]_vars PROVE LockInv'
    OBVIOUS
  <1> USE DEF TypeOK, LockInv
  <1>1. ASSUME NEW p \in Blocker, BlockRequest(p) PROVE LockInv'
    BY <1>1, ProcAssumption DEF BlockRequest, Proc, Goto, Exit, Critical, Label, Locals
  <1>2. ASSUME NEW p \in Blocker, BlockContain(p) PROVE LockInv'
    BY <1>2, ProcAssumption DEF BlockContain, Proc, Goto, Exit, Critical, Label, Locals
  <1>3. ASSUME NEW p \in Blocker, BlockLookup(p) PROVE LockInv'
    BY <1>3, ProcAssumption DEF BlockLookup, Proc, Goto, Exit, Critical, Label, Locals
  <1>4. ASSUME NEW p \in Blocker, BlockWrite(p) PROVE LockInv'
    BY <1>4, ProcAssumption DEF BlockWrite, Proc, Goto, Exit, Critical, Label, Locals
  <1>5. ASSUME NEW p \in Blocker, PurgeDump(p) PROVE LockInv'
    BY <1>5, ProcAssumption DEF PurgeDump, Proc, Goto, Exit, Critical, Label, Locals
  <1>6. ASSUME NEW p \in Blocker, PurgeExamine(p) PROVE LockInv'
    BY <1>6, ProcAssumption DEF PurgeExamine, Proc, Goto, Exit, Critical, Label, Locals
  <1>7. ASSUME NEW p \in Blocker, PurgeEvict(p) PROVE LockInv'
    BY <1>7, ProcAssumption DEF PurgeEvict, Proc, Goto, Exit, Critical, Label, Locals
  <1>8. ASSUME NEW p \in Blocker, PurgeDone(p) PROVE LockInv'
    BY <1>8, ProcAssumption DEF PurgeDone, Proc, Goto, Exit, Critical, Label, Locals
  <1>9. ASSUME NEW p \in Blocker, BlockDone(p) PROVE LockInv'
    BY <1>9, ProcAssumption DEF BlockDone, Proc, Goto, Exit, Critical, Label, Locals
  <1>10. ASSUME NEW p \in Sweeper, SweepStart(p) PROVE LockInv'
    BY <1>10, ProcAssumption DEF SweepStart, Proc, Goto, Exit, Critical, Label, Locals
  <1>11. ASSUME NEW p \in Sweeper, SweepDump(p) PROVE LockInv'
    BY <1>11, ProcAssumption DEF SweepDump, Proc, Goto, Exit, Critical, Label, Locals
  <1>12. ASSUME NEW p \in Sweeper, SweepPick(p) PROVE LockInv'
    BY <1>12, ProcAssumption DEF SweepPick, Proc, Goto, Exit, Critical, Label, Locals
  <1>13. ASSUME NEW p \in Sweeper, SweepRecheck(p) PROVE LockInv'
    BY <1>13, ProcAssumption DEF SweepRecheck, Proc, Goto, Exit, Critical, Label, Locals
  <1>14. ASSUME NEW p \in Sweeper, SweepCollect(p) PROVE LockInv'
    BY <1>14, ProcAssumption DEF SweepCollect, Proc, Goto, Exit, Critical, Label, Locals
  <1>15. ASSUME NEW p \in Sweeper, NextFamily(p) PROVE LockInv'
    BY <1>15, ProcAssumption DEF NextFamily, Proc, Goto, Exit, Critical, Label, Locals
  <1>16. ASSUME NEW p \in Operator, UnblockRequest(p) PROVE LockInv'
    BY <1>16, ProcAssumption DEF UnblockRequest, Proc, Goto, Exit, Critical, Label, Locals
  <1>17. ASSUME NEW p \in Operator, FlushRequest(p) PROVE LockInv'
    BY <1>17, ProcAssumption DEF FlushRequest, Proc, Goto, Exit, Critical, Label, Locals
  <1>18. ASSUME NEW p \in Operator, FlushDump(p) PROVE LockInv'
    BY <1>18, ProcAssumption DEF FlushDump, Proc, Goto, Exit, Critical, Label, Locals
  <1>19. ASSUME NEW p \in Operator, OperatorDelete(p) PROVE LockInv'
    BY <1>19, ProcAssumption DEF OperatorDelete, Proc, Goto, Exit, Critical, Label, Locals
  <1>20. ASSUME NEW p \in Operator, NextFamily(p) PROVE LockInv'
    BY <1>20, ProcAssumption DEF NextFamily, Proc, Goto, Exit, Critical, Label, Locals
  <1>21. ASSUME NEW p \in Proc, Acquire(p) PROVE LockInv'
    BY <1>21, ProcAssumption DEF Acquire, Proc, Goto, Exit, Critical, Label, Locals
  <1>22. ASSUME NEW p \in Proc, MaskedLookup(p) PROVE LockInv'
    BY <1>22, MaskedEffect, ProcAssumption DEF Critical
  <1>23. ASSUME NEW p \in Proc, Die(p) PROVE LockInv'
    BY <1>23, ProcAssumption DEF Die, Proc, Goto, Exit, Critical, Label, Locals
  <1>24. CASE AllowChange
    BY <1>24, ProcAssumption DEF AllowChange, Proc, Critical, Label
  <1>25. CASE Tick
    BY <1>25, ProcAssumption DEF Tick, Proc, Critical, Label
  <1>26. CASE Reboot
    BY <1>26, ProcAssumption DEF Reboot, Proc, Critical, Label
  <1>27. ASSUME NEW a \in Addr, Drop(a) PROVE LockInv'
    BY <1>27 DEF Drop, Proc, Critical, Label
  <1>28. CASE UNCHANGED vars
    BY <1>28 DEF vars
  <1>29. QED
    BY <1>1, <1>2, <1>3, <1>4, <1>5, <1>6, <1>7, <1>8, <1>9, <1>10, <1>11, <1>12, <1>13, <1>14, <1>15, <1>16, <1>17, <1>18, <1>19, <1>20, <1>21, <1>22, <1>23, <1>24, <1>25, <1>26, <1>27, <1>28 DEF Next, BlockStep, SweepStep, OperatorStep

LEMMA ExpiredInvStep == TypeOK /\ LockInv /\ ExpiredInv /\ [Next]_vars => ExpiredInv'
  <1> SUFFICES ASSUME TypeOK, LockInv, ExpiredInv, [Next]_vars PROVE ExpiredInv'
    OBVIOUS
  <1> USE DEF TypeOK, LockInv, ExpiredInv
  <1>1. ASSUME NEW p \in Blocker, BlockRequest(p) PROVE ExpiredInv'
    BY <1>1, ProcAssumption DEF BlockRequest, Proc, Goto, Exit, Critical, Label, Locals, Expired, Live, Entry, NoArgs
  <1>2. ASSUME NEW p \in Blocker, BlockContain(p) PROVE ExpiredInv'
    BY <1>2, ProcAssumption DEF BlockContain, Proc, Goto, Exit, Critical, Label, Locals, Expired, Live, Entry, NoArgs
  <1>3. ASSUME NEW p \in Blocker, BlockLookup(p) PROVE ExpiredInv'
    BY <1>3, ProcAssumption DEF BlockLookup, Proc, Goto, Exit, Critical, Label, Locals, Expired, Live, Entry, NoArgs
  <1>4. ASSUME NEW p \in Blocker, BlockWrite(p) PROVE ExpiredInv'
    BY <1>4, ProcAssumption DEF BlockWrite, Proc, Goto, Exit, Critical, Label, Locals, Expired, Live, Entry, NoArgs
  <1>5. ASSUME NEW p \in Blocker, PurgeDump(p) PROVE ExpiredInv'
    BY <1>5, ProcAssumption DEF PurgeDump, Proc, Goto, Exit, Critical, Label, Locals, Expired, Live, Entry, NoArgs
  <1>6. ASSUME NEW p \in Blocker, PurgeExamine(p) PROVE ExpiredInv'
    BY <1>6, ProcAssumption DEF PurgeExamine, Proc, Goto, Exit, Critical, Label, Locals, Expired, Live, Entry, NoArgs
  <1>7. ASSUME NEW p \in Blocker, PurgeEvict(p) PROVE ExpiredInv'
    BY <1>7, ProcAssumption DEF PurgeEvict, Proc, Goto, Exit, Critical, Label, Locals, Expired, Live, Entry, NoArgs
  <1>8. ASSUME NEW p \in Blocker, PurgeDone(p) PROVE ExpiredInv'
    BY <1>8, ProcAssumption DEF PurgeDone, Proc, Goto, Exit, Critical, Label, Locals, Expired, Live, Entry, NoArgs
  <1>9. ASSUME NEW p \in Blocker, BlockDone(p) PROVE ExpiredInv'
    BY <1>9, ProcAssumption DEF BlockDone, Proc, Goto, Exit, Critical, Label, Locals, Expired, Live, Entry, NoArgs
  <1>10. ASSUME NEW p \in Sweeper, SweepStart(p) PROVE ExpiredInv'
    BY <1>10, ProcAssumption DEF SweepStart, Proc, Goto, Exit, Critical, Label, Locals, Expired, Live, Entry, NoArgs
  <1>11. ASSUME NEW p \in Sweeper, SweepDump(p) PROVE ExpiredInv'
    BY <1>11, ProcAssumption DEF SweepDump, Proc, Goto, Exit, Critical, Label, Locals, Expired, Live, Entry, NoArgs
  <1>12. ASSUME NEW p \in Sweeper, SweepPick(p) PROVE ExpiredInv'
    BY <1>12, ProcAssumption DEF SweepPick, Proc, Goto, Exit, Critical, Label, Locals, Expired, Live, Entry, NoArgs
  <1>13. ASSUME NEW p \in Sweeper, SweepRecheck(p) PROVE ExpiredInv'
    BY <1>13, ProcAssumption DEF SweepRecheck, Proc, Goto, Exit, Critical, Label, Locals, Expired, Live, Entry, NoArgs
  <1>14. ASSUME NEW p \in Sweeper, SweepCollect(p) PROVE ExpiredInv'
    BY <1>14, ProcAssumption DEF SweepCollect, Proc, Goto, Exit, Critical, Label, Locals, Expired, Live, Entry, NoArgs
  <1>15. ASSUME NEW p \in Sweeper, NextFamily(p) PROVE ExpiredInv'
    <2>1. p \in Proc /\ UNCHANGED <<block, clock>> /\ NoArgs.now = 0
      BY <1>15 DEF NextFamily, Proc, NoArgs
    <2>2. /\ loc'[p].now \in {loc[p].now, 0} /\ pc'[p] \in {"dump", "idle"}
          /\ \A q \in Proc : q # p => loc'[q] = loc[q] /\ pc'[q] = pc[q]
      <3>1. CASE loc' = [loc EXCEPT ![p].ver = 6] /\ Goto(p, "dump")
        BY <2>1, <3>1 DEF Goto, Locals
      <3>2. CASE Exit(p)
        BY <2>1, <3>2 DEF Exit
      <3>3. QED
        BY <1>15, <3>1, <3>2 DEF NextFamily
    <2>3. QED
      BY <2>1, <2>2
  <1>16. ASSUME NEW p \in Operator, UnblockRequest(p) PROVE ExpiredInv'
    BY <1>16, ProcAssumption DEF UnblockRequest, Proc, Goto, Exit, Critical, Label, Locals, Expired, Live, Entry, NoArgs
  <1>17. ASSUME NEW p \in Operator, FlushRequest(p) PROVE ExpiredInv'
    BY <1>17, ProcAssumption DEF FlushRequest, Proc, Goto, Exit, Critical, Label, Locals, Expired, Live, Entry, NoArgs
  <1>18. ASSUME NEW p \in Operator, FlushDump(p) PROVE ExpiredInv'
    BY <1>18, ProcAssumption DEF FlushDump, Proc, Goto, Exit, Critical, Label, Locals, Expired, Live, Entry, NoArgs
  <1>19. ASSUME NEW p \in Operator, OperatorDelete(p) PROVE ExpiredInv'
    BY <1>19, ProcAssumption DEF OperatorDelete, Proc, Goto, Exit, Critical, Label, Locals, Expired, Live, Entry, NoArgs
  <1>20. ASSUME NEW p \in Operator, NextFamily(p) PROVE ExpiredInv'
    BY <1>20, ProcAssumption DEF NextFamily, Proc, Goto, Exit, Critical, Label, Locals, Expired, Live, Entry, NoArgs
  <1>21. ASSUME NEW p \in Proc, Acquire(p) PROVE ExpiredInv'
    BY <1>21, ProcAssumption DEF Acquire, Proc, Goto, Exit, Critical, Label, Locals, Expired, Live, Entry, NoArgs
  <1>22. ASSUME NEW p \in Proc, MaskedLookup(p) PROVE ExpiredInv'
    BY <1>22, MaskedEffect, ProcAssumption DEF Proc, Critical, Locals, Expired
  <1>23. ASSUME NEW p \in Proc, Die(p) PROVE ExpiredInv'
    BY <1>23, ProcAssumption DEF Die, Proc, Goto, Exit, Critical, Label, Locals, Expired, Live, Entry, NoArgs
  <1>24. CASE AllowChange
    BY <1>24, ProcAssumption DEF AllowChange, Proc, Critical, Label, Expired, Live, Entry, NoArgs
  <1>25. CASE Tick
    <2>1. ASSUME NEW p \in Proc PROVE loc[p].key \in Net
      BY DEF Locals
    <2>2. clock \in Nat /\ clock' \in Nat /\ clock =< clock'
      BY <1>25 DEF Tick
    <2>3. \A p \in Proc : loc'[p].now =< clock'
      BY <1>25, <2>2 DEF Tick, Locals
    <2>4. QED
      BY <1>25, <2>1, <2>2, <2>3, ExpiredStays DEF Tick
  <1>26. CASE Reboot
    BY <1>26, ProcAssumption DEF Reboot, Proc, Critical, Label, Expired, Live, Entry, NoArgs
  <1>27. ASSUME NEW a \in Addr, Drop(a) PROVE ExpiredInv'
    <2>1. ASSUME NEW p \in Proc PROVE loc[p].key \in Net
      BY DEF Locals
    <2>2. QED
      BY <1>27, <2>1, DropKeeps
  <1>28. CASE UNCHANGED vars
    BY <1>28 DEF vars, Expired, Live, Entry, NoArgs
  <1>29. QED
    BY <1>1, <1>2, <1>3, <1>4, <1>5, <1>6, <1>7, <1>8, <1>9, <1>10, <1>11, <1>12, <1>13, <1>14, <1>15, <1>16, <1>17, <1>18, <1>19, <1>20, <1>21, <1>22, <1>23, <1>24, <1>25, <1>26, <1>27, <1>28 DEF Next, BlockStep, SweepStep, OperatorStep

LEMMA RefusalInvStep == TypeOK /\ RefusalInv /\ [Next]_vars => RefusalInv'
  <1> SUFFICES ASSUME TypeOK, RefusalInv, [Next]_vars PROVE RefusalInv'
    OBVIOUS
  <1> USE DEF TypeOK, RefusalInv
  <1>1. ASSUME NEW p \in Blocker, BlockRequest(p) PROVE RefusalInv'
    BY <1>1, ProcAssumption DEF BlockRequest, Proc, Goto, Exit, Critical, Label, Locals, NoArgs
  <1>2. ASSUME NEW p \in Blocker, BlockContain(p) PROVE RefusalInv'
    <2>1. CASE ContainsProtected(loc[p].net)
      BY <1>2, <2>1, ProcAssumption DEF BlockContain, Exit, Proc
    <2>2. CASE ~ContainsProtected(loc[p].net)
      <3>1. pc' = [pc EXCEPT ![p] = "acquire"] /\ loc'[p].net = loc[p].net
        BY <1>2, <2>2 DEF BlockContain, Goto, Proc, Locals
      <3>2. \A r \in Blocker \ {p} : loc'[r] = loc[r]
        BY <1>2, <2>2 DEF BlockContain, Proc
      <3>3. ASSUME NEW q \in NeverBlock
            PROVE  Span[loc[p].net] \cap Span[q] = {}
        <4> DEFINE n == loc[p].net
        <4>1. n \in Net /\ q \in Net
          BY NetAssumption DEF Proc, Locals
        <4>2. Base[n] \in Span[n] /\ Base[n] \notin Span[q]
          BY <1>2, <4>1, NetAssumption DEF BlockContain
        <4>3. ~(Span[q] \subseteq Span[n]) \/ HostRoute(n)
          BY <2>2 DEF ContainsProtected
        <4>4. CASE HostRoute(n)
          BY <4>2, <4>4 DEF HostRoute
        <4>5. CASE ~(Span[q] \subseteq Span[n])
          BY <4>1, <4>2, <4>5, NestingAssumption
        <4>6. QED
          BY <4>3, <4>4, <4>5
      <3>4. QED
        BY <3>1, <3>2, <3>3 DEF Proc
    <2>3. QED
      BY <2>1, <2>2
  <1>3. ASSUME NEW p \in Blocker, BlockLookup(p) PROVE RefusalInv'
    BY <1>3, ProcAssumption DEF BlockLookup, Proc, Goto, Exit, Critical, Label, Locals, NoArgs
  <1>4. ASSUME NEW p \in Blocker, BlockWrite(p) PROVE RefusalInv'
    BY <1>4, ProcAssumption DEF BlockWrite, Proc, Goto, Exit, Critical, Label, Locals, NoArgs
  <1>5. ASSUME NEW p \in Blocker, PurgeDump(p) PROVE RefusalInv'
    BY <1>5, ProcAssumption DEF PurgeDump, Proc, Goto, Exit, Critical, Label, Locals, NoArgs
  <1>6. ASSUME NEW p \in Blocker, PurgeExamine(p) PROVE RefusalInv'
    BY <1>6, ProcAssumption DEF PurgeExamine, Proc, Goto, Exit, Critical, Label, Locals, NoArgs
  <1>7. ASSUME NEW p \in Blocker, PurgeEvict(p) PROVE RefusalInv'
    BY <1>7, ProcAssumption DEF PurgeEvict, Proc, Goto, Exit, Critical, Label, Locals, NoArgs
  <1>8. ASSUME NEW p \in Blocker, PurgeDone(p) PROVE RefusalInv'
    BY <1>8, ProcAssumption DEF PurgeDone, Proc, Goto, Exit, Critical, Label, Locals, NoArgs
  <1>9. ASSUME NEW p \in Blocker, BlockDone(p) PROVE RefusalInv'
    BY <1>9, ProcAssumption DEF BlockDone, Proc, Goto, Exit, Critical, Label, Locals, NoArgs
  <1>10. ASSUME NEW p \in Sweeper, SweepStart(p) PROVE RefusalInv'
    BY <1>10, ProcAssumption DEF SweepStart, Proc, Goto, Exit, Critical, Label, Locals, NoArgs
  <1>11. ASSUME NEW p \in Sweeper, SweepDump(p) PROVE RefusalInv'
    BY <1>11, ProcAssumption DEF SweepDump, Proc, Goto, Exit, Critical, Label, Locals, NoArgs
  <1>12. ASSUME NEW p \in Sweeper, SweepPick(p) PROVE RefusalInv'
    BY <1>12, ProcAssumption DEF SweepPick, Proc, Goto, Exit, Critical, Label, Locals, NoArgs
  <1>13. ASSUME NEW p \in Sweeper, SweepRecheck(p) PROVE RefusalInv'
    BY <1>13, ProcAssumption DEF SweepRecheck, Proc, Goto, Exit, Critical, Label, Locals, NoArgs
  <1>14. ASSUME NEW p \in Sweeper, SweepCollect(p) PROVE RefusalInv'
    BY <1>14, ProcAssumption DEF SweepCollect, Proc, Goto, Exit, Critical, Label, Locals, NoArgs
  <1>15. ASSUME NEW p \in Sweeper, NextFamily(p) PROVE RefusalInv'
    BY <1>15, ProcAssumption DEF NextFamily, Proc, Goto, Exit, Critical, Label, Locals, NoArgs
  <1>16. ASSUME NEW p \in Operator, UnblockRequest(p) PROVE RefusalInv'
    BY <1>16, ProcAssumption DEF UnblockRequest, Proc, Goto, Exit, Critical, Label, Locals, NoArgs
  <1>17. ASSUME NEW p \in Operator, FlushRequest(p) PROVE RefusalInv'
    BY <1>17, ProcAssumption DEF FlushRequest, Proc, Goto, Exit, Critical, Label, Locals, NoArgs
  <1>18. ASSUME NEW p \in Operator, FlushDump(p) PROVE RefusalInv'
    BY <1>18, ProcAssumption DEF FlushDump, Proc, Goto, Exit, Critical, Label, Locals, NoArgs
  <1>19. ASSUME NEW p \in Operator, OperatorDelete(p) PROVE RefusalInv'
    BY <1>19, ProcAssumption DEF OperatorDelete, Proc, Goto, Exit, Critical, Label, Locals, NoArgs
  <1>20. ASSUME NEW p \in Operator, NextFamily(p) PROVE RefusalInv'
    BY <1>20, ProcAssumption DEF NextFamily, Proc, Goto, Exit, Critical, Label, Locals, NoArgs
  <1>21. ASSUME NEW p \in Proc, Acquire(p) PROVE RefusalInv'
    BY <1>21, ProcAssumption DEF Acquire, Proc, Goto, Exit, Critical, Label, Locals, NoArgs
  <1>22. ASSUME NEW p \in Proc, MaskedLookup(p) PROVE RefusalInv'
    BY <1>22, MaskedEffect, ProcAssumption DEF Proc, Locals
  <1>23. ASSUME NEW p \in Proc, Die(p) PROVE RefusalInv'
    BY <1>23, ProcAssumption DEF Die, Proc, Goto, Exit, Critical, Label, Locals, NoArgs
  <1>24. CASE AllowChange
    BY <1>24, ProcAssumption DEF AllowChange, Proc, Critical, Label, NoArgs
  <1>25. CASE Tick
    BY <1>25, ProcAssumption DEF Tick, Proc, Critical, Label, NoArgs
  <1>26. CASE Reboot
    BY <1>26, ProcAssumption DEF Reboot, Proc, Critical, Label, NoArgs
  <1>27. ASSUME NEW a \in Addr, Drop(a) PROVE RefusalInv'
    BY <1>27 DEF Drop, Proc, Critical, Label, NoArgs
  <1>28. CASE UNCHANGED vars
    BY <1>28 DEF vars, NoArgs
  <1>29. QED
    BY <1>1, <1>2, <1>3, <1>4, <1>5, <1>6, <1>7, <1>8, <1>9, <1>10, <1>11, <1>12, <1>13, <1>14, <1>15, <1>16, <1>17, <1>18, <1>19, <1>20, <1>21, <1>22, <1>23, <1>24, <1>25, <1>26, <1>27, <1>28 DEF Next, BlockStep, SweepStep, OperatorStep

LEMMA WriteInvStep == TypeOK /\ LockInv /\ WriteInv /\ [Next]_vars => WriteInv'
  <1> SUFFICES ASSUME TypeOK, LockInv, WriteInv, [Next]_vars PROVE WriteInv'
    OBVIOUS
  <1> USE DEF TypeOK, LockInv, WriteInv
  <1>1. ASSUME NEW p \in Blocker, BlockRequest(p) PROVE WriteInv'
    BY <1>1, ProcAssumption DEF BlockRequest, Proc, Goto, Exit, Critical, Label, Locals, Expired, Live, Entry, NoArgs
  <1>2. ASSUME NEW p \in Blocker, BlockContain(p) PROVE WriteInv'
    BY <1>2, ProcAssumption DEF BlockContain, Proc, Goto, Exit, Critical, Label, Locals, Expired, Live, Entry, NoArgs
  <1>3. ASSUME NEW p \in Blocker, BlockLookup(p) PROVE WriteInv'
    BY <1>3, ProcAssumption DEF BlockLookup, Proc, Goto, Exit, Critical, Label, Locals, Expired, Live, Entry, NoArgs
  <1>4. ASSUME NEW p \in Blocker, BlockWrite(p) PROVE WriteInv'
    BY <1>4, ProcAssumption DEF BlockWrite, Proc, Goto, Exit, Critical, Label, Locals, Expired, Live, Entry, NoArgs
  <1>5. ASSUME NEW p \in Blocker, PurgeDump(p) PROVE WriteInv'
    BY <1>5, ProcAssumption DEF PurgeDump, Proc, Goto, Exit, Critical, Label, Locals, Expired, Live, Entry, NoArgs
  <1>6. ASSUME NEW p \in Blocker, PurgeExamine(p) PROVE WriteInv'
    BY <1>6, ProcAssumption DEF PurgeExamine, Proc, Goto, Exit, Critical, Label, Locals, Expired, Live, Entry, NoArgs
  <1>7. ASSUME NEW p \in Blocker, PurgeEvict(p) PROVE WriteInv'
    BY <1>7, ProcAssumption DEF PurgeEvict, Proc, Goto, Exit, Critical, Label, Locals, Expired, Live, Entry, NoArgs
  <1>8. ASSUME NEW p \in Blocker, PurgeDone(p) PROVE WriteInv'
    BY <1>8, ProcAssumption DEF PurgeDone, Proc, Goto, Exit, Critical, Label, Locals, Expired, Live, Entry, NoArgs
  <1>9. ASSUME NEW p \in Blocker, BlockDone(p) PROVE WriteInv'
    BY <1>9, ProcAssumption DEF BlockDone, Proc, Goto, Exit, Critical, Label, Locals, Expired, Live, Entry, NoArgs
  <1>10. ASSUME NEW p \in Sweeper, SweepStart(p) PROVE WriteInv'
    BY <1>10, ProcAssumption DEF SweepStart, Proc, Goto, Exit, Critical, Label, Locals, Expired, Live, Entry, NoArgs
  <1>11. ASSUME NEW p \in Sweeper, SweepDump(p) PROVE WriteInv'
    BY <1>11, ProcAssumption DEF SweepDump, Proc, Goto, Exit, Critical, Label, Locals, Expired, Live, Entry, NoArgs
  <1>12. ASSUME NEW p \in Sweeper, SweepPick(p) PROVE WriteInv'
    BY <1>12, ProcAssumption DEF SweepPick, Proc, Goto, Exit, Critical, Label, Locals, Expired, Live, Entry, NoArgs
  <1>13. ASSUME NEW p \in Sweeper, SweepRecheck(p) PROVE WriteInv'
    BY <1>13, ProcAssumption DEF SweepRecheck, Proc, Goto, Exit, Critical, Label, Locals, Expired, Live, Entry, NoArgs
  <1>14. ASSUME NEW p \in Sweeper, SweepCollect(p) PROVE WriteInv'
    BY <1>14, ProcAssumption DEF SweepCollect, Proc, Goto, Exit, Critical, Label, Locals, Expired, Live, Entry, NoArgs
  <1>15. ASSUME NEW p \in Sweeper, NextFamily(p) PROVE WriteInv'
    BY <1>15, ProcAssumption DEF NextFamily, Proc, Goto, Exit, Critical, Label, Locals, Expired, Live, Entry, NoArgs
  <1>16. ASSUME NEW p \in Operator, UnblockRequest(p) PROVE WriteInv'
    BY <1>16, ProcAssumption DEF UnblockRequest, Proc, Goto, Exit, Critical, Label, Locals, Expired, Live, Entry, NoArgs
  <1>17. ASSUME NEW p \in Operator, FlushRequest(p) PROVE WriteInv'
    BY <1>17, ProcAssumption DEF FlushRequest, Proc, Goto, Exit, Critical, Label, Locals, Expired, Live, Entry, NoArgs
  <1>18. ASSUME NEW p \in Operator, FlushDump(p) PROVE WriteInv'
    BY <1>18, ProcAssumption DEF FlushDump, Proc, Goto, Exit, Critical, Label, Locals, Expired, Live, Entry, NoArgs
  <1>19. ASSUME NEW p \in Operator, OperatorDelete(p) PROVE WriteInv'
    BY <1>19, ProcAssumption DEF OperatorDelete, Proc, Goto, Exit, Critical, Label, Locals, Expired, Live, Entry, NoArgs
  <1>20. ASSUME NEW p \in Operator, NextFamily(p) PROVE WriteInv'
    BY <1>20, ProcAssumption DEF NextFamily, Proc, Goto, Exit, Critical, Label, Locals, Expired, Live, Entry, NoArgs
  <1>21. ASSUME NEW p \in Proc, Acquire(p) PROVE WriteInv'
    BY <1>21, ProcAssumption DEF Acquire, Proc, Goto, Exit, Critical, Label, Locals, Expired, Live, Entry, NoArgs
  <1>22. ASSUME NEW p \in Proc, MaskedLookup(p) PROVE WriteInv'
    BY <1>22, MaskedEffect, ProcAssumption DEF Proc, Locals, Critical, Label, Live, Expired, Entry
  <1>23. ASSUME NEW p \in Proc, Die(p) PROVE WriteInv'
    BY <1>23, ProcAssumption DEF Die, Proc, Goto, Exit, Critical, Label, Locals, Expired, Live, Entry, NoArgs
  <1>24. CASE AllowChange
    BY <1>24, ProcAssumption DEF AllowChange, Proc, Critical, Label, Expired, Live, Entry, NoArgs
  <1>25. CASE Tick
    <2>1. ASSUME NEW p \in Blocker PROVE loc[p].net \in Net /\ p \in Proc
      BY DEF Locals, Proc
    <2>2. clock \in Nat /\ clock' \in Nat /\ clock =< clock'
      BY <1>25 DEF Tick
    <2>3. \A n \in Net : Live(block[n], clock') => Live(block[n], clock)
      BY <2>2, ExpiredStays DEF Live
    <2>4. QED
      BY <1>25, <2>1, <2>3 DEF Tick
  <1>26. CASE Reboot
    BY <1>26, ProcAssumption DEF Reboot, Proc, Critical, Label, Expired, Live, Entry, NoArgs
  <1>27. ASSUME NEW a \in Addr, Drop(a) PROVE WriteInv'
    <2>1. PICK n \in Net :
            /\ block[n] \in Entry
            /\ Live(block[n], clock)
            /\ block'[n].hits = block[n].hits + 1
            /\ \A m \in Net \ {n} : block'[m] = block[m]
            /\ missed' = [p \in Proc |->
                            IF pc[p] = "write" /\ loc[p].net = n
                            THEN missed[p] + 1 ELSE missed[p]]
      BY <1>27, DropEffect
    <2>2. \A m \in Net : Live(block'[m], clock) <=> Live(block[m], clock)
      BY <1>27, DropKeeps DEF Live
    <2>3. ASSUME NEW p \in Blocker
          PROVE  /\ loc[p].net \in Net /\ p \in Proc /\ missed[p] \in Nat
                 /\ loc[p].hits \in Nat
      BY DEF Locals, Proc
    <2>4. UNCHANGED <<clock, pc, loc>>
      BY <1>27, DropKeeps
    <2>5. ASSUME NEW p \in Blocker, pc[p] = "write", "lookup" \notin loc[p].masked,
                 Live(block'[loc[p].net], clock)
          PROVE  block'[loc[p].net].hits = loc[p].hits + missed'[p]
      <3>1. Live(block[loc[p].net], clock)
        BY <2>2, <2>3, <2>5
      <3>2. block[loc[p].net].hits = loc[p].hits + missed[p]
        BY <2>5, <3>1
      <3>3. QED
        BY <2>1, <2>3, <2>5, <3>2
    <2>6. ASSUME NEW p \in Blocker
          PROVE  /\ block'[loc[p].net] = Absent <=> block[loc[p].net] = Absent
                 /\ block[loc[p].net] # Absent =>
                      block'[loc[p].net].exp = block[loc[p].net].exp
      BY <1>27, <2>3, DropKeeps
    <2>7. ASSUME NEW p \in Blocker, pc[p] # "write" PROVE missed'[p] = 0
      BY <2>1, <2>3, <2>7
    <2>8. QED
      BY <2>4, <2>5, <2>6, <2>7
  <1>28. CASE UNCHANGED vars
    BY <1>28 DEF vars, Expired, Live, Entry, NoArgs
  <1>29. QED
    BY <1>1, <1>2, <1>3, <1>4, <1>5, <1>6, <1>7, <1>8, <1>9, <1>10, <1>11, <1>12, <1>13, <1>14, <1>15, <1>16, <1>17, <1>18, <1>19, <1>20, <1>21, <1>22, <1>23, <1>24, <1>25, <1>26, <1>27, <1>28 DEF Next, BlockStep, SweepStep, OperatorStep

LEMMA PurgeInvStep == TypeOK /\ LockInv /\ PurgeInv /\ [Next]_vars => PurgeInv'
  <1> SUFFICES ASSUME TypeOK, LockInv, PurgeInv, [Next]_vars PROVE PurgeInv'
    OBVIOUS
  <1> USE DEF TypeOK, LockInv, PurgeInv
  <1>1. ASSUME NEW p \in Blocker, BlockRequest(p) PROVE PurgeInv'
    BY <1>1, ProcAssumption DEF BlockRequest, Proc, Goto, Exit, Critical, Label, Locals, Expired, Entry, NoArgs
  <1>2. ASSUME NEW p \in Blocker, BlockContain(p) PROVE PurgeInv'
    BY <1>2, ProcAssumption DEF BlockContain, Proc, Goto, Exit, Critical, Label, Locals, Expired, Entry, NoArgs
  <1>3. ASSUME NEW p \in Blocker, BlockLookup(p) PROVE PurgeInv'
    BY <1>3, ProcAssumption DEF BlockLookup, Proc, Goto, Exit, Critical, Label, Locals, Expired, Entry, NoArgs
  <1>4. ASSUME NEW p \in Blocker, BlockWrite(p) PROVE PurgeInv'
    BY <1>4, ProcAssumption DEF BlockWrite, Proc, Goto, Exit, Critical, Label, Locals, Expired, Entry, NoArgs
  <1>5. ASSUME NEW p \in Blocker, PurgeDump(p) PROVE PurgeInv'
    BY <1>5, ProcAssumption DEF PurgeDump, Proc, Goto, Exit, Critical, Label, Locals, Expired, Entry, NoArgs
  <1>6. ASSUME NEW p \in Blocker, PurgeExamine(p) PROVE PurgeInv'
    BY <1>6, ProcAssumption DEF PurgeExamine, Proc, Goto, Exit, Critical, Label, Locals, Expired, Entry, NoArgs
  <1>7. ASSUME NEW p \in Blocker, PurgeEvict(p) PROVE PurgeInv'
    BY <1>7, ProcAssumption DEF PurgeEvict, Proc, Goto, Exit, Critical, Label, Locals, Expired, Entry, NoArgs
  <1>8. ASSUME NEW p \in Blocker, PurgeDone(p) PROVE PurgeInv'
    BY <1>8, ProcAssumption DEF PurgeDone, Proc, Goto, Exit, Critical, Label, Locals, Expired, Entry, NoArgs
  <1>9. ASSUME NEW p \in Blocker, BlockDone(p) PROVE PurgeInv'
    BY <1>9, ProcAssumption DEF BlockDone, Proc, Goto, Exit, Critical, Label, Locals, Expired, Entry, NoArgs
  <1>10. ASSUME NEW p \in Sweeper, SweepStart(p) PROVE PurgeInv'
    BY <1>10, ProcAssumption DEF SweepStart, Proc, Goto, Exit, Critical, Label, Locals, Expired, Entry, NoArgs
  <1>11. ASSUME NEW p \in Sweeper, SweepDump(p) PROVE PurgeInv'
    BY <1>11, ProcAssumption DEF SweepDump, Proc, Goto, Exit, Critical, Label, Locals, Expired, Entry, NoArgs
  <1>12. ASSUME NEW p \in Sweeper, SweepPick(p) PROVE PurgeInv'
    BY <1>12, ProcAssumption DEF SweepPick, Proc, Goto, Exit, Critical, Label, Locals, Expired, Entry, NoArgs
  <1>13. ASSUME NEW p \in Sweeper, SweepRecheck(p) PROVE PurgeInv'
    BY <1>13, ProcAssumption DEF SweepRecheck, Proc, Goto, Exit, Critical, Label, Locals, Expired, Entry, NoArgs
  <1>14. ASSUME NEW p \in Sweeper, SweepCollect(p) PROVE PurgeInv'
    BY <1>14, ProcAssumption DEF SweepCollect, Proc, Goto, Exit, Critical, Label, Locals, Expired, Entry, NoArgs
  <1>15. ASSUME NEW p \in Sweeper, NextFamily(p) PROVE PurgeInv'
    BY <1>15, ProcAssumption DEF NextFamily, Proc, Goto, Exit, Critical, Label, Locals, Expired, Entry, NoArgs
  <1>16. ASSUME NEW p \in Operator, UnblockRequest(p) PROVE PurgeInv'
    BY <1>16, ProcAssumption DEF UnblockRequest, Proc, Goto, Exit, Critical, Label, Locals, Expired, Entry, NoArgs
  <1>17. ASSUME NEW p \in Operator, FlushRequest(p) PROVE PurgeInv'
    BY <1>17, ProcAssumption DEF FlushRequest, Proc, Goto, Exit, Critical, Label, Locals, Expired, Entry, NoArgs
  <1>18. ASSUME NEW p \in Operator, FlushDump(p) PROVE PurgeInv'
    BY <1>18, ProcAssumption DEF FlushDump, Proc, Goto, Exit, Critical, Label, Locals, Expired, Entry, NoArgs
  <1>19. ASSUME NEW p \in Operator, OperatorDelete(p) PROVE PurgeInv'
    BY <1>19, ProcAssumption DEF OperatorDelete, Proc, Goto, Exit, Critical, Label, Locals, Expired, Entry, NoArgs
  <1>20. ASSUME NEW p \in Operator, NextFamily(p) PROVE PurgeInv'
    BY <1>20, ProcAssumption DEF NextFamily, Proc, Goto, Exit, Critical, Label, Locals, Expired, Entry, NoArgs
  <1>21. ASSUME NEW p \in Proc, Acquire(p) PROVE PurgeInv'
    BY <1>21, ProcAssumption DEF Acquire, Proc, Goto, Exit, Critical, Label, Locals, Expired, Entry, NoArgs
  <1>22. ASSUME NEW p \in Proc, MaskedLookup(p) PROVE PurgeInv'
    BY <1>22, MaskedEffect, ProcAssumption DEF Proc, Locals, Critical
  <1>23. ASSUME NEW p \in Proc, Die(p) PROVE PurgeInv'
    BY <1>23, ProcAssumption DEF Die, Proc, Goto, Exit, Critical, Label, Locals, Expired, Entry, NoArgs
  <1>24. CASE AllowChange
    BY <1>24, ProcAssumption DEF AllowChange, Proc, Critical, Label, Expired, Entry, NoArgs
  <1>25. CASE Tick
    BY <1>25, ProcAssumption DEF Tick, Proc, Critical, Label, Expired, Entry, NoArgs
  <1>26. CASE Reboot
    BY <1>26, ProcAssumption DEF Reboot, Proc, Critical, Label, Expired, Entry, NoArgs
  <1>27. ASSUME NEW a \in Addr, Drop(a) PROVE PurgeInv'
    <2>1. ASSUME NEW p \in Blocker PROVE loc[p].now \in Nat
      BY DEF Locals, Proc
    <2>2. QED
      BY <1>27, <2>1, DropKeeps
  <1>28. CASE UNCHANGED vars
    BY <1>28 DEF vars, Expired, Entry, NoArgs
  <1>29. QED
    BY <1>1, <1>2, <1>3, <1>4, <1>5, <1>6, <1>7, <1>8, <1>9, <1>10, <1>11, <1>12, <1>13, <1>14, <1>15, <1>16, <1>17, <1>18, <1>19, <1>20, <1>21, <1>22, <1>23, <1>24, <1>25, <1>26, <1>27, <1>28 DEF Next, BlockStep, SweepStep, OperatorStep

LEMMA NeverBlockSparedStep == TypeOK /\ RefusalInv /\ NeverBlockSpared /\ [Next]_vars => NeverBlockSpared'
  <1> SUFFICES ASSUME TypeOK, RefusalInv, NeverBlockSpared, [Next]_vars PROVE NeverBlockSpared'
    OBVIOUS
  <1> USE DEF TypeOK, RefusalInv, NeverBlockSpared
  <1>1. ASSUME NEW p \in Blocker, BlockRequest(p) PROVE NeverBlockSpared'
    BY <1>1, ProcAssumption DEF BlockRequest, Proc, Goto, Exit, Critical, Label, Locals, Keys
  <1>2. ASSUME NEW p \in Blocker, BlockContain(p) PROVE NeverBlockSpared'
    BY <1>2, ProcAssumption DEF BlockContain, Proc, Goto, Exit, Critical, Label, Locals, Keys
  <1>3. ASSUME NEW p \in Blocker, BlockLookup(p) PROVE NeverBlockSpared'
    BY <1>3, ProcAssumption DEF BlockLookup, Proc, Goto, Exit, Critical, Label, Locals, Keys
  <1>4. ASSUME NEW p \in Blocker, BlockWrite(p) PROVE NeverBlockSpared'
    BY <1>4, ProcAssumption DEF BlockWrite, Proc, Goto, Exit, Critical, Label, Locals, Keys
  <1>5. ASSUME NEW p \in Blocker, PurgeDump(p) PROVE NeverBlockSpared'
    BY <1>5, ProcAssumption DEF PurgeDump, Proc, Goto, Exit, Critical, Label, Locals, Keys
  <1>6. ASSUME NEW p \in Blocker, PurgeExamine(p) PROVE NeverBlockSpared'
    BY <1>6, ProcAssumption DEF PurgeExamine, Proc, Goto, Exit, Critical, Label, Locals, Keys
  <1>7. ASSUME NEW p \in Blocker, PurgeEvict(p) PROVE NeverBlockSpared'
    BY <1>7, ProcAssumption DEF PurgeEvict, Proc, Goto, Exit, Critical, Label, Locals, Keys
  <1>8. ASSUME NEW p \in Blocker, PurgeDone(p) PROVE NeverBlockSpared'
    BY <1>8, ProcAssumption DEF PurgeDone, Proc, Goto, Exit, Critical, Label, Locals, Keys
  <1>9. ASSUME NEW p \in Blocker, BlockDone(p) PROVE NeverBlockSpared'
    BY <1>9, ProcAssumption DEF BlockDone, Proc, Goto, Exit, Critical, Label, Locals, Keys
  <1>10. ASSUME NEW p \in Sweeper, SweepStart(p) PROVE NeverBlockSpared'
    BY <1>10, ProcAssumption DEF SweepStart, Proc, Goto, Exit, Critical, Label, Locals, Keys
  <1>11. ASSUME NEW p \in Sweeper, SweepDump(p) PROVE NeverBlockSpared'
    BY <1>11, ProcAssumption DEF SweepDump, Proc, Goto, Exit, Critical, Label, Locals, Keys
  <1>12. ASSUME NEW p \in Sweeper, SweepPick(p) PROVE NeverBlockSpared'
    BY <1>12, ProcAssumption DEF SweepPick, Proc, Goto, Exit, Critical, Label, Locals, Keys
  <1>13. ASSUME NEW p \in Sweeper, SweepRecheck(p) PROVE NeverBlockSpared'
    BY <1>13, ProcAssumption DEF SweepRecheck, Proc, Goto, Exit, Critical, Label, Locals, Keys
  <1>14. ASSUME NEW p \in Sweeper, SweepCollect(p) PROVE NeverBlockSpared'
    BY <1>14, ProcAssumption DEF SweepCollect, Proc, Goto, Exit, Critical, Label, Locals, Keys
  <1>15. ASSUME NEW p \in Sweeper, NextFamily(p) PROVE NeverBlockSpared'
    BY <1>15, ProcAssumption DEF NextFamily, Proc, Goto, Exit, Critical, Label, Locals, Keys
  <1>16. ASSUME NEW p \in Operator, UnblockRequest(p) PROVE NeverBlockSpared'
    BY <1>16, ProcAssumption DEF UnblockRequest, Proc, Goto, Exit, Critical, Label, Locals, Keys
  <1>17. ASSUME NEW p \in Operator, FlushRequest(p) PROVE NeverBlockSpared'
    BY <1>17, ProcAssumption DEF FlushRequest, Proc, Goto, Exit, Critical, Label, Locals, Keys
  <1>18. ASSUME NEW p \in Operator, FlushDump(p) PROVE NeverBlockSpared'
    BY <1>18, ProcAssumption DEF FlushDump, Proc, Goto, Exit, Critical, Label, Locals, Keys
  <1>19. ASSUME NEW p \in Operator, OperatorDelete(p) PROVE NeverBlockSpared'
    BY <1>19, ProcAssumption DEF OperatorDelete, Proc, Goto, Exit, Critical, Label, Locals, Keys
  <1>20. ASSUME NEW p \in Operator, NextFamily(p) PROVE NeverBlockSpared'
    BY <1>20, ProcAssumption DEF NextFamily, Proc, Goto, Exit, Critical, Label, Locals, Keys
  <1>21. ASSUME NEW p \in Proc, Acquire(p) PROVE NeverBlockSpared'
    BY <1>21, ProcAssumption DEF Acquire, Proc, Goto, Exit, Critical, Label, Locals, Keys
  <1>22. ASSUME NEW p \in Proc, MaskedLookup(p) PROVE NeverBlockSpared'
    BY <1>22, ProcAssumption DEF MaskedLookup, Proc, Goto, Exit, Critical, Label, Locals, Keys
  <1>23. ASSUME NEW p \in Proc, Die(p) PROVE NeverBlockSpared'
    BY <1>23, ProcAssumption DEF Die, Proc, Goto, Exit, Critical, Label, Locals, Keys
  <1>24. CASE AllowChange
    BY <1>24, ProcAssumption DEF AllowChange, Proc, Critical, Label, Keys
  <1>25. CASE Tick
    BY <1>25, ProcAssumption DEF Tick, Proc, Critical, Label, Keys
  <1>26. CASE Reboot
    BY <1>26, ProcAssumption DEF Reboot, Proc, Critical, Label, Keys
  <1>27. ASSUME NEW a \in Addr, Drop(a) PROVE NeverBlockSpared'
    BY <1>27, DropKeeps DEF Keys
  <1>28. CASE UNCHANGED vars
    BY <1>28 DEF vars, Keys
  <1>29. QED
    BY <1>1, <1>2, <1>3, <1>4, <1>5, <1>6, <1>7, <1>8, <1>9, <1>10, <1>11, <1>12, <1>13, <1>14, <1>15, <1>16, <1>17, <1>18, <1>19, <1>20, <1>21, <1>22, <1>23, <1>24, <1>25, <1>26, <1>27, <1>28 DEF Next, BlockStep, SweepStep, OperatorStep

LEMMA InitInv == Init => MapInv
  BY NetAssumption, ProcAssumption, NoArgsType
  DEF Init, MapInv, LockInv, ExpiredInv, RefusalInv, WriteInv, PurgeInv,
      NeverBlockSpared, Keys, Critical, Proc, NoArgs, Expired

(***************************************************************************)
(* The lock protocol of the block map: what a command read under the lock  *)
(* still holds when it writes or deletes, and no never-block range is ever *)
(* covered by an entry.                                                    *)
(***************************************************************************)
THEOREM MapInvariant == Spec => []MapInv
  <1>1. Init => MapInv
    BY InitInv
  <1>2. TypeOK /\ MapInv /\ [Next]_vars => MapInv'
    BY LockInvStep, ExpiredInvStep, RefusalInvStep, WriteInvStep, PurgeInvStep,
       NeverBlockSparedStep DEF MapInv
  <1>3. QED
    BY <1>1, <1>2, TypeCorrect, PTL DEF Spec

(* No entry of the block map ever overlaps a never-block range. *)
THEOREM NeverBlockRespected == Spec => []NeverBlockSpared
  <1>1. MapInv => NeverBlockSpared
    BY DEF MapInv
  <1>2. QED
    BY <1>1, MapInvariant, PTL

(* Whatever commands, packets and faults interleave, a refresh whose lookup *)
(* was answered loses only the hits that land between it and the write.     *)
THEOREM HitLossConfined == Spec => []LossConfined
  <1>1. MapInv => LossConfined
    BY DEF MapInv, WriteInv, LossConfined
  <1>2. QED
    BY <1>1, MapInvariant, PTL

(* A command that inserted a network, and whose purge got an answer to each *)
(* lookup, leaves no earlier corpse answering for an address it covers.     *)
THEOREM CoverComplete == Spec => []CoverAnswers
  <1>1. TypeOK /\ MapInv => CoverAnswers
    <2> SUFFICES ASSUME TypeOK, MapInv, NEW p \in Blocker, pc[p] = "done",
                        loc[p].net \in Keys, ~HostRoute(loc[p].net),
                        "examine" \notin loc[p].masked,
                        NEW a \in Span[loc[p].net], NEW n \in Net,
                        LongestMatch(a, n), n # loc[p].net
                 PROVE  ~Expired(block[n], loc[p].now)
      BY DEF CoverAnswers
    <2>1. Within(n, loc[p].net)
      BY DEF LongestMatch, Within
    <2>2. QED
      BY <2>1 DEF MapInv, PurgeInv
  <1>2. QED
    BY <1>1, MapInvariant, TypeCorrect, PTL

-----------------------------------------------------------------------------
(* The value of a key, as the table of leases sees it. *)
LeaseOf(e) == IF e = Absent THEN Absent ELSE e.exp

(***************************************************************************)
(* What a step does to the map: a reboot empties it, a block command       *)
(* writes one entry, a command deletes one entry that has expired or that  *)
(* an operator asked to remove, and any other step leaves every lease.     *)
(***************************************************************************)
Deletes(n) ==
  /\ block' = [block EXCEPT ![n] = Absent]
  /\ clock' = clock
  /\ block[n] = Absent \/ Expired(block[n], clock) \/ n \in Revoking

Keeps == \A n \in Net : LeaseOf(block'[n]) = LeaseOf(block[n]) /\ (block'[n] = Absent <=> block[n] = Absent)

LEMMA StepEffect ==
  ASSUME TypeOK, MapInv, Next
  PROVE  \/ Reboot
         \/ \E n \in Net : Deletes(n)
         \/ \E p \in Blocker : BlockWrite(p)
         \/ Keeps /\ clock' = clock
         \/ Tick
  <1> DEFINE Effect == \/ Reboot
                       \/ \E n \in Net : Deletes(n)
                       \/ \E p \in Blocker : BlockWrite(p)
                       \/ Keeps /\ clock' = clock
                       \/ Tick
  <1>0. UNCHANGED <<block, clock>> => Effect
    BY DEF Keeps
  <1>1. ASSUME NEW p \in Blocker, BlockRequest(p) \/ BlockStep(p)
        PROVE  Effect
    <2>1. CASE PurgeEvict(p)
      <3>1. loc[p].key \in Net /\ p \in Proc
        BY DEF TypeOK, Locals, Proc
      <3>2. Deletes(loc[p].key)
        BY <2>1, <3>1 DEF PurgeEvict, MapInv, ExpiredInv, Deletes
      <3>3. QED
        BY <3>1, <3>2
    <2>2. CASE BlockWrite(p)
      BY <2>2
    <2>3. CASE ~PurgeEvict(p) /\ ~BlockWrite(p)
      <3>1. UNCHANGED <<block, clock>>
        BY <1>1, <2>3 DEF BlockStep, BlockRequest, BlockContain, BlockLookup,
           PurgeDump, PurgeExamine, PurgeDone, BlockDone
      <3>2. QED
        BY <3>1, <1>0
    <2>4. QED
      BY <2>1, <2>2, <2>3
  <1>2. ASSUME NEW p \in Sweeper, SweepStep(p)
        PROVE  Effect
    <2>1. CASE SweepCollect(p)
      <3>1. loc[p].key \in Net /\ p \in Proc
        BY DEF TypeOK, Locals, Proc
      <3>2. Deletes(loc[p].key)
        BY <2>1, <3>1 DEF SweepCollect, MapInv, ExpiredInv, Deletes
      <3>3. QED
        BY <3>1, <3>2
    <2>2. CASE ~SweepCollect(p)
      <3>1. UNCHANGED <<block, clock>>
        BY <1>2, <2>2 DEF SweepStep, SweepStart, SweepDump, SweepPick,
           SweepRecheck, NextFamily
      <3>2. QED
        BY <3>1, <1>0
    <2>3. QED
      BY <2>1, <2>2
  <1>3. ASSUME NEW p \in Operator,
               UnblockRequest(p) \/ FlushRequest(p) \/ OperatorStep(p)
        PROVE  Effect
    <2>1. CASE OperatorDelete(p)
      <3>1. PICK k \in loc[p].todo : block' = [block EXCEPT ![k] = Absent]
        BY <2>1 DEF OperatorDelete
      <3>2. k \in Net /\ k \in Revoking
        BY <2>1 DEF OperatorDelete, Revoking, TypeOK, Locals, Proc
      <3>3. Deletes(k)
        BY <2>1, <3>1, <3>2 DEF OperatorDelete, Deletes
      <3>4. QED
        BY <3>2, <3>3
    <2>2. CASE ~OperatorDelete(p)
      <3>1. UNCHANGED <<block, clock>>
        BY <1>3, <2>2 DEF UnblockRequest, FlushRequest, OperatorStep, FlushDump,
           NextFamily
      <3>2. QED
        BY <3>1, <1>0
    <2>3. QED
      BY <2>1, <2>2
  <1>4. ASSUME NEW p \in Proc, Acquire(p) \/ MaskedLookup(p) \/ Die(p)
        PROVE  Effect
    <2>1. UNCHANGED <<block, clock>>
      BY <1>4 DEF Acquire, MaskedLookup, Die
    <2>2. QED
      BY <2>1, <1>0
  <1>5. ASSUME NEW a \in Addr, Drop(a)
        PROVE  Effect
    BY <1>5, DropKeeps DEF Keeps, LeaseOf
  <1>6. CASE AllowChange
    BY <1>6, <1>0 DEF AllowChange
  <1>7. QED
    BY <1>1, <1>2, <1>3, <1>4, <1>5, <1>6 DEF Next

(* No sweep and no purge deletes an entry that has not expired, whatever *)
(* was written after the snapshot that made it a candidate.              *)
THEOREM CollectedOnlyExpired == Spec => OnlyCorpsesCollected
  <1> DEFINE A == \A n \in Net :
                    block[n] # Absent /\ block'[n] = Absent =>
                      Expired(block[n], clock) \/ n \in Revoking \/ Reboot
  <1>1. TypeOK /\ MapInv /\ [Next]_vars => A
    <2> SUFFICES ASSUME TypeOK, MapInv, [Next]_vars, NEW n \in Net,
                        block[n] # Absent, block'[n] = Absent, ~Reboot
                 PROVE  Expired(block[n], clock) \/ n \in Revoking
      OBVIOUS
    <2>1. Next
      BY DEF vars
    <2>2. CASE \E m \in Net : Deletes(m)
      BY <2>2 DEF Deletes, TypeOK
    <2>3. CASE \E p \in Blocker : BlockWrite(p)
      <3>1. PICK p \in Blocker : BlockWrite(p)
        BY <2>3
      <3>2. [exp |-> loc[p].expiry, hits |-> loc[p].hits] \in Entry
        BY DEF TypeOK, Locals, Entry, Proc
      <3>3. QED
        BY <3>1, <3>2, ValueAssumption DEF BlockWrite, ValueAssumption, TypeOK
    <2>4. CASE Keeps \/ Tick
      BY <2>4 DEF Keeps, Tick
    <2>5. QED
      BY <2>1, <2>2, <2>3, <2>4, StepEffect
  <1>2. TypeOK /\ MapInv /\ [Next]_vars => [A]_vars
    BY <1>1
  <1>3. QED
    BY <1>2, TypeCorrect, MapInvariant, PTL DEF Spec, OnlyCorpsesCollected

(* The commands of ngmap.py implement the table of leases, in which only a *)
(* writer that could not read an entry overwrites a permanent one without  *)
(* consent.                                                                *)
THEOREM LeaseImplemented == Spec => Lease
  <1> USE DEF LeaseOf
  <1>0. Absent \notin Nat /\ Absent \notin Entry
    BY ValueAssumption DEF ValueAssumption
  <1>1. Init => Table!Init
    <2> SUFFICES ASSUME Init PROVE Table!Init
      OBVIOUS
    <2>1. Overriding = {} /\ Unread = {} /\ Revoking = {}
      BY DEF Init, Overriding, Unread, Revoking, Proc
    <2>2. QED
      BY <2>1 DEF Init, Table!Init
  <1>2. TypeOK /\ MapInv /\ [Next]_vars => [Table!Next]_(Table!vars)
    <2> SUFFICES ASSUME TypeOK, MapInv, [Next]_vars
                 PROVE  [Table!Next]_(Table!vars)
      OBVIOUS
    <2>1. CASE UNCHANGED vars
      BY <2>1 DEF vars, Table!vars, Overriding, Unread, Revoking
    <2>2. CASE Reboot
      <3>1. Overriding' = {} /\ Unread' = {} /\ Revoking' = {}
        BY <2>2 DEF Reboot, Overriding, Unread, Revoking, Proc
      <3>2. QED
        BY <2>2, <3>1 DEF Reboot, Table!Reboot, Table!Next
    <2>3. ASSUME NEW n \in Net, Deletes(n)
          PROVE  Table!Next
      <3>1. CASE block[n] = Absent
        BY <2>3, <3>1 DEF Deletes, Table!Next, Table!Intend, TypeOK
      <3>2. CASE block[n] # Absent /\ Expired(block[n], clock)
        <4>1. Table!Collect(n)
          BY <1>0, <2>3, <3>2
          DEF Deletes, Table!Collect, Table!OnlyAt, TypeOK, Entry, Expired
        <4>2. QED
          BY <4>1 DEF Table!Next
      <3>3. CASE n \in Revoking
        <4>1. Table!Revoke(n)
          BY <2>3, <3>3 DEF Deletes, Table!Revoke, Table!OnlyAt, TypeOK
        <4>2. QED
          BY <4>1 DEF Table!Next
      <3>4. QED
        BY <2>3, <3>1, <3>2, <3>3 DEF Deletes
    <2>4. ASSUME NEW p \in Blocker, BlockWrite(p)
          PROVE  Table!Next
      <3>0. PICK n \in Net : n = loc[p].net
        BY DEF TypeOK, Locals, Proc
      <3> DEFINE e == [exp |-> loc[p].expiry, hits |-> loc[p].hits]
      <3>1. p \in Proc /\ e \in Entry /\ e.exp = loc[p].expiry
        BY DEF TypeOK, Locals, Proc, Entry
      <3>2. block' = [block EXCEPT ![n] = e] /\ clock' = clock
        BY <2>4, <3>0 DEF BlockWrite
      <3>3. pc[p] = "write"
        BY <2>4 DEF BlockWrite
      <3>4. loc[p].force => n \in Overriding
        BY <3>0, <3>1, <3>3 DEF Overriding
      <3>a. "lookup" \in loc[p].masked => n \in Unread
        BY <3>0, <3>1, <3>3 DEF Unread
      <3>5. /\ e.exp = 0 => loc[p].force
            /\ block[n] # Absent /\ block[n].exp = 0 =>
                 loc[p].force \/ "lookup" \in loc[p].masked
        BY <3>0, <3>1, <3>3 DEF MapInv, WriteInv
      <3>6. Table!Grant(n)
        <4>1. block'[n] = e /\ \A m \in Net \ {n} : block'[m] = block[m]
          BY <3>2 DEF TypeOK
        <4>2. e # Absent /\ e.exp \in Nat
          BY <1>0, <3>1 DEF Entry
        <4> HIDE DEF e
        <4>3. QED
          BY <1>0, <3>2, <3>4, <3>a, <3>5, <4>1, <4>2
          DEF Table!Grant, Table!OnlyAt
      <3>7. QED
        BY <3>6 DEF Table!Next
    <2>5. CASE Keeps /\ clock' = clock
      BY <2>5 DEF Keeps, Table!Next, Table!Intend
    <2>6. CASE Tick
      BY <2>6 DEF Tick, Table!Next, Table!Tick, TypeOK
    <2>7. QED
      BY <2>1, <2>2, <2>3, <2>4, <2>5, <2>6, StepEffect
  <1>3. QED
    BY <1>1, <1>2, TypeCorrect, MapInvariant, PTL DEF Spec, Lease, Table!Spec
=============================================================================
