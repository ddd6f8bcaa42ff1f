--------------------------- MODULE AllowMapsProofs ---------------------------
(***************************************************************************)
(* Proofs about AllowMaps, for every set of ranges, directives and answers. *)
(* The invariant follows what a directive last answered from the snapshot   *)
(* to the plan of the run, and from the plan to the maps.                   *)
(***************************************************************************)
EXTENDS AllowMaps, TLAPS

Run == [todo : Seq(Map), created : SUBSET Map, dirs : SUBSET Directive, conf : SUBSET Directive,
        fresh : SUBSET Range, gen : SUBSET Range, fail : BOOLEAN, stale : Nat,
        tag : [Range -> {0, 1, 2}], ver : {4, 6}]
Label == {"idle", "maps", "generate", "update", "delete", "export", "port", "done"}
Writing == {"update", "delete", "export", "port", "done"}

TypeOK ==
  /\ pin \in [Map -> {0, 1, 2}] /\ spec \in [Map -> {1, 2}]
  /\ allow \in [Range -> {0, 1, 2}] /\ switch \in {0, 1}
  /\ static \in Statics /\ conf \subseteq Directive
  /\ cache \in [Directive -> SUBSET Range] /\ answered \in [Directive -> SUBSET Range]
  /\ kv \in [fail : BOOLEAN, stale : Nat]
  /\ pc \in Label \cup Directive /\ run \in Run
  /\ changes \in Nat

(* Entries and a set switch are in maps that are pinned, and once a run    *)
(* reconciles, all maps are.                                               *)
PinInv ==
  /\ \A r \in Range : allow[r] # 0 => pin[AllowMap[Version[r]]] # 0
  /\ switch # 0 => pin["config"] # 0
  /\ \A m \in Map : pin[m] = 0 =>
       pc = "idle" \/ (pc = "maps" /\ \E i \in DOMAIN run.todo : run.todo[i] = m)

(* The families whose updates are through. *)
Through(r) ==
  \/ pc \in {"export", "port", "done"}
  \/ pc = "delete" /\ run.ver = Version[r]
  \/ pc \in {"update", "delete"} /\ run.ver = 6 /\ Version[r] = 4

(* What the run wants of them is in the map. *)
TagInv ==
  /\ \A r \in Range : Through(r) /\ run.tag[r] # 0 => allow[r] = run.tag[r]
  /\ pc \notin Writing => run.tag = [r \in Range |-> 0] /\ run.ver = 4

(* A snapshot is the last answer, or could not be written. *)
SnapshotInv ==
  /\ run.dirs \subseteq run.conf
  /\ \A d \in Directive : d \in behind \/ answered[d] = cache[d]
  /\ pc \in Directive => /\ run.fresh # {} /\ run.fresh \subseteq run.gen
                         /\ pc \in run.conf /\ pc \notin run.dirs

(* What the run has, or plans, for a directive it has asked, but for the   *)
(* one whose answer it is about to save.                                   *)
Served(d) ==
  \/ answered[d] \subseteq (IF pc \in Writing THEN Wanted ELSE run.gen)
  \/ d \in behind /\ run.fail

AnswerInv ==
  /\ pc \in Directive \cup Writing \cup {"generate"} =>
       \A d \in run.conf \ run.dirs : d = pc \/ Served(d)
  /\ pc \in Writing => run.dirs = {}
  /\ pc \in {"port", "done"} => kv.fail = run.fail

AllowInv == TypeOK /\ PinInv /\ TagInv /\ SnapshotInv /\ AnswerInv
-----------------------------------------------------------------------------
LEMMA Maps ==
  /\ Map = {"allow4", "allow6", "config", "stats"}
  /\ AllowMap = [v \in {4, 6} |-> IF v = 4 THEN "allow4" ELSE "allow6"]
  /\ SpecOrder \in Seq(Map)
  /\ \A r \in Range : Version[r] \in {4, 6} /\ AllowMap[Version[r]] \in Map
  <1>1. Map = {"allow4", "allow6", "config", "stats"}
    BY DEF Map, SpecOrder
  <1>2. QED
    BY <1>1, RangeAssumption DEF AllowMap, SpecOrder, RangeAssumption

LEMMA Chosen ==
  ASSUME NEW S, S # {}
  PROVE  Foremost(S) \in S
  BY DEF Foremost

LEMMA InitInv == Init => AllowInv
  <1> SUFFICES ASSUME Init PROVE AllowInv
    OBVIOUS
  <1>1. Idle \in Run
    BY Maps DEF Idle, Run
  <1>2. TypeOK
    BY <1>1, Maps, BoundAssumption DEF Init, TypeOK, Label
  <1>3. PinInv
    BY Maps DEF Init, PinInv
  <1>4. TagInv /\ SnapshotInv /\ AnswerInv
    BY LabelAssumption DEF Init, Idle, TagInv, Through, SnapshotInv, AnswerInv, Writing, LabelAssumption
  <1>5. QED
    BY <1>2, <1>3, <1>4 DEF AllowInv

LEMMA NextType == TypeOK /\ [Next]_vars => TypeOK'
  <1> SUFFICES ASSUME TypeOK, [Next]_vars PROVE TypeOK'
    OBVIOUS
  <1> USE Maps DEF TypeOK, Label, Goto, Die, files, maps, past
  <1>0. Idle \in Run
    BY DEF Idle, Run
  <1>1. CASE Start
    <2>1. [Idle EXCEPT !.todo = SpecOrder] \in Run
      BY DEF Idle, Run
    <2>2. QED
      BY <1>1, <2>1 DEF Start
  <1>2. CASE Ensure
    <2>1. Tail(run.todo) \in Seq(Map) /\ Head(run.todo) \in Map
      BY <1>2 DEF Ensure, Run
    <2>2. /\ [run EXCEPT !.todo = Tail(run.todo)] \in Run
          /\ [run EXCEPT !.todo = Tail(run.todo), !.created = run.created \cup {Head(run.todo)}] \in Run
      BY <2>1 DEF Run
    <2>3. run' \in Run
      BY <1>2, <1>0, <2>2 DEF Ensure
    <2>4. pin' \in [Map -> {0, 1, 2}]
      BY <1>2, <2>1 DEF Ensure
    <2>5. QED
      BY <1>2, <2>3, <2>4 DEF Ensure
  <1>3. CASE InitSwitch
    <2>1. run' \in Run
      BY <1>3 DEF InitSwitch, Run
    <2>2. QED
      BY <1>3, <2>1 DEF InitSwitch
  <1>4. CASE Lookup
    <2> DEFINE d == Foremost(run.dirs)
               rest == [run EXCEPT !.dirs = run.dirs \ {d}]
               taken(found) == [rest EXCEPT !.fresh = found, !.gen = @ \cup found]
               served == [rest EXCEPT !.gen = @ \cup cache[d], !.fail = TRUE,
                                      !.stale = IF cache[d] # {} THEN @ + 1 ELSE @]
    <2>1. \E found \in Answers[d] \cup {{}} :
            (run' = taken(found) /\ pc' = d) \/ (run' = served /\ pc' = pc)
      BY <1>4 DEF Lookup
    <2>2. d \in Directive
      BY <1>4, Chosen DEF Lookup, Run
    <2> HIDE DEF d
    <2>3. ASSUME NEW found \in Answers[d] \cup {{}} PROVE taken(found) \in Run
      <3>1. found \in SUBSET Range
        BY <2>2, RangeAssumption DEF RangeAssumption
      <3>2. QED
        BY <3>1 DEF Run
    <2>4. served \in Run
      <3>1. cache[d] \in SUBSET Range /\ (IF cache[d] # {} THEN run.stale + 1 ELSE run.stale) \in Nat
        BY <2>2 DEF Run
      <3>2. QED
        BY <3>1 DEF Run
    <2> HIDE DEF taken, served
    <2>5. run' \in Run /\ pc' \in Label \cup Directive
      BY <2>1, <2>2, <2>3, <2>4
    <2>6. QED
      BY <1>4, <2>5 DEF Lookup
  <1>5. ASSUME NEW d \in Directive, Replace(d) PROVE TypeOK'
    <2>1. run.fresh \in SUBSET Range
      BY DEF Run
    <2>2. /\ [run EXCEPT !.fresh = {}] \in Run
          /\ [run EXCEPT !.fresh = {}, !.fail = TRUE] \in Run
      BY DEF Run
    <2>3. run' \in Run
      BY <1>5, <2>2 DEF Replace
    <2>4. cache' \in [Directive -> SUBSET Range] /\ answered' \in [Directive -> SUBSET Range]
      BY <1>5, <2>1 DEF Replace
    <2>5. QED
      BY <1>5, <2>3, <2>4 DEF Replace
  <1>6. CASE Plan
    <2> DEFINE tag(literal) == [r \in Range |-> IF r \in static THEN 1
                                  ELSE IF r \in run.gen \cup literal THEN 2 ELSE 0]
               planned(literal) == [run EXCEPT !.tag = tag(literal)]
    <2>1. ASSUME NEW literal \in SUBSET Literal PROVE planned(literal) \in Run
      BY DEF Run
    <2>2. run' = Idle \/ \E literal \in SUBSET Literal : run' = planned(literal)
      BY <1>6 DEF Plan
    <2> HIDE DEF planned
    <2>3. run' \in Run
      BY <1>0, <2>1, <2>2
    <2>4. QED
      BY <1>6, <2>3 DEF Plan
  <1>7. CASE Update
    BY <1>7 DEF Update, Outdated, Family, Run
  <1>8. CASE Delete
    <2>1. [run EXCEPT !.ver = 6] \in Run
      BY DEF Run
    <2>2. QED
      BY <1>8, <2>1 DEF Delete, Unwanted, Family
  <1>9. CASE Export
    BY <1>9 DEF Export, Run
  <1>10. CASE SetPort \/ Exit \/ Cut
    BY <1>10, <1>0 DEF SetPort, Exit, Cut
  <1>11. CASE Reboot
    BY <1>11, <1>0 DEF Reboot
  <1>12. CASE EditStatic \/ Toggle
    BY <1>12 DEF EditStatic, Toggle, Change, Others
  <1>13. ASSUME NEW d \in Directive, EditConf(d) PROVE TypeOK'
    BY <1>13 DEF EditConf, Change, Others
  <1>14. ASSUME NEW m \in Map, Deploy(m) \/ RemovePin(m) PROVE TypeOK'
    <2>1. CASE Deploy(m)
      BY <2>1 DEF Deploy, Change, Others
    <2>2. CASE RemovePin(m)
      BY <2>2 DEF RemovePin, Change, Others
    <2>3. QED
      BY <1>14, <2>1, <2>2
  <1>15. CASE UNCHANGED vars
    BY <1>15 DEF vars
  <1>16. QED
    BY <1>1, <1>2, <1>3, <1>4, <1>5, <1>6, <1>7, <1>8, <1>9, <1>10, <1>11, <1>12, <1>13, <1>14, <1>15
    DEF Next, RunStep
-----------------------------------------------------------------------------
(* What a lookup leaves of the run: the directive is answered, or served   *)
(* from its snapshot.                                                      *)
LEMMA LookedUp ==
  ASSUME TypeOK, Lookup
  PROVE  /\ pc = "generate" /\ UNCHANGED <<files, maps, cache, kv, past, changes>>
         /\ run'.conf = run.conf /\ run'.tag = run.tag /\ run'.ver = run.ver
         /\ \E d \in run.dirs :
              /\ d \in Directive /\ run'.dirs = run.dirs \ {d}
              /\ \/ /\ run'.fresh # {} /\ run'.gen = run.gen \cup run'.fresh
                    /\ run'.fail = run.fail /\ pc' = d
                 \/ run'.gen = run.gen \cup cache[d] /\ run'.fail = TRUE /\ pc' = pc
  <1> DEFINE d == Foremost(run.dirs)
             rest == [run EXCEPT !.dirs = run.dirs \ {d}]
             taken(found) == [rest EXCEPT !.fresh = found, !.gen = @ \cup found]
             served == [rest EXCEPT !.gen = @ \cup cache[d], !.fail = TRUE,
                                    !.stale = IF cache[d] # {} THEN @ + 1 ELSE @]
  <1>1. \/ \E found : found # {} /\ run' = taken(found) /\ pc' = d
        \/ run' = served /\ pc' = pc
    BY DEF Lookup, Good, Goto
  <1>2. d \in run.dirs /\ d \in Directive
    BY Chosen DEF Lookup, TypeOK, Run
  <1> HIDE DEF d
  <1>3. /\ served.conf = run.conf /\ served.tag = run.tag /\ served.ver = run.ver /\ served.dirs = run.dirs \ {d}
        /\ served.gen = run.gen \cup cache[d] /\ served.fail = TRUE
    BY DEF TypeOK, Run
  <1>4. ASSUME NEW found
        PROVE  /\ taken(found).conf = run.conf /\ taken(found).tag = run.tag /\ taken(found).ver = run.ver
               /\ taken(found).dirs = run.dirs \ {d} /\ taken(found).fresh = found
               /\ taken(found).gen = run.gen \cup found /\ taken(found).fail = run.fail
    BY DEF TypeOK, Run
  <1> HIDE DEF taken, served
  <1>5. QED
    BY <1>1, <1>2, <1>3, <1>4 DEF Lookup

LEMMA NextPin == TypeOK /\ PinInv /\ [Next]_vars => PinInv'
  <1> SUFFICES ASSUME TypeOK, PinInv, [Next]_vars PROVE PinInv'
    OBVIOUS
  <1> USE Maps DEF TypeOK, PinInv, Goto, Die, files, maps, past
  <1>0. pc \in Directive => pc \notin {"idle", "maps"}
    BY LabelAssumption DEF LabelAssumption
  <1>1. CASE Start
    <2>1. run'.todo = SpecOrder /\ pc' = "maps" /\ UNCHANGED <<pin, allow, switch>>
      BY <1>1 DEF Start, Idle
    <2>2. QED
      BY <2>1 DEF Map
  <1>2. CASE Ensure
    <2>1. CASE UNCHANGED <<pin, allow, switch>> /\ pc' = "idle"
      BY <2>1
    <2>2. CASE /\ pc = "maps" /\ pc' = pc /\ run'.todo = Tail(run.todo) /\ pin'[Head(run.todo)] # 0
               /\ \A m \in Map : pin[m] # 0 => pin'[m] # 0
               /\ UNCHANGED <<allow, switch>> /\ run.todo # <<>>
      <3>1. run.todo \in Seq(Map)
        BY DEF Run
      <3>2. ASSUME NEW m \in Map, pin'[m] = 0
            PROVE  \E i \in DOMAIN run'.todo : run'.todo[i] = m
        <4>1. PICK i \in DOMAIN run.todo : run.todo[i] = m
          BY <2>2, <3>2
        <4>2. i # 1 /\ i \in 1..Len(run.todo)
          BY <2>2, <3>1, <3>2, <4>1
        <4>3. /\ Len(Tail(run.todo)) = Len(run.todo) - 1 /\ Tail(run.todo) \in Seq(Map)
              /\ \A k \in 1..(Len(run.todo) - 1) : Tail(run.todo)[k] = run.todo[k + 1]
          BY <2>2, <3>1
        <4>4. i - 1 \in 1..(Len(run.todo) - 1) /\ (i - 1) + 1 = i /\ Len(run.todo) \in Nat
          BY <3>1, <4>2
        <4>5. i - 1 \in DOMAIN Tail(run.todo) /\ Tail(run.todo)[i - 1] = m
          BY <4>1, <4>3, <4>4
        <4>6. QED
          BY <2>2, <4>5
      <3>3. QED
        BY <2>2, <3>2
    <2>3. run.todo \in Seq(Map) /\ (run.todo # <<>> => Head(run.todo) \in Map)
      BY DEF Run
    <2>4. /\ [run EXCEPT !.todo = Tail(run.todo)].todo = Tail(run.todo)
          /\ [run EXCEPT !.todo = Tail(run.todo),
                         !.created = run.created \cup {Head(run.todo)}].todo = Tail(run.todo)
      BY DEF Run
    <2>5. CASE pc' = "idle"
      BY <1>2, <2>1, <2>5 DEF Ensure
    <2>6. CASE pc' # "idle"
      <3>1. /\ pc = "maps" /\ run.todo # <<>> /\ pc' = pc /\ UNCHANGED <<allow, switch>>
            /\ run'.todo = Tail(run.todo)
        BY <1>2, <2>4, <2>6 DEF Ensure
      <3>2. pin'[Head(run.todo)] # 0 /\ \A m \in Map : pin[m] # 0 => pin'[m] # 0
        BY <1>2, <2>3, <2>6 DEF Ensure
      <3>3. QED
        BY <2>2, <3>1, <3>2
    <2>7. QED
      BY <2>5, <2>6
  <1>3. CASE InitSwitch
    <2>1. \A m \in Map : pin[m] # 0
      BY <1>3 DEF InitSwitch
    <2>2. QED
      BY <1>3, <2>1 DEF InitSwitch
  <1>4. CASE UNCHANGED <<pin, allow, switch>> /\ pc \notin {"idle", "maps"}
    BY <1>4
  <1>5. CASE UNCHANGED <<pin, allow, switch>> /\ (pc' = "idle" \/ UNCHANGED <<pc, run>>)
    BY <1>5
  <1>6. CASE Update \/ Delete
    <2>1. UNCHANGED <<pin, switch>> /\ pc \in {"update", "delete"}
      BY <1>6 DEF Update, Delete
    <2>2. QED
      BY <2>1
  <1>7. CASE Reboot
    BY <1>7 DEF Reboot
  <1>8. CASE Toggle
    BY <1>8 DEF Toggle, Change, Others
  <1>9. ASSUME NEW m \in Map, RemovePin(m) PROVE PinInv'
    BY <1>9 DEF RemovePin, Change, Others
  <1>10. CASE Lookup \/ (\E d \in Directive : Replace(d)) \/ Plan \/ Export \/ SetPort \/ Exit \/ Cut
    BY <1>10, <1>0, <1>4, <1>5 DEF Lookup, Replace, Plan, Export, SetPort, Exit, Cut
  <1>11. CASE EditStatic \/ (\E d \in Directive : EditConf(d)) \/ (\E m \in Map : Deploy(m))
    BY <1>11, <1>5 DEF EditStatic, EditConf, Deploy, Change, Others
  <1>12. CASE UNCHANGED vars
    BY <1>12, <1>5 DEF vars
  <1>13. QED
    BY <1>1, <1>2, <1>3, <1>6, <1>7, <1>8, <1>9, <1>10, <1>11, <1>12 DEF Next, RunStep

(* What an answer taken over leaves: its snapshot, or the directive behind. *)
LEMMA Replaced ==
  ASSUME TypeOK, NEW d \in Directive, Replace(d)
  PROVE  /\ pc = d /\ pc' = "generate" /\ UNCHANGED <<files, maps, kv, changes>>
         /\ run'.conf = run.conf /\ run'.tag = run.tag /\ run'.ver = run.ver
         /\ run'.dirs = run.dirs /\ run'.gen = run.gen /\ (run.fail => run'.fail)
         /\ answered' = [answered EXCEPT ![d] = IF run.fresh = {} THEN @ ELSE run.fresh]
         /\ \/ cache' = [cache EXCEPT ![d] = run.fresh] /\ behind' = behind \ {d}
            \/ UNCHANGED cache /\ behind' = behind \cup {d}
  <1>1. \/ run' = [run EXCEPT !.fresh = {}]
        \/ run' = [run EXCEPT !.fresh = {}, !.fail = TRUE]
    BY DEF Replace
  <1>2. QED
    BY <1>1 DEF Replace, Goto, TypeOK, Run

LEMMA NextTag == TypeOK /\ TagInv /\ [Next]_vars => TagInv'
  <1> SUFFICES ASSUME TypeOK, TagInv, [Next]_vars PROVE TagInv'
    OBVIOUS
  <1> USE Maps DEF TypeOK, Goto, Die, files, maps, past
  <1>0. Directive \cap {"idle", "maps", "generate", "update", "delete", "export", "port", "done"} = {}
    BY LabelAssumption DEF LabelAssumption
  <1>1. ASSUME pc' \notin Writing, run'.tag = [r \in Range |-> 0], run'.ver = 4 PROVE TagInv'
    BY <1>1 DEF TagInv, Through, Writing
  <1>2. CASE pc' = "idle" /\ run' = Idle
    BY <1>1, <1>2 DEF Idle, Writing
  <1>3. CASE Start
    BY <1>1, <1>3 DEF Start, Idle, Writing
  <1>4. CASE Ensure \/ InitSwitch
    <2>1. \/ pc' = "idle" /\ run' = Idle
          \/ /\ pc \notin Writing /\ pc' \notin Writing /\ run'.tag = run.tag /\ run'.ver = run.ver
      <3>1. CASE Ensure
        BY <3>1 DEF Ensure, Run, Writing
      <3>2. CASE InitSwitch
        BY <3>2 DEF InitSwitch, Run, Writing
      <3>3. QED
        BY <1>4, <3>1, <3>2
    <2>2. QED
      BY <1>1, <1>2, <2>1 DEF TagInv
  <1>5. CASE Lookup
    <2>1. run'.tag = run.tag /\ run'.ver = run.ver /\ pc = "generate"
      BY <1>5, LookedUp
    <2>2. PICK d \in Directive : pc' = d \/ pc' = pc
      BY <1>5, LookedUp
    <2>3. pc \notin Writing /\ pc' \notin Writing
      BY <1>0, <2>1, <2>2 DEF Writing
    <2>4. QED
      BY <1>1, <2>1, <2>3 DEF TagInv
  <1>6. ASSUME NEW d \in Directive, Replace(d) PROVE TagInv'
    <2>1. pc \notin Writing /\ pc' \notin Writing /\ run'.tag = run.tag /\ run'.ver = run.ver
      BY <1>0, <1>6, Replaced DEF Writing
    <2>2. QED
      BY <1>1, <2>1 DEF TagInv
  <1>7. CASE Plan
    <2>1. run.ver = 4
      BY <1>7 DEF Plan, TagInv, Writing
    <2>2. \/ pc' = "update" /\ run'.ver = run.ver
          \/ pc' = "idle" /\ run' = Idle
      BY <1>7 DEF Plan, Run
    <2>3. QED
      BY <1>2, <2>1, <2>2 DEF TagInv, Through, Writing
  <1>8. CASE Update
    <2>1. UNCHANGED run /\ pc = "update"
      BY <1>8 DEF Update
    <2>2. ASSUME NEW r \in Outdated, allow' = [allow EXCEPT ![r] = run.tag[r]], UNCHANGED pc
          PROVE  TagInv'
      BY <2>1, <2>2 DEF TagInv, Through, Outdated, Family, Writing
    <2>3. CASE Outdated = {} /\ pc' = "delete" /\ UNCHANGED allow
      BY <2>1, <2>3 DEF TagInv, Through, Outdated, Family, Wanted, Writing, Run
    <2>4. QED
      BY <1>8, <2>2, <2>3 DEF Update
  <1>9. CASE Delete
    <2>1. pc = "delete" /\ pc' \in Writing /\ run'.tag = run.tag
      BY <1>9 DEF Delete, Run, Writing
    <2>2. ASSUME NEW r \in Unwanted, allow' = [allow EXCEPT ![r] = 0], UNCHANGED <<pc, run>>
          PROVE  TagInv'
      BY <2>1, <2>2 DEF TagInv, Through, Unwanted, Family, Wanted, Writing
    <2>3. CASE run.ver = 4 /\ run'.ver = 6 /\ pc' = "update" /\ UNCHANGED allow
      BY <2>1, <2>3 DEF TagInv, Through, Writing
    <2>4. CASE run.ver = 6 /\ pc' = "export" /\ UNCHANGED <<allow, run>>
      BY <2>1, <2>4 DEF TagInv, Through, Writing
    <2>5. QED
      BY <1>9, <2>2, <2>3, <2>4 DEF Delete, Run
  <1>10. CASE Export \/ SetPort
    BY <1>10 DEF Export, SetPort, TagInv, Through, Writing
  <1>11. CASE Exit \/ Cut \/ Reboot
    BY <1>2, <1>11 DEF Exit, Cut, Reboot
  <1>12. CASE UNCHANGED <<allow, pc, run>>
    BY <1>12 DEF TagInv, Through
  <1>13. ASSUME NEW m \in Map, RemovePin(m) PROVE TagInv'
    <2>1. pc = "idle" /\ UNCHANGED <<pc, run>>
      BY <1>13 DEF RemovePin, Others
    <2>2. QED
      BY <1>1, <2>1 DEF TagInv, Writing
  <1>14. CASE EditStatic \/ Toggle \/ (\E d \in Directive : EditConf(d)) \/ (\E m \in Map : Deploy(m))
    BY <1>12, <1>14 DEF EditStatic, Toggle, EditConf, Deploy, Others
  <1>15. CASE UNCHANGED vars
    BY <1>12, <1>15 DEF vars
  <1>16. QED
    BY <1>3, <1>4, <1>5, <1>6, <1>7, <1>8, <1>9, <1>10, <1>11, <1>13, <1>14, <1>15 DEF Next, RunStep

LEMMA NextSnapshot == TypeOK /\ SnapshotInv /\ [Next]_vars => SnapshotInv'
  <1> SUFFICES ASSUME TypeOK, SnapshotInv, [Next]_vars PROVE SnapshotInv'
    OBVIOUS
  <1> USE Maps DEF TypeOK, Goto, Die, files, maps, past
  <1>0. Directive \cap {"idle", "maps", "generate", "update", "delete", "export", "port", "done"} = {}
    BY LabelAssumption DEF LabelAssumption
  <1>1. ASSUME UNCHANGED <<cache, past>>, pc' \notin Directive \/ UNCHANGED <<pc, run>>,
               run' = Idle \/ UNCHANGED <<run.dirs, run.conf>> \/ run'.dirs = run'.conf
        PROVE  SnapshotInv'
    <2>1. run'.dirs \subseteq run'.conf
      BY <1>1 DEF SnapshotInv, Idle
    <2>2. QED
      BY <1>1, <2>1 DEF SnapshotInv
  <1>2. CASE Lookup
    <2>1. PICK d \in run.dirs :
            /\ d \in Directive /\ run'.dirs = run.dirs \ {d}
            /\ \/ /\ run'.fresh # {} /\ run'.gen = run.gen \cup run'.fresh
                  /\ run'.fail = run.fail /\ pc' = d
               \/ run'.gen = run.gen \cup cache[d] /\ run'.fail = TRUE /\ pc' = pc
      BY <1>2, LookedUp
    <2>2. run'.conf = run.conf /\ UNCHANGED <<cache, past>> /\ pc = "generate"
      BY <1>2, LookedUp
    <2>3. QED
      BY <1>0, <2>1, <2>2 DEF SnapshotInv
  <1>3. ASSUME NEW d \in Directive, Replace(d) PROVE SnapshotInv'
    <2>1. run.fresh # {}
      BY <1>3 DEF Replace, SnapshotInv
    <2>2. QED
      BY <1>0, <1>3, <2>1, Replaced DEF SnapshotInv
  <1>4. CASE Start \/ Ensure \/ InitSwitch \/ Plan
    <2>1. UNCHANGED <<cache, past>> /\ pc' \in {"idle", "maps", "generate", "update"}
      BY <1>4 DEF Start, Ensure, InitSwitch, Plan
    <2>2. run' = Idle \/ UNCHANGED <<run.dirs, run.conf>> \/ run'.dirs = run'.conf
      <3>1. CASE Start
        BY <3>1 DEF Start, Idle
      <3>2. CASE Ensure
        BY <3>2 DEF Ensure, Run
      <3>3. CASE InitSwitch
        BY <3>3 DEF InitSwitch, Run
      <3>4. CASE Plan
        BY <3>4 DEF Plan, Run
      <3>5. QED
        BY <1>4, <3>1, <3>2, <3>3, <3>4
    <2>3. QED
      BY <1>0, <1>1, <2>1, <2>2
  <1>5. CASE Update \/ Delete \/ Export \/ SetPort
    <2>1. UNCHANGED <<cache, past>> /\ pc' \in {"update", "delete", "export", "port", "done"}
      BY <1>5 DEF Update, Delete, Export, SetPort
    <2>2. UNCHANGED <<run.dirs, run.conf>>
      BY <1>5 DEF Update, Delete, Export, SetPort, Run
    <2>3. QED
      BY <1>0, <1>1, <2>1, <2>2
  <1>6. CASE Exit \/ Cut \/ Reboot
    BY <1>0, <1>1, <1>6 DEF Exit, Cut, Reboot
  <1>7. CASE \/ EditStatic \/ Toggle \/ (\E d \in Directive : EditConf(d))
             \/ (\E m \in Map : Deploy(m) \/ RemovePin(m))
    <2>1. UNCHANGED <<cache, behind, answered, pc, run>>
      BY <1>7 DEF EditStatic, Toggle, EditConf, Deploy, RemovePin, Others
    <2>2. QED
      BY <1>1, <2>1
  <1>8. CASE UNCHANGED vars
    BY <1>1, <1>8 DEF vars
  <1>9. QED
    BY <1>2, <1>3, <1>4, <1>5, <1>6, <1>7, <1>8 DEF Next, RunStep

LEMMA NextAnswer == TypeOK /\ SnapshotInv /\ AnswerInv /\ [Next]_vars => AnswerInv'
  <1> SUFFICES ASSUME TypeOK, SnapshotInv, AnswerInv, [Next]_vars PROVE AnswerInv'
    OBVIOUS
  <1> USE Maps DEF TypeOK, Goto, Die, files, maps, past
  <1>0. Directive \cap {"idle", "maps", "generate", "update", "delete", "export", "port", "done"} = {}
    BY LabelAssumption DEF LabelAssumption
  <1>1. CASE pc' \in {"idle", "maps"}
    BY <1>0, <1>1 DEF AnswerInv, Writing
  <1>2. CASE InitSwitch
    <2>1. pc' = "generate" /\ run'.dirs = run'.conf
      BY <1>2 DEF InitSwitch, Run
    <2>2. QED
      BY <2>1 DEF AnswerInv, Writing
  <1>3. CASE Lookup
    <2>1. PICK d \in run.dirs :
            /\ d \in Directive /\ run'.dirs = run.dirs \ {d}
            /\ \/ /\ run'.fresh # {} /\ run'.gen = run.gen \cup run'.fresh
                  /\ run'.fail = run.fail /\ pc' = d
               \/ run'.gen = run.gen \cup cache[d] /\ run'.fail = TRUE /\ pc' = pc
      BY <1>3, LookedUp
    <2>2. run'.conf = run.conf /\ UNCHANGED <<cache, answered, behind>> /\ pc = "generate"
      BY <1>3, LookedUp
    <2>3. pc \notin Writing /\ pc' \notin Writing /\ pc' \notin {"port", "done"}
      BY <1>0, <2>1, <2>2 DEF Writing
    <2>4. ASSUME NEW e \in run.conf, e \notin run.dirs PROVE Served(e)'
      <3>1. Served(e)
        BY <1>0, <2>2, <2>4 DEF AnswerInv, Run
      <3>2. QED
        BY <2>1, <2>2, <2>3, <3>1 DEF Served
    <2>5. d = pc' \/ Served(d)'
      BY <2>1, <2>2, <2>3 DEF SnapshotInv, Served
    <2>6. QED
      BY <2>1, <2>2, <2>3, <2>4, <2>5 DEF AnswerInv
  <1>4. ASSUME NEW d \in Directive, Replace(d) PROVE AnswerInv'
    <2>1. /\ pc = d /\ pc' = "generate" /\ pc \notin Writing
          /\ run'.conf = run.conf /\ run'.dirs = run.dirs /\ run'.gen = run.gen /\ (run.fail => run'.fail)
          /\ answered' = [answered EXCEPT ![d] = IF run.fresh = {} THEN @ ELSE run.fresh]
          /\ behind' = behind \ {d} \/ behind' = behind \cup {d}
      BY <1>0, <1>4, Replaced DEF Writing
    <2>2. ASSUME NEW e \in run.conf, e \notin run.dirs, e # d PROVE Served(e)'
      <3>1. Served(e) /\ e \in Directive
        BY <2>1, <2>2 DEF AnswerInv, Run
      <3>2. answered'[e] = answered[e] /\ (e \in behind => e \in behind')
        BY <2>1, <2>2, <3>1
      <3>3. QED
        BY <2>1, <3>1, <3>2 DEF Served, Writing
    <2>3. Served(d)'
      <3>1. run.fresh # {} /\ run.fresh \subseteq run.gen
        BY <2>1 DEF SnapshotInv
      <3>2. answered'[d] = run.fresh
        BY <2>1, <3>1
      <3>3. QED
        BY <2>1, <3>1, <3>2 DEF Served, Writing
    <2>4. QED
      BY <2>1, <2>2, <2>3 DEF AnswerInv, Writing
  <1>5. CASE Plan /\ pc' # "idle"
    <2>1. PICK literal \in SUBSET Literal :
            run' = [run EXCEPT !.tag = [r \in Range |-> IF r \in static THEN 1
                                          ELSE IF r \in run.gen \cup literal THEN 2 ELSE 0]]
      BY <1>5 DEF Plan
    <2>2. /\ run'.tag = [r \in Range |-> IF r \in static THEN 1
                           ELSE IF r \in run.gen \cup literal THEN 2 ELSE 0]
          /\ run'.dirs = run.dirs /\ run'.conf = run.conf /\ run'.fail = run.fail
      BY <2>1 DEF Run
    <2>3. run.gen \subseteq Wanted'
      BY <2>2 DEF Wanted, Run
    <2>4. pc = "generate" /\ pc' = "update" /\ run.dirs = {} /\ UNCHANGED <<answered, behind>>
      BY <1>5 DEF Plan
    <2>5. ASSUME NEW e \in run.conf PROVE Served(e)'
      <3>1. Served(e)
        BY <1>0, <2>4, <2>5 DEF AnswerInv, Run
      <3>2. QED
        BY <2>2, <2>3, <2>4, <3>1 DEF Served, Writing
    <2>6. QED
      BY <2>2, <2>4, <2>5 DEF AnswerInv, Writing
  <1>6. CASE Update \/ Delete \/ Export \/ SetPort
    <2>1. /\ pc \in Writing /\ pc' \in Writing /\ UNCHANGED <<answered, behind>>
          /\ run'.dirs = run.dirs /\ run'.conf = run.conf /\ run'.fail = run.fail /\ run'.tag = run.tag
      BY <1>6 DEF Update, Delete, Export, SetPort, Writing, Run
    <2>2. pc' \in {"port", "done"} => kv'.fail = run'.fail
      BY <1>6 DEF Update, Delete, Export, SetPort, AnswerInv
    <2>3. \A e : Served(e) => Served(e)'
      BY <2>1 DEF Served, Wanted
    <2>4. pc \notin Directive /\ pc' \notin Directive
      BY <1>0, <2>1 DEF Writing
    <2>5. \A e \in run.conf : Served(e)
      BY <2>1, <2>4 DEF AnswerInv, Run
    <2>6. QED
      BY <2>1, <2>2, <2>3, <2>5 DEF AnswerInv
  <1>7. CASE UNCHANGED <<pc, run, answered, behind, kv>>
    BY <1>7 DEF AnswerInv, Served, Wanted
  <1>8. CASE Start \/ Ensure \/ Exit \/ Cut \/ Reboot
    BY <1>1, <1>8 DEF Start, Ensure, Exit, Cut, Reboot
  <1>9. CASE \/ EditStatic \/ Toggle \/ (\E d \in Directive : EditConf(d))
             \/ (\E m \in Map : Deploy(m) \/ RemovePin(m))
    BY <1>7, <1>9 DEF EditStatic, Toggle, EditConf, Deploy, RemovePin, Others
  <1>10. CASE UNCHANGED vars
    BY <1>7, <1>10 DEF vars
  <1>11. QED
    BY <1>1, <1>2, <1>3, <1>4, <1>5, <1>6, <1>8, <1>9, <1>10 DEF Next, RunStep
-----------------------------------------------------------------------------
(* What the maps, the plan of a run and the snapshots keep to, whichever   *)
(* calls fail and wherever a run is cut.                                   *)
THEOREM AllowInvariant == Spec => []AllowInv
  <1>1. AllowInv /\ [Next]_vars => AllowInv'
    BY NextType, NextPin, NextTag, NextSnapshot, NextAnswer DEF AllowInv
  <1>2. QED
    BY InitInv, <1>1, PTL DEF Spec

(* The remotes that a directive last answered are allowed after a run that *)
(* ended well: allow_cache_fold serves the snapshot of every lookup that   *)
(* fails, and what is planned is in the map before the run is done.        *)
THEOREM RemoteStays == Spec => []RemoteKept
  <1>1. AllowInv => RemoteKept
    <2> SUFFICES ASSUME AllowInv, pc = "done", NEW d \in run.conf
                 PROVE  answered[d] \subseteq Live \/ (d \in behind /\ kv.fail)
      BY DEF RemoteKept
    <2>1. pc \in Writing /\ pc \notin Directive /\ d \in Directive
      BY LabelAssumption DEF Writing, LabelAssumption, AllowInv, TypeOK, Run
    <2>2. Served(d) /\ kv.fail = run.fail
      BY <2>1 DEF AllowInv, AnswerInv
    <2>3. Wanted \subseteq Live
      BY DEF AllowInv, TagInv, Through, Wanted, Live
    <2>4. QED
      BY <2>1, <2>2, <2>3 DEF Served
  <1>2. QED
    BY AllowInvariant, <1>1, PTL

(* An update never takes the place of what it covers, and a delete comes   *)
(* when the updates of its family are through: reconcile_allow leaves no   *)
(* hole.  That ranges sharing an address are of one family is what lets it *)
(* go family by family.                                                    *)
THEOREM NoHoleEver == Spec => NoHole
  <1>1. AllowInv /\ [Next]_vars
          => [pin' = pin => Covered(Live) \ Covered(Live)' \subseteq Address \ Covered(Wanted)]_vars
    <2> SUFFICES ASSUME AllowInv, [Next]_vars, pin' = pin,
                        NEW a \in Covered(Live), a \notin Covered(Live)'
                 PROVE  a \in Address \ Covered(Wanted)
      OBVIOUS
    <2> USE DEF AllowInv, TypeOK, files, maps, past
    <2>1. a \in Address
      BY RangeAssumption DEF Covered, Live, RangeAssumption
    <2>2. PICK r \in Live : a \in Covers[r]
      BY DEF Covered
    <2>3. r \in Range /\ allow[r] # 0 /\ allow'[r] = 0
      BY <2>2 DEF Covered, Live
    <2>4. Update \/ Delete \/ Reboot \/ \E m \in Map : RemovePin(m)
      BY <2>3 DEF Next, RunStep, Start, Ensure, InitSwitch, Lookup, Replace, Plan, Export, SetPort, Exit, Cut,
                  EditStatic, Toggle, EditConf, Deploy, vars
    <2>5. CASE Update
      BY <2>3, <2>5 DEF Update, Outdated, Wanted
    <2>6. CASE Delete
      <3>1. pc = "delete" /\ r \in Unwanted /\ allow' = [allow EXCEPT ![r] = 0]
        BY <2>3, <2>6 DEF Delete, Unwanted, Family
      <3>2. ASSUME NEW s \in Wanted, a \in Covers[s] PROVE FALSE
        <4>1. s \in Range /\ Version[s] = Version[r] /\ Version[r] = run.ver
          BY <2>2, <2>3, <3>1, <3>2, FamilyAssumption DEF FamilyAssumption, Wanted, Unwanted, Family
        <4>2. allow[s] = run.tag[s] /\ run.tag[s] # 0
          BY <3>1, <3>2, <4>1 DEF TagInv, Through, Wanted
        <4>3. s # r /\ allow'[s] # 0
          BY <3>1, <3>2, <4>1, <4>2 DEF Unwanted
        <4>4. QED
          BY <3>2, <4>1, <4>3 DEF Covered, Live
      <3>3. QED
        BY <2>1, <3>2 DEF Covered
    <2>7. CASE Reboot \/ \E m \in Map : RemovePin(m)
      <3>1. AllowMap[Version[r]] \in Map /\ pin[AllowMap[Version[r]]] # 0
        BY <2>3, Maps DEF PinInv
      <3>2. CASE Reboot
        BY <3>1, <3>2 DEF Reboot
      <3>3. ASSUME NEW m \in Map, RemovePin(m) PROVE FALSE
        <4>1. pin[m] # 0 /\ pin' = [pin EXCEPT ![m] = 0]
          BY <3>3, Maps DEF RemovePin
        <4>2. QED
          BY <4>1
      <3>4. QED
        BY <2>7, <3>2, <3>3
    <2>8. QED
      BY <2>4, <2>5, <2>6, <2>7
  <1>2. QED
    BY AllowInvariant, <1>1, PTL DEF Spec, NoHole
=============================================================================
