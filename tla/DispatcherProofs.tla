-------------------------- MODULE DispatcherProofs --------------------------
(***************************************************************************)
(* Proofs about Dispatcher, for any number of scripts, runs, programs and  *)
(* faults.  What a script knows of the dispatcher holds while nobody       *)
(* disturbs it; the invariant says what it knows at each of its labels.    *)
(***************************************************************************)
EXTENDS Dispatcher, TLAPS

Label == {"idle", "list", "check", "reject", "load", "relist", "verify", "retire", "record",
          "unload", "recheck", "ended"}
Kind == {"none", "attach", "detach", "reload"}
Run == [kind : Kind, todo : SUBSET Program, old : SUBSET Program, new : {0} \cup Program,
        rc : {0, 1}, disturbed : BOOLEAN, doubted : BOOLEAN, slipped : BOOLEAN]

TypeOK ==
  /\ member \subseteq Program /\ sound \subseteq Program /\ recorded \subseteq Program
  /\ loads \in 0..MaxPrograms
  /\ pc \in [Script -> Label] /\ run \in [Script -> Run]

(* Which script is at which label, and what it holds there. *)
Shape(p) ==
  /\ pc[p] = "idle" => run[p] = Idle
  /\ pc[p] \notin {"idle", "list", "ended"} =>
       run[p].kind \in CASE pc[p] = "check" -> {"attach"}
                         [] pc[p] \in {"unload", "recheck"} -> {"detach"}
                         [] pc[p] = "retire" -> {"reload"}
                         [] OTHER -> {"attach", "reload"}
  /\ pc[p] # "idle" => run[p].kind # "none"
  /\ pc[p] = "list" => run[p].new = 0 /\ run[p].old = {}
  /\ run[p].kind = "attach" /\ pc[p] # "reject" => run[p].old = {}
  /\ pc[p] \in {"verify", "retire", "record"} => run[p].new # 0

(* attach, among the members it found. *)
Sifted(p) ==
  LET r == run[p]
      unseen == r.todo \cup r.old
  IN pc[p] \in {"check", "reject"} /\ r.kind = "attach" /\ (pc[p] = "check" \/ r.old # {}) =>
       /\ member \ unseen \subseteq sound
       /\ IF r.new = 0 THEN member \subseteq unseen ELSE r.new \in member \ unseen
       /\ r.doubted \/ r.old \cap member \cap sound = {}

(* attach and reload, about the program they load. *)
Loaded(p) ==
  LET r == run[p]
  IN CASE pc[p] = "load" -> member = r.old
       [] pc[p] = "relist" -> \E id \in Program : member \ r.old \subseteq {id}
       [] pc[p] = "verify" -> r.new \notin r.old /\ member \subseteq r.old \cup {r.new}
       [] pc[p] = "reject" /\ (r.kind = "reload" \/ r.old = {}) ->
            r.doubted \/ r.new \notin member \cap sound
       [] pc[p] = "retire" -> /\ r.new \in (member \cap sound) \ r.todo
                              /\ r.slipped \/ member \subseteq {r.new} \cup r.todo
       [] pc[p] = "record" ->
            /\ r.new \in member \cap sound
            /\ IF r.kind = "attach" THEN member \subseteq sound
               ELSE r.slipped \/ member = {r.new}
       [] OTHER -> TRUE

(* detach, about the programs left. *)
Emptied(p) ==
  LET r == run[p]
  IN pc[p] \in {"unload", "recheck"} /\ r.rc = 0 =>
       member \subseteq r.todo \cup (IF pc[p] = "recheck" THEN {r.new} ELSE {})

Known(p) == run[p].disturbed \/ (Sifted(p) /\ Loaded(p) /\ Emptied(p) /\ Told(p))

DispatcherInv == TypeOK /\ \A p \in Script : Shape(p) /\ Known(p)
-----------------------------------------------------------------------------
LEMMA IdleRun == Idle \in Run
  BY DEF Idle, Run, Kind, Program

(* A step of a script either leaves another one all that it relies on, or  *)
(* disturbs it.                                                            *)
Untouched(q) == pc'[q] = pc[q] /\ run'[q] = run[q] /\ UNCHANGED <<member, sound, recorded>>
Noticed(q) == pc'[q] = pc[q] /\ run'[q] = Disturbed(q)

LEMMA Beside ==
  ASSUME TypeOK, NEW p \in Script, ScriptStep(p), NEW q \in Script \ {p}
  PROVE  Untouched(q) \/ Noticed(q)
  <1> USE DEF TypeOK, Untouched, Noticed, Dispatcher, Goto, Step, Disturb, Fails
  <1>1. ASSUME NEW kind \in {"attach", "detach", "reload"}, Start(p, kind)
        PROVE  Untouched(q)
    BY <1>1 DEF Start
  <1>2. CASE List(p)
    BY <1>2 DEF List
  <1>3. CASE Check(p)
    BY <1>3 DEF Check, Identity
  <1>4. CASE Reject(p)
    BY <1>4 DEF Reject
  <1>5. CASE Load(p)
    BY <1>5 DEF Load
  <1>6. CASE Relist(p)
    BY <1>6 DEF Relist
  <1>7. CASE Verify(p)
    BY <1>7 DEF Verify, Identity
  <1>8. CASE Abandon(p)
    BY <1>8 DEF Abandon
  <1>9. CASE Retire(p)
    BY <1>9 DEF Retire
  <1>10. CASE Record(p)
    BY <1>10 DEF Record
  <1>11. CASE Unload(p)
    BY <1>11 DEF Unload
  <1>12. CASE Recheck(p)
    BY <1>12 DEF Recheck
  <1>13. CASE Detached(p)
    BY <1>13 DEF Detached
  <1>14. CASE Close(p) \/ Kill(p)
    BY <1>14 DEF Close, Kill
  <1>15. QED
    BY <1>1, <1>2, <1>3, <1>4, <1>5, <1>6, <1>7, <1>8, <1>9, <1>10, <1>11, <1>12, <1>13, <1>14
    DEF ScriptStep

(* A script that is disturbed promises nothing, and one that is not still  *)
(* knows what it knew.                                                     *)
LEMMA StillKnown ==
  ASSUME TypeOK, NEW q \in Script, Shape(q), Known(q), Untouched(q) \/ Noticed(q)
  PROVE  Shape(q)' /\ Known(q)'
  <1>1. CASE Untouched(q)
    BY <1>1 DEF Untouched, Shape, Known, Sifted, Loaded, Emptied, Told
  <1>2. CASE Noticed(q) /\ pc[q] = "idle"
    BY <1>2 DEF Noticed, Disturbed, Shape, Known, Sifted, Loaded, Emptied, Told, Idle
  <1>3. CASE Noticed(q) /\ pc[q] # "idle"
    BY <1>3 DEF Noticed, Disturbed, Shape, Known, TypeOK, Run
  <1>4. QED
    BY <1>1, <1>2, <1>3
-----------------------------------------------------------------------------
(* What a step gives its own script. *)
LEMMA Own ==
  ASSUME TypeOK, NEW p \in Script
  PROVE  \A label, mine : Step(p, label, mine) \/ Disturb(p, label, mine) =>
           pc'[p] = label /\ run'[p] = mine
  BY DEF TypeOK, Step, Disturb, Goto

(* A script that ended has nothing to know. *)
LEMMA AtRest ==
  ASSUME NEW p \in Script, pc'[p] = "idle", run'[p] = Idle
  PROVE  Shape(p)' /\ Known(p)'
  BY DEF Idle, Shape, Known, Sifted, Loaded, Emptied, Told

(* The three outcomes of a look at a program's maps. *)
LEMMA Judged ==
  ASSUME TypeOK, NEW p \in Script, NEW id, NEW label, NEW good, NEW bad,
         Identity(p, id, label, good, bad)
  PROVE  \/ pc'[p] = label /\ run'[p] = good /\ id \in member \cap sound
         \/ pc'[p] = "reject" /\ run'[p] = bad /\ id \notin member \cap sound
         \/ pc'[p] = "reject" /\ run'[p] = [bad EXCEPT !.doubted = TRUE]
  BY Own DEF Identity

(* And its own step tells a script what it needs to know at its next label. *)
LEMMA OwnStep ==
  ASSUME TypeOK, NEW p \in Script, Shape(p), Known(p), ScriptStep(p)
  PROVE  Shape(p)' /\ Known(p)'
  <1> DEFINE r == run[p]
             s == run'[p]
  <1>0. r \in Run /\ member \subseteq Program /\ recorded \subseteq Program
    BY DEF TypeOK
  <1> USE Own, <1>0 DEF Run, Fails
  <1>1. CASE List(p)
    <2>1. pc[p] = "list" /\ UNCHANGED <<member, sound, recorded>> /\ r.new = 0 /\ r.old = {}
      BY <1>1 DEF List, Dispatcher, Shape
    <2>2. ASSUME s.kind = r.kind, s.new = 0, s.disturbed = r.disturbed, s.rc = r.rc,
                 \/ r.kind = "attach" /\ pc'[p] = "check" /\ s.todo = member /\ s.old = {}
                 \/ r.kind = "detach" /\ pc'[p] = "unload" /\ s.todo = member \cup recorded
                 \/ r.kind = "reload" /\ pc'[p] = "load" /\ s.old = member
          PROVE  Shape(p)' /\ Known(p)'
      <3>1. Shape(p)'
        BY <2>2 DEF Shape
      <3>2. Sifted(p)' /\ Loaded(p)'
        BY <2>1, <2>2 DEF Sifted, Loaded
      <3>3. Emptied(p)' /\ Told(p)'
        BY <2>1, <2>2 DEF Emptied, Told
      <3>4. QED
        BY <3>1, <3>2, <3>3 DEF Known
    <2>3. QED
      BY <1>1, <2>1, <2>2, AtRest DEF List
  <1>2. ASSUME NEW id \in r.todo, UNCHANGED <<member, sound, recorded>>, r.kind = "attach",
               pc[p] = "check",
               Identity(p, id, "check",
                        [[r EXCEPT !.todo = r.todo \ {id}] EXCEPT !.new = id],
                        [[r EXCEPT !.todo = r.todo \ {id}] EXCEPT !.old = {id}])
        PROVE  Shape(p)' /\ Known(p)'
    <2>1. r.old = {} /\ id # 0
      BY <1>2 DEF Shape, Program
    <2>2. CASE /\ pc'[p] = "check" /\ id \in member \cap sound
               /\ s = [[r EXCEPT !.todo = r.todo \ {id}] EXCEPT !.new = id]
      <3>1. /\ s.todo = r.todo \ {id} /\ s.new = id /\ s.kind = "attach" /\ s.old = {}
            /\ s.disturbed = r.disturbed
        BY <1>2, <2>1, <2>2
      <3>2. Sifted(p)' \/ s.disturbed
        BY <1>2, <2>1, <2>2, <3>1 DEF Known, Sifted
      <3>3. QED
        BY <2>1, <2>2, <3>1, <3>2 DEF Known, Loaded, Emptied, Told, Shape
    <2>3. ASSUME pc'[p] = "reject", id \notin member \cap sound \/ s.doubted,
                 s.todo = r.todo \ {id}, s.new = r.new, s.kind = "attach", s.old = {id},
                 s.disturbed = r.disturbed
          PROVE  Shape(p)' /\ Known(p)'
      <3>1. Sifted(p)' \/ s.disturbed
        BY <1>2, <2>1, <2>3 DEF Known, Sifted
      <3>2. Shape(p)'
        BY <2>3 DEF Shape
      <3>3. Loaded(p)' /\ Emptied(p)' /\ Told(p)'
        BY <2>3 DEF Loaded, Emptied, Told
      <3>4. QED
        BY <3>1, <3>2, <3>3 DEF Known
    <2>4. DEFINE bad == [[r EXCEPT !.todo = r.todo \ {id}] EXCEPT !.old = {id}]
    <2>5. \/ /\ pc'[p] = "check" /\ s = [[r EXCEPT !.todo = r.todo \ {id}] EXCEPT !.new = id]
             /\ id \in member \cap sound
          \/ pc'[p] = "reject" /\ s = bad /\ id \notin member \cap sound
          \/ pc'[p] = "reject" /\ s = [bad EXCEPT !.doubted = TRUE]
      BY <1>2, Judged
    <2>6. QED
      BY <1>2, <2>2, <2>3, <2>5
  <1>3. CASE Check(p) /\ r.todo = {}
    <2>1. /\ s = r /\ r.old = {} /\ r.kind = "attach" /\ pc[p] = "check"
          /\ UNCHANGED <<member, sound, recorded>>
      BY <1>3 DEF Check, Dispatcher, Shape
    <2>2. CASE pc'[p] = "record" /\ r.new # 0
      <3>1. r.disturbed \/ (r.new \in member \cap sound /\ member \subseteq sound)
        BY <1>3, <2>1, <2>2 DEF Known, Sifted
      <3>2. QED
        BY <2>1, <2>2, <3>1 DEF Shape, Known, Sifted, Loaded, Emptied, Told
    <2>3. CASE pc'[p] = "load" /\ r.new = 0
      <3>1. r.disturbed \/ member = {}
        BY <1>3, <2>1, <2>3 DEF Known, Sifted
      <3>2. QED
        BY <2>1, <2>3, <3>1 DEF Shape, Known, Sifted, Loaded, Emptied, Told
    <2>4. QED
      BY <1>3, <2>2, <2>3 DEF Check
  <1>4. CASE Reject(p)
    <2>1. /\ pc[p] = "reject" /\ r.old # {} /\ r.kind = "attach" /\ UNCHANGED <<sound, recorded>>
      BY <1>4 DEF Reject
    <2>2. CASE member' = member \ r.old /\ pc'[p] = "check" /\ s = [r EXCEPT !.old = {}]
      <3>1. /\ s.todo = r.todo /\ s.new = r.new /\ s.kind = "attach" /\ s.old = {}
            /\ s.disturbed = r.disturbed /\ s.doubted = r.doubted
        BY <2>1, <2>2
      <3>2. Sifted(p)' \/ s.disturbed
        BY <2>1, <2>2, <3>1 DEF Known, Sifted
      <3>3. QED
        BY <2>2, <3>1, <3>2 DEF Known, Loaded, Emptied, Told, Shape
    <2>3. QED
      BY <1>4, <2>2, AtRest DEF Reject
  <1>5. CASE Load(p)
    <2>1. CASE /\ pc[p] = "load" /\ pc'[p] = "relist" /\ s = r
               /\ loads < MaxPrograms /\ loads' = loads + 1 /\ member' = member \cup {loads'}
      <3>1. loads' \in Program
        BY <2>1, BoundAssumption DEF TypeOK, BoundAssumption, Program
      <3>2. Loaded(p)' \/ s.disturbed
        BY <2>1, <3>1 DEF Loaded, Known
      <3>3. QED
        BY <2>1, <3>2 DEF Shape, Known, Sifted, Emptied, Told
    <2>2. CASE pc'[p] = "idle" /\ s = Idle
      BY <2>2, AtRest
    <2>3. QED
      BY <1>5, <2>1, <2>2 DEF Load
  <1>6. CASE Relist(p)
    <2>1. ASSUME NEW id \in member \ r.old, pc[p] = "relist", s = [r EXCEPT !.new = id],
                 \/ pc'[p] = "verify" /\ (r.kind = "attach" \/ member \ r.old = {id})
                 \/ pc'[p] = "reject" /\ r.kind # "attach" /\ member \ r.old # {id},
                 UNCHANGED <<member, sound, recorded>>
          PROVE  Shape(p)' /\ Known(p)'
      <3>1. s.new = id /\ s.kind = r.kind /\ s.old = r.old /\ s.disturbed = r.disturbed /\ id # 0
        BY <2>1 DEF Program
      <3>2. s.disturbed \/ (pc'[p] = "verify" /\ member \subseteq r.old \cup {id})
        BY <2>1, <3>1 DEF Known, Loaded
      <3>3. QED
        BY <2>1, <3>1, <3>2 DEF Shape, Known, Sifted, Loaded, Emptied, Told
    <2>2. CASE pc'[p] = "idle" /\ s = Idle
      BY <2>2, AtRest
    <2> DEFINE taken(id) == [r EXCEPT !.new = id]
    <2>3. /\ pc[p] = "relist" /\ UNCHANGED <<member, sound, recorded>>
          /\ \/ \E id \in member \ r.old :
                  Step(p, IF r.kind = "attach" \/ member \ r.old = {id} THEN "verify" ELSE "reject",
                       taken(id))
             \/ Step(p, "idle", Idle)
      BY <1>6 DEF Relist, Dispatcher
    <2>4. CASE Step(p, "idle", Idle)
      BY <2>2, <2>4
    <2>5. ASSUME NEW id \in member \ r.old,
                 Step(p, IF r.kind = "attach" \/ member \ r.old = {id} THEN "verify" ELSE "reject",
                      taken(id))
          PROVE  Shape(p)' /\ Known(p)'
      BY <2>1, <2>3, <2>5
    <2>6. QED
      BY <2>3, <2>4, <2>5
  <1>7. CASE Verify(p)
    <2>1. pc[p] = "verify" /\ UNCHANGED <<member, sound, recorded>>
      BY <1>7 DEF Verify, Dispatcher
    <2>2. CASE /\ pc'[p] = IF r.kind = "attach" THEN "record" ELSE "retire"
               /\ s = [r EXCEPT !.todo = r.old] /\ r.new \in member \cap sound
      <3>1. /\ s.todo = r.old /\ s.old = r.old /\ s.new = r.new /\ s.kind = r.kind
            /\ s.disturbed = r.disturbed
        BY <2>2
      <3>2. QED
        BY <2>1, <2>2, <3>1 DEF Shape, Known, Sifted, Loaded, Emptied, Told
    <2>3. ASSUME pc'[p] = "reject", r.new \notin member \cap sound \/ s.doubted,
                 s.old = r.old, s.new = r.new, s.kind = r.kind
          PROVE  Shape(p)' /\ Known(p)'
      <3>1. r.kind \in {"attach", "reload"} /\ (r.kind = "attach" => r.old = {})
        BY <2>1 DEF Shape
      <3>2. Shape(p)'
        BY <2>3, <3>1 DEF Shape
      <3>3. Sifted(p)' /\ Loaded(p)'
        BY <2>1, <2>3, <3>1 DEF Sifted, Loaded
      <3>4. QED
        BY <2>3, <3>2, <3>3 DEF Known, Emptied, Told
    <2> DEFINE next == IF r.kind = "attach" THEN "record" ELSE "retire"
               good == [r EXCEPT !.todo = r.old]
               bad == [r EXCEPT !.todo = {}]
    <2>4. Identity(p, r.new, next, good, bad)
      BY <1>7 DEF Verify
    <2>5. \/ pc'[p] = next /\ s = good /\ r.new \in member \cap sound
          \/ pc'[p] = "reject" /\ s = bad /\ r.new \notin member \cap sound
          \/ pc'[p] = "reject" /\ s = [bad EXCEPT !.doubted = TRUE]
      <3> HIDE DEF next, good, bad
      <3>1. QED
        BY <2>4, Judged
    <2>6. QED
      BY <2>2, <2>3, <2>5
  <1>8. CASE Abandon(p)
    BY <1>8, AtRest DEF Abandon
  <1>9. CASE Retire(p)
    <2>1. pc[p] = "retire" /\ UNCHANGED <<sound, recorded>> /\ r.kind = "reload" /\ r.new # 0
      BY <1>9 DEF Retire, Shape
    <2>2. ASSUME NEW id \in r.todo, pc'[p] = "retire", s.todo = r.todo \ {id}, s.kind = r.kind,
                 s.new = r.new, s.disturbed = r.disturbed, s.old = r.old,
                 \/ member' = member \ {id} /\ s.slipped = r.slipped
                 \/ member' = member /\ s.slipped = r.slipped /\ id \notin member
                 \/ member' = member /\ s.slipped
          PROVE  Shape(p)' /\ Known(p)'
      BY <2>1, <2>2 DEF Shape, Known, Sifted, Loaded, Emptied, Told
    <2>3. CASE r.todo = {} /\ UNCHANGED member /\ pc'[p] = "record" /\ s = r
      BY <2>1, <2>3 DEF Shape, Known, Sifted, Loaded, Emptied, Told
    <2> DEFINE rest(id) == [r EXCEPT !.todo = r.todo \ {id}]
               slip(id) == [rest(id) EXCEPT !.slipped = TRUE]
    <2>4. ASSUME NEW id \in r.todo, pc'[p] = "retire",
                 \/ /\ s = rest(id)
                    /\ member' = member \ {id} \/ (member' = member /\ id \notin member)
                 \/ member' = member /\ s = slip(id)
          PROVE  Shape(p)' /\ Known(p)'
      BY <2>2, <2>4
    <2>5. CASE r.todo = {} /\ UNCHANGED member /\ Step(p, "record", r)
      BY <2>3, <2>5
    <2>6. \/ \E id \in r.todo :
               \/ member' = member \ {id} /\ Disturb(p, "retire", rest(id))
               \/ id \notin member /\ UNCHANGED member /\ Step(p, "retire", rest(id))
               \/ UNCHANGED member /\ Step(p, "retire", slip(id))
          \/ r.todo = {} /\ UNCHANGED member /\ Step(p, "record", r)
      BY <1>9 DEF Retire
    <2>7. QED
      <3> HIDE DEF rest, slip
      <3>1. QED
        BY <2>4, <2>5, <2>6
  <1>10. CASE Record(p)
    <2>1. /\ pc[p] = "record" /\ pc'[p] = "ended" /\ s = r /\ UNCHANGED <<member, sound>>
          /\ recorded' = {r.new}
      BY <1>10 DEF Record, Dispatcher
    <2>2. Told(p)' \/ s.disturbed
      BY <2>1 DEF Known, Loaded, Told, Shape
    <2>3. QED
      BY <2>1, <2>2 DEF Shape, Known, Sifted, Loaded, Emptied
  <1>11. CASE Unload(p)
    <2>1. pc[p] = "unload" /\ UNCHANGED <<sound, recorded>> /\ r.kind = "detach"
      BY <1>11 DEF Unload, Shape
    <2>2. ASSUME NEW id \in r.todo, s.todo = r.todo \ {id}, s.kind = r.kind, s.rc = r.rc,
                 s.disturbed = r.disturbed,
                 \/ pc'[p] = "unload" /\ member' = member \ {id}
                 \/ pc'[p] = "recheck" /\ member' = member /\ s.new = id
          PROVE  Shape(p)' /\ Known(p)'
      BY <2>1, <2>2 DEF Shape, Known, Sifted, Loaded, Emptied, Told
    <2> DEFINE rest(id) == [r EXCEPT !.todo = r.todo \ {id}]
               left(id) == [rest(id) EXCEPT !.new = id]
    <2>3. ASSUME NEW id \in r.todo,
                 \/ pc'[p] = "unload" /\ s = rest(id) /\ member' = member \ {id}
                 \/ pc'[p] = "recheck" /\ s = left(id) /\ member' = member
          PROVE  Shape(p)' /\ Known(p)'
      BY <2>2, <2>3
    <2>4. \E id \in r.todo :
            \/ member' = member \ {id} /\ Disturb(p, "unload", rest(id))
            \/ UNCHANGED member /\ Step(p, "recheck", left(id))
      BY <1>11 DEF Unload
    <2>5. QED
      <3> HIDE DEF rest, left
      <3>1. QED
        BY <2>3, <2>4
  <1>12. CASE Recheck(p)
    <2>1. /\ pc[p] = "recheck" /\ UNCHANGED <<member, sound, recorded>> /\ r.kind = "detach"
      BY <1>12 DEF Recheck, Dispatcher, Shape
    <2>2. ASSUME pc'[p] = "unload", s.todo = r.todo, s.kind = r.kind, s.disturbed = r.disturbed,
                 s.rc = 1 \/ (s.rc = r.rc /\ r.new \notin member)
          PROVE  Shape(p)' /\ Known(p)'
      BY <2>1, <2>2 DEF Shape, Known, Sifted, Loaded, Emptied, Told
    <2>3. QED
      BY <1>12, <2>2 DEF Recheck
  <1>13. CASE Detached(p)
    <2>1. /\ pc[p] = "unload" /\ r.todo = {} /\ UNCHANGED <<member, sound>> /\ r.kind = "detach"
      BY <1>13 DEF Detached, Dispatcher, Shape
    <2>2. CASE r.rc = 0 /\ recorded' = {} /\ pc'[p] = "ended" /\ s = r
      BY <2>1, <2>2 DEF Shape, Known, Sifted, Loaded, Emptied, Told
    <2>3. CASE pc'[p] = "idle" /\ s = Idle
      BY <2>3, AtRest
    <2>4. QED
      BY <1>13, <2>2, <2>3 DEF Detached
  <1>14. CASE Close(p) \/ Kill(p)
    BY <1>14, AtRest DEF Close, Kill
  <1>15. ASSUME NEW kind \in {"attach", "detach", "reload"}, Start(p, kind)
         PROVE  Shape(p)' /\ Known(p)'
    <2>1. pc'[p] = "list" /\ s.kind = kind /\ s.new = 0 /\ s.old = {}
      BY <1>15 DEF Start, Idle
    <2>2. QED
      BY <2>1 DEF Shape, Known, Sifted, Loaded, Emptied, Told
  <1>16. CASE Check(p)
    <2>1. /\ pc[p] = "check" /\ r.kind = "attach" /\ UNCHANGED <<member, sound, recorded>>
      BY <1>16 DEF Check, Dispatcher, Shape
    <2>2. QED
      BY <1>2, <1>3, <1>16, <2>1 DEF Check
  <1>17. QED
    BY <1>1, <1>4, <1>5, <1>6, <1>7, <1>8, <1>9, <1>10, <1>11, <1>12, <1>13, <1>14, <1>15, <1>16
    DEF ScriptStep
-----------------------------------------------------------------------------
(* Labels and locals keep their types. *)
LEMMA Typed ==
  ASSUME TypeOK, NEW p \in Script
  PROVE  \A label \in Label, mine \in Run : Step(p, label, mine) \/ Disturb(p, label, mine) =>
           pc' \in [Script -> Label] /\ run' \in [Script -> Run]
  <1> SUFFICES ASSUME NEW label \in Label, NEW mine \in Run,
                      Step(p, label, mine) \/ Disturb(p, label, mine)
               PROVE  pc' \in [Script -> Label] /\ run' \in [Script -> Run]
    OBVIOUS
  <1>1. \A q \in Script : Disturbed(q) \in Run
    BY IdleRun DEF TypeOK, Disturbed, Run
  <1>2. QED
    BY <1>1 DEF TypeOK, Step, Disturb, Goto

LEMMA TypedStep ==
  ASSUME TypeOK, NEW p \in Script, Shape(p), ScriptStep(p)
  PROVE  pc' \in [Script -> Label] /\ run' \in [Script -> Run]
  <1> DEFINE r == run[p]
             Goal == pc' \in [Script -> Label] /\ run' \in [Script -> Run]
  <1>0. r \in Run /\ member \subseteq Program /\ recorded \subseteq Program /\ Idle \in Run
    BY IdleRun DEF TypeOK
  <1>1. /\ \A X \in SUBSET Program : [r EXCEPT !.todo = X] \in Run /\ [r EXCEPT !.old = X] \in Run
        /\ \A n \in {0} \cup Program : [r EXCEPT !.new = n] \in Run
        /\ \A n \in {0, 1} : [r EXCEPT !.rc = n] \in Run
    BY <1>0 DEF Run
  <1> USE <1>0, Typed DEF Label, Fails
  <1>2. CASE List(p)
    <2>1. /\ [r EXCEPT !.todo = member] \in Run /\ [r EXCEPT !.old = member] \in Run
          /\ [r EXCEPT !.todo = member \cup recorded] \in Run
      BY <1>1
    <2>2. QED
      BY <1>2, <2>1 DEF List
  <1>3. ASSUME NEW id \in Program, NEW label \in Label, NEW good \in Run, NEW bad \in Run,
               Identity(p, id, label, good, bad)
        PROVE  Goal
    <2>1. [bad EXCEPT !.doubted = TRUE] \in Run
      BY DEF Run
    <2>2. QED
      BY <1>3, <2>1 DEF Identity
  <1>4. CASE Check(p)
    <2> DEFINE good(id) == [[r EXCEPT !.todo = r.todo \ {id}] EXCEPT !.new = id]
               bad(id) == [[r EXCEPT !.todo = r.todo \ {id}] EXCEPT !.old = {id}]
    <2>1. ASSUME NEW id \in r.todo PROVE id \in Program /\ good(id) \in Run /\ bad(id) \in Run
      BY DEF Run
    <2>2. \/ \E id \in r.todo : Identity(p, id, "check", good(id), bad(id))
          \/ Step(p, IF r.new # 0 THEN "record" ELSE "load", r)
      BY <1>4 DEF Check
    <2> HIDE DEF good, bad
    <2>3. QED
      BY <1>3, <2>1, <2>2
  <1>5. CASE Reject(p)
    <2>1. [r EXCEPT !.old = {}] \in Run
      BY <1>1
    <2>2. QED
      BY <1>5, <2>1 DEF Reject
  <1>6. CASE Load(p)
    BY <1>6 DEF Load
  <1>7. CASE Relist(p)
    <2>1. \A id \in member : [r EXCEPT !.new = id] \in Run
      BY <1>1
    <2>2. QED
      BY <1>7, <2>1 DEF Relist
  <1>8. CASE Verify(p)
    <2> DEFINE good == [r EXCEPT !.todo = r.old]
               bad == [r EXCEPT !.todo = {}]
    <2>1. r.new \in Program /\ good \in Run /\ bad \in Run
      BY <1>8 DEF Run, Verify, Shape
    <2>2. Identity(p, r.new, IF r.kind = "attach" THEN "record" ELSE "retire", good, bad)
      BY <1>8 DEF Verify
    <2> HIDE DEF good, bad
    <2>3. QED
      BY <1>3, <2>1, <2>2
  <1>9. CASE Retire(p)
    <2> DEFINE rest(id) == [r EXCEPT !.todo = r.todo \ {id}]
               slip(id) == [rest(id) EXCEPT !.slipped = TRUE]
    <2>1. \A id \in r.todo : rest(id) \in Run /\ slip(id) \in Run
      BY DEF Run
    <2>2. \/ \E id \in r.todo : \/ Disturb(p, "retire", rest(id))
                               \/ Step(p, "retire", rest(id))
                               \/ Step(p, "retire", slip(id))
          \/ Step(p, "record", r)
      BY <1>9 DEF Retire
    <2> HIDE DEF rest, slip
    <2>3. QED
      BY <2>1, <2>2
  <1>10. CASE Unload(p)
    <2> DEFINE rest(id) == [r EXCEPT !.todo = r.todo \ {id}]
               left(id) == [rest(id) EXCEPT !.new = id]
    <2>1. \A id \in r.todo : rest(id) \in Run /\ left(id) \in Run
      BY DEF Run
    <2>2. \E id \in r.todo : Disturb(p, "unload", rest(id)) \/ Step(p, "recheck", left(id))
      BY <1>10 DEF Unload
    <2> HIDE DEF rest, left
    <2>3. QED
      BY <2>1, <2>2
  <1>11. CASE Recheck(p)
    <2> DEFINE counted(n) == [r EXCEPT !.rc = n]
    <2>1. counted(1) \in Run /\ counted(r.rc) \in Run
      BY DEF Run
    <2>2. Step(p, "unload", counted(1)) \/ Step(p, "unload", counted(r.rc))
      BY <1>11 DEF Recheck
    <2> HIDE DEF counted
    <2>3. QED
      BY <2>1, <2>2
  <1>12. CASE Abandon(p) \/ Record(p) \/ Detached(p) \/ Close(p) \/ Kill(p)
    BY <1>12 DEF Abandon, Record, Detached, Close, Kill
  <1>13. ASSUME NEW kind \in {"attach", "detach", "reload"}, Start(p, kind)
         PROVE  Goal
    <2>1. [Idle EXCEPT !.kind = kind] \in Run
      BY DEF Run, Kind
    <2>2. QED
      BY <1>13, <2>1 DEF Start
  <1>14. QED
    BY <1>2, <1>4, <1>5, <1>6, <1>7, <1>8, <1>9, <1>10, <1>11, <1>12, <1>13 DEF ScriptStep

LEMMA StepType ==
  ASSUME TypeOK, NEW p \in Script, Shape(p), ScriptStep(p)
  PROVE  TypeOK'
  <1>1. loads' \in 0..MaxPrograms /\ member' \subseteq Program /\ sound' \subseteq Program
    <2>1. CASE UNCHANGED <<sound, loads>> /\ member' \subseteq member
      BY <2>1 DEF TypeOK
    <2>2. CASE Load(p)
      <3>1. CASE loads < MaxPrograms /\ loads' = loads + 1
        <4>1. loads' \in Program /\ loads' \in 0..MaxPrograms
          BY <3>1, BoundAssumption DEF TypeOK, Program, BoundAssumption
        <4>2. member' \subseteq member \cup {loads'} /\ sound' \subseteq sound \cup {loads'}
          BY <2>2 DEF Load, Dispatcher
        <4>3. QED
          BY <4>1, <4>2 DEF TypeOK
      <3>2. CASE UNCHANGED <<member, sound, loads>>
        BY <3>2 DEF TypeOK
      <3>3. QED
        BY <2>2, <3>1, <3>2 DEF Load, Dispatcher
    <2>3. QED
      BY <2>1, <2>2
      DEF ScriptStep, Dispatcher, Start, List, Check, Reject, Relist, Verify, Abandon, Retire,
          Record, Unload, Recheck, Detached, Close, Kill
  <1>2. recorded' \subseteq Program
    <2>1. CASE UNCHANGED recorded
      BY <2>1 DEF TypeOK
    <2>2. CASE Record(p)
      BY <2>2 DEF Record, Shape, TypeOK, Run
    <2>3. CASE Detached(p)
      BY <2>3 DEF Detached, TypeOK
    <2>4. QED
      BY <2>1, <2>2, <2>3
      DEF ScriptStep, Start, List, Check, Reject, Load, Relist, Verify, Abandon, Retire,
          Unload, Recheck, Close, Kill
  <1>3. QED
    BY <1>1, <1>2, TypedStep DEF TypeOK
-----------------------------------------------------------------------------
LEMMA InitInv == Init => DispatcherInv
  <1> SUFFICES ASSUME Init PROVE DispatcherInv
    OBVIOUS
  <1>1. TypeOK
    BY IdleRun, BoundAssumption DEF Init, TypeOK, Label, BoundAssumption
  <1>2. ASSUME NEW p \in Script PROVE Shape(p) /\ Known(p)
    BY DEF Init, Idle, Shape, Known, Sifted, Loaded, Emptied, Told
  <1>3. QED
    BY <1>1, <1>2 DEF DispatcherInv

LEMMA NextInv == DispatcherInv /\ [Next]_vars => DispatcherInv'
  <1> SUFFICES ASSUME DispatcherInv, [Next]_vars PROVE DispatcherInv'
    OBVIOUS
  <1> USE DEF DispatcherInv
  <1>1. ASSUME NEW p \in Script, ScriptStep(p) PROVE DispatcherInv'
    <2>1. TypeOK'
      BY <1>1, StepType
    <2>2. ASSUME NEW q \in Script PROVE Shape(q)' /\ Known(q)'
      <3>1. CASE q = p
        BY <1>1, <3>1, OwnStep
      <3>2. CASE q # p
        BY <1>1, <3>2, Beside, StillKnown
      <3>3. QED
        BY <3>1, <3>2
    <2>3. QED
      BY <2>1, <2>2
  <1>2. CASE LosePins
    <2>1. TypeOK'
      <3>1. \A p \in Script : Disturbed(p) \in Run
        BY IdleRun DEF TypeOK, Disturbed, Run
      <3>2. QED
        BY <1>2, <3>1 DEF LosePins, Bounds, TypeOK
    <2>2. ASSUME NEW p \in Script PROVE Shape(p)' /\ Known(p)'
      <3>1. pc'[p] = pc[p] /\ run'[p] = Disturbed(p)
        BY <1>2 DEF LosePins
      <3>2. QED
        BY <3>1, StillKnown DEF Noticed
    <2>3. QED
      BY <2>1, <2>2
  <1>3. CASE Reboot
    <2>1. TypeOK'
      BY <1>3, IdleRun, BoundAssumption DEF Reboot, TypeOK, Label, BoundAssumption
    <2>2. ASSUME NEW p \in Script PROVE Shape(p)' /\ Known(p)'
      BY <1>3, AtRest DEF Reboot
    <2>3. QED
      BY <2>1, <2>2
  <1>4. CASE UNCHANGED vars
    <2>1. TypeOK'
      BY <1>4 DEF vars, TypeOK
    <2>2. ASSUME NEW p \in Script PROVE Shape(p)' /\ Known(p)'
      BY <1>4, StillKnown DEF vars, Untouched
    <2>3. QED
      BY <2>1, <2>2
  <1>5. QED
    BY <1>1, <1>2, <1>3, <1>4 DEF Next

(* Every script knows, while nobody disturbs it, what its next step relies *)
(* on: the members it has sifted, the program it loaded, what it left.     *)
THEOREM KnownWhileUndisturbed == Spec => []DispatcherInv
  BY InitInv, NextInv, PTL DEF Spec

(* What exit 0 of attach, detach and reload says is so. *)
THEOREM ExitMeansIt == Spec => []Settled
  <1>1. DispatcherInv => Settled
    BY DEF DispatcherInv, Known, Settled
  <1>2. QED
    BY <1>1, KnownWhileUndisturbed, PTL

(* The member that the step of an undisturbed attach or reload takes out   *)
(* is unsound, or another is sound.                                        *)
LEMMA OwnStepHitless ==
  ASSUME TypeOK, NEW p \in Script, Shape(p), Known(p), ScriptStep(p),
         run[p].kind \in {"attach", "reload"}, ~run[p].disturbed, ~run[p].doubted, Enforced
  PROVE  Enforced'
  <1>1. CASE UNCHANGED sound /\ member \subseteq member'
    BY <1>1 DEF Enforced
  <1>2. CASE Load(p)
    BY <1>2 DEF Load, Enforced, Dispatcher
  <1>3. CASE Reject(p)
    BY <1>3 DEF Reject, Known, Sifted, Enforced
  <1>4. CASE Abandon(p)
    BY <1>4 DEF Abandon, Known, Loaded, Enforced
  <1>5. CASE Retire(p)
    BY <1>5 DEF Retire, Known, Loaded, Enforced
  <1>6. CASE Unload(p)
    BY <1>6 DEF Unload, Shape
  <1>7. QED
    BY <1>1, <1>2, <1>3, <1>4, <1>5, <1>6
    DEF ScriptStep, Dispatcher, Start, List, Check, Relist, Verify, Record, Recheck, Detached,
        Close, Kill

(* An attach or a reload that nobody disturbs and that took no sound       *)
(* program for an unsound one leaves no gap, for any number of scripts and *)
(* failures.                                                               *)
THEOREM ReloadHitless == Spec => Hitless
  <1> DEFINE A == \A p \in Script :
                    run[p].kind \in {"attach", "reload"} /\ Undisturbed(p) /\ ~run[p].doubted
                      => (Enforced => Enforced')
  <1>1. ASSUME DispatcherInv, Next PROVE A
    <2> SUFFICES ASSUME NEW p \in Script, run[p].kind \in {"attach", "reload"}, Undisturbed(p),
                        ~run[p].doubted, Enforced
                 PROVE  Enforced'
      OBVIOUS
    <2>1. pc[p] # "idle"
      BY <1>1 DEF DispatcherInv, Shape, Idle
    <2>2. run'[p] # Disturbed(p)
      BY <1>1, <2>1 DEF Undisturbed, Disturbed, DispatcherInv, TypeOK, Run
    <2>3. CASE ScriptStep(p)
      BY <1>1, <2>3, OwnStepHitless DEF DispatcherInv, Undisturbed
    <2>4. ASSUME NEW q \in Script, q # p, ScriptStep(q) PROVE Enforced'
      BY <1>1, <2>2, <2>4, Beside DEF DispatcherInv, Untouched, Noticed, Enforced
    <2>5. CASE LosePins
      BY <2>2, <2>5 DEF LosePins
    <2>6. CASE Reboot
      BY <2>6, <1>1 DEF Reboot, Undisturbed
    <2>7. QED
      BY <1>1, <2>3, <2>4, <2>5, <2>6 DEF Next
  <1>2. DispatcherInv /\ [Next]_vars => [A]_vars
    BY <1>1
  <1>3. QED
    BY <1>2, KnownWhileUndisturbed, PTL DEF Spec, Hitless
=============================================================================
