---------------------------- MODULE ResponderProofs ----------------------------
(***************************************************************************)
(* Proofs about Responder, for any set of sources, any limits and times and *)
(* any number of faults.  What the process holds in memory is related to   *)
(* the file and to the history part by part; each action disturbs one or   *)
(* two of the parts.                                                       *)
(***************************************************************************)
EXTENDS Responder, TLAPS, FiniteSetTheorems, SequenceTheorems

Known == Record \cup {NoRec}

(* The process is at a source when it is at a block, and knows of none when *)
(* it is down.                                                             *)
BusyInv ==
  /\ pc \in {"block", "record"} => src \in Src
  /\ pc = "down" => rec = NoRecs /\ ~dirty

(* The block that has succeeded and is not recorded yet. *)
Unrecorded(s) == IF pc = "record" /\ src = s THEN 1 ELSE 0

(* A count is ahead of no block, and behind by faults only. *)
Counts(recs, s) ==
  /\ recs[s].count + Unrecorded(s) <= real[s]
  /\ real[s] <= recs[s].count + faults + Unrecorded(s)

CountInv == \A s \in Src : Counts(disk, s) /\ (pc # "down" => Counts(rec, s))

(* The windows of a file of this boot are of this boot. *)
WindowInv ==
  /\ stamped => \A s \in Src : InWindow(disk[s]) => here[s]
  /\ pc # "down" => \A s \in Src : InWindow(rec[s]) => here[s]

(* The cap counts at most RateHour sources; no source counts from later     *)
(* than its last attempt, and one attempted once in an hour counts from it. *)
Few(S) == IsFiniteSet(S) /\ Cardinality(S) <= RateHour

RateInv ==
  /\ Few(Counted)
  /\ \A s \in Src : /\ tried[s] <= hour[s]
                    /\ s \in Attempted \ again => hour[s] = tried[s]

(* A source allowed for longer than the snapshot is old is in it. *)
AgeInv ==
  \A s \in allow : cache_age <= CacheTtl /\ allow_age[s] > cache_age => s \in cache

ResponderInv == TypeOK /\ BusyInv /\ CountInv /\ WindowInv /\ RateInv /\ AgeInv
-----------------------------------------------------------------------------
LEMMA KnownFields ==
  /\ \A r \in Known : r.count \in Nat /\ r.left \in Int
  /\ \A c \in Nat, l \in Nat : [count |-> c, left |-> l] \in Known
  /\ NoRec \in Known /\ NoRec.count = 0 /\ NoRec.left = -1
  BY DEF Known, Record, NoRec

(* The parts of the type that steps disturb together. *)
JournalOK ==
  /\ disk \in [Src -> Known] /\ rec \in [Src -> Known]
  /\ stamped \in BOOLEAN /\ boot \in BOOLEAN /\ dirty \in BOOLEAN /\ flush_age \in Nat
LimitsOK ==
  /\ cache \subseteq Src /\ cache_age \in Nat
  /\ minute \in Seq(Nat) /\ hour \in [Src -> Nat] /\ tried \in [Src -> Nat]
  /\ again \subseteq Src
ProcessOK ==
  /\ pc \in {"down", "idle", "block", "record"} /\ src \in Src \cup {Nobody} /\ ttl \in Nat
  /\ enforce \in BOOLEAN
PastOK ==
  /\ real \in [Src -> Nat] /\ here \in [Src -> BOOLEAN]
  /\ allow \subseteq Src /\ allow_age \in [Src -> Nat]
  /\ faults \in Nat

LEMMA TypeParts == TypeOK <=> JournalOK /\ LimitsOK /\ ProcessOK /\ PastOK
  BY DEF TypeOK, JournalOK, LimitsOK, ProcessOK, PastOK, Known

(* What the operators on the journal do to counts and windows. *)
LEMMA SeenKeeps ==
  ASSUME rec \in [Src -> Known], NEW s \in Src
  PROVE  /\ Seen(s) \in [Src -> Known]
         /\ \A x \in Src : /\ Seen(s)[x].count = rec[x].count
                           /\ InWindow(Seen(s)[x]) => InWindow(rec[x])
  <1> DEFINE new == [rec[s] EXCEPT !.left = IF @ > 0 THEN @ ELSE 0]
  <1>1. new \in Known /\ new.count = rec[s].count /\ (new.left > 0 => rec[s].left > 0)
    BY DEF Known, Record, NoRec
  <1>2. Seen(s) = [rec EXCEPT ![s] = new]
    BY DEF Seen
  <1> HIDE DEF new
  <1>3. QED
    BY <1>1, <1>2 DEF InWindow

LEMMA OffenseAdds ==
  ASSUME rec \in [Src -> Known], NEW s \in Src, NEW time \in Nat, NEW shadow \in BOOLEAN
  PROVE  /\ Offense(s, time, shadow) \in [Src -> Known]
         /\ Offense(s, time, shadow)[s].count = (IF shadow THEN rec[s].count ELSE rec[s].count + 1)
         /\ \A x \in Src \ {s} : Offense(s, time, shadow)[x] = rec[x]
  <1> DEFINE new == [count |-> IF shadow THEN rec[s].count ELSE rec[s].count + 1, left |-> time]
  <1>1. new \in Known /\ new.count = (IF shadow THEN rec[s].count ELSE rec[s].count + 1)
    BY KnownFields
  <1>2. Offense(s, time, shadow) = [rec EXCEPT ![s] = new]
    BY DEF Offense
  <1> HIDE DEF new
  <1>3. QED
    BY <1>1, <1>2

LEMMA LoadedKeeps ==
  ASSUME disk \in [Src -> Known], NEW read \in BOOLEAN
  PROVE  /\ Loaded(read) \in [Src -> Known]
         /\ \A x \in Src : /\ Loaded(read)[x].count = disk[x].count
                           /\ InWindow(Loaded(read)[x]) => stamped /\ InWindow(disk[x])
  <1>1. CASE stamped /\ read
    BY <1>1 DEF Loaded
  <1>2. CASE ~(stamped /\ read)
    <2> DEFINE new(x) == IF disk[x] = NoRec THEN NoRec ELSE [disk[x] EXCEPT !.left = 0]
    <2>1. ASSUME NEW x \in Src
          PROVE  new(x) \in Known /\ new(x).count = disk[x].count /\ ~InWindow(new(x))
      BY DEF Known, Record, NoRec, InWindow
    <2>2. Loaded(read) = [x \in Src |-> new(x)]
      BY <1>2 DEF Loaded
    <2> HIDE DEF new
    <2>3. QED
      BY <2>1, <2>2
  <1>3. QED
    BY <1>1, <1>2

LEMMA WithoutDrops ==
  ASSUME NEW recs \in [Src -> Known], NEW gone
  PROVE  /\ Without(recs, gone) \in [Src -> Known]
         /\ \A x \in Src : Without(recs, gone)[x] = IF x \in gone THEN NoRec ELSE recs[x]
  BY KnownFields DEF Without

LEMMA PassedKeeps ==
  ASSUME NEW recs \in [Src -> Known]
  PROVE  /\ Passed(recs) \in [Src -> Known]
         /\ \A x \in Src : /\ Passed(recs)[x].count = recs[x].count
                           /\ InWindow(Passed(recs)[x]) => InWindow(recs[x])
         /\ recs = NoRecs => Passed(recs) = NoRecs
  <1> DEFINE new(x) == [recs[x] EXCEPT !.left = Less(recs[x].left)]
  <1>1. ASSUME NEW x \in Src
        PROVE  /\ new(x) \in Known /\ new(x).count = recs[x].count
               /\ InWindow(new(x)) => InWindow(recs[x])
               /\ recs[x] = NoRec => new(x) = NoRec
    BY DEF Known, Record, NoRec, Less, InWindow
  <1>2. Passed(recs) = [x \in Src |-> new(x)]
    BY DEF Passed
  <1> HIDE DEF new
  <1>3. QED
    BY <1>1, <1>2 DEF NoRecs

LEMMA DoubledType == ASSUME NEW n PROVE Doubled(n) \in Nat
  BY TimeAssumption DEF Doubled, TimeAssumption

LEMMA RecentType ==
  ASSUME NEW ages \in Seq(Nat), NEW limit
  PROVE  Recent(ages, limit) \in Seq(Nat)
  <1> DEFINE old == {i \in DOMAIN ages : \A j \in 1..i : ages[j] > limit}
  <1>1. old \in SUBSET (1..Len(ages)) /\ Len(ages) \in Nat
    OBVIOUS
  <1> HIDE DEF old
  <1>2. IsFiniteSet(1..Len(ages))
    BY <1>1, FS_Interval
  <1>3. Cardinality(old) \in Nat
    BY <1>1, <1>2, FS_Subset, FS_CardinalityType
  <1>4. Recent(ages, limit) = SubSeq(ages, Cardinality(old) + 1, Len(ages))
    BY DEF Recent, old
  <1>5. \A i \in Cardinality(old) + 1..Len(ages) : ages[i] \in Nat
    BY <1>3
  <1>6. QED
    BY <1>1, <1>3, <1>4, <1>5, SubSeqProperties

LEMMA OlderSeq ==
  ASSUME NEW ages \in Seq(Nat)
  PROVE  [i \in DOMAIN ages |-> ages[i] + 1] \in Seq(Nat)
  <1>1. Len(ages) \in Nat /\ DOMAIN ages = 1..Len(ages)
    OBVIOUS
  <1>2. [i \in DOMAIN ages |-> ages[i] + 1] \in [1..Len(ages) -> Nat]
    BY <1>1
  <1>3. QED
    BY <1>1, <1>2, SeqDef

(* What is in memory becomes recs, and may be written. *)
JournalIs(recs) ==
  /\ rec' = recs
  /\ \/ UNCHANGED <<disk, stamped>>
     \/ disk' = recs /\ stamped' = boot

LEMMA Flushed ==
  ASSUME TypeOK, NEW recs, NEW touched \in BOOLEAN, Flush(recs, touched)
  PROVE  /\ JournalIs(recs) /\ dirty' \in BOOLEAN /\ flush_age' \in Nat
         /\ faults' \in Nat /\ faults' >= faults
  <1>1. (dirty \/ touched) \in BOOLEAN
    BY DEF TypeOK
  <1>2. dirty' \in BOOLEAN
    BY <1>1 DEF Flush, Save
  <1>3. JournalIs(recs)
    BY DEF Flush, JournalIs, Save
  <1>4. flush_age' \in Nat
    BY DEF Flush, Save, TypeOK
  <1>5. faults' \in Nat /\ faults' >= faults
    BY DEF Flush, Works, Fault, TypeOK
  <1>6. QED
    BY <1>2, <1>3, <1>4, <1>5

(* An alert that ends without an attempt leaves every count and window. *)
LEMMA Dismissed ==
  ASSUME TypeOK, NEW s \in Src, SkipProtected(s) \/ Sighting(s) \/ Suppress(s)
  PROVE  /\ pc = "idle" /\ Refresh /\ UNCHANGED <<world, pc, src, ttl, enforce, boot, minute, hour, tried, again, past>>
         /\ \E recs \in {rec, Seen(s)}, touched \in BOOLEAN : Flush(recs, touched)
  BY DEF SkipProtected, Sighting, Suppress, Dismiss

LEMMA Refreshed ==
  ASSUME TypeOK, Refresh
  PROVE  cache' \subseteq Src /\ cache_age' \in Nat /\ (AgeInv /\ UNCHANGED world => AgeInv')
  BY TimeAssumption DEF Refresh, TypeOK, AgeInv, world
-----------------------------------------------------------------------------
LEMMA InitInv == Init => ResponderInv
  <1> SUFFICES ASSUME Init PROVE ResponderInv
    OBVIOUS
  <1> USE TimeAssumption, RateAssumption, KnownFields DEF TimeAssumption, RateAssumption
  <1>1. TypeOK
    <2>1. JournalOK
      BY DEF Init, JournalOK, NoRecs
    <2>2. LimitsOK
      BY DEF Init, LimitsOK, Unfetched, Untried
    <2>3. ProcessOK /\ PastOK
      BY DEF Init, ProcessOK, PastOK
    <2>4. QED
      BY <2>1, <2>2, <2>3, TypeParts
  <1>2. BusyInv /\ CountInv /\ WindowInv
    BY DEF Init, BusyInv, CountInv, Counts, Unrecorded, WindowInv, InWindow, NoRecs
  <1>3. RateInv
    <2>1. \A x \in Src : tried[x] = Hour + 1 /\ hour[x] = Hour + 1
      BY DEF Init, Untried
    <2>2. Hour \in Nat
      BY TimeAssumption DEF TimeAssumption
    <2>3. Counted = {} /\ Attempted = {}
      BY <2>1, <2>2 DEF Counted, Attempted
    <2>4. Few({})
      BY FS_EmptySet, RateAssumption DEF Few, RateAssumption
    <2>5. QED
      BY <2>1, <2>2, <2>3, <2>4 DEF RateInv
  <1>4. AgeInv
    BY DEF Init, AgeInv
  <1>5. QED
    BY <1>1, <1>2, <1>3, <1>4 DEF ResponderInv

(* A start or a prune: recs in memory and on disk, but for what is gone. *)
LEMMA PrunedKeeps ==
  ASSUME TypeOK, NEW recs \in [Src -> Known], NEW gone, NEW read, Pruned(recs, gone, read)
  PROVE  /\ rec' = Without(recs, gone) /\ disk' = rec' /\ rec' \in [Src -> Known]
         /\ dirty' = FALSE /\ flush_age' = 0
         /\ real' \in [Src -> Nat] /\ \A s \in Src : real'[s] = IF s \in gone THEN 0 ELSE real[s]
  <1>1. real \in [Src -> Nat]
    BY TypeParts DEF PastOK
  <1>2. QED
    BY <1>1, WithoutDrops DEF Pruned, Save

LEMMA NextType == TypeOK /\ BusyInv /\ [Next]_vars => TypeOK' /\ BusyInv'
  <1> SUFFICES ASSUME TypeOK, BusyInv, [Next]_vars PROVE TypeOK' /\ BusyInv'
    OBVIOUS
  <1> USE DEF world, journal, limits, past
  <1>0. JournalOK /\ LimitsOK /\ ProcessOK /\ PastOK
    BY TypeParts
  <1>a. JournalOK' /\ LimitsOK' /\ ProcessOK' /\ PastOK' => TypeOK'
    BY TypeParts, PTL
  <1>b. NoRecs \in [Src -> Known]
    BY KnownFields DEF NoRecs
  <1>c. ASSUME UNCHANGED <<limits, src, ttl, here, world>>, pc' = "idle", enforce' \in BOOLEAN, faults' \in Nat,
               NEW recs \in [Src -> Known], NEW gone, NEW read, read \in BOOLEAN, boot' = read, Pruned(recs, gone, read)
        PROVE  TypeOK' /\ BusyInv'
    <2>0. /\ disk' = rec' /\ rec' \in [Src -> Known] /\ dirty' = FALSE /\ flush_age' = 0
          /\ real' \in [Src -> Nat]
      BY <1>c, PrunedKeeps
    <2>a. stamped' \in BOOLEAN /\ boot' \in BOOLEAN
      BY <1>c, Zenon DEF Pruned, Save
    <2>1. JournalOK' /\ PastOK'
      BY <1>0, <1>c, <2>0, <2>a DEF JournalOK, PastOK
    <2>2. LimitsOK' /\ ProcessOK' /\ BusyInv'
      BY <1>0, <1>c DEF LimitsOK, ProcessOK, BusyInv
    <2>3. QED
      BY <1>a, <2>1, <2>2
  <1>e. ASSUME disk' \in [Src -> Known], rec' \in [Src -> Known], stamped' = stamped \/ stamped' = boot, UNCHANGED boot,
               dirty' = dirty \/ dirty' = FALSE, flush_age' \in {flush_age, 0}
        PROVE  JournalOK'
    <2>1. stamped' \in BOOLEAN /\ boot' \in BOOLEAN /\ dirty' \in BOOLEAN
      <3>1. stamped \in BOOLEAN /\ boot \in BOOLEAN /\ dirty \in BOOLEAN
        BY <1>0 DEF JournalOK
      <3>2. QED
        BY <1>e, <3>1, Zenon
    <2>2. flush_age' \in Nat
      BY <1>0, <1>e DEF JournalOK
    <2>3. QED
      BY <1>e, <2>1, <2>2 DEF JournalOK
  <1>f. ASSUME faults' \in {faults, faults + 1} PROVE faults' \in Nat
    <2>1. faults \in Nat
      BY <1>0 DEF PastOK
    <2>2. QED
      BY <1>f, <2>1
  <1>g. Fault \/ Works => faults' \in {faults, faults + 1}
    BY DEF Fault, Works
  <1>d. ASSUME NEW recs \in [Src -> Known], NEW touched \in BOOLEAN, Flush(recs, touched), UNCHANGED boot
        PROVE  JournalOK' /\ faults' \in Nat
    <2>1. JournalIs(recs) /\ dirty' \in BOOLEAN /\ flush_age' \in Nat /\ faults' \in Nat
      BY <1>d, Flushed
    <2>2. stamped' \in BOOLEAN /\ boot' \in BOOLEAN
      <3>1. stamped \in BOOLEAN /\ boot \in BOOLEAN
        BY <1>0 DEF JournalOK
      <3>2. stamped' = stamped \/ stamped' = boot
        BY <2>1 DEF JournalIs
      <3>3. QED
        BY <1>d, <3>1, <3>2, Zenon
    <2>3. disk' \in [Src -> Known] /\ rec' \in [Src -> Known]
      BY <1>0, <1>d, <2>1 DEF JournalOK, JournalIs
    <2>4. QED
      BY <2>1, <2>2, <2>3 DEF JournalOK
  <1>1. CASE Start \/ StartAfresh
    <2>1. PICK read \in BOOLEAN : Wake(read) /\ (Fault \/ Works)
                                 /\ \E gone : Pruned(Loaded(read), gone, read) \/ Pruned(NoRecs, gone, read)
      BY <1>1 DEF Start, StartAfresh
    <2>2. Loaded(read) \in [Src -> Known]
      BY <1>0, LoadedKeeps DEF JournalOK
    <2>3. faults' \in Nat
      BY <1>f, <1>g, <2>1
    <2>4. /\ UNCHANGED <<limits, src, ttl, here, world>> /\ pc' = "idle" /\ enforce' \in BOOLEAN /\ boot' = read
      BY <2>1 DEF Wake
    <2>5. QED
      BY <1>b, <1>c, <2>1, <2>2, <2>3, <2>4
  <1>2. CASE Prune
    <2>1. PICK gone : Pruned(rec, gone, boot)
      BY <1>2 DEF Prune
    <2>2. /\ UNCHANGED <<limits, src, ttl, here, world>> /\ pc' = "idle" /\ enforce' \in BOOLEAN /\ faults' \in Nat
          /\ boot' = boot
      BY <1>0, <1>2 DEF Prune, ProcessOK, PastOK
    <2>3. rec \in [Src -> Known] /\ boot \in BOOLEAN
      BY <1>0 DEF JournalOK
    <2>4. QED
      BY <1>c, <2>1, <2>2, <2>3
  <1>3. CASE Loop \/ AllowUnknown
    <2>1. Flush(rec, FALSE) /\ pc = "idle" /\ UNCHANGED <<world, pc, src, ttl, enforce, boot, minute, hour, tried, again, past>>
      BY <1>3 DEF Loop, AllowUnknown
    <2>2. cache' \subseteq Src /\ cache_age' \in Nat
      <3>1. CASE Loop
        BY <1>0, <3>1 DEF Loop, LimitsOK
      <3>2. CASE AllowUnknown
        BY <3>2, TimeAssumption DEF AllowUnknown, Unfetched, TimeAssumption
      <3>3. QED
        BY <1>3, <3>1, <3>2
    <2>3. JournalOK' /\ faults' \in Nat
      BY <1>0, <1>d, <2>1 DEF JournalOK
    <2>4. LimitsOK' /\ ProcessOK' /\ PastOK' /\ BusyInv'
      BY <1>0, <2>1, <2>2, <2>3 DEF LimitsOK, ProcessOK, PastOK, BusyInv
    <2>5. QED
      BY <1>a, <2>3, <2>4
  <1>4. ASSUME NEW s \in Src, SkipProtected(s) \/ Sighting(s) \/ Suppress(s)
        PROVE  TypeOK' /\ BusyInv'
    <2>1. PICK recs \in {rec, Seen(s)}, touched \in BOOLEAN : Flush(recs, touched)
      BY <1>4, Dismissed
    <2>2. recs \in [Src -> Known]
      BY <1>0, SeenKeeps DEF JournalOK
    <2>3. /\ pc = "idle" /\ UNCHANGED <<world, pc, src, ttl, enforce, boot, minute, hour, tried, again, past>>
          /\ cache' \subseteq Src /\ cache_age' \in Nat
      BY <1>4, Dismissed, Refreshed
    <2>4. JournalOK' /\ faults' \in Nat
      BY <1>d, <2>1, <2>2, <2>3
    <2>5. LimitsOK' /\ ProcessOK' /\ PastOK' /\ BusyInv'
      BY <1>0, <2>3, <2>4 DEF LimitsOK, ProcessOK, PastOK, BusyInv
    <2>6. QED
      BY <1>a, <2>4, <2>5
  <1>5. ASSUME NEW s \in Src, Attempt(s)
        PROVE  pc = "idle" /\ LimitsOK'
    <2>1. minute \in Seq(Nat) /\ tried \in [Src -> Nat] /\ hour \in [Src -> Nat]
      BY <1>0 DEF LimitsOK
    <2>2. Recent(minute, Minute) \in Seq(Nat)
      BY <2>1, RecentType
    <2>3. minute' \in Seq(Nat)
      BY <1>5, <2>2, AppendProperties DEF Attempt, CountAttempt
    <2>4. hour' \in [Src -> Nat] /\ tried' \in [Src -> Nat] /\ again' \subseteq Src
      BY <1>0, <1>5, <2>1 DEF Attempt, CountAttempt, LimitsOK
    <2>5. cache' \subseteq Src /\ cache_age' \in Nat /\ pc = "idle"
      BY <1>5, Refreshed DEF Attempt
    <2>6. QED
      BY <2>3, <2>4, <2>5 DEF LimitsOK
  <1>6. ASSUME NEW s \in Src, Shadow(s) PROVE TypeOK' /\ BusyInv'
    <2>1. Offense(s, Doubled(rec[s].count), TRUE) \in [Src -> Known]
      BY <1>0, OffenseAdds, DoubledType DEF JournalOK
    <2>2. Attempt(s) /\ Flush(Offense(s, Doubled(rec[s].count), TRUE), TRUE)
      BY <1>6 DEF Shadow
    <2>3. UNCHANGED <<world, pc, src, ttl, enforce, boot, real>> /\ here' = [here EXCEPT ![s] = TRUE]
      BY <1>6 DEF Shadow
    <2>4. JournalOK' /\ faults' \in Nat
      BY <1>d, <2>1, <2>2, <2>3
    <2>5. pc = "idle" /\ LimitsOK'
      BY <1>5, <2>2
    <2>6. ProcessOK' /\ PastOK' /\ BusyInv'
      BY <1>0, <2>3, <2>4, <2>5 DEF ProcessOK, PastOK, BusyInv
    <2>7. QED
      BY <1>a, <2>4, <2>5, <2>6
  <1>7. ASSUME NEW s \in Src, Act(s) PROVE TypeOK' /\ BusyInv'
    <2>1. Attempt(s) /\ pc' = "block" /\ src' = s /\ ttl' \in Nat /\ UNCHANGED <<world, journal, enforce, past, faults>>
      BY <1>7, DoubledType DEF Act
    <2>2. LimitsOK'
      BY <1>5, <2>1
    <2>3. JournalOK' /\ ProcessOK' /\ PastOK' /\ BusyInv'
      BY <1>0, <2>1 DEF JournalOK, ProcessOK, PastOK, BusyInv
    <2>4. QED
      BY <1>a, <2>2, <2>3
  <1>8. CASE Block
    <2>1. PastOK'
      BY <1>0, <1>8 DEF Block, PastOK, BusyInv
    <2>2. JournalOK' /\ LimitsOK' /\ ProcessOK' /\ BusyInv'
      BY <1>0, <1>8 DEF Block, JournalOK, LimitsOK, ProcessOK, BusyInv
    <2>3. QED
      BY <1>a, <2>1, <2>2
  <1>9. MayLand => real' \in [Src -> Nat]
    BY <1>0 DEF MayLand, BusyInv, PastOK
  <1>10. CASE BlockFails
    <2>1. UNCHANGED <<world, enforce, boot, limits, here>> /\ pc' = "idle" /\ src' = Nobody /\ ttl' = 0
      BY <1>10 DEF BlockFails, Idled
    <2>2. real' \in [Src -> Nat]
      BY <1>0, <1>9, <1>10 DEF BlockFails, PastOK
    <2>3. JournalOK' /\ faults' \in Nat
      <3>1. CASE Flush(rec, FALSE)
        BY <1>0, <1>d, <2>1, <3>1 DEF JournalOK
      <3>2. CASE ~Flush(rec, FALSE)
        <4>1. /\ rec' = rec
              /\ disk' \in {disk, rec} /\ (stamped' = stamped \/ stamped' = boot) /\ UNCHANGED boot
              /\ (dirty' = dirty \/ dirty' = FALSE) /\ flush_age' \in {flush_age, 0} /\ faults' = faults + 1
          BY <1>10, <3>2 DEF BlockFails, Save, Fault
        <4>2. disk' \in [Src -> Known] /\ rec' \in [Src -> Known]
          BY <1>0, <4>1 DEF JournalOK
        <4>3. QED
          BY <1>e, <1>f, <4>1, <4>2
      <3>3. QED
        BY <3>1, <3>2
    <2>4. LimitsOK' /\ ProcessOK' /\ PastOK' /\ BusyInv'
      BY <1>0, <2>1, <2>2, <2>3 DEF LimitsOK, ProcessOK, PastOK, BusyInv
    <2>5. QED
      BY <1>a, <2>3, <2>4
  <1>11. CASE RecordOffense
    <2>1. rec' = Offense(src, ttl, FALSE) /\ pc = "record"
      BY <1>11 DEF RecordOffense
    <2>2. rec' \in [Src -> Known] /\ src \in Src
      BY <1>0, <2>1, OffenseAdds DEF JournalOK, ProcessOK, BusyInv
    <2>3. /\ disk' \in {disk, rec'} /\ (stamped' = stamped \/ stamped' = boot) /\ UNCHANGED boot
          /\ (dirty' = dirty \/ dirty' = FALSE) /\ flush_age' \in {flush_age, 0}
          /\ faults' \in {faults, faults + 1}
      BY <1>11 DEF RecordOffense, Save, Fault, Works
    <2>4. JournalOK'
      <3>1. disk' \in [Src -> Known]
        BY <1>0, <2>2, <2>3 DEF JournalOK
      <3>2. QED
        BY <1>e, <2>2, <2>3, <3>1
    <2>5. LimitsOK' /\ ProcessOK' /\ BusyInv'
      BY <1>0, <1>11 DEF RecordOffense, Idled, LimitsOK, ProcessOK, BusyInv
    <2>6. PastOK'
      <3>1. faults' \in Nat
        BY <1>f, <2>3
      <3>2. QED
        BY <1>0, <1>11, <2>2, <3>1 DEF RecordOffense, PastOK
    <2>7. QED
      BY <1>a, <2>4, <2>5, <2>6
  <1>12. ASSUME NEW flushed \in BOOLEAN, Die(flushed), real' \in [Src -> Nat], here' \in [Src -> BOOLEAN],
                faults' \in Nat
         PROVE  TypeOK' /\ BusyInv'
    <2>1. disk' \in [Src -> Known] /\ stamped' \in BOOLEAN
      <3>1. disk \in [Src -> Known] /\ rec \in [Src -> Known] /\ stamped \in BOOLEAN /\ boot \in BOOLEAN
        BY <1>0 DEF JournalOK
      <3>2. (disk' = disk \/ disk' = rec) /\ (stamped' = stamped \/ stamped' = boot)
        BY <1>12 DEF Die
      <3>3. stamped' \in BOOLEAN
        BY <3>1, <3>2, Zenon
      <3>4. QED
        BY <3>1, <3>2, <3>3
    <2>2. JournalOK' /\ ProcessOK' /\ PastOK' /\ BusyInv'
      BY <1>0, <1>b, <1>12, <2>1 DEF Die, JournalOK, ProcessOK, PastOK, BusyInv
    <2>3. LimitsOK'
      BY <1>12, TimeAssumption DEF Die, LimitsOK, Unfetched, Untried, TimeAssumption
    <2>4. QED
      BY <1>a, <2>2, <2>3
  <1>13. CASE Stop \/ StopFails \/ IdleFails
    <2>1. \E flushed \in BOOLEAN : Die(flushed)
      BY <1>13 DEF Stop, StopFails, IdleFails
    <2>2. faults' \in Nat
      BY <1>f, <1>g, <1>13 DEF Stop, StopFails, IdleFails
    <2>3. UNCHANGED past
      BY <1>13 DEF Stop, StopFails, IdleFails
    <2>4. real' \in [Src -> Nat] /\ here' \in [Src -> BOOLEAN]
      BY <1>0, <2>3 DEF PastOK
    <2>5. QED
      BY <1>12, <2>1, <2>2, <2>4
  <1>14. CASE StopInBlock \/ Kill
    <2>1. \E flushed \in BOOLEAN : Die(flushed)
      BY <1>14 DEF StopInBlock, Kill
    <2>2. faults' \in Nat
      BY <1>f, <1>g, <1>14 DEF StopInBlock, Kill
    <2>3. real' \in [Src -> Nat] /\ UNCHANGED here
      BY <1>9, <1>14 DEF StopInBlock, Kill
    <2>4. here' \in [Src -> BOOLEAN]
      BY <1>0, <2>3 DEF PastOK
    <2>5. QED
      BY <1>12, <2>1, <2>2, <2>3, <2>4
  <1>15. CASE Reboot
    <2>a. faults' \in Nat
      BY <1>f, <1>g, <1>15 DEF Reboot
    <2>b. JournalOK'
      BY <1>0, <1>15 DEF Reboot, JournalOK
    <2>1. JournalOK' /\ PastOK'
      BY <1>0, <1>15, <2>a, <2>b DEF Reboot, PastOK
    <2>2. LimitsOK' /\ ProcessOK' /\ BusyInv'
      BY <1>0, <1>15 DEF Reboot, LimitsOK, ProcessOK, BusyInv
    <2>3. QED
      BY <1>a, <2>1, <2>2
  <1>16. CASE Tick
    <2>1. disk' \in [Src -> Known] /\ rec' \in [Src -> Known] /\ (pc = "down" => rec' = NoRecs)
      BY <1>0, <1>16, PassedKeeps DEF Tick, JournalOK, BusyInv
    <2>2. minute' \in Seq(Nat)
      BY <1>0, <1>16, OlderSeq, RecentType DEF Tick, LimitsOK
    <2>3. LimitsOK'
      BY <1>0, <1>16, <2>2 DEF Tick, LimitsOK, Older
    <2>4. PastOK'
      BY <1>0, <1>16 DEF Tick, PastOK, Older
    <2>5. JournalOK' /\ ProcessOK' /\ BusyInv'
      BY <1>0, <1>16, <2>1, TimeAssumption DEF Tick, JournalOK, ProcessOK, BusyInv, TimeAssumption
    <2>6. QED
      BY <1>a, <2>3, <2>4, <2>5
  <1>17. ASSUME NEW s \in Src, AllowChange(s) PROVE TypeOK' /\ BusyInv'
    <2>1. PastOK'
      BY <1>0, <1>17 DEF AllowChange, PastOK
    <2>2. JournalOK' /\ LimitsOK' /\ ProcessOK' /\ BusyInv'
      BY <1>0, <1>17 DEF AllowChange, JournalOK, LimitsOK, ProcessOK, BusyInv
    <2>3. QED
      BY <1>a, <2>1, <2>2
  <1>18. CASE UNCHANGED vars
    BY <1>0, <1>a, <1>18 DEF vars, JournalOK, LimitsOK, ProcessOK, PastOK, BusyInv
  <1>19. QED
    BY <1>1, <1>2, <1>3, <1>4, <1>6, <1>7, <1>8, <1>10, <1>11, <1>13, <1>14, <1>15, <1>16, <1>17, <1>18
    DEF Next, Alert, Finish

-----------------------------------------------------------------------------
LEMMA UnrecordedType == ASSUME NEW s PROVE Unrecorded(s) \in {0, 1}
  BY DEF Unrecorded

(* What the parts of CountInv say of one source, in numbers. *)
LEMMA CountsOf ==
  ASSUME TypeOK, CountInv, NEW x \in Src
  PROVE  /\ disk[x].count \in Nat /\ rec[x].count \in Nat /\ real[x] \in Nat /\ faults \in Nat
         /\ disk[x].count + Unrecorded(x) <= real[x]
         /\ real[x] <= disk[x].count + faults + Unrecorded(x)
         /\ pc # "down" => /\ rec[x].count + Unrecorded(x) <= real[x]
                           /\ real[x] <= rec[x].count + faults + Unrecorded(x)
  <1>1. disk[x] \in Known /\ rec[x] \in Known /\ real[x] \in Nat /\ faults \in Nat
    BY TypeParts DEF JournalOK, PastOK
  <1>2. QED
    BY <1>1, KnownFields DEF CountInv, Counts

SameCounts(a, b) == \A s \in Src : a[s].count = b[s].count

LEMMA Same == \A a, b : a = b => SameCounts(a, b)
  BY DEF SameCounts

(* A step that leaves the history keeps counts that come from kept ones. *)
LEMMA CountKept ==
  ASSUME TypeOK, CountInv, UNCHANGED real, faults' \in Nat, faults' >= faults,
         UNCHANGED <<pc, src>> \/ (pc # "record" /\ pc' # "record"),
         SameCounts(disk', disk) \/ (pc # "down" /\ SameCounts(disk', rec)),
         pc' # "down" => pc # "down" /\ SameCounts(rec', rec)
  PROVE  CountInv'
  <1> SUFFICES ASSUME NEW x \in Src
               PROVE  Counts(disk, x)' /\ (pc' # "down" => Counts(rec, x)')
    BY DEF CountInv
  <1>1. Unrecorded(x) \in {0, 1} /\ Unrecorded(x)' = Unrecorded(x) /\ real'[x] = real[x]
    BY UnrecordedType DEF Unrecorded
  <1>2. Counts(disk, x)'
    <2>1. disk'[x].count = disk[x].count \/ (pc # "down" /\ disk'[x].count = rec[x].count)
      BY DEF SameCounts
    <2>2. QED
      BY <1>1, <2>1, CountsOf DEF Counts
  <1>3. pc' # "down" => Counts(rec, x)'
    <2>1. pc' # "down" => pc # "down" /\ rec'[x].count = rec[x].count
      BY DEF SameCounts
    <2>2. QED
      BY <1>1, <2>1, CountsOf DEF Counts
  <1>4. QED
    BY <1>2, <1>3

LEMMA NextCount == TypeOK /\ BusyInv /\ CountInv /\ [Next]_vars => CountInv'
  <1> SUFFICES ASSUME TypeOK, BusyInv, CountInv, [Next]_vars PROVE CountInv'
    OBVIOUS
  <1> USE DEF past
  <1>0. /\ disk \in [Src -> Known] /\ rec \in [Src -> Known] /\ real \in [Src -> Nat] /\ faults \in Nat
        /\ pc \in {"block", "record"} => src \in Src
    BY TypeParts DEF JournalOK, PastOK, BusyInv
  <1>a. \A x \in Src : Unrecorded(x) \in {0, 1}
    BY UnrecordedType
  <1>b. ASSUME NEW recs, NEW touched \in BOOLEAN, Flush(recs, touched), UNCHANGED real, pc = "idle", pc' \in {"idle", "block"},
               SameCounts(recs, rec)
        PROVE  CountInv'
    <2>1. JournalIs(recs) /\ faults' \in Nat /\ faults' >= faults
      BY <1>b, Flushed
    <2>0. SameCounts(rec', rec) /\ (SameCounts(disk', disk) \/ SameCounts(disk', rec))
      <3>1. rec' = recs /\ (disk' = disk \/ disk' = recs)
        BY <2>1 DEF JournalIs
      <3>2. QED
        BY <1>b, <3>1, Same
    <2>2. pc # "down" /\ pc # "record" /\ pc' # "record"
      BY <1>b
    <2>3. QED
      BY <1>b, <2>0, <2>1, <2>2, CountKept
  <1>c. ASSUME NEW recs \in [Src -> Known], NEW gone, NEW read, Pruned(recs, gone, read),
               pc \in {"down", "idle"}, pc' = "idle", faults' \in {faults, faults + 1},
               SameCounts(recs, disk) \/ (pc # "down" /\ SameCounts(recs, rec)) \/ gone = Src
        PROVE  CountInv'
    <2> SUFFICES ASSUME NEW x \in Src
                 PROVE  Counts(disk, x)' /\ Counts(rec, x)'
      BY DEF CountInv
    <2>1. /\ rec'[x] = Without(recs, gone)[x] /\ disk'[x] = rec'[x]
          /\ real'[x] = IF x \in gone THEN 0 ELSE real[x]
      BY <1>c, PrunedKeeps
    <2>2. rec'[x].count = IF x \in gone THEN 0 ELSE recs[x].count
      BY <1>c, <2>1, WithoutDrops, KnownFields
    <2>3. Unrecorded(x) = 0 /\ Unrecorded(x)' = 0
      BY <1>c DEF Unrecorded
    <2>4. recs[x].count = disk[x].count \/ (pc # "down" /\ recs[x].count = rec[x].count) \/ x \in gone
      BY <1>c DEF SameCounts
    <2>5. Counts(rec, x)'
      BY <1>c, <2>1, <2>2, <2>3, <2>4, CountsOf DEF Counts
    <2>6. QED
      BY <2>1, <2>5 DEF Counts
  <1>e. Fault \/ Works => faults' \in {faults, faults + 1}
    BY DEF Fault, Works
  <1>1. CASE Start
    <2>1. PICK read \in BOOLEAN : Wake(read) /\ (Fault \/ Works) /\ \E gone : Pruned(Loaded(read), gone, read)
      BY <1>1 DEF Start
    <2>2. PICK gone : Pruned(Loaded(read), gone, read)
      BY <2>1
    <2>3. Loaded(read) \in [Src -> Known] /\ SameCounts(Loaded(read), disk)
      BY <1>0, LoadedKeeps DEF SameCounts
    <2>4. pc = "down" /\ pc' = "idle" /\ faults' \in {faults, faults + 1}
      BY <1>e, <2>1 DEF Wake
    <2>5. QED
      BY <1>c, <2>2, <2>3, <2>4
  <1>f. CASE StartAfresh
    <2>1. PICK read \in BOOLEAN : Wake(read) /\ Fault /\ Pruned(NoRecs, Src, read)
      BY <1>f DEF StartAfresh
    <2>2. NoRecs \in [Src -> Known]
      BY KnownFields DEF NoRecs
    <2>3. pc = "down" /\ pc' = "idle" /\ faults' \in {faults, faults + 1}
      BY <1>e, <2>1 DEF Wake
    <2>4. QED
      BY <1>c, <2>1, <2>2, <2>3
  <1>2. CASE Prune
    <2>1. PICK gone : Pruned(rec, gone, boot)
      BY <1>2 DEF Prune
    <2>2. pc = "idle" /\ pc' = "idle" /\ faults' \in {faults, faults + 1} /\ boot \in BOOLEAN
      BY <1>2, TypeParts DEF Prune, JournalOK
    <2>3. QED
      BY <1>0, <1>c, <2>1, <2>2, Same
  <1>3. CASE Loop \/ AllowUnknown
    BY <1>3, <1>b, Same DEF Loop, AllowUnknown
  <1>4. ASSUME NEW s \in Src, SkipProtected(s) \/ Sighting(s) \/ Suppress(s)
        PROVE  CountInv'
    <2>1. PICK recs \in {rec, Seen(s)}, touched \in BOOLEAN : Flush(recs, touched)
      BY <1>4, Dismissed
    <2>2. SameCounts(recs, rec)
      BY <1>0, SeenKeeps DEF SameCounts
    <2>3. UNCHANGED real /\ pc = "idle" /\ pc' = "idle"
      BY <1>4, Dismissed
    <2>4. QED
      BY <1>b, <2>1, <2>2, <2>3
  <1>5. ASSUME NEW s \in Src, Shadow(s) PROVE CountInv'
    <2>0. Doubled(rec[s].count) \in Nat
      BY DoubledType
    <2>1. SameCounts(Offense(s, Doubled(rec[s].count), TRUE), rec)
      <3>1. rec \in [Src -> Known]
        BY <1>0
      <3>2. Offense(s, Doubled(rec[s].count), TRUE)[s].count = rec[s].count
        BY <2>0, <3>1, OffenseAdds
      <3>3. \A x \in Src \ {s} : Offense(s, Doubled(rec[s].count), TRUE)[x] = rec[x]
        BY <2>0, <3>1, OffenseAdds
      <3>4. QED
        BY <3>2, <3>3 DEF SameCounts
    <2>2. pc = "idle" /\ pc' = "idle" /\ UNCHANGED real /\ Flush(Offense(s, Doubled(rec[s].count), TRUE), TRUE)
      BY <1>5 DEF Shadow, Attempt
    <2>3. QED
      BY <1>b, <2>1, <2>2
  <1>6. ASSUME NEW s \in Src, Act(s) PROVE CountInv'
    <2>1. pc = "idle" /\ pc' = "block" /\ UNCHANGED <<disk, rec, real, faults>>
      BY <1>6 DEF Act, Attempt, journal
    <2>2. faults' \in Nat /\ faults' >= faults
      BY <1>0, <2>1
    <2>3. QED
      BY <2>1, <2>2, CountKept, Same
  <1>7. CASE Block
    <2> SUFFICES ASSUME NEW x \in Src
                 PROVE  Counts(disk, x)' /\ Counts(rec, x)'
      BY DEF CountInv
    <2>1. UNCHANGED <<disk, rec, faults>> /\ pc = "block" /\ pc' = "record" /\ src' = src /\ src \in Src
      BY <1>0, <1>7 DEF Block, journal
    <2>2. real'[x] = real[x] + Unrecorded(x)' /\ Unrecorded(x) = 0 /\ Unrecorded(x)' \in {0, 1}
      BY <1>0, <1>7, <2>1 DEF Block, Unrecorded
    <2>3. QED
      BY <2>1, <2>2, CountsOf DEF Counts
  <1>8. MayLand /\ pc # "down"
          => \A x \in Src : /\ real'[x] \in {real[x], real[x] + 1}
                            /\ real'[x] = real[x] + 1 => Unrecorded(x) = 0
    BY <1>0 DEF MayLand, Unrecorded
  <1>9. CASE BlockFails
    <2>1. pc = "block" /\ pc' = "idle"
      BY <1>9 DEF BlockFails, Idled
    <2>2. CASE Flush(rec, FALSE) /\ UNCHANGED real
      <3>1. JournalIs(rec) /\ faults' \in Nat /\ faults' >= faults
        BY <2>2, Flushed
      <3>2. QED
        BY <2>1, <2>2, <3>1, CountKept, Same DEF JournalIs
    <2>3. CASE MayLand /\ Fault /\ disk' \in {disk, rec} /\ UNCHANGED rec
      <3> SUFFICES ASSUME NEW x \in Src
                   PROVE  Counts(disk, x)' /\ Counts(rec, x)'
        BY DEF CountInv
      <3>1. real'[x] \in {real[x], real[x] + 1} /\ faults' = faults + 1
        BY <1>8, <2>1, <2>3 DEF Fault
      <3>2. Unrecorded(x) = 0 /\ Unrecorded(x)' = 0
        BY <2>1 DEF Unrecorded
      <3>3. disk'[x].count \in {disk[x].count, rec[x].count} /\ rec'[x].count = rec[x].count
        BY <2>3
      <3>4. QED
        BY <2>1, <3>1, <3>2, <3>3, CountsOf DEF Counts
    <2>4. QED
      BY <1>9, <2>2, <2>3 DEF BlockFails, Save
  <1>10. CASE RecordOffense
    <2> SUFFICES ASSUME NEW x \in Src
                 PROVE  Counts(disk, x)' /\ Counts(rec, x)'
      BY DEF CountInv
    <2>1. rec' = Offense(src, ttl, FALSE) /\ UNCHANGED real /\ pc = "record" /\ pc' = "idle" /\ src \in Src
      BY <1>0, <1>10 DEF RecordOffense, Idled
    <2>0. (disk' = rec' /\ UNCHANGED faults) \/ (UNCHANGED disk /\ faults' = faults + 1)
      <3>1. (Save(rec', boot) /\ Works) \/ (UNCHANGED disk /\ Fault)
        BY <1>10 DEF RecordOffense
      <3>2. QED
        BY <3>1 DEF Save, Works, Fault
    <2>2. rec'[x].count = rec[x].count + Unrecorded(x)
      <3>1. ttl \in Nat
        BY TypeParts DEF ProcessOK
      <3>2. CASE x = src
        BY <1>0, <2>1, <3>1, <3>2, OffenseAdds, KnownFields DEF Unrecorded
      <3>3. CASE x # src
        <4>0. rec \in [Src -> Known] /\ rec[x].count \in Nat
          BY <1>0, KnownFields
        <4>1. rec'[x] = rec[x]
          BY <2>1, <3>1, <3>3, <4>0, OffenseAdds
        <4>2. QED
          BY <3>3, <4>0, <4>1 DEF Unrecorded
      <3>4. QED
        BY <3>2, <3>3
    <2>3. Unrecorded(x) \in {0, 1} /\ Unrecorded(x)' = 0 /\ real'[x] = real[x]
      BY <1>a, <2>1 DEF Unrecorded
    <2>4. faults' \in {faults, faults + 1}
      BY <2>0
    <2>5. /\ rec[x].count \in Nat /\ disk[x].count \in Nat /\ real[x] \in Nat
          /\ rec[x].count + Unrecorded(x) <= real[x] /\ real[x] <= rec[x].count + faults + Unrecorded(x)
          /\ disk[x].count + Unrecorded(x) <= real[x] /\ real[x] <= disk[x].count + faults + Unrecorded(x)
      BY <2>1, CountsOf
    <2>6. Counts(rec, x)'
      BY <1>0, <2>2, <2>3, <2>4, <2>5 DEF Counts
    <2>7. CASE disk' = rec'
      BY <2>6, <2>7 DEF Counts
    <2>8. CASE UNCHANGED disk /\ faults' = faults + 1
      <3>1. faults \in Nat
        BY <1>0
      <3>2. disk'[x].count = disk[x].count /\ faults' = faults + 1
        BY <2>8
      <3>3. QED
        BY <2>3, <2>5, <2>6, <3>1, <3>2 DEF Counts
    <2>9. QED
      BY <2>0, <2>6, <2>7, <2>8
  <1>11. ASSUME pc # "down", NEW flushed \in BOOLEAN, Die(flushed),
                \/ MayLand /\ Fault
                \/ UNCHANGED real /\ pc = "idle" /\ (UNCHANGED faults \/ Fault)
         PROVE  CountInv'
    <2> SUFFICES ASSUME NEW x \in Src
                 PROVE  Counts(disk, x)'
      BY <1>11 DEF CountInv, Die
    <2>1. disk' \in {disk, rec} /\ pc' = "down"
      BY <1>11 DEF Die
    <2>2. disk'[x].count \in {disk[x].count, rec[x].count}
      BY <2>1
    <2>3. Unrecorded(x)' = 0 /\ Unrecorded(x) \in {0, 1} /\ (pc = "idle" => Unrecorded(x) = 0)
      BY <2>1 DEF Unrecorded
    <2>4. CASE MayLand /\ Fault
      <3>1. faults' = faults + 1 /\ real'[x] \in {real[x], real[x] + 1} /\ (real'[x] = real[x] + 1 => Unrecorded(x) = 0)
        BY <1>8, <1>11, <2>4 DEF Fault
      <3>2. QED
        BY <1>11, <2>2, <2>3, <3>1, CountsOf DEF Counts
    <2>5. CASE UNCHANGED real /\ pc = "idle" /\ (UNCHANGED faults \/ Fault)
      <3>1. real'[x] = real[x] /\ faults' \in {faults, faults + 1} /\ Unrecorded(x) = 0
        BY <2>3, <2>5 DEF Fault
      <3>2. QED
        BY <1>11, <2>2, <2>3, <3>1, CountsOf DEF Counts
    <2>6. QED
      BY <1>11, <2>4, <2>5
  <1>12. CASE Stop \/ StopFails \/ IdleFails
    BY <1>11, <1>12 DEF Stop, StopFails, IdleFails
  <1>13. CASE StopInBlock \/ Kill
    BY <1>11, <1>13 DEF StopInBlock, Kill
  <1>14. CASE Reboot
    <2>1. UNCHANGED <<disk, rec, real, pc, src>> /\ faults' = faults + 1
      BY <1>14 DEF Reboot, Fault
    <2>2. faults' \in Nat /\ faults' >= faults
      BY <1>0, <2>1
    <2>3. QED
      BY <2>1, <2>2, CountKept, Same
  <1>15. CASE Tick
    <2>1. UNCHANGED <<real, pc, src, faults>> /\ disk' = Passed(disk) /\ rec' = Passed(rec)
      BY <1>15 DEF Tick
    <2>2. SameCounts(disk', disk) /\ SameCounts(rec', rec)
      BY <1>0, <2>1, PassedKeeps DEF SameCounts
    <2>3. QED
      BY <1>0, <2>1, <2>2, CountKept
  <1>16. CASE (\E s \in Src : AllowChange(s)) \/ UNCHANGED vars
    <2>1. UNCHANGED <<disk, rec, real, pc, src, faults>>
      BY <1>16 DEF AllowChange, vars, journal
    <2>2. QED
      BY <1>0, <2>1, CountKept, Same
  <1>17. QED
    BY <1>1, <1>f, <1>2, <1>3, <1>4, <1>5, <1>6, <1>7, <1>9, <1>10, <1>12, <1>13, <1>14, <1>15, <1>16
    DEF Next, Alert, Finish

-----------------------------------------------------------------------------
(* A step that makes recs of what is in memory keeps the windows, when the *)
(* windows of recs are of this boot.                                       *)
LEMMA WindowKept ==
  ASSUME WindowInv, NEW recs, JournalIs(recs),
         \A x \in Src : here[x] => here'[x],
         \A x \in Src : InWindow(recs[x]) => here'[x]
  PROVE  WindowInv'
  <1>1. \A x \in Src : InWindow(rec'[x]) => here'[x]
    BY DEF JournalIs
  <1>2. CASE UNCHANGED <<disk, stamped>>
    BY <1>1, <1>2 DEF WindowInv
  <1>3. CASE disk' = recs
    BY <1>1, <1>3 DEF WindowInv
  <1>4. QED
    BY <1>2, <1>3 DEF JournalIs

LEMMA NextWindow == TypeOK /\ BusyInv /\ WindowInv /\ [Next]_vars => WindowInv'
  <1> SUFFICES ASSUME TypeOK, BusyInv, WindowInv, [Next]_vars PROVE WindowInv'
    OBVIOUS
  <1> USE DEF past
  <1>0. /\ disk \in [Src -> Known] /\ rec \in [Src -> Known] /\ here \in [Src -> BOOLEAN] /\ ttl \in Nat
        /\ pc \in {"block", "record"} => src \in Src
    BY TypeParts DEF JournalOK, PastOK, ProcessOK, BusyInv
  <1>a. pc # "down" => \A x \in Src : InWindow(rec[x]) => here[x]
    BY DEF WindowInv
  <1>b. ASSUME NEW recs \in [Src -> Known], NEW gone, NEW read, Pruned(recs, gone, read), UNCHANGED here,
               \A x \in Src : InWindow(recs[x]) => here[x]
        PROVE  WindowInv'
    <2>1. rec' = Without(recs, gone) /\ disk' = rec'
      BY <1>b, PrunedKeeps
    <2>2. \A x \in Src : InWindow(rec'[x]) => InWindow(recs[x])
      BY <1>b, <2>1, WithoutDrops, KnownFields DEF InWindow
    <2>3. QED
      BY <1>b, <2>1, <2>2 DEF WindowInv
  <1>c. ASSUME pc # "down", JournalIs(rec), UNCHANGED here
        PROVE  WindowInv'
    <2>1. \A x \in Src : InWindow(rec[x]) => here'[x]
      BY <1>a, <1>c
    <2>2. QED
      BY <1>c, <2>1, WindowKept
  <1>d. ASSUME NEW s \in Src, NEW time \in Nat, NEW shadow \in BOOLEAN, pc # "down",
               JournalIs(Offense(s, time, shadow)), here' = [here EXCEPT ![s] = TRUE]
        PROVE  WindowInv'
    <2>1. here'[s] /\ \A x \in Src : here[x] => here'[x]
      BY <1>0, <1>d
    <2>2. \A x \in Src \ {s} : Offense(s, time, shadow)[x] = rec[x]
      BY <1>0, <1>d, OffenseAdds
    <2>3. \A x \in Src : InWindow(Offense(s, time, shadow)[x]) => here'[x]
      BY <1>a, <1>d, <2>1, <2>2
    <2>4. QED
      BY <1>d, <2>1, <2>3, WindowKept
  <1>1. CASE Start
    <2>1. PICK read \in BOOLEAN : Wake(read) /\ \E gone : Pruned(Loaded(read), gone, read)
      BY <1>1 DEF Start
    <2>2. Loaded(read) \in [Src -> Known] /\ \A x \in Src : InWindow(Loaded(read)[x]) => here[x]
      BY <1>0, LoadedKeeps DEF WindowInv
    <2>3. UNCHANGED here
      BY <2>1 DEF Wake
    <2>4. QED
      BY <1>b, <2>1, <2>2, <2>3
  <1>e. CASE StartAfresh
    <2>1. PICK read \in BOOLEAN : Wake(read) /\ Pruned(NoRecs, Src, read)
      BY <1>e DEF StartAfresh
    <2>2. NoRecs \in [Src -> Known] /\ \A x \in Src : ~InWindow(NoRecs[x])
      BY KnownFields DEF NoRecs, InWindow
    <2>3. UNCHANGED here
      BY <2>1 DEF Wake
    <2>4. QED
      BY <1>b, <2>1, <2>2, <2>3
  <1>2. CASE Prune
    <2>1. PICK gone : Pruned(rec, gone, boot)
      BY <1>2 DEF Prune
    <2>2. pc = "idle" /\ UNCHANGED here /\ boot \in BOOLEAN
      BY <1>2, TypeParts DEF Prune, JournalOK
    <2>3. QED
      BY <1>0, <1>a, <1>b, <2>1, <2>2
  <1>3. CASE Loop \/ AllowUnknown
    <2>1. Flush(rec, FALSE) /\ pc = "idle" /\ UNCHANGED here
      BY <1>3 DEF Loop, AllowUnknown
    <2>2. QED
      BY <1>c, <2>1, Flushed
  <1>4. ASSUME NEW s \in Src, SkipProtected(s) \/ Sighting(s) \/ Suppress(s)
        PROVE  WindowInv'
    <2>1. PICK recs \in {rec, Seen(s)}, touched \in BOOLEAN : Flush(recs, touched)
      BY <1>4, Dismissed
    <2>2. \A x \in Src : InWindow(recs[x]) => InWindow(rec[x])
      BY <1>0, SeenKeeps
    <2>3. UNCHANGED here /\ pc = "idle"
      BY <1>4, Dismissed
    <2>4. JournalIs(recs)
      BY <2>1, Flushed
    <2>5. \A x \in Src : InWindow(recs[x]) => here'[x]
      BY <1>a, <2>2, <2>3
    <2>6. QED
      BY <2>3, <2>4, <2>5, WindowKept
  <1>5. ASSUME NEW s \in Src, Shadow(s) PROVE WindowInv'
    <2>1. pc = "idle" /\ here' = [here EXCEPT ![s] = TRUE] /\ Flush(Offense(s, Doubled(rec[s].count), TRUE), TRUE)
      BY <1>5 DEF Shadow, Attempt
    <2>2. QED
      BY <1>d, <2>1, Flushed, DoubledType
  <1>6. CASE BlockFails
    <2>1. pc = "block" /\ UNCHANGED here
      BY <1>6 DEF BlockFails
    <2>2. Flush(rec, FALSE) \/ (UNCHANGED rec /\ (Save(rec, boot) \/ UNCHANGED <<disk, stamped>>))
      BY <1>6 DEF BlockFails
    <2>3. JournalIs(rec)
      BY <2>2, Flushed DEF JournalIs, Save
    <2>4. QED
      BY <1>c, <2>1, <2>3
  <1>7. CASE RecordOffense
    <2>1. pc = "record" /\ src \in Src /\ here' = [here EXCEPT ![src] = TRUE] /\ rec' = Offense(src, ttl, FALSE)
      BY <1>0, <1>7 DEF RecordOffense
    <2>2. Save(rec', boot) \/ UNCHANGED <<disk, stamped>>
      BY <1>7 DEF RecordOffense
    <2>3. JournalIs(Offense(src, ttl, FALSE))
      BY <2>1, <2>2 DEF JournalIs, Save
    <2>4. QED
      BY <1>0, <1>d, <2>1, <2>3
  <1>8. ASSUME pc # "down", NEW flushed \in BOOLEAN, Die(flushed), UNCHANGED here
        PROVE  WindowInv'
    <2>1. pc' = "down"
      BY <1>8 DEF Die
    <2>2. CASE disk' = rec
      BY <1>8, <2>1, <2>2 DEF WindowInv
    <2>3. CASE disk' = disk /\ (stamped' => stamped)
      BY <1>8, <2>1, <2>3 DEF WindowInv
    <2>4. CASE dirty /\ flushed
      BY <1>8, <2>2, <2>4 DEF Die
    <2>5. CASE ~(dirty /\ flushed)
      <3>1. disk' = disk
        BY <1>8, <2>5 DEF Die
      <3>2. stamped' => stamped
        BY <1>8, <2>5 DEF Die
      <3>3. QED
        BY <2>3, <3>1, <3>2
    <2>6. QED
      BY <2>4, <2>5
  <1>9. CASE Stop \/ StopFails \/ IdleFails \/ StopInBlock \/ Kill
    BY <1>8, <1>9 DEF Stop, StopFails, IdleFails, StopInBlock, Kill
  <1>10. CASE Reboot
    BY <1>10 DEF Reboot, WindowInv
  <1>11. CASE Tick
    <2>1. UNCHANGED <<stamped, pc, here>> /\ disk' = Passed(disk) /\ rec' = Passed(rec)
      BY <1>11 DEF Tick
    <2>2. \A x \in Src : (InWindow(disk'[x]) => InWindow(disk[x])) /\ (InWindow(rec'[x]) => InWindow(rec[x]))
      BY <1>0, <2>1, PassedKeeps
    <2>3. QED
      BY <2>1, <2>2 DEF WindowInv
  <1>12. CASE (\E s \in Src : AllowChange(s)) \/ UNCHANGED vars
    <2>1. UNCHANGED <<disk, stamped, rec, here, pc>>
      BY <1>12 DEF AllowChange, vars, journal
    <2>2. QED
      BY <2>1 DEF WindowInv
  <1>13. CASE Block \/ \E s \in Src : Act(s)
    <2>1. UNCHANGED <<disk, stamped, rec, here>> /\ pc # "down"
      BY <1>13 DEF Act, Attempt, Block, journal
    <2>2. QED
      BY <2>1 DEF WindowInv
  <1>14. QED
    BY <1>1, <1>e, <1>2, <1>3, <1>4, <1>5, <1>6, <1>7, <1>9, <1>10, <1>11, <1>12, <1>13
    DEF Next, Alert, Finish

-----------------------------------------------------------------------------
LEMMA FewerFew == ASSUME NEW T, Few(T), NEW S, S \subseteq T PROVE Few(S)
  <1>1. IsFiniteSet(S) /\ Cardinality(S) <= Cardinality(T)
    BY FS_Subset DEF Few
  <1>2. Cardinality(S) \in Nat /\ Cardinality(T) \in Nat /\ RateHour \in Nat
    BY <1>1, FS_CardinalityType, RateAssumption DEF Few, RateAssumption
  <1>3. QED
    BY <1>1, <1>2 DEF Few

LEMMA NextRate == TypeOK /\ RateInv /\ [Next]_vars => RateInv'
  <1> SUFFICES ASSUME TypeOK, RateInv, [Next]_vars PROVE RateInv'
    OBVIOUS
  <1>0. /\ tried \in [Src -> Nat] /\ hour \in [Src -> Nat] /\ again \subseteq Src
        /\ RateHour \in Nat /\ Hour \in Nat
    BY TypeParts, RateAssumption, TimeAssumption DEF LimitsOK, RateAssumption, TimeAssumption
  <1>a. UNCHANGED <<hour, tried, again>> => RateInv'
    BY DEF RateInv, Counted, Attempted, Few
  <1>1. CASE Start \/ StartAfresh \/ Prune \/ Loop \/ AllowUnknown
    BY <1>1, <1>a DEF Start, StartAfresh, Wake, Prune, Loop, AllowUnknown, limits
  <1>2. ASSUME NEW s \in Src, SkipProtected(s) \/ Sighting(s) \/ Suppress(s) PROVE RateInv'
    BY <1>2, <1>a, Dismissed
  <1>3. ASSUME NEW s \in Src, Attempt(s) PROVE RateInv'
    <2>1. /\ hour' = [hour EXCEPT ![s] = IF s \in Counted THEN hour[s] ELSE 0] /\ ~Capped(s)
          /\ tried' = [tried EXCEPT ![s] = 0]
          /\ again' = IF tried[s] <= Hour THEN again \cup {s} ELSE again \ {s}
      BY <1>3 DEF Attempt, CountAttempt
    <2>2. ASSUME NEW x \in Src, x # s
          PROVE  tried'[x] <= hour'[x] /\ (x \in Attempted' \ again' => hour'[x] = tried'[x])
      BY <1>0, <2>1, <2>2 DEF RateInv, Attempted
    <2>3. tried'[s] <= hour'[s] /\ (s \in Attempted' \ again' => hour'[s] = tried'[s])
      <3>1. tried'[s] = 0 /\ hour'[s] \in Nat
        BY <1>0, <2>1
      <3>2. CASE s \in Counted
        <4>1. tried[s] <= Hour
          BY <1>0, <3>2 DEF RateInv, Counted
        <4>2. QED
          BY <2>1, <3>1, <4>1
      <3>3. CASE s \notin Counted
        BY <1>0, <2>1, <3>1, <3>3
      <3>4. QED
        BY <3>2, <3>3
    <2>4. Few(Counted')
      <3>1. CASE s \in Counted
        <4>1. Counted' = Counted
          BY <1>0, <2>1, <3>1 DEF Counted
        <4>2. QED
          BY <4>1 DEF RateInv
      <3>2. CASE s \notin Counted
        <4>1. Counted' = Counted \cup {s}
          BY <1>0, <2>1, <3>2 DEF Counted
        <4>2. IsFiniteSet(Counted) /\ Cardinality(Counted) \in Nat /\ ~(Cardinality(Counted) >= RateHour)
          BY <2>1, <3>2, FS_CardinalityType DEF RateInv, Few, Capped
        <4>3. IsFiniteSet(Counted') /\ Cardinality(Counted') = Cardinality(Counted) + 1
          BY <3>2, <4>1, <4>2, FS_AddElement
        <4>4. QED
          BY <1>0, <4>2, <4>3 DEF Few
      <3>3. QED
        BY <3>1, <3>2
    <2>5. QED
      BY <2>2, <2>3, <2>4 DEF RateInv, Few
  <1>4. CASE \E s \in Src : Shadow(s) \/ Act(s)
    BY <1>3, <1>4 DEF Shadow, Act
  <1>5. CASE Finish
    BY <1>5, <1>a DEF Finish, Block, BlockFails, RecordOffense, limits
  <1>6. ASSUME NEW flushed, Die(flushed) PROVE RateInv'
    <2>1. \A x \in Src : hour'[x] = Hour + 1 /\ tried'[x] = Hour + 1
      BY <1>6 DEF Die, Untried
    <2>2. Counted' = {} /\ Attempted' = {}
      BY <1>0, <2>1 DEF Counted, Attempted
    <2>3. Few({})
      BY <1>0, FS_EmptySet DEF Few
    <2>4. QED
      BY <1>0, <2>1, <2>2, <2>3 DEF RateInv, Few
  <1>7. CASE Stop \/ StopFails \/ StopInBlock \/ IdleFails \/ Kill
    BY <1>6, <1>7 DEF Stop, StopFails, StopInBlock, IdleFails, Kill
  <1>8. CASE Reboot
    BY <1>8, <1>a DEF Reboot, limits
  <1>9. CASE Tick
    <2>1. \A x \in Src : hour'[x] = Older(hour[x], Hour) /\ tried'[x] = Older(tried[x], Hour)
      BY <1>9 DEF Tick
    <2>2. again' = {x \in again : tried'[x] <= Hour}
      BY <1>9 DEF Tick
    <2>3. Few(Counted')
      <3>1. Counted' \subseteq Counted
        BY <1>0, <2>1 DEF Counted, Older
      <3>2. QED
        BY <3>1, FewerFew DEF RateInv
    <2>4. ASSUME NEW x \in Src
          PROVE  tried'[x] <= hour'[x] /\ (x \in Attempted' \ again' => hour'[x] = tried'[x])
      BY <1>0, <2>1, <2>2 DEF RateInv, Attempted, Older
    <2>5. QED
      BY <2>3, <2>4 DEF RateInv, Few
  <1>10. CASE (\E s \in Src : AllowChange(s)) \/ UNCHANGED vars
    BY <1>10, <1>a DEF AllowChange, vars, limits
  <1>11. QED
    BY <1>1, <1>2, <1>4, <1>5, <1>7, <1>8, <1>9, <1>10 DEF Next, Alert

-----------------------------------------------------------------------------
LEMMA NextAge == TypeOK /\ AgeInv /\ [Next]_vars => AgeInv'
  <1> SUFFICES ASSUME TypeOK, AgeInv, [Next]_vars PROVE AgeInv'
    OBVIOUS
  <1> USE DEF world
  <1>0. cache_age \in Nat /\ allow_age \in [Src -> Nat] /\ CacheTtl \in Nat /\ allow \subseteq Src
    BY TypeParts, TimeAssumption DEF LimitsOK, PastOK, TimeAssumption
  <1>a. UNCHANGED <<world, cache, cache_age>> => AgeInv'
    BY DEF AgeInv
  <1>b. UNCHANGED world /\ Refresh => AgeInv'
    BY Refreshed
  <1>c. UNCHANGED world /\ cache_age' = Unfetched => AgeInv'
    BY <1>0 DEF AgeInv, Unfetched
  <1>1. CASE Start \/ StartAfresh \/ Prune \/ Loop \/ Finish
    BY <1>1, <1>a DEF Start, StartAfresh, Wake, Prune, Loop, Finish, Block, BlockFails, RecordOffense, limits
  <1>2. CASE AllowUnknown
    BY <1>2, <1>c DEF AllowUnknown
  <1>3. ASSUME NEW s \in Src, SkipProtected(s) \/ Sighting(s) \/ Suppress(s) PROVE AgeInv'
    BY <1>3, <1>b, Dismissed
  <1>4. CASE \E s \in Src : Shadow(s) \/ Act(s)
    BY <1>4, <1>b DEF Shadow, Act, Attempt
  <1>5. CASE Stop \/ StopFails \/ StopInBlock \/ IdleFails \/ Kill
    BY <1>5, <1>c DEF Stop, StopFails, StopInBlock, IdleFails, Kill, Die
  <1>6. CASE Reboot
    BY <1>6, <1>a DEF Reboot, limits
  <1>7. CASE Tick
    <2> SUFFICES ASSUME NEW s \in allow', cache_age' <= CacheTtl, allow_age'[s] > cache_age'
                 PROVE  s \in cache'
      BY DEF AgeInv
    <2>1. s \in allow /\ s \in Src /\ UNCHANGED cache /\ cache_age' = Older(cache_age, CacheTtl)
          /\ allow_age'[s] = Older(allow_age[s], CacheTtl)
      BY <1>0, <1>7 DEF Tick
    <2>2. cache_age <= CacheTtl /\ allow_age[s] > cache_age
      BY <1>0, <2>1 DEF Older
    <2>3. QED
      BY <2>1, <2>2 DEF AgeInv
  <1>8. ASSUME NEW s \in Src, AllowChange(s) PROVE AgeInv'
    <2> SUFFICES ASSUME NEW x \in allow', cache_age' <= CacheTtl, allow_age'[x] > cache_age'
                 PROVE  x \in cache'
      BY DEF AgeInv
    <2>1. UNCHANGED <<cache, cache_age>> /\ allow_age' = [allow_age EXCEPT ![s] = 0]
      BY <1>8 DEF AllowChange, limits
    <2>2. CASE x = s
      BY <1>0, <2>1, <2>2
    <2>3. CASE x # s
      <3>1. x \in allow /\ allow_age'[x] = allow_age[x]
        BY <1>0, <1>8, <2>1, <2>3 DEF AllowChange
      <3>2. QED
        BY <2>1, <3>1 DEF AgeInv
    <2>4. QED
      BY <2>2, <2>3
  <1>9. CASE UNCHANGED vars
    BY <1>9, <1>a DEF vars, limits
  <1>10. QED
    BY <1>1, <1>2, <1>3, <1>4, <1>5, <1>6, <1>7, <1>8, <1>9 DEF Next, Alert

-----------------------------------------------------------------------------
(***************************************************************************)
(* The inductive invariant holds: memory and file agree with the history.  *)
(***************************************************************************)
THEOREM ResponderInvariant == Spec => []ResponderInv
  <1>1. ResponderInv /\ [Next]_vars => ResponderInv'
    <2> SUFFICES ASSUME ResponderInv, [Next]_vars PROVE ResponderInv'
      OBVIOUS
    <2>1. TypeOK /\ BusyInv /\ CountInv /\ WindowInv /\ RateInv /\ AgeInv
      BY DEF ResponderInv
    <2>2. TypeOK' /\ BusyInv' /\ CountInv' /\ WindowInv' /\ RateInv' /\ AgeInv'
      BY <2>1, NextType, NextCount, NextWindow, NextRate, NextAge
    <2>3. QED
      BY <2>2 DEF ResponderInv
  <1>2. QED
    BY <1>1, InitInv, PTL DEF Spec

(***************************************************************************)
(* Every variable of the responder keeps its type: the records read back   *)
(* and the windows of the rate caps are well formed.                       *)
(***************************************************************************)
THEOREM TypeCorrect == Spec => []TypeOK
  <1>1. ResponderInv => TypeOK
    BY DEF ResponderInv
  <1>2. QED
    BY <1>1, ResponderInvariant, PTL

(***************************************************************************)
(* The count that doubles a block's time counts blocks only, and forgets   *)
(* at most one of them per kill or failed write (save, flush and main).    *)
(***************************************************************************)
THEOREM EscalationHolds == Spec => []EscalationKept
  <1>1. ResponderInv => EscalationKept
    <2> SUFFICES ASSUME ResponderInv, NEW s \in Src
                 PROVE  Keeps(disk, s) /\ (pc # "down" => Keeps(rec, s))
      BY DEF EscalationKept
    <2>1. TypeOK /\ CountInv
      BY DEF ResponderInv
    <2>2. Unrecorded(s) = (IF pc = "record" /\ src = s THEN 1 ELSE 0) /\ Unrecorded(s) \in {0, 1}
      BY DEF Unrecorded
    <2>3. Keeps(disk, s)
      BY <2>1, <2>2, CountsOf DEF Keeps
    <2>4. pc # "down" => Keeps(rec, s)
      BY <2>1, <2>2, CountsOf DEF Keeps
    <2>5. QED
      BY <2>3, <2>4
  <1>2. QED
    BY <1>1, ResponderInvariant, PTL

(***************************************************************************)
(* A window in memory was opened in this boot, whatever was killed or      *)
(* failed to be written in between (load's comparison of the boot id).     *)
(***************************************************************************)
THEOREM WindowsHold == Spec => []WindowsOfThisBoot
  <1>1. ResponderInv => WindowsOfThisBoot
    BY DEF ResponderInv, WindowInv, WindowsOfThisBoot
  <1>2. QED
    BY <1>1, ResponderInvariant, PTL

(***************************************************************************)
(* The attempts of a process respect the hour's cap, but for sources that   *)
(* are attempted again within an hour (gate 7 of handle_event).            *)
(***************************************************************************)
THEOREM HourHolds == Spec => []HourCap
  <1>1. ResponderInv => HourCap
    <2> SUFFICES ASSUME ResponderInv PROVE HourCap
      OBVIOUS
    <2>1. Attempted \ again \subseteq Counted
      BY DEF ResponderInv, RateInv, Attempted, Counted
    <2>2. Few(Attempted \ again)
      BY <2>1, FewerFew DEF ResponderInv, RateInv
    <2>3. QED
      BY <2>2 DEF HourCap, Few
  <1>2. QED
    BY <1>1, ResponderInvariant, PTL

(***************************************************************************)
(* No step begins a block of a source that has been allowed for longer     *)
(* than AllowCache may keep its snapshot.                                  *)
(***************************************************************************)
THEOREM AllowRespected == Spec => AllowHonoured
  <1>1. ASSUME ResponderInv, [Next]_vars
        PROVE  [pc = "idle" /\ pc' = "block" => ~(src' \in allow /\ allow_age[src'] > CacheTtl)]_vars
    <2>0. TypeOK /\ BusyInv /\ AgeInv
      BY <1>1 DEF ResponderInv
    <2> SUFFICES ASSUME pc = "idle", pc' = "block", src' \in allow, allow_age[src'] > CacheTtl
                 PROVE  FALSE
      OBVIOUS
    <2>1. PICK s \in Src : Act(s)
      <3>1. ASSUME NEW s \in Src, SkipProtected(s) \/ Sighting(s) \/ Suppress(s) PROVE pc' = "idle"
        BY <2>0, <3>1, Dismissed
      <3>2. pc' = pc => FALSE
        OBVIOUS
      <3>3. QED
        BY <1>1, <3>1, <3>2
        DEF Next, Alert, Finish, Start, StartAfresh, Wake, Prune, Loop, AllowUnknown, Shadow, Block, BlockFails, RecordOffense, Stop, Die,
            StopFails, StopInBlock, IdleFails, Kill, Reboot, Tick, AllowChange, vars
    <2>2. src' = s /\ ~Protected(s)
      BY <2>1 DEF Act, Attempt
    <2>3. CASE Fresh
      <3>1. s \notin cache
        BY <2>2, <2>3 DEF Protected
      <3>2. cache_age <= CacheTtl /\ cache_age \in Nat /\ CacheTtl \in Nat /\ allow_age[s] \in Nat
        BY <2>0, <2>1, <2>3, TypeParts, TimeAssumption DEF Fresh, LimitsOK, PastOK, TimeAssumption
      <3>3. allow_age[s] > cache_age
        BY <2>2, <3>2
      <3>4. QED
        BY <2>0, <2>2, <3>1, <3>2, <3>3 DEF AgeInv
    <2>4. CASE ~Fresh
      BY <2>2, <2>4 DEF Protected
    <2>5. QED
      BY <2>3, <2>4
  <1>2. QED
    BY <1>1, ResponderInvariant, PTL DEF Spec, AllowHonoured
=============================================================================
