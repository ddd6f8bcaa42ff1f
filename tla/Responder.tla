----------------------------- MODULE Responder -----------------------------
(***************************************************************************)
(* The responder (bin/nodeguard-responder): the loop that turns alerts     *)
(* into blocks, with its journal, its allow cache and its rate caps,       *)
(* beside operators, the clock, kills and reboots.  It never reads the     *)
(* block map, so its entries are kept as a history of successful blocks.   *)
(*                                                                         *)
(* An alert here is one that passed the gates that keep no state (its kind *)
(* and severity, the evidence of a flow, the direction); only its source   *)
(* matters from there on.  Times are kept as what is left of a window and  *)
(* as the age of everything else, so the clock needs no bound.             *)
(***************************************************************************)
EXTENDS Integers, Sequences, FiniteSets

CONSTANTS
  Src,          \* sources of alerts
  Nobody,       \* no source
  Ttl, TtlMax,  \* TTL and TTL_MAX, in ticks
  RateMin,      \* new blocks per minute
  RateHour,     \* distinct sources per hour
  Minute, Hour, CacheTtl, FlushS,  \* in ticks
  MaxBlocks,    \* bound: blocks of a source between two prunes
  MaxFaults     \* bound: kills, reboots, failing tools and writes

ASSUME TimeAssumption ==
  /\ Ttl \in Nat \ {0} /\ TtlMax \in Nat \ {0}
  /\ Minute \in Nat /\ Hour \in Nat /\ CacheTtl \in Nat /\ FlushS \in Nat
ASSUME RateAssumption == RateMin \in Nat \ {0} /\ RateHour \in Nat \ {0}
ASSUME BoundAssumption == MaxBlocks \in Nat /\ MaxFaults \in Nat

(* A record of the journal, and a source that has none. *)
Record == [count : Nat, left : Nat]
NoRec == [count |-> 0, left |-> -1]

VARIABLES
  allow,      \* the sources in the allow maps
  disk,       \* the journal file
  stamped,    \* its boot id is that of this boot
  pc, src, ttl,            \* the process, and the block it is at
  enforce, boot, rec, dirty, flush_age,   \* what it holds in memory; boot: the
                                          \* boot id could be read at its start
  cache, cache_age, minute, hour,
  real,       \* history: blocks of a source since it was last pruned
  here,       \* history: the last window of a source is of this boot
  tried,      \* history: age of this process's last attempt at a source
  again,      \* history: sources whose last attempt followed another within
              \* an hour
  allow_age,  \* history: for how long a source has been allowed
  faults

world == <<allow, allow_age>>
journal == <<disk, stamped, boot, rec, dirty, flush_age>>
limits == <<cache, cache_age, minute, hour, tried, again>>
past == <<real, here>>
vars == <<world, journal, pc, src, ttl, enforce, limits, past, faults>>

Fault == faults < MaxFaults /\ faults' = faults + 1
Works == UNCHANGED faults

(* An age is told apart up to a limit. *)
Older(age, limit) == IF age > limit THEN age ELSE age + 1
Less(left) == IF left > 0 THEN left - 1 ELSE left

InWindow(r) == r.left > 0
(* The age of a snapshot that was never taken. *)
Unfetched == CacheTtl + 2
(* The age of a source that does not count, or was not attempted lately. *)
Untried == Hour + 1

NoRecs == [s \in Src |-> NoRec]

Init ==
  /\ allow = {} /\ allow_age = [s \in Src |-> 0]
  /\ disk = NoRecs /\ stamped = FALSE
  /\ pc = "down" /\ src = Nobody /\ ttl = 0
  /\ enforce = FALSE /\ boot = FALSE
  /\ rec = NoRecs /\ dirty = FALSE /\ flush_age = 0
  /\ cache = {} /\ cache_age = Unfetched
  /\ minute = <<>> /\ hour = [s \in Src |-> Untried]
  /\ tried = [s \in Src |-> Untried] /\ again = {}
  /\ real = [s \in Src |-> 0] /\ here = [s \in Src |-> FALSE]
  /\ faults = 0
-----------------------------------------------------------------------------
(* save: the file becomes what is in memory, with the boot id if it could  *)
(* be read at the start.                                                   *)
Save(recs, read) ==
  /\ disk' = recs /\ stamped' = read
  /\ dirty' = FALSE /\ flush_age' = 0

(* Variant: every change restarts the wait. *)
FlushDebounced(recs, touched) ==
  LET pending == dirty \/ touched
      due == pending /\ flush_age >= FlushS /\ ~touched
  IN /\ rec' = recs
     /\ dirty' = (pending /\ ~due)
     /\ IF due THEN disk' = recs /\ stamped' = boot ELSE UNCHANGED <<disk, stamped>>
     /\ flush_age' = IF due \/ touched THEN 0 ELSE flush_age
     /\ Works

(* The end of an event: recs in memory, and flush, at most once in FlushS; *)
(* a write that fails leaves the changes pending.                          *)
Flush(recs, touched) ==
  LET pending == dirty \/ touched
      due == pending /\ flush_age >= FlushS
  IN /\ rec' = recs
     /\ \/ due /\ Save(recs, boot) /\ Works
        \/ /\ due /\ Fault
           /\ dirty' = TRUE /\ UNCHANGED <<disk, stamped, flush_age>>
        \/ /\ ~due /\ Works
           /\ dirty' = pending /\ UNCHANGED <<disk, stamped, flush_age>>

(* sighting: a window and an offense count stay as they are. *)
Seen(s) == [rec EXCEPT ![s].left = IF @ > 0 THEN @ ELSE 0]

(* offense: a window opens; only a real block counts. *)
Offense(s, time, shadow) ==
  [rec EXCEPT ![s] = [count |-> IF shadow THEN rec[s].count ELSE rec[s].count + 1,
                      left |-> time]]

(* A source is dropped after 30 days, when its window is long over. *)
Without(recs, gone) == [s \in Src |-> IF s \in gone THEN NoRec ELSE recs[s]]
Idle(recs) == {s \in Src : recs[s] # NoRec /\ ~InWindow(recs[s])}
Pruned(recs, gone, read) ==
  /\ rec' = Without(recs, gone)
  /\ Save(Without(recs, gone), read)
  /\ real' = [s \in Src |-> IF s \in gone THEN 0 ELSE real[s]]

(* Variant: windows are loaded as they are. *)
LoadedAsWritten(read) == disk

(* Variant: a window of another boot leaves no end behind. *)
LoadedUnended(read) ==
  IF stamped /\ read THEN disk ELSE [s \in Src |-> [disk[s] EXCEPT !.left = -1]]

(* The windows are over if the file does not tell this boot's id, or this  *)
(* boot's could not be read; the counts are kept.                          *)
Loaded(read) ==
  IF stamped /\ read THEN disk
  ELSE [s \in Src |-> IF disk[s] = NoRec THEN NoRec ELSE [disk[s] EXCEPT !.left = 0]]

(* ENFORCE and the boot id are read here only; ENFORCE may have any value. *)
Wake(read) ==
  /\ pc = "down" /\ pc' = "idle"
  /\ enforce' \in BOOLEAN /\ boot' = read
  /\ UNCHANGED <<world, src, ttl, limits, here>>

Start ==
  \E read \in BOOLEAN :
    /\ Wake(read)
    /\ IF read THEN Works ELSE Fault
    /\ \E gone \in SUBSET Idle(Loaded(read)) : Pruned(Loaded(read), gone, read)

(* A journal that is no JSON is put aside, and every record with it. *)
StartAfresh ==
  \E read \in BOOLEAN : Wake(read) /\ Fault /\ Pruned(NoRecs, Src, read)

(* The daily prune of the loop; it always writes. *)
Prune ==
  /\ pc = "idle"
  /\ \E gone \in SUBSET Idle(rec) : Pruned(rec, gone, boot)
  /\ UNCHANGED <<world, pc, src, ttl, enforce, boot, limits, here, faults>>

(* Another line, or none for a moment: what is due is written. *)
Loop ==
  /\ pc = "idle"
  /\ dirty /\ flush_age >= FlushS
  /\ Flush(rec, FALSE)
  /\ UNCHANGED <<world, pc, src, ttl, enforce, boot, limits, past>>
-----------------------------------------------------------------------------
(* Variant: once fetched, the allow maps are not fetched again. *)
FreshForEver == cache_age # Unfetched

Fresh == cache_age =< CacheTtl
Protected(s) == s \in (IF Fresh THEN cache ELSE allow)

(* AllowCache: a snapshot that is too old is fetched anew. *)
Refresh ==
  IF Fresh THEN UNCHANGED <<cache, cache_age>>
  ELSE cache' = allow /\ cache_age' = 0

(* The fetch fails: nothing is blocked, and the old snapshot is dropped. *)
AllowUnknown ==
  /\ pc = "idle"
  /\ ~Fresh
  /\ cache' = {} /\ cache_age' = Unfetched
  /\ Flush(rec, FALSE)
  /\ UNCHANGED <<world, pc, src, ttl, enforce, boot, minute, hour, tried, again, past>>

(* An alert that ends without an attempt. *)
Dismiss(recs, touched) ==
  /\ pc = "idle"
  /\ Refresh
  /\ Flush(recs, touched)
  /\ UNCHANGED <<world, pc, src, ttl, enforce, boot, minute, hour, tried, again, past>>

SkipProtected(s) == Protected(s) /\ Dismiss(rec, FALSE)

Sighting(s) ==
  /\ ~Protected(s) /\ InWindow(rec[s])
  /\ Dismiss(Seen(s), TRUE)

(* From the left, where the oldest are, ages beyond the limit are dropped. *)
Recent(ages, limit) ==
  LET old == {i \in DOMAIN ages : \A j \in 1..i : ages[j] > limit}
  IN SubSeq(ages, Cardinality(old) + 1, Len(ages))

Counted == {s \in Src : hour[s] =< Hour}

Capped(s) ==
  \/ Len(Recent(minute, Minute)) >= RateMin
  \/ s \notin Counted /\ Cardinality(Counted) >= RateHour

(* While a cap holds, a source without a record gets none. *)
Suppress(s) ==
  /\ ~Protected(s) /\ ~InWindow(rec[s]) /\ Capped(s)
  /\ IF rec[s] = NoRec THEN Dismiss(rec, FALSE) ELSE Dismiss(Seen(s), TRUE)

(* Variant: a source that is attempted in dry-run does not count. *)
CountAttemptEnforced(s) ==
  /\ minute' = Append(Recent(minute, Minute), 0)
  /\ hour' = IF enforce THEN [hour EXCEPT ![s] = IF s \in Counted THEN @ ELSE 0] ELSE hour

CountAttempt(s) ==
  /\ minute' = Append(Recent(minute, Minute), 0)
  /\ hour' = [hour EXCEPT ![s] = IF s \in Counted THEN @ ELSE 0]

Doubled(n) ==
  LET t == Ttl * 2^n IN IF t \in 1..TtlMax THEN t ELSE TtlMax

(* The attempt: all gates passed. *)
Attempt(s) ==
  /\ pc = "idle"
  /\ ~Protected(s) /\ ~InWindow(rec[s]) /\ ~Capped(s)
  /\ real[s] < MaxBlocks
  /\ Refresh
  /\ CountAttempt(s)
  /\ tried' = [tried EXCEPT ![s] = 0]
  /\ again' = IF tried[s] =< Hour THEN again \cup {s} ELSE again \ {s}

(* Dry-run: a shadow window. *)
Shadow(s) ==
  /\ Attempt(s)
  /\ ~enforce
  /\ Flush(Offense(s, Doubled(rec[s].count), TRUE), TRUE)
  /\ here' = [here EXCEPT ![s] = TRUE]
  /\ UNCHANGED <<world, pc, src, ttl, enforce, boot, real>>

Act(s) ==
  /\ Attempt(s)
  /\ enforce
  /\ pc' = "block" /\ src' = s /\ ttl' = Doubled(rec[s].count)
  /\ UNCHANGED <<world, journal, enforce, past, faults>>
-----------------------------------------------------------------------------
Idled == pc' = "idle" /\ src' = Nobody /\ ttl' = 0

(* nodeguard-block refuses what is allowed by then. *)
Block ==
  /\ pc = "block"
  /\ src \notin allow
  /\ real' = [real EXCEPT ![src] = @ + 1]
  /\ pc' = "record"
  /\ UNCHANGED <<world, journal, src, ttl, enforce, limits, here, faults>>

(* A block command that does not return well may have written. *)
MayLand ==
  \/ UNCHANGED real
  \/ /\ pc = "block" /\ src \notin allow
     /\ real' = [real EXCEPT ![src] = @ + 1]

(* A refusal, or a failure, then the flush of every event. *)
BlockFails ==
  /\ pc = "block"
  /\ \/ src \in allow /\ UNCHANGED real /\ Flush(rec, FALSE)
     \/ /\ MayLand /\ Fault
        /\ IF dirty /\ flush_age >= FlushS THEN Save(rec, boot)
           ELSE UNCHANGED <<disk, stamped, dirty, flush_age>>
        /\ UNCHANGED rec
  /\ Idled
  /\ UNCHANGED <<world, enforce, boot, limits, here>>

(* Variant: an offense waits for the next flush. *)
RecordLater ==
  /\ pc = "record"
  /\ rec' = Offense(src, ttl, FALSE)
  /\ dirty' = TRUE
  /\ UNCHANGED <<disk, stamped, flush_age>>
  /\ Works
  /\ here' = [here EXCEPT ![src] = TRUE]
  /\ Idled
  /\ UNCHANGED <<world, enforce, boot, limits, real>>

(* The block succeeded: the offense is saved at once.  A write that fails  *)
(* leaves it in memory, and does not mark it as pending.                   *)
RecordOffense ==
  /\ pc = "record"
  /\ rec' = Offense(src, ttl, FALSE)
  /\ \/ Save(rec', boot) /\ Works
     \/ UNCHANGED <<disk, stamped, dirty, flush_age>> /\ Fault
  /\ here' = [here EXCEPT ![src] = TRUE]
  /\ Idled
  /\ UNCHANGED <<world, enforce, boot, limits, real>>
-----------------------------------------------------------------------------
(* The process ends and its memory is gone; its last flush, if there is    *)
(* one, writes what is pending.                                            *)
Die(flushed) ==
  /\ disk' = IF dirty /\ flushed THEN rec ELSE disk
  /\ stamped' = IF dirty /\ flushed THEN boot ELSE stamped
  /\ pc' = "down" /\ src' = Nobody /\ ttl' = 0 /\ enforce' = FALSE /\ boot' = FALSE
  /\ rec' = NoRecs /\ dirty' = FALSE /\ flush_age' = 0
  /\ cache' = {} /\ cache_age' = Unfetched
  /\ minute' = <<>> /\ hour' = [s \in Src |-> Untried]
  /\ tried' = [s \in Src |-> Untried] /\ again' = {}
  /\ UNCHANGED world

(* SIGTERM between two events; only a failing write loses anything. *)
Stop ==
  /\ pc = "idle"
  /\ Die(TRUE)
  /\ UNCHANGED <<past, faults>>

StopFails ==
  /\ pc = "idle" /\ dirty
  /\ Fault
  /\ Die(FALSE)
  /\ UNCHANGED past

(* With no line to read, a write that fails ends the loop: nothing catches *)
(* it there.  The last flush tries once more.                              *)
IdleFails ==
  /\ pc = "idle"
  /\ dirty /\ flush_age >= FlushS
  /\ Fault
  /\ \E flushed \in BOOLEAN : Die(flushed)
  /\ UNCHANGED past

(* SIGTERM during a block also ends the command that blocks. *)
StopInBlock ==
  /\ pc \in {"block", "record"}
  /\ Fault
  /\ MayLand
  /\ \E flushed \in BOOLEAN : Die(flushed)
  /\ UNCHANGED here

Kill ==
  /\ pc # "down"
  /\ Fault
  /\ MayLand
  /\ Die(FALSE)
  /\ UNCHANGED here

(* The processes die, and the block map is gone. *)
Reboot ==
  /\ pc = "down"
  /\ Fault
  /\ stamped' = FALSE
  /\ here' = [s \in Src |-> FALSE]
  /\ UNCHANGED <<world, disk, boot, rec, dirty, flush_age, pc, src, ttl, enforce,
                 limits, real>>

Passed(recs) ==
  [s \in Src |-> [recs[s] EXCEPT !.left = Less(@)]]

(* Ages beyond the limit they are compared with are not told apart. *)
Tick ==
  /\ disk' = Passed(disk) /\ rec' = Passed(rec)
  /\ flush_age' = IF pc = "down" THEN 0
                  ELSE IF flush_age < FlushS THEN flush_age + 1 ELSE flush_age
  /\ cache_age' = Older(cache_age, CacheTtl)
  /\ minute' = Recent([i \in DOMAIN minute |-> minute[i] + 1], Minute)
  /\ tried' = [s \in Src |-> Older(tried[s], Hour)]
  /\ hour' = [s \in Src |-> Older(hour[s], Hour)]
  /\ again' = {s \in again : tried'[s] =< Hour}
  /\ allow_age' = [s \in Src |-> IF s \in allow THEN Older(allow_age[s], CacheTtl) ELSE 0]
  /\ UNCHANGED <<allow, stamped, boot, dirty, pc, src, ttl, enforce, cache, past, faults>>

(* Operators change the allow maps. *)
AllowChange(s) ==
  /\ allow' = IF s \in allow THEN allow \ {s} ELSE allow \cup {s}
  /\ allow_age' = [allow_age EXCEPT ![s] = 0]
  /\ UNCHANGED <<journal, pc, src, ttl, enforce, limits, past, faults>>
-----------------------------------------------------------------------------
Alert(s) == SkipProtected(s) \/ Sighting(s) \/ Suppress(s) \/ Shadow(s) \/ Act(s)
Finish == Block \/ BlockFails \/ RecordOffense

Next ==
  \/ Start \/ StartAfresh \/ Prune \/ Loop \/ AllowUnknown
  \/ \E s \in Src : Alert(s) \/ AllowChange(s)
  \/ Finish
  \/ Stop \/ StopFails \/ StopInBlock \/ IdleFails \/ Kill \/ Reboot
  \/ Tick

Spec == Init /\ [][Next]_vars

(***************************************************************************)
(* Time passes, the loop wakes twice a second when there is no line, and   *)
(* a block ends.                                                           *)
(***************************************************************************)
Fairness == WF_vars(Tick) /\ WF_vars(Loop) /\ WF_vars(Finish)
FairSpec == Spec /\ Fairness
-----------------------------------------------------------------------------
(* Every variable has its type. *)
TypeOK ==
  /\ allow \subseteq Src
  /\ disk \in [Src -> Record \cup {NoRec}] /\ stamped \in BOOLEAN
  /\ pc \in {"down", "idle", "block", "record"} /\ src \in Src \cup {Nobody} /\ ttl \in Nat
  /\ enforce \in BOOLEAN /\ boot \in BOOLEAN
  /\ rec \in [Src -> Record \cup {NoRec}] /\ dirty \in BOOLEAN
  /\ flush_age \in Nat
  /\ cache \subseteq Src /\ cache_age \in Nat
  /\ minute \in Seq(Nat) /\ hour \in [Src -> Nat] /\ tried \in [Src -> Nat]
  /\ again \subseteq Src
  /\ real \in [Src -> Nat] /\ here \in [Src -> BOOLEAN]
  /\ allow_age \in [Src -> Nat] /\ faults \in Nat

(***************************************************************************)
(* The count that doubles a block's time never counts what was not a block *)
(* (sightings, shadow windows), and forgets at most one block per kill or  *)
(* failed write, in memory as on disk; but a journal that cannot be parsed *)
(* takes every count with it, and history begins anew.                     *)
(***************************************************************************)
Keeps(recs, s) ==
  /\ recs[s].count =< real[s]
  /\ real[s] =< recs[s].count + faults
                + (IF pc = "record" /\ src = s THEN 1 ELSE 0)

EscalationKept ==
  \A s \in Src : Keeps(disk, s) /\ (pc # "down" => Keeps(rec, s))

(***************************************************************************)
(* A window that makes the loop take an alert for a mere sighting was      *)
(* opened in this boot: none outlives the entries of the kernel.           *)
(***************************************************************************)
WindowsOfThisBoot ==
  pc # "down" => \A s \in Src : InWindow(rec[s]) => here[s]

(***************************************************************************)
(* "rate caps on new-block ATTEMPTS (30/min, 500 distinct/hour default)",   *)
(* "identically in dry-run and enforce mode" (nodeguard-responder:20): one  *)
(* process attempts at most RateHour sources in a rolling hour, but for     *)
(* those attempted again in it, which count from the first attempt only.   *)
(***************************************************************************)
Attempted == {s \in Src : tried[s] =< Hour}
HourCap == Cardinality(Attempted \ again) =< RateHour

(***************************************************************************)
(* No block is attempted for a source that has been in the allow maps for  *)
(* longer than the allow cache may be old.                                 *)
(***************************************************************************)
AllowHonoured ==
  [][pc = "idle" /\ pc' = "block" =>
       ~(src' \in allow /\ allow_age[src'] > CacheTtl)]_vars

(***************************************************************************)
(* What is pending does not stay so, whether alerts keep coming or stop,    *)
(* and it ends in the file, as memory has it then; but a kill or a failing  *)
(* write may end the process first, and take it along.                     *)
(***************************************************************************)
PendingWritten ==
  /\ dirty ~> ~dirty
  /\ [][dirty /\ ~dirty' => \/ disk' = (IF pc' = "down" THEN rec ELSE rec')
                            \/ faults' > faults]_vars
=============================================================================
