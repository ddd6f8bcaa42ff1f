-------------------------------- MODULE Feeds --------------------------------
(***************************************************************************)
(* The feed loader (bin/nodeguard-feeds): runs of the timer, apply and     *)
(* withdraw at a shell, beside the other writers of the block map.         *)
(*                                                                         *)
(* A loader reads its journal (state.json) when it starts and writes it    *)
(* when it ends; what it owns is decided key by key, under the block lock, *)
(* by comparing the live expiry with the one the journal says it wrote.    *)
(* Two loaders can run at once: only the timer's unit excludes itself.     *)
(***************************************************************************)
EXTENDS Integers, Sequences

CONSTANTS
  Key,          \* networks, as journal and map keys
  Inside,       \* the keys strictly inside a key
  Feed,
  NoKey,        \* the key of a process that is at none
  NoFeed,       \* the owner of a key that has no journal row
  Order,        \* the feeds as configured; the first owns a key two list
  Applied,      \* feeds of FEEDS_APPLY, with FEEDS_ENFORCE on
  Loader,       \* processes of the program
  Free,         \* the value of a free lock
  MaskedErrors, \* may a lookup fail for a reason other than a miss?
  MaxRuns, MaxStamp, MaxFaults   \* bounds of the model

ASSUME KeyAssumption ==
  /\ Inside \in [Key -> SUBSET Key]
  /\ NoKey \notin Key
ASSUME FeedAssumption ==
  /\ NoFeed \notin Feed /\ Applied \subseteq Feed
  /\ Order \in Seq(Feed)
ASSUME LoaderAssumption ==
  /\ Free \notin Loader
  /\ MaskedErrors \in BOOLEAN
  /\ MaxRuns \in Nat /\ MaxStamp \in Nat /\ MaxFaults \in Nat

(***************************************************************************)
(* The value of a key: the loader's own entries are told apart by the      *)
(* expiry each reconcile computes, in nanoseconds and so unlike any other. *)
(***************************************************************************)
Absent == -2
Foreign == -1      \* another writer's entry with an expiry
Permanent == 0
Stamp == Nat \ {0}

VARIABLES
  block,     \* the value of each key
  lapsed,    \* keys whose entry has expired
  lock,      \* the holder of the block lock
  boot,      \* the boot id
  owner, written, running, file_boot, based,  \* state.json
  approved,  \* approved.json
  stamp,     \* the last expiry a loader computed
  pc,
  my,        \* what each process of the program holds in memory
  key, seen, spent, masked,  \* the key it is at, what the lookup returned,
             \* was the expiry over, and was it an error taken for a miss
  died,      \* history: a run of this boot was killed, or failed with writes
  hurt,      \* history: the same of the last run, when it had written
  overlap,   \* history: two processes of this boot have overlapped
  runs, faults

table == <<block, lapsed>>
file == <<owner, written, running, file_boot, based>>
at == <<key, seen, spent, masked>>
history == <<died, hurt, overlap>>
vars == <<table, lock, boot, file, approved, stamp, pc, my, at, history,
          runs, faults>>

Fault == faults < MaxFaults /\ faults' = faults + 1
Works == UNCHANGED faults

NoRows == [k \in Key |-> NoFeed]
Nothing == [k \in Key |-> 0]

(* What a process of the program that is not running knows. *)
Blank ==
  [mode |-> "none", owner |-> NoRows, written |-> Nothing, boot |-> 0, marked |-> FALSE,
   based |-> {}, adoption |-> FALSE, approved |-> {}, target |-> {},
   corpses |-> {}, turn |-> 1, taken |-> {}, want |-> {}, came |-> FALSE,
   held |-> FALSE, stamp |-> 0, put |-> {}, drop |-> {}, wrote |-> FALSE]

Init ==
  /\ block = [k \in Key |-> Absent] /\ lapsed = {}
  /\ lock = Free /\ boot = 1
  /\ owner = NoRows /\ written = Nothing
  /\ running = FALSE /\ based = {}
  /\ file_boot \in {0, 1}   \* never saved, or since this boot
  /\ approved = {}
  /\ stamp = 0
  /\ pc = [p \in Loader |-> "idle"]
  /\ my = [p \in Loader |-> Blank]
  /\ key = [p \in Loader |-> NoKey]
  /\ seen = [p \in Loader |-> Absent]
  /\ spent = [p \in Loader |-> FALSE]
  /\ masked = [p \in Loader |-> FALSE]
  /\ died = FALSE /\ hurt = FALSE /\ overlap = FALSE
  /\ runs = 0 /\ faults = 0

Live(k) == block[k] # Absent /\ k \notin lapsed

Goto(p, label) == pc' = [pc EXCEPT ![p] = label]
Remember(p, new) == my' = [my EXCEPT ![p] = new]

(* A process ends. *)
End(p) ==
  /\ Goto(p, "idle")
  /\ Remember(p, Blank)

Forget(p) ==
  /\ key' = [key EXCEPT ![p] = NoKey]
  /\ spent' = [spent EXCEPT ![p] = FALSE]
  /\ seen' = [seen EXCEPT ![p] = Absent]
  /\ masked' = [masked EXCEPT ![p] = FALSE]

(* save_json: the whole state, as this process has it. *)
Save(m, marker) ==
  /\ owner' = m.owner /\ written' = m.written
  /\ running' = marker /\ file_boot' = m.boot /\ based' = m.based
-----------------------------------------------------------------------------
(* Variant: the marker of an earlier boot counts. *)
ArmedByAnyBoot == running

(* A marker that a run of this boot left arms adoption. *)
Armed == running /\ file_boot = boot

(* Runner(): reads the state. *)
Open(p, mode, target, allowed) ==
  /\ pc[p] = "idle"
  /\ runs < MaxRuns
  /\ runs' = runs + 1
  /\ Remember(p, [Blank EXCEPT
       !.mode = mode, !.owner = owner, !.written = written,
       !.boot = file_boot, !.based = based, !.approved = allowed,
       !.target = target, !.adoption = Armed, !.marked = running,
       !.drop = IF mode = "run" THEN {}
                ELSE {k \in Key : owner[k] \in target}])
  /\ overlap' = (overlap \/ \E q \in Loader : pc[q] # "idle")
  /\ UNCHANGED <<table, lock, boot, file, stamp, at, died, faults>>

(* run *)
RunStart(p) ==
  /\ Open(p, "run", {}, approved)
  /\ Goto(p, "open")
  /\ hurt' = FALSE
  /\ UNCHANGED approved

(* apply --feed f --confirm: the approval, and a run *)
ApplyStart(p, f) ==
  /\ approved' = approved \cup {f}
  /\ Open(p, "run", {f}, approved')
  /\ Goto(p, "open")
  /\ hurt' = FALSE

(* withdraw --confirm, of one feed or of all *)
WithdrawStart(p) ==
  /\ \/ \E f \in Feed : Open(p, "withdraw", {f}, approved)
     \/ Open(p, "withdraw_all", Feed, approved)
  /\ Goto(p, "key")
  /\ UNCHANGED <<approved, hurt>>

(* No run without the allow snapshot; then the marker is saved. *)
Mark(p) ==
  /\ pc[p] = "open"
  /\ \/ End(p) /\ UNCHANGED file
     \/ Save(my[p], TRUE) /\ Goto(p, "fetch") /\ UNCHANGED my
  /\ UNCHANGED <<table, lock, boot, approved, stamp, at, history, runs, faults>>

(* The rows of another boot are dropped: its map is gone. *)
SameBoot(m) ==
  IF m.boot \in {0, boot} THEN [m EXCEPT !.boot = boot]
  ELSE [m EXCEPT !.boot = boot, !.owner = NoRows, !.written = Nothing]

Enforcing(m, f) == f \in Applied \cap m.approved

(* The gates may refuse the whole run, and an exception before the first   *)
(* key ends it the same way; else the corpses of others are noted.         *)
Fetch(p) ==
  /\ pc[p] = "fetch"
  /\ LET m == SameBoot(my[p]) IN
       \/ Save(m, FALSE) /\ End(p)
       \/ /\ Remember(p, [m EXCEPT !.corpses = {k \in lapsed : m.owner[k] = NoFeed}])
          /\ Goto(p, "feed")
          /\ UNCHANGED file
  /\ UNCHANGED <<table, lock, boot, approved, stamp, at, history, runs, faults>>

Now(m) == Order[m.turn]
Mine(m, f) == {k \in Key : m.owner[k] = f}

(* A feed whose churn may be held: not one that was just confirmed. *)
Brakeable(m, f) == Enforcing(m, f) /\ f \in m.based \ m.target

(* The turn of a feed: it failed, or it came with what it lists; what an   *)
(* earlier feed listed is not its own.                                     *)
Turn(m, came, list, held) ==
  [m EXCEPT !.came = came, !.held = held, !.want = list \ m.taken,
            !.taken = @ \cup list]

NextTurn(m) == [m EXCEPT !.turn = @ + 1, !.stamp = 0, !.came = FALSE,
                      !.held = FALSE, !.want = {}]

(* reconcile, its plan; a feed that is not enforced is only compared. *)
Planned(m, f) ==
  [m EXCEPT !.stamp = stamp + 1,
            !.put = IF m.held THEN m.want \cap Mine(m, f) ELSE m.want,
            !.drop = IF m.held THEN {} ELSE Mine(m, f) \ m.want]

(* Variant: a feed that failed is reconciled too, with nothing desired. *)
PlanFailedToo(p) ==
  /\ pc[p] = "feed" /\ my[p].turn =< Len(Order)
  /\ \E came \in BOOLEAN, list \in SUBSET Key, held \in BOOLEAN :
       LET m == Turn(my[p], came, list, held)
           f == Now(m)
       IN /\ came \/ (list = {} /\ ~held)
          /\ held => Brakeable(m, f)
          /\ IF Enforcing(m, f)
             THEN /\ stamp < MaxStamp /\ stamp' = stamp + 1
                  /\ Remember(p, Planned(m, f))
                  /\ Goto(p, "key")
             ELSE /\ Remember(p, NextTurn(m))
                  /\ UNCHANGED <<stamp, pc>>
  /\ UNCHANGED <<table, lock, boot, file, approved, at, history, runs, faults>>

Plan(p) ==
  /\ pc[p] = "feed" /\ my[p].turn =< Len(Order)
  /\ \E came \in BOOLEAN, list \in SUBSET Key, held \in BOOLEAN :
       LET m == Turn(my[p], came, list, held)
           f == Now(m)
       IN /\ came \/ (list = {} /\ ~held)
          /\ held => Brakeable(m, f)
          /\ IF came /\ Enforcing(m, f)
             THEN /\ stamp < MaxStamp /\ stamp' = stamp + 1
                  /\ Remember(p, Planned(m, f))
                  /\ Goto(p, "key")
             ELSE /\ Remember(p, NextTurn(m))
                  /\ UNCHANGED <<stamp, pc>>
  /\ UNCHANGED <<table, lock, boot, file, approved, at, history, runs, faults>>
-----------------------------------------------------------------------------
(* Variant: the key is looked up without the lock. *)
TakeUnlocked(p) ==
  /\ pc[p] = "key"
  /\ \E k \in IF my[p].put # {} THEN my[p].put ELSE my[p].drop :
       /\ key' = [key EXCEPT ![p] = k]
       /\ seen' = [seen EXCEPT ![p] = block[k]]
       /\ spent' = [spent EXCEPT ![p] = k \in lapsed]
       /\ masked' = [masked EXCEPT ![p] = FALSE]
  /\ Goto(p, IF my[p].put # {} THEN "put" ELSE "drop")
  /\ Works
  /\ UNCHANGED <<table, lock, boot, file, approved, stamp, my, history, runs>>

(* The lock and the lookup of the next key; inserts and refreshes first. *)
Take(p) ==
  /\ pc[p] = "key"
  /\ lock = Free
  /\ \E k \in IF my[p].put # {} THEN my[p].put ELSE my[p].drop :
       /\ key' = [key EXCEPT ![p] = k]
       /\ \/ /\ seen' = [seen EXCEPT ![p] = block[k]]
             /\ spent' = [spent EXCEPT ![p] = k \in lapsed]
             /\ masked' = [masked EXCEPT ![p] = FALSE]
             /\ Works
          \/ /\ MaskedErrors /\ block[k] # Absent
             /\ seen' = [seen EXCEPT ![p] = Absent]
             /\ spent' = [spent EXCEPT ![p] = FALSE]
             /\ masked' = [masked EXCEPT ![p] = TRUE]
             /\ Fault
  /\ lock' = p
  /\ Goto(p, IF my[p].put # {} THEN "put" ELSE "drop")
  /\ UNCHANGED <<table, boot, file, approved, stamp, my, history, runs>>

(* Variant: the lock is not closed. *)
ReleaseHolding(p, m) ==
  /\ UNCHANGED lock
  /\ Goto(p, "key")
  /\ Remember(p, [m EXCEPT !.put = @ \ {key[p]}, !.drop = @ \ {key[p]}])
  /\ Forget(p)
  /\ UNCHANGED <<boot, file, approved, stamp, history, runs>>

(* The key is done: m is what the process knows now. *)
Release(p, m) ==
  /\ lock' = IF lock = p THEN Free ELSE lock
  /\ Goto(p, "key")
  /\ Remember(p, [m EXCEPT !.put = @ \ {key[p]}, !.drop = @ \ {key[p]}])
  /\ Forget(p)
  /\ UNCHANGED <<boot, file, approved, stamp, history, runs>>

(* update_map. *)
Write(p) ==
  /\ block' = [block EXCEPT ![key[p]] = my[p].stamp]
  /\ lapsed' = lapsed \ {key[p]}

Purgeable(p) == my[p].corpses \cap Inside[key[p]] \cap lapsed

(* update_map and purge_covered; a purge that fails leaves corpses. *)
WriteAndPurge(p) ==
  \E gone \in SUBSET Purgeable(p) :
    /\ block' = [k \in Key |-> IF k = key[p] THEN my[p].stamp
                               ELSE IF k \in gone THEN Absent ELSE block[k]]
    /\ lapsed' = lapsed \ ({key[p]} \cup gone)
    /\ IF gone = Purgeable(p) THEN Works ELSE Fault

(* Variant: a refresh does not record the expiry it wrote. *)
WithRowUndated(m, k) ==
  [m EXCEPT !.owner = [@ EXCEPT ![k] = Now(m)],
            !.written = [@ EXCEPT ![k] = IF @ = 0 THEN m.stamp ELSE @],
            !.wrote = TRUE]

WithRow(m, k) ==
  [m EXCEPT !.owner = [@ EXCEPT ![k] = Now(m)],
            !.written = [@ EXCEPT ![k] = m.stamp], !.wrote = TRUE]
WithoutRow(m, k) ==
  [m EXCEPT !.owner = [@ EXCEPT ![k] = NoFeed],
            !.written = [@ EXCEPT ![k] = 0]]

HasRow(p) == my[p].owner[key[p]] = Now(my[p])

(* Variant: an own entry whose time is over is left alone. *)
OwnIfLive(p) == seen[p] = my[p].written[key[p]] /\ ~spent[p]

(* The compare and swap: the entry is still the one the journal has. *)
Own(p) == seen[p] = my[p].written[key[p]]

Refreshes(p) == HasRow(p) /\ seen[p] # Absent /\ Own(p)

(* The key is absent, a corpse that enforces nothing for anyone or, after  *)
(* a crash, a live entry that was probably ours; never a permanent one.    *)
Inserts(p) ==
  \/ seen[p] = Absent
  \/ /\ ~HasRow(p) /\ seen[p] # Permanent
     /\ (spent[p] \/ my[p].adoption)

(* one_key *)
Put(p) ==
  /\ pc[p] = "put"
  /\ \/ Refreshes(p) /\ Write(p) /\ Works /\ Release(p, WithRow(my[p], key[p]))
     \/ Inserts(p) /\ WriteAndPurge(p) /\ Release(p, WithRow(my[p], key[p]))
     \/ /\ ~Refreshes(p) /\ ~Inserts(p)
        /\ UNCHANGED table /\ Works
        /\ Release(p, IF HasRow(p) THEN WithoutRow(my[p], key[p]) ELSE my[p])

(* The update of one key failed, and may have written. *)
PutFails(p) ==
  /\ pc[p] = "put"
  /\ Refreshes(p) \/ Inserts(p)
  /\ UNCHANGED table \/ Write(p)
  /\ Fault
  /\ Release(p, my[p])

Remove(p) ==
  /\ block' = [block EXCEPT ![key[p]] = Absent]
  /\ lapsed' = lapsed \ {key[p]}

(* withdraw_key, and the body of the loop of mode_withdraw *)
Drop(p) ==
  /\ pc[p] = "drop"
  /\ IF seen[p] # Absent /\ Own(p)
     THEN /\ Remove(p)
          /\ Release(p, [WithoutRow(my[p], key[p]) EXCEPT !.wrote = TRUE])
     ELSE UNCHANGED table /\ Release(p, WithoutRow(my[p], key[p]))
  /\ Works

DropFails(p) ==
  /\ pc[p] = "drop"
  /\ seen[p] # Absent /\ Own(p)
  /\ UNCHANGED table \/ Remove(p)
  /\ Fault
  /\ Release(p, my[p])

KeysDone(p) == pc[p] = "key" /\ my[p].put = {} /\ my[p].drop = {}

(* The feeds whose applied baseline is not empty: it is what the feed owns  *)
(* now, and a held one keeps its own.                                      *)
Rebased(m) ==
  LET f == Now(m) IN
    IF m.held THEN m.based
    ELSE IF Mine(m, f) = {} THEN m.based \ {f} ELSE m.based \cup {f}

FeedDone(p) ==
  /\ KeysDone(p) /\ my[p].mode = "run"
  /\ Goto(p, "feed")
  /\ Remember(p, NextTurn([my[p] EXCEPT !.based = Rebased(my[p])]))
  /\ UNCHANGED <<table, lock, boot, file, approved, stamp, at, history, runs,
                 faults>>

RunDone(p) ==
  /\ pc[p] = "feed" /\ my[p].turn > Len(Order)
  /\ Save(my[p], FALSE)
  /\ End(p)
  /\ UNCHANGED <<table, lock, boot, approved, stamp, at, history, runs, faults>>

(* withdraw --feed revokes the approval; the marker is saved as it was. *)
Revoke(p) ==
  /\ KeysDone(p) /\ my[p].mode # "run"
  /\ approved' = IF my[p].mode = "withdraw" THEN approved \ my[p].target
                 ELSE approved
  /\ Goto(p, "save")
  /\ UNCHANGED <<table, lock, boot, file, stamp, my, at, history, runs, faults>>

WithdrawDone(p) ==
  /\ pc[p] = "save"
  /\ Save(my[p], my[p].marked)
  /\ End(p)
  /\ UNCHANGED <<table, lock, boot, approved, stamp, at, history, runs, faults>>
-----------------------------------------------------------------------------
(* Once the marker is saved, the end of a run matters. *)
Marked(p) == my[p].mode = "run" /\ pc[p] # "open"

Dies(p) ==
  /\ Fault
  /\ pc[p] # "idle"
  /\ lock' = IF lock = p THEN Free ELSE lock
  /\ End(p)
  /\ Forget(p)
  /\ UNCHANGED <<table, boot, approved, stamp, overlap, runs>>

Kill(p) ==
  /\ Dies(p)
  /\ died' = (died \/ Marked(p))
  /\ hurt' = (hurt \/ (Marked(p) /\ my[p].wrote))
  /\ UNCHANGED file

(* An exception clears the marker of a run that wrote nothing. *)
Crash(p) ==
  /\ Dies(p)
  /\ Marked(p) /\ pc[p] # "fetch"
  /\ IF my[p].wrote
     THEN died' = TRUE /\ hurt' = TRUE /\ UNCHANGED file
     ELSE Save(my[p], FALSE) /\ UNCHANGED <<died, hurt>>

Reboot ==
  /\ Fault
  /\ block' = [k \in Key |-> Absent] /\ lapsed' = {}
  /\ boot' = boot + 1
  /\ lock' = Free
  /\ pc' = [p \in Loader |-> "idle"]
  /\ my' = [p \in Loader |-> Blank]
  /\ key' = [p \in Loader |-> NoKey]
  /\ seen' = [p \in Loader |-> Absent]
  /\ spent' = [p \in Loader |-> FALSE]
  /\ masked' = [p \in Loader |-> FALSE]
  /\ died' = FALSE /\ hurt' = FALSE /\ overlap' = FALSE
  /\ UNCHANGED <<file, approved, stamp, runs>>

rest == <<boot, file, approved, stamp, pc, my, at, history, runs, faults>>

(* nodeguard-block and the responder, under the lock. *)
ForeignBlock(k) ==
  /\ lock = Free
  /\ \/ block[k] # Permanent /\ block' = [block EXCEPT ![k] = Foreign]
     \/ block' = [block EXCEPT ![k] = Permanent]
  /\ lapsed' = lapsed \ {k}
  /\ UNCHANGED <<lock, rest>>

(* nodeguard-unblock, and a flush key by key, take no lock. *)
Unblock(k) ==
  /\ block[k] # Absent
  /\ block' = [block EXCEPT ![k] = Absent]
  /\ lapsed' = lapsed \ {k}
  /\ UNCHANGED <<lock, rest>>

Lapse(k) ==
  /\ block[k] \notin {Absent, Permanent} /\ k \notin lapsed
  /\ lapsed' = lapsed \cup {k}
  /\ UNCHANGED <<block, lock, rest>>

Sweep(k) ==
  /\ lock = Free
  /\ k \in lapsed
  /\ block' = [block EXCEPT ![k] = Absent]
  /\ lapsed' = lapsed \ {k}
  /\ UNCHANGED <<lock, rest>>

RunStep(p) ==
  \/ Mark(p) \/ Fetch(p) \/ Plan(p) \/ Take(p) \/ Put(p) \/ PutFails(p)
  \/ Drop(p) \/ DropFails(p) \/ FeedDone(p) \/ RunDone(p)
  \/ Revoke(p) \/ WithdrawDone(p)

Next ==
  \/ \E p \in Loader :
       \/ RunStart(p) \/ (\E f \in Feed : ApplyStart(p, f)) \/ WithdrawStart(p)
       \/ RunStep(p) \/ Kill(p) \/ Crash(p)
  \/ \E k \in Key : ForeignBlock(k) \/ Unblock(k) \/ Lapse(k) \/ Sweep(k)
  \/ Reboot

Spec == Init /\ [][Next]_vars
-----------------------------------------------------------------------------
Value == Nat \cup {Absent, Foreign}
Rows == [Key -> Feed \cup {NoFeed}]
Memory ==
  [mode : {"none", "run", "withdraw", "withdraw_all"},
   owner : Rows, written : [Key -> Nat], boot : Nat, marked : BOOLEAN,
   based : SUBSET Feed, adoption : BOOLEAN, approved : SUBSET Feed,
   target : SUBSET Feed, corpses : SUBSET Key, turn : Nat, taken : SUBSET Key,
   want : SUBSET Key, came : BOOLEAN, held : BOOLEAN, stamp : Nat,
   put : SUBSET Key, drop : SUBSET Key, wrote : BOOLEAN]

AtKey(p) == pc[p] \in {"put", "drop"}

(* Every variable has its type, and a process holds the block lock exactly *)
(* while it is at a key.                                                   *)
TypeOK ==
  /\ block \in [Key -> Value] /\ lapsed \subseteq {k \in Key : block[k] # Absent}
  /\ lock \in Loader \cup {Free} /\ boot \in Nat
  /\ owner \in Rows /\ written \in [Key -> Nat]
  /\ running \in BOOLEAN /\ file_boot \in Nat /\ based \subseteq Feed
  /\ approved \subseteq Feed /\ stamp \in Nat
  /\ pc \in [Loader -> {"idle", "open", "fetch", "feed", "key", "put", "drop",
                        "save"}]
  /\ my \in [Loader -> Memory]
  /\ key \in [Loader -> Key \cup {NoKey}] /\ seen \in [Loader -> Value]
  /\ spent \in [Loader -> BOOLEAN] /\ masked \in [Loader -> BOOLEAN]
  /\ died \in BOOLEAN /\ hurt \in BOOLEAN /\ overlap \in BOOLEAN
  /\ runs \in Nat /\ faults \in Nat
  /\ \A p \in Loader : AtKey(p) <=> lock = p

(* The step in which p is done with a key. *)
Handles(p) == AtKey(p) /\ pc'[p] = "key"

(***************************************************************************)
(* A live entry of another writer is changed by no run, purge or           *)
(* withdrawal, but for an entry with an expiry that an adopting run takes  *)
(* for its own, and for a lookup that failed without saying so.            *)
(***************************************************************************)
ForeignSpared ==
  [][\A p \in Loader : Handles(p) =>
       \A k \in Key :
         Live(k) /\ block[k] \in {Foreign, Permanent} /\ block'[k] # block[k] =>
           /\ k = key[p]
           /\ masked[p] \/ (my[p].adoption /\ block[k] = Foreign)]_vars

(***************************************************************************)
(* A live entry of the loader's own is deleted only by a withdraw command, *)
(* or by a run in which its feed came through, was not held, and either    *)
(* left it out or lost it to an earlier feed (INVARIANT W1).               *)
(***************************************************************************)
WithdrawalWarranted ==
  [][\A p \in Loader : Handles(p) =>
       \A k \in Key :
         Live(k) /\ block[k] \in Stamp /\ block'[k] = Absent =>
           LET f == my[p].owner[k] IN
             /\ k = key[p]
             /\ \/ my[p].mode # "run" /\ f \in my[p].target
                \/ /\ f = Now(my[p]) /\ my[p].came /\ ~my[p].held
                   /\ k \notin my[p].want]_vars

(***************************************************************************)
(* Adoption is armed only in a boot in which a run was killed, or failed   *)
(* after a write, or in which two processes of the program have met.       *)
(***************************************************************************)
AdoptionEarned == \A p \in Loader : my[p].adoption => died \/ overlap

(***************************************************************************)
(* As long as nothing fails and nothing overlaps, every entry of the       *)
(* loader's in the map is in its journal as it was written: nothing of its *)
(* own escapes a later refresh, hand-over or withdrawal.                   *)
(***************************************************************************)
Accounted ==
  faults = 0 /\ ~overlap =>
    \A k \in Key : block[k] \in Stamp =>
      \/ \E p \in Loader : /\ pc[p] # "idle"
                           /\ my[p].owner[k] # NoFeed
                           /\ my[p].written[k] = block[k]
      \/ /\ \A p \in Loader : pc[p] = "idle"
         /\ owner[k] # NoFeed /\ written[k] = block[k]

(* Under the same conditions a withdrawal of everything leaves nothing. *)
WithdrawnClean ==
  faults = 0 /\ ~overlap =>
    \A p \in Loader : pc[p] = "save" /\ my[p].mode = "withdraw_all" =>
      \A k \in Key : block[k] \notin Stamp

(***************************************************************************)
(* After a run that died with writes, "the next same-boot run enters       *)
(* bounded crash-adoption mode" (openspec/specs/feed-loading/spec.md:190). *)
(***************************************************************************)
CrashRecovered ==
  [][\A p \in Loader : hurt /\ pc[p] = "idle" /\ pc'[p] = "open" =>
                         my'[p].adoption]_vars
=============================================================================
