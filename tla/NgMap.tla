------------------------------- MODULE NgMap -------------------------------
(***************************************************************************)
(* The block map of bin/ngmap.py: the block, unblock, flush and sweep      *)
(* commands as processes that interleave with each other, with the kernel  *)
(* program that matches packets against the map, and with the clock.       *)
(*                                                                         *)
(* The commands call bpftool once per map operation, so every lookup,      *)
(* write, delete and dump is a step of its own.  block and sweep hold the  *)
(* inter-process block lock around their read and write; unblock and flush *)
(* take no lock.  Networks are values with the set of addresses they span. *)
(***************************************************************************)
EXTENDS Naturals

CONSTANTS
  Net, Addr,
  Span,          \* addresses of a network
  Base,          \* its network_address
  Ver,           \* its family, 4 or 6: each family has its own map
  Broad,         \* networks shorter than the /8 (/32) minimum of cmd_block
  NeverBlock,    \* the NEVER_BLOCK ranges
  AllowNet,      \* networks the allow maps may hold
  TTL,           \* durations a block command may ask for
  Blocker, Sweeper, Operator,   \* block, sweep and unblock/flush processes
  Nobody,        \* the value of a free lock
  Absent,        \* the value of a key that is not in the map
  MaskedErrors,  \* may a lookup fail for a reason other than a miss?
  MaxClock, MaxHits, MaxFaults  \* bounds of the model

Proc == Blocker \cup Sweeper \cup Operator
Entry == [exp : Nat, hits : Nat]

ASSUME NetAssumption ==
  /\ Net # {}
  /\ Span \in [Net -> SUBSET Addr]
  /\ Base \in [Net -> Addr]
  /\ \A n \in Net : Base[n] \in Span[n]
  /\ Ver \in [Net -> {4, 6}]
  /\ Broad \subseteq Net /\ NeverBlock \subseteq Net /\ AllowNet \subseteq Net

(* CIDR networks nest or are disjoint. *)
ASSUME NestingAssumption ==
  \A m, n \in Net : \/ Span[m] \subseteq Span[n]
                    \/ Span[n] \subseteq Span[m]
                    \/ Span[m] \cap Span[n] = {}

ASSUME ProcAssumption ==
  /\ Blocker \cap Sweeper = {} /\ Blocker \cap Operator = {}
  /\ Sweeper \cap Operator = {}
  /\ Nobody \notin Proc

ASSUME ValueAssumption ==
  /\ Absent \notin Entry /\ Absent \notin Nat
  /\ \A t \in TTL : t \in Nat \ {0}
  /\ MaskedErrors \in BOOLEAN
  /\ MaxClock \in Nat /\ MaxHits \in Nat /\ MaxFaults \in Nat

VARIABLES
  block,   \* the block maps: [exp, hits] of a network, or Absent
  allow,   \* the allow maps, as a set of networks
  clock,   \* CLOCK_MONOTONIC
  lock,    \* holder of /run/nodeguard/block.lock
  pc,      \* what each process does next
  loc,     \* its arguments and local variables
  missed,  \* history: hits that landed since the lookup of a block command
  faults   \* kills, timeouts and reboots so far

vars == <<block, allow, clock, lock, pc, loc, missed, faults>>

(***************************************************************************)
(* net, ttl (0: permanent) and force (--i-mean-it) are the arguments of a  *)
(* block; expiry and hits the value it will write; now, ver, todo and key  *)
(* the clock reading, family, candidates and current key of a walk.        *)
(* masked is a history the code has no notion of: the lookups of a block   *)
(* command that failed and were taken for a miss.                          *)
(***************************************************************************)
SomeNet == CHOOSE n \in Net : TRUE
NoArgs ==
  [net |-> SomeNet, ttl |-> 0, force |-> FALSE, expiry |-> 0, hits |-> 0,
   now |-> 0, ver |-> 4, todo |-> {}, key |-> SomeNet, masked |-> {}]

Locals ==
  [net : Net, ttl : Nat, force : BOOLEAN, expiry : Nat, hits : Nat,
   now : Nat, ver : {4, 6}, todo : SUBSET Net, key : Net,
   masked : SUBSET {"lookup", "examine"}]

(* The labels between block_lock() and lock.close(). *)
Critical == {"lookup", "write", "purge", "examine", "evict", "done",
             "recheck", "collect"}
Label == Critical \cup {"idle", "contain", "acquire", "dump", "pick", "queue"}

HostRoute(n) == \E a \in Addr : Span[n] = {a}
Within(c, n) == c # n /\ Span[c] \subseteq Span[n]

(* expiry and now >= expiry *)
Expired(e, t) == e # Absent /\ e.exp # 0 /\ e.exp =< t
Live(e, t) == e # Absent /\ ~Expired(e, t)

Keys == {n \in Net : block[n] # Absent}

Init ==
  /\ block = [n \in Net |-> Absent]
  /\ allow \in SUBSET AllowNet
  /\ clock = 1
  /\ lock = Nobody
  /\ pc = [p \in Proc |-> "idle"]
  /\ loc = [p \in Proc |-> NoArgs]
  /\ missed = [p \in Proc |-> 0]
  /\ faults = 0

-----------------------------------------------------------------------------
(* The command exits; the kernel drops its flock with the descriptor. *)
Exit(p) ==
  /\ pc' = [pc EXCEPT ![p] = "idle"]
  /\ loc' = [loc EXCEPT ![p] = NoArgs]
  /\ missed' = [missed EXCEPT ![p] = 0]
  /\ lock' = IF lock = p THEN Nobody ELSE lock

Goto(p, label) == pc' = [pc EXCEPT ![p] = label]

(* block_lock() *)
Acquire(p) ==
  /\ lock = Nobody
  /\ \/ p \in Blocker /\ pc[p] = "acquire" /\ Goto(p, "lookup")
     \/ p \in Sweeper /\ pc[p] = "queue" /\ Goto(p, "recheck")
  /\ lock' = p
  /\ UNCHANGED <<block, allow, clock, loc, missed, faults>>

-----------------------------------------------------------------------------
(* cmd_block: argument checks and is_protected on the network address. *)
BlockRequest(p) ==
  /\ pc[p] = "idle"
  /\ \E n \in Net, t \in TTL \cup {0}, f \in BOOLEAN :
       /\ n \in Broad => f
       /\ t = 0 => f
       /\ \A q \in NeverBlock \cup allow : Base[n] \notin Span[q]
       /\ loc' = [loc EXCEPT ![p] = [@ EXCEPT !.net = n, !.ttl = t, !.force = f]]
  /\ Goto(p, "contain")
  /\ UNCHANGED <<block, allow, clock, lock, missed, faults>>

(* Variant: only the allow maps are searched, not the never-block ranges. *)
ContainsAllowed(n) ==
  /\ ~HostRoute(n)
  /\ \E q \in allow : Span[q] \subseteq Span[n]

(* contains_protected, on a second dump of the allow maps *)
ContainsProtected(n) ==
  /\ ~HostRoute(n)
  /\ \E q \in NeverBlock \cup allow : Span[q] \subseteq Span[n]

(* Variant: the lifetime is computed backwards. *)
BlockContainReversed(p) ==
  /\ pc[p] = "contain"
  /\ ~ContainsProtected(loc[p].net)
  /\ loc' = [loc EXCEPT ![p].expiry = loc[p].ttl - clock]
  /\ Goto(p, "acquire")
  /\ UNCHANGED <<block, allow, clock, lock, missed, faults>>

(* The containment refusal, and the expiry fixed before the lock. *)
BlockContain(p) ==
  /\ pc[p] = "contain"
  /\ \/ /\ ContainsProtected(loc[p].net)
        /\ Exit(p)
     \/ /\ ~ContainsProtected(loc[p].net)
        /\ loc' = [loc EXCEPT ![p].expiry =
                     IF loc[p].ttl = 0 THEN 0 ELSE clock + loc[p].ttl]
        /\ Goto(p, "acquire")
        /\ UNCHANGED <<lock, missed>>
  /\ UNCHANGED <<block, allow, clock, faults>>

(* Variant: a refresh of a live entry starts its count again. *)
BlockLookupForgets(p) ==
  /\ pc[p] = "lookup"
  /\ LET cur == block[loc[p].net] IN
       IF Live(cur, clock) /\ cur.exp = 0 /\ ~loc[p].force
       THEN Exit(p)
       ELSE Goto(p, "write") /\ UNCHANGED <<lock, loc, missed>>
  /\ UNCHANGED <<block, allow, clock, faults>>

(* Variant: a permanent entry is refreshed like any other. *)
BlockLookupDemotes(p) ==
  /\ pc[p] = "lookup"
  /\ LET cur == block[loc[p].net] IN
       loc' = [loc EXCEPT ![p].hits = IF Live(cur, clock) THEN cur.hits ELSE 0]
  /\ Goto(p, "write")
  /\ UNCHANGED <<block, allow, clock, lock, missed, faults>>

(* The locked lookup: refuse, carry the hits of a live entry, or start at 0. *)
BlockLookup(p) ==
  /\ pc[p] = "lookup"
  /\ LET cur == block[loc[p].net] IN
       \/ /\ Live(cur, clock) /\ cur.exp = 0 /\ ~loc[p].force
          /\ Exit(p)
       \/ /\ Live(cur, clock)
          /\ cur.exp = 0 => loc[p].force
          /\ loc' = [loc EXCEPT ![p].hits = cur.hits]
          /\ Goto(p, "write")
          /\ UNCHANGED <<lock, missed>>
       \/ /\ ~Live(cur, clock)
          /\ Goto(p, "write")
          /\ UNCHANGED <<lock, loc, missed>>
  /\ UNCHANGED <<block, allow, clock, faults>>

(* lookup_value: any nonzero exit of bpftool reads as an absent key.  So a *)
(* block writes as if the key were free, a purge or a sweep passes over it. *)
MaskedLookup(p) ==
  /\ MaskedErrors
  /\ faults < MaxFaults
  /\ faults' = faults + 1
  /\ \/ /\ pc[p] = "lookup"
        /\ loc' = [loc EXCEPT ![p].masked = @ \cup {"lookup"}]
        /\ Goto(p, "write")
        /\ UNCHANGED lock
     \/ /\ pc[p] = "examine"
        /\ \E c \in loc[p].todo :
             loc' = [loc EXCEPT ![p] = [@ EXCEPT !.todo = loc[p].todo \ {c},
                                  !.masked = loc[p].masked \cup {"examine"}]]
        /\ UNCHANGED <<lock, pc>>
     \/ /\ pc[p] = "recheck"
        /\ Goto(p, "pick")
        /\ lock' = Nobody
        /\ UNCHANGED loc
  /\ UNCHANGED <<block, allow, clock, missed>>

BlockWrite(p) ==
  /\ pc[p] = "write"
  /\ block' = [block EXCEPT ![loc[p].net] =
                 [exp |-> loc[p].expiry, hits |-> loc[p].hits]]
  /\ Goto(p, IF HostRoute(loc[p].net) THEN "done" ELSE "purge")
  /\ missed' = [missed EXCEPT ![p] = 0]
  /\ UNCHANGED <<allow, clock, lock, loc, faults>>

(* Variant: an entry that expires at this very instant is not a candidate. *)
PurgeDumpStrict(p) ==
  /\ pc[p] = "purge"
  /\ LET corpses == {c \in Net : /\ Within(c, loc[p].net)
                                 /\ Expired(block[c], clock - 1)}
     IN  loc' = [loc EXCEPT ![p] = [@ EXCEPT !.now = clock, !.todo = corpses]]
  /\ Goto(p, "examine")
  /\ UNCHANGED <<block, allow, clock, lock, missed, faults>>

(* purge_contained_expired: the dump of expired_entries, filtered. *)
PurgeDump(p) ==
  /\ pc[p] = "purge"
  /\ LET corpses == {c \in Net : /\ Within(c, loc[p].net)
                                 /\ Expired(block[c], clock)}
     IN  loc' = [loc EXCEPT ![p] = [@ EXCEPT !.now = clock, !.todo = corpses]]
  /\ Goto(p, "examine")
  /\ UNCHANGED <<block, allow, clock, lock, missed, faults>>

(* Each candidate is looked up again and kept unless still expired. *)
PurgeExamine(p) ==
  /\ pc[p] = "examine"
  /\ \E c \in loc[p].todo :
       /\ loc' = [loc EXCEPT ![p] = [@ EXCEPT !.todo = loc[p].todo \ {c}, !.key = c]]
       /\ Goto(p, IF Expired(block[c], loc[p].now) THEN "evict" ELSE "examine")
  /\ UNCHANGED <<block, allow, clock, lock, missed, faults>>

PurgeEvict(p) ==
  /\ pc[p] = "evict"
  /\ block' = [block EXCEPT ![loc[p].key] = Absent]
  /\ Goto(p, "examine")
  /\ UNCHANGED <<allow, clock, lock, loc, missed, faults>>

PurgeDone(p) ==
  /\ pc[p] = "examine" /\ loc[p].todo = {}
  /\ Goto(p, "done")
  /\ UNCHANGED <<block, allow, clock, lock, loc, missed, faults>>

BlockDone(p) ==
  /\ pc[p] = "done"
  /\ Exit(p)
  /\ UNCHANGED <<block, allow, clock, faults>>

-----------------------------------------------------------------------------
(* cmd_sweep reads the clock once, then walks one family after the other. *)
SweepStart(p) ==
  /\ pc[p] = "idle"
  /\ loc' = [loc EXCEPT ![p].now = clock]
  /\ Goto(p, "dump")
  /\ UNCHANGED <<block, allow, clock, lock, missed, faults>>

(* Variant: an entry that expires at this very instant is not a candidate. *)
SweepDumpStrict(p) ==
  /\ pc[p] = "dump"
  /\ loc' = [loc EXCEPT ![p].todo =
               {n \in Net : /\ Ver[n] = loc[p].ver
                            /\ Expired(block[n], loc[p].now - 1)}]
  /\ Goto(p, "pick")
  /\ UNCHANGED <<block, allow, clock, lock, missed, faults>>

(* The entries of the dump that were expired when the sweep began. *)
SweepDump(p) ==
  /\ pc[p] = "dump"
  /\ loc' = [loc EXCEPT ![p].todo =
               {n \in Net : /\ Ver[n] = loc[p].ver
                            /\ Expired(block[n], loc[p].now)}]
  /\ Goto(p, "pick")
  /\ UNCHANGED <<block, allow, clock, lock, missed, faults>>

SweepPick(p) ==
  /\ pc[p] = "pick"
  /\ \E k \in loc[p].todo :
       loc' = [loc EXCEPT ![p] = [@ EXCEPT !.todo = loc[p].todo \ {k}, !.key = k]]
  /\ Goto(p, "queue")
  /\ UNCHANGED <<block, allow, clock, lock, missed, faults>>

(* Variant: the snapshot is trusted, the key is not looked up again. *)
SweepTrusts(p) ==
  /\ pc[p] = "recheck"
  /\ Goto(p, "collect")
  /\ UNCHANGED <<block, allow, clock, lock, loc, missed, faults>>

(* Variant: skipping a key leaves the lock held. *)
SweepKeepsLock(p) ==
  /\ pc[p] = "recheck"
  /\ Goto(p, IF Expired(block[loc[p].key], loc[p].now) THEN "collect" ELSE "pick")
  /\ UNCHANGED <<block, allow, clock, lock, loc, missed, faults>>

(* Under the lock: skip a key that vanished or was blocked afresh. *)
SweepRecheck(p) ==
  /\ pc[p] = "recheck"
  /\ IF Expired(block[loc[p].key], loc[p].now)
     THEN Goto(p, "collect") /\ UNCHANGED lock
     ELSE Goto(p, "pick") /\ lock' = Nobody
  /\ UNCHANGED <<block, allow, clock, loc, missed, faults>>

SweepCollect(p) ==
  /\ pc[p] = "collect"
  /\ block' = [block EXCEPT ![loc[p].key] = Absent]
  /\ lock' = Nobody
  /\ Goto(p, "pick")
  /\ UNCHANGED <<allow, clock, loc, missed, faults>>

(* The candidates of one family are exhausted. *)
NextFamily(p) ==
  /\ pc[p] = "pick" /\ loc[p].todo = {}
  /\ \/ /\ loc[p].ver = 4
        /\ loc' = [loc EXCEPT ![p].ver = 6]
        /\ Goto(p, "dump")
        /\ UNCHANGED <<lock, missed>>
     \/ loc[p].ver = 6 /\ Exit(p)
  /\ UNCHANGED <<block, allow, clock, faults>>

-----------------------------------------------------------------------------
(* cmd_unblock and cmd_flush delete without the lock. *)
UnblockRequest(p) ==
  /\ pc[p] = "idle"
  /\ \E n \in Net : loc' = [loc EXCEPT ![p] = [@ EXCEPT !.todo = {n}, !.ver = 6]]
  /\ Goto(p, "pick")
  /\ UNCHANGED <<block, allow, clock, lock, missed, faults>>

FlushRequest(p) ==
  /\ pc[p] = "idle"
  /\ Goto(p, "dump")
  /\ UNCHANGED <<block, allow, clock, lock, loc, missed, faults>>

FlushDump(p) ==
  /\ pc[p] = "dump"
  /\ loc' = [loc EXCEPT ![p].todo = {n \in Keys : Ver[n] = loc[p].ver}]
  /\ Goto(p, "pick")
  /\ UNCHANGED <<block, allow, clock, lock, missed, faults>>

OperatorDelete(p) ==
  /\ pc[p] = "pick"
  /\ \E k \in loc[p].todo :
       /\ block' = [block EXCEPT ![k] = Absent]
       /\ loc' = [loc EXCEPT ![p].todo = @ \ {k}]
  /\ UNCHANGED <<allow, clock, lock, pc, missed, faults>>

-----------------------------------------------------------------------------
(* A killed command, or a bpftool call that fails or times out.  A failed  *)
(* purge exits 0 and every other failure exits 1: the map cannot tell.     *)
Die(p) ==
  /\ pc[p] # "idle"
  /\ faults < MaxFaults
  /\ faults' = faults + 1
  /\ Exit(p)
  /\ UNCHANGED <<block, allow, clock>>

(* The pinned maps and every process are gone; the clock starts again. *)
Reboot ==
  /\ faults < MaxFaults
  /\ faults' = faults + 1
  /\ block' = [n \in Net |-> Absent]
  /\ clock' = 1
  /\ lock' = Nobody
  /\ pc' = [p \in Proc |-> "idle"]
  /\ loc' = [p \in Proc |-> NoArgs]
  /\ missed' = [p \in Proc |-> 0]
  /\ UNCHANGED allow

Tick ==
  /\ clock < MaxClock
  /\ clock' = clock + 1
  /\ UNCHANGED <<block, allow, lock, pc, loc, missed, faults>>

(* One update or delete of cmd_reconcile_allow. *)
AllowChange ==
  /\ \E n \in AllowNet : allow' \in {allow \cup {n}, allow \ {n}} \ {allow}
  /\ UNCHANGED <<block, clock, lock, pc, loc, missed, faults>>

(* n is the longest match of a in the block map. *)
LongestMatch(a, n) ==
  /\ n \in Keys /\ a \in Span[n]
  /\ \A m \in Keys : a \in Span[m] => Span[n] \subseteq Span[m]

Allowed(a) == \E q \in allow : a \in Span[q]

(* The kernel drops a packet of source a: only a drop touches the map. *)
Drop(a) ==
  /\ ~Allowed(a)
  /\ \E n \in Net :
       /\ LongestMatch(a, n)
       /\ Live(block[n], clock)
       /\ block[n].hits < MaxHits
       /\ block' = [block EXCEPT ![n].hits = @ + 1]
       /\ missed' = [p \in Proc |->
                       IF pc[p] = "write" /\ loc[p].net = n
                       THEN missed[p] + 1 ELSE missed[p]]
  /\ UNCHANGED <<allow, clock, lock, pc, loc, faults>>

-----------------------------------------------------------------------------
BlockStep(p) ==
  \/ BlockContain(p) \/ BlockLookup(p) \/ BlockWrite(p) \/ PurgeDump(p)
  \/ PurgeExamine(p) \/ PurgeEvict(p) \/ PurgeDone(p) \/ BlockDone(p)

SweepStep(p) ==
  \/ SweepStart(p) \/ SweepDump(p) \/ SweepPick(p) \/ SweepRecheck(p)
  \/ SweepCollect(p) \/ NextFamily(p)

OperatorStep(p) == FlushDump(p) \/ OperatorDelete(p) \/ NextFamily(p)

Next ==
  \/ \E p \in Blocker : BlockRequest(p) \/ BlockStep(p)
  \/ \E p \in Sweeper : SweepStep(p)
  \/ \E p \in Operator : UnblockRequest(p) \/ FlushRequest(p) \/ OperatorStep(p)
  \/ \E p \in Proc : Acquire(p) \/ MaskedLookup(p) \/ Die(p)
  \/ \E a \in Addr : Drop(a)
  \/ AllowChange \/ Tick \/ Reboot

Spec == Init /\ [][Next]_vars

(***************************************************************************)
(* A started command takes its next step: every bpftool call is bounded by *)
(* a timeout.  flock wakes its waiters in turn, so a waiting process is    *)
(* not passed over for ever.  The timer starts the sweep again and again.  *)
(***************************************************************************)
Fairness ==
  /\ \A p \in Blocker : WF_vars(BlockStep(p)) /\ SF_vars(Acquire(p))
  /\ \A p \in Sweeper : WF_vars(SweepStep(p)) /\ SF_vars(Acquire(p))

FairSpec == Spec /\ Fairness
-----------------------------------------------------------------------------
(* Every variable has its type, and a network keeps its place in a walk. *)
TypeOK ==
  /\ block \in [Net -> Entry \cup {Absent}]
  /\ allow \in SUBSET AllowNet
  /\ clock \in Nat \ {0}
  /\ lock \in Proc \cup {Nobody}
  /\ pc \in [Proc -> Label]
  /\ loc \in [Proc -> Locals]
  /\ missed \in [Proc -> Nat]
  /\ faults \in Nat

(***************************************************************************)
(* A refresh carries the hits of the live entry it replaces.  What it can  *)
(* lose is confined to the packets the kernel dropped between its locked   *)
(* lookup and its write: nothing another command does can lose any.  The   *)
(* exception is a lookup that failed and read as a miss: that command      *)
(* starts the count again.                                                 *)
(***************************************************************************)
LossConfined ==
  \A p \in Blocker :
    LET cur == block[loc[p].net] IN
      pc[p] = "write" /\ "lookup" \notin loc[p].masked /\ Live(cur, clock) =>
        cur.hits = loc[p].hits + missed[p]

(***************************************************************************)
(* When a block command that inserted a network reaches the end of its     *)
(* purge, no address it covers is passed because of a corpse that was      *)
(* there when the purge began: if the network is still in the map, each of *)
(* its addresses is answered by an entry that was not expired then.  The   *)
(* exception is a purge one of whose lookups failed and read as a miss: it *)
(* leaves that corpse to the sweep.                                        *)
(***************************************************************************)
CoverAnswers ==
  \A p \in Blocker :
    /\ pc[p] = "done" /\ "examine" \notin loc[p].masked
    /\ loc[p].net \in Keys /\ ~HostRoute(loc[p].net)
    =>
      \A a \in Span[loc[p].net], n \in Net :
        LongestMatch(a, n) =>
          n = loc[p].net \/ ~Expired(block[n], loc[p].now)

(* Checking the network address and the ranges inside a network is enough: *)
(* no entry of the map ever overlaps a never-block range.                  *)
NeverBlockSpared ==
  \A n \in Keys, q \in NeverBlock : Span[n] \cap Span[q] = {}

(* An operator's unblock or flush is about to delete n. *)
Revoking == UNION {loc[p].todo : p \in {o \in Operator : pc[o] = "pick"}}

(* A command with --i-mean-it for n is in flight. *)
Overriding == {n \in Net : \E p \in Blocker : /\ pc[p] # "idle"
                                              /\ loc[p].net = n
                                              /\ loc[p].force}

(* A block command whose lookup of n failed is about to write n unread. *)
Unread == {n \in Net : \E p \in Blocker : /\ pc[p] = "write"
                                          /\ loc[p].net = n
                                          /\ "lookup" \in loc[p].masked}

(***************************************************************************)
(* No sweep and no purge ever deletes a live or permanent entry, even one  *)
(* written after the snapshot that made it a candidate: outside a reboot,  *)
(* only an operator's unblock or flush removes an entry that is not        *)
(* expired at the moment of the deletion.                                  *)
(***************************************************************************)
OnlyCorpsesCollected ==
  [][\A n \in Net :
       block[n] # Absent /\ block'[n] = Absent =>
         Expired(block[n], clock) \/ n \in Revoking \/ Reboot]_vars

(***************************************************************************)
(* The inductive invariant behind these properties: the lock excludes      *)
(* every other writer between the lookup of a command and its write or     *)
(* delete, so what the lookup established still holds when it is used.     *)
(***************************************************************************)
LockInv == \A p \in Proc : pc[p] \in Critical <=> lock = p

(* A walk's reading of the clock is in the past, and what the locked lookup *)
(* found expired has not come back to life.                                 *)
ExpiredInv ==
  \A p \in Proc :
    /\ loc[p].now =< clock
    /\ pc[p] \in {"evict", "collect"} =>
         block[loc[p].key] = Absent \/ Expired(block[loc[p].key], clock)

(* The target of a block passed the refusals. *)
RefusalInv ==
  \A p \in Blocker, q \in NeverBlock :
    /\ pc[p] = "contain" => Base[loc[p].net] \notin Span[q]
    /\ pc[p] \in {"acquire", "lookup", "write"} =>
         Span[loc[p].net] \cap Span[q] = {}

(* The entry about to be written over is the one that was looked up. *)
WriteInv ==
  \A p \in Blocker :
    LET cur == block[loc[p].net] IN
      /\ pc[p] # "write" => missed[p] = 0
      /\ pc[p] \in {"contain", "acquire", "lookup", "write"} =>
           (loc[p].ttl = 0 => loc[p].force)
      /\ pc[p] \in {"acquire", "lookup", "write"} =>
           (loc[p].expiry = 0 <=> loc[p].ttl = 0)
      /\ pc[p] = "write" /\ "lookup" \notin loc[p].masked =>
           /\ cur # Absent /\ cur.exp = 0 => loc[p].force
           /\ Live(cur, clock) => cur.hits = loc[p].hits + missed[p]

(* A corpse the purge dump saw is still a candidate, or gone. *)
PurgeInv ==
  \A p \in Blocker, c \in Net :
    \/ "examine" \in loc[p].masked \/ pc[p] \notin {"examine", "evict", "done"}
    \/ HostRoute(loc[p].net) \/ ~Within(c, loc[p].net)
    \/ ~Expired(block[c], loc[p].now)
    \/ c \in loc[p].todo /\ pc[p] # "done"
    \/ c = loc[p].key /\ pc[p] = "evict"

MapInv == LockInv /\ ExpiredInv /\ RefusalInv /\ WriteInv /\ PurgeInv /\ NeverBlockSpared

(* The map implements the table of leases. *)
Table ==
  INSTANCE BlockTable WITH
    table <- [n \in Net |-> IF block[n] = Absent THEN Absent ELSE block[n].exp],
    now <- clock,
    consent <- Overriding,
    unread <- Unread,
    revoking <- Revoking

(***************************************************************************)
(* The commands of ngmap.py, interleaved in any way and killed or failing  *)
(* anywhere, give the lease table its users rely on: leases end by expiry  *)
(* or by an operator's request, an entry becomes permanent only by         *)
(* consent, and a permanent entry is overwritten only by consent or by a   *)
(* command whose locked lookup failed and read as a miss.                  *)
(***************************************************************************)
Lease == Table!Spec

(* Every corpse is eventually collected or replaced: the sweep is a *)
(* backstop for what no writer ever covers.                         *)
CorpsesGo ==
  \A n \in Net : Expired(block[n], clock) ~> ~Expired(block[n], clock)

(* No block command waits for ever on the lock or for its purge to end. *)
BlockEnds == \A p \in Blocker : pc[p] # "idle" ~> pc[p] = "idle"
=============================================================================
