------------------------------ MODULE FeedsProofs ------------------------------
(***************************************************************************)
(* Proofs about Feeds, for any networks, feeds, loaders and faults.  What  *)
(* a process holds in memory is tied to its label (Local); only the keys   *)
(* under the lock, the marker and, when nothing fails, the rows of the     *)
(* sole process relate memory to the map and the file.                     *)
(***************************************************************************)
EXTENDS Feeds, TLAPS, SequenceTheorems

(* What a process holds at a label: where it is at a key, the key is among  *)
(* those it still has to do, and only a run has any to put.                *)
Place(m, label, k) ==
  /\ label = "idle" => m = Blank
  /\ label # "idle" => m.mode # "none"
  /\ label \in {"open", "fetch", "feed"} => m.mode = "run" /\ m.put = {} /\ m.drop = {}
  /\ label = "save" => m.mode # "run" /\ m.drop = {}
  /\ label = "put" => k \in m.put
  /\ label = "drop" => k \in m.drop /\ m.put = {}
  /\ m.mode # "run" => m.put = {}
  /\ m.turn >= 1
  /\ m.mode = "run" /\ label \in {"key", "put", "drop"} => m.turn <= Len(Order) /\ m.stamp >= 1

(* A row has the expiry that was written. *)
Dated(rows, dates) == \A k \in Key : rows[k] # NoFeed => dates[k] >= 1

(* What is to be dropped is its feed's, and not wanted any more. *)
Droppable(m, k) ==
  \/ m.mode # "run" /\ m.owner[k] \in m.target
  \/ m.mode = "run" /\ m.owner[k] = Now(m) /\ m.came /\ ~m.held /\ k \notin m.want

Local(m, label, k) ==
  /\ Place(m, label, k)
  /\ Dated(m.owner, m.written)
  /\ \A x \in m.drop : m.owner[x] # NoFeed /\ Droppable(m, x)

LocalInv == (\A p \in Loader : Local(my[p], pc[p], key[p])) /\ Dated(owner, written)

(* What the lookup found is there until the lock is released, but for what  *)
(* an operator unblocks.                                                   *)
Found(p) ==
  /\ masked[p] => seen[p] = Absent /\ ~spent[p]
  /\ masked[p] \/ block[key[p]] \in {seen[p], Absent}
  /\ spent[p] /\ block[key[p]] # Absent => key[p] \in lapsed

SeenInv == \A p \in Loader : AtKey(p) => Found(p)

(* A marker of this boot is of a run that is under way, or died, or met     *)
(* another process; so is one that a withdrawal has read.                  *)
MarkInv ==
  /\ file_boot <= boot
  /\ \A p \in Loader : my[p].boot <= boot
  /\ Armed => died \/ overlap \/ \E p \in Loader : Marked(p)
  /\ \A p \in Loader : my[p].mode # "run" /\ my[p].marked /\ my[p].boot = boot => died \/ overlap
  /\ AdoptionEarned

(* The entries of the loader's own have the rows they were written with. *)
Kept(map, rows, dates) ==
  \A k \in Key : map[k] \in Stamp => rows[k] # NoFeed /\ dates[k] = map[k]

(* Nothing failed, and no two processes have met. *)
Calm == faults = 0 /\ ~overlap

(* Who withdraws everything still has to drop whatever has a row. *)
Emptying(m) == m.mode = "withdraw_all" => \A k \in Key : m.owner[k] # NoFeed => k \in m.drop

CalmInv ==
  /\ ~overlap => \A p, q \in Loader : pc[p] # "idle" /\ pc[q] # "idle" => p = q
  /\ faults = 0 => /\ boot = 1 /\ file_boot \in {0, 1}
                   /\ \A p \in Loader : my[p].boot \in {0, 1} /\ ~masked[p]
  /\ Calm => \A p \in Loader : pc[p] = "open" => my[p].owner = owner /\ my[p].written = written
  /\ Calm => \A p \in Loader : pc[p] # "idle" => Kept(block, my[p].owner, my[p].written)
  /\ Calm /\ (\A p \in Loader : pc[p] = "idle") => Kept(block, owner, written)
  /\ Calm => \A p \in Loader : Emptying(my[p])

FeedsInv == TypeOK /\ LocalInv /\ SeenInv /\ MarkInv /\ CalmInv
-----------------------------------------------------------------------------
(* The parts of the type that steps disturb together. *)
Labels == {"idle", "open", "fetch", "feed", "key", "put", "drop", "save"}
TableOK == block \in [Key -> Value] /\ lapsed \subseteq {k \in Key : block[k] # Absent}
LockOK == lock \in Loader \cup {Free} /\ \A p \in Loader : AtKey(p) <=> lock = p
FileOK ==
  /\ owner \in Rows /\ written \in [Key -> Nat]
  /\ running \in BOOLEAN /\ file_boot \in Nat /\ based \subseteq Feed
WorldOK == boot \in Nat /\ approved \subseteq Feed /\ stamp \in Nat /\ runs \in Nat /\ faults \in Nat
ProcessOK ==
  /\ pc \in [Loader -> Labels] /\ my \in [Loader -> Memory]
  /\ key \in [Loader -> Key \cup {NoKey}]
LookupOK == seen \in [Loader -> Value] /\ spent \in [Loader -> BOOLEAN] /\ masked \in [Loader -> BOOLEAN]
HistoryOK == died \in BOOLEAN /\ hurt \in BOOLEAN /\ overlap \in BOOLEAN

LEMMA TypeParts ==
  TypeOK <=> TableOK /\ LockOK /\ FileOK /\ WorldOK /\ ProcessOK /\ LookupOK /\ HistoryOK
  BY DEF TypeOK, TableOK, LockOK, FileOK, WorldOK, ProcessOK, LookupOK, HistoryOK, Labels

(* The parts of a process's memory, as sets. *)
LEMMA MemoryOf ==
  ASSUME NEW m \in Memory
  PROVE  /\ m.mode \in {"none", "run", "withdraw", "withdraw_all"}
         /\ m.owner \in Rows /\ m.written \in [Key -> Nat] /\ m.boot \in Nat /\ m.marked \in BOOLEAN
         /\ m.based \in SUBSET Feed /\ m.adoption \in BOOLEAN /\ m.approved \in SUBSET Feed
         /\ m.target \in SUBSET Feed /\ m.corpses \in SUBSET Key /\ m.turn \in Nat /\ m.taken \in SUBSET Key
         /\ m.want \in SUBSET Key /\ m.came \in BOOLEAN /\ m.held \in BOOLEAN /\ m.stamp \in Nat
         /\ m.put \in SUBSET Key /\ m.drop \in SUBSET Key /\ m.wrote \in BOOLEAN
  BY DEF Memory

LEMMA BlankLocal == Blank \in Memory /\ \A k : Local(Blank, "idle", k)
  <1>1. Blank \in Memory
    BY DEF Blank, Memory, NoRows, Nothing, Rows
  <1>2. \A k : Local(Blank, "idle", k)
    BY DEF Local, Place, Blank, Dated, NoRows, Nothing
  <1>3. QED
    BY <1>1, <1>2

LEMMA NowFeed ==
  ASSUME NEW m \in Memory, m.turn >= 1, m.turn <= Len(Order)
  PROVE  Now(m) \in Feed /\ Now(m) # NoFeed
  <1>1. m.turn \in 1..Len(Order)
    BY MemoryOf
  <1>2. QED
    BY <1>1, FeedAssumption DEF FeedAssumption, Now

(* What does not change while a process goes through the keys. *)
SameSelf(n, m) ==
  n.mode = m.mode /\ n.boot = m.boot /\ n.marked = m.marked /\ n.adoption = m.adoption

(* The memory of a process that has read the state. *)
Opened(mode, target, allowed) ==
  [Blank EXCEPT
       !.mode = mode, !.owner = owner, !.written = written,
       !.boot = file_boot, !.based = based, !.approved = allowed,
       !.target = target, !.adoption = Armed, !.marked = running,
       !.drop = IF mode = "run" THEN {}
                ELSE {k \in Key : owner[k] \in target}]

Modes == {"run", "withdraw", "withdraw_all"}

LEMMA OpenedLocal ==
  ASSUME TypeOK, LocalInv, NEW mode, NEW target, NEW allowed,
         mode \in Modes, target \in SUBSET Feed, allowed \in SUBSET Feed
  PROVE  LET n == Opened(mode, target, allowed) IN
         /\ n \in Memory
         /\ mode = "run" => \A k : Local(n, "open", k)
         /\ mode # "run" => \A k : Local(n, "key", k)
         /\ n.mode = mode /\ n.boot = file_boot /\ (n.marked => running) /\ (n.adoption => Armed)
         /\ n.owner = owner /\ n.written = written
         /\ \A x \in Key : mode # "run" /\ owner[x] \in target => x \in n.drop
  <1> DEFINE n == Opened(mode, target, allowed)
  <1> DEFINE drop == IF mode = "run" THEN {} ELSE {x \in Key : owner[x] \in target}
  <1>0. FileOK
    BY TypeParts
  <1>1. Armed \in BOOLEAN /\ drop \in SUBSET Key
    BY DEF Armed
  <1>2. n = [Blank EXCEPT !.mode = mode, !.owner = owner, !.written = written,
                          !.boot = file_boot, !.based = based, !.approved = allowed,
                          !.target = target, !.adoption = Armed, !.marked = running, !.drop = drop]
    BY DEF Opened
  <1>a. Blank \in Memory
    BY BlankLocal
  <1>b. Blank.turn = 1 /\ Blank.put = {}
    BY DEF Blank
  <1> HIDE DEF drop, n
  <1>3. n \in Memory
    <2>1. /\ mode \in {"none", "run", "withdraw", "withdraw_all"} /\ owner \in Rows /\ written \in [Key -> Nat]
          /\ file_boot \in Nat /\ based \in SUBSET Feed
      BY <1>0 DEF FileOK, Modes
    <2>2. running \in BOOLEAN /\ Armed \in BOOLEAN
      BY <1>0, <1>1 DEF FileOK
    <2> HIDE DEF Modes
    <2>3. QED
      BY ZenonT(60), <1>1, <1>2, <1>a, <2>1, <2>2 DEF Memory
  <1>4. /\ n.mode = mode /\ n.owner = owner /\ n.written = written /\ n.target = target /\ n.turn = 1
        /\ n.put = {} /\ n.drop = drop
    BY <1>2, <1>a, <1>b DEF Memory
  <1>5. n.boot = file_boot /\ n.marked = running /\ n.adoption = Armed
    BY <1>2, <1>a DEF Memory
  <1>6. Dated(n.owner, n.written)
    BY <1>4 DEF LocalInv
  <1>7. mode = "run" => \A k : Local(n, "open", k)
    BY <1>4, <1>6 DEF Local, Place, drop, Modes
  <1>8. mode # "run" => \A k : Local(n, "key", k)
    BY <1>4, <1>6, FeedAssumption DEF FeedAssumption, Local, Place, drop, Droppable, Modes
  <1>9. \A x \in Key : mode # "run" /\ owner[x] \in target => x \in n.drop
    BY <1>4 DEF drop
  <1>10. (n.marked => running) /\ (n.adoption => Armed)
    BY <1>5
  <1>11. QED
    BY <1>3, <1>4, <1>5, <1>7, <1>8, <1>9, <1>10 DEF n


(* The memory of a run that has looked at the boot of its rows. *)
LEMMA SameBootKeeps ==
  ASSUME boot \in Nat, NEW m \in Memory, NEW k, Local(m, "fetch", k)
  PROVE  /\ SameBoot(m) \in Memory /\ Local(SameBoot(m), "fetch", k)
         /\ SameBoot(m).mode = m.mode /\ SameBoot(m).boot = boot
         /\ SameBoot(m).marked = m.marked /\ SameBoot(m).adoption = m.adoption
         /\ m.boot \in {0, boot} => SameBoot(m).owner = m.owner /\ SameBoot(m).written = m.written
  <1>0. NoRows \in Rows /\ Nothing \in [Key -> Nat] /\ Dated(NoRows, Nothing)
    BY DEF NoRows, Nothing, Rows, Dated
  <1>1. CASE m.boot \in {0, boot}
    <2>1. SameBoot(m) = [m EXCEPT !.boot = boot]
      BY <1>1 DEF SameBoot
    <2>2. SameBoot(m) \in Memory
      BY <2>1 DEF Memory
    <2>3. /\ SameBoot(m).mode = m.mode /\ SameBoot(m).boot = boot /\ SameBoot(m).marked = m.marked
          /\ SameBoot(m).adoption = m.adoption /\ SameBoot(m).owner = m.owner /\ SameBoot(m).written = m.written
          /\ SameBoot(m).put = m.put /\ SameBoot(m).drop = m.drop /\ SameBoot(m).turn = m.turn
      BY <2>1 DEF Memory
    <2>4. Local(SameBoot(m), "fetch", k)
      BY <2>3 DEF Local, Place
    <2>5. QED
      BY <2>2, <2>3, <2>4
  <1>2. CASE m.boot \notin {0, boot}
    <2>1. SameBoot(m) = [m EXCEPT !.boot = boot, !.owner = NoRows, !.written = Nothing]
      BY <1>2 DEF SameBoot
    <2>2. SameBoot(m) \in Memory
      BY <1>0, <2>1 DEF Memory
    <2>3. /\ SameBoot(m).mode = m.mode /\ SameBoot(m).boot = boot /\ SameBoot(m).marked = m.marked
          /\ SameBoot(m).adoption = m.adoption /\ SameBoot(m).owner = NoRows /\ SameBoot(m).written = Nothing
          /\ SameBoot(m).put = m.put /\ SameBoot(m).drop = m.drop /\ SameBoot(m).turn = m.turn
      BY <2>1 DEF Memory
    <2>4. Local(SameBoot(m), "fetch", k)
      BY <1>0, <2>3 DEF Local, Place
    <2>5. QED
      BY <1>2, <2>2, <2>3, <2>4
  <1>3. QED
    BY <1>1, <1>2

LEMMA NotedLocal ==
  ASSUME NEW m \in Memory, NEW k, Local(m, "fetch", k), NEW c \in SUBSET Key
  PROVE  LET n == [m EXCEPT !.corpses = c] IN
         /\ n \in Memory /\ Local(n, "feed", k) /\ SameSelf(n, m)
         /\ n.owner = m.owner /\ n.written = m.written
  <1> DEFINE n == [m EXCEPT !.corpses = c]
  <1>1. n \in Memory
    BY DEF Memory
  <1>2. /\ n.owner = m.owner /\ n.written = m.written /\ n.put = m.put /\ n.drop = m.drop /\ n.turn = m.turn
        /\ n.mode = m.mode /\ n.boot = m.boot /\ n.marked = m.marked /\ n.adoption = m.adoption
    BY DEF Memory
  <1> HIDE DEF n
  <1>3. Local(n, "feed", k)
    BY <1>2 DEF Local, Place
  <1>4. QED
    BY <1>1, <1>2, <1>3 DEF SameSelf, n

(* A feed's turn begins, is planned, and ends. *)
LEMMA TurnKeeps ==
  ASSUME NEW m \in Memory, NEW came \in BOOLEAN, NEW list \in SUBSET Key, NEW held \in BOOLEAN
  PROVE  LET n == Turn(m, came, list, held) IN
         /\ n \in Memory /\ SameSelf(n, m)
         /\ n.owner = m.owner /\ n.written = m.written /\ n.put = m.put /\ n.drop = m.drop
         /\ n.turn = m.turn /\ n.came = came /\ n.held = held
  <1> DEFINE n == Turn(m, came, list, held)
  <1>0. m.taken \in SUBSET Key
    BY MemoryOf
  <1>1. n = [m EXCEPT !.came = came, !.held = held, !.want = list \ m.taken, !.taken = m.taken \cup list]
    BY DEF Turn
  <1>2. n \in Memory
    <2> DEFINE want == list \ m.taken
               taken == m.taken \cup list
    <2>1. want \in SUBSET Key /\ taken \in SUBSET Key
      BY <1>0
    <2>2. n = [m EXCEPT !.came = came, !.held = held, !.want = want, !.taken = taken]
      BY <1>1
    <2> HIDE DEF want, taken, n
    <2>3. QED
      BY <2>1, <2>2 DEF Memory
  <1>3. /\ n.owner = m.owner /\ n.written = m.written /\ n.put = m.put /\ n.drop = m.drop /\ n.turn = m.turn
        /\ n.mode = m.mode /\ n.boot = m.boot /\ n.marked = m.marked /\ n.adoption = m.adoption
        /\ n.came = came /\ n.held = held
    BY <1>1 DEF Memory
  <1>4. QED
    BY <1>2, <1>3 DEF SameSelf

LEMMA PlannedLocal ==
  ASSUME NEW m \in Memory, m.mode = "run", m.came, m.turn >= 1, m.turn <= Len(Order),
         Dated(m.owner, m.written), stamp \in Nat, NEW k
  PROVE  LET n == Planned(m, Now(m)) IN
         /\ n \in Memory /\ Local(n, "key", k) /\ SameSelf(n, m)
         /\ n.owner = m.owner /\ n.written = m.written
  <1> DEFINE n == Planned(m, Now(m))
             put == IF m.held THEN m.want \cap Mine(m, Now(m)) ELSE m.want
             drop == IF m.held THEN {} ELSE Mine(m, Now(m)) \ m.want
  <1>1. put \in SUBSET Key /\ drop \in SUBSET Key
    BY MemoryOf DEF Mine
  <1>2. \A x \in drop : m.owner[x] = Now(m) /\ ~m.held /\ x \notin m.want
    BY DEF Mine
  <1>3. n = [m EXCEPT !.stamp = stamp + 1, !.put = put, !.drop = drop]
    BY DEF Planned
  <1> HIDE DEF put, drop, n
  <1>a. stamp + 1 \in Nat
    OBVIOUS
  <1>4. n \in Memory
    BY <1>1, <1>3, <1>a DEF Memory
  <1>5. /\ n.owner = m.owner /\ n.written = m.written /\ n.drop = drop /\ n.turn = m.turn /\ n.stamp = stamp + 1
        /\ n.mode = m.mode /\ n.boot = m.boot /\ n.marked = m.marked /\ n.adoption = m.adoption
        /\ n.came = m.came /\ n.held = m.held /\ n.want = m.want
    BY <1>3 DEF Memory
  <1>6. Now(n) = Now(m) /\ Now(m) # NoFeed
    BY <1>5, NowFeed DEF Now
  <1>7. Place(n, "key", k)
    BY <1>5 DEF Place
  <1>8. \A x \in n.drop : n.owner[x] # NoFeed /\ Droppable(n, x)
    BY <1>2, <1>5, <1>6 DEF Droppable
  <1>9. Local(n, "key", k)
    BY <1>5, <1>7, <1>8 DEF Local
  <1>10. QED
    BY <1>4, <1>5, <1>9 DEF SameSelf, n

LEMMA NextTurnLocal ==
  ASSUME NEW m \in Memory, m.mode = "run", m.turn >= 1, m.put = {}, m.drop = {}, Dated(m.owner, m.written), NEW k
  PROVE  LET n == NextTurn(m) IN
         /\ n \in Memory /\ Local(n, "feed", k) /\ SameSelf(n, m)
         /\ n.owner = m.owner /\ n.written = m.written
  <1> DEFINE n == NextTurn(m)
  <1>0. m.turn \in Nat
    BY MemoryOf
  <1>1. n = [m EXCEPT !.turn = m.turn + 1, !.stamp = 0, !.came = FALSE, !.held = FALSE, !.want = {}]
    BY DEF NextTurn
  <1> HIDE DEF n
  <1>a. m.turn + 1 \in Nat
    BY <1>0
  <1>2. n \in Memory
    BY <1>1, <1>a DEF Memory
  <1>3. /\ n.owner = m.owner /\ n.written = m.written /\ n.put = {} /\ n.drop = {} /\ n.turn = m.turn + 1
        /\ n.mode = m.mode /\ n.boot = m.boot /\ n.marked = m.marked /\ n.adoption = m.adoption
    BY <1>1 DEF Memory
  <1>4. Local(n, "feed", k)
    BY <1>0, <1>3 DEF Local, Place
  <1>5. QED
    BY <1>2, <1>3, <1>4 DEF SameSelf, n

LEMMA RebasedKeeps ==
  ASSUME NEW m \in Memory, m.turn >= 1, m.turn <= Len(Order)
  PROVE  LET n == [m EXCEPT !.based = Rebased(m)] IN
         /\ n \in Memory /\ SameSelf(n, m)
         /\ n.owner = m.owner /\ n.written = m.written /\ n.put = m.put /\ n.drop = m.drop /\ n.turn = m.turn
  <1>1. Rebased(m) \in SUBSET Feed
    BY MemoryOf, NowFeed DEF Rebased
  <1>2. [m EXCEPT !.based = Rebased(m)] \in Memory
    BY <1>1 DEF Memory
  <1>3. QED
    BY <1>2 DEF Memory, SameSelf

(* A key is done, and at most its own row has changed. *)
RowAt(n, m, k) ==
  /\ n \in Memory /\ SameSelf(n, m)
  /\ n.put = m.put /\ n.drop = m.drop /\ n.turn = m.turn /\ n.stamp = m.stamp /\ n.target = m.target
  /\ n.came = m.came /\ n.held = m.held /\ n.want = m.want
  /\ \A x \in Key \ {k} : n.owner[x] = m.owner[x] /\ n.written[x] = m.written[x]
  /\ n.owner[k] # NoFeed => n.written[k] >= 1

Released(n, k) == [n EXCEPT !.put = n.put \ {k}, !.drop = n.drop \ {k}]

LEMMA ReleasedLocal ==
  ASSUME NEW m \in Memory, NEW k \in Key, NEW label, label \in {"put", "drop"}, Local(m, label, k),
         NEW n, RowAt(n, m, k)
  PROVE  LET r == Released(n, k) IN
         /\ r \in Memory /\ (\A j : Local(r, "key", j)) /\ SameSelf(r, m)
         /\ r.owner = n.owner /\ r.written = n.written /\ r.drop = m.drop \ {k}
  <1> DEFINE r == Released(n, k)
  <1>0. n \in Memory /\ n.put \in SUBSET Key /\ n.drop \in SUBSET Key
    BY MemoryOf DEF RowAt
  <1>1. r \in Memory
    BY <1>0 DEF Memory, Released
  <1>2. /\ r.owner = n.owner /\ r.written = n.written /\ r.put = n.put \ {k} /\ r.drop = n.drop \ {k}
        /\ r.turn = n.turn /\ r.stamp = n.stamp /\ r.target = n.target
        /\ r.came = n.came /\ r.held = n.held /\ r.want = n.want
        /\ r.mode = n.mode /\ r.boot = n.boot /\ r.marked = n.marked /\ r.adoption = n.adoption
    BY <1>0 DEF Memory, Released
  <1> HIDE DEF r
  <1>3. SameSelf(r, m) /\ r.drop = m.drop \ {k}
    BY <1>2 DEF RowAt, SameSelf
  <1>4. \A j : Place(r, "key", j)
    BY <1>2 DEF RowAt, SameSelf, Local, Place
  <1>5. Dated(r.owner, r.written)
    BY <1>2 DEF RowAt, Local, Dated
  <1>6. ASSUME NEW x \in r.drop PROVE r.owner[x] # NoFeed /\ Droppable(r, x)
    <2>1. x \in m.drop /\ x \in Key /\ x # k
      BY <1>3, <1>6, MemoryOf
    <2>2. m.owner[x] # NoFeed /\ Droppable(m, x)
      BY <2>1 DEF Local
    <2>3. r.owner[x] = m.owner[x] /\ r.mode = m.mode /\ r.target = m.target /\ Now(r) = Now(m)
      BY <1>2, <2>1 DEF RowAt, SameSelf, Now
    <2>4. r.came = m.came /\ r.held = m.held /\ r.want = m.want
      BY <1>2 DEF RowAt
    <2>5. QED
      BY <2>2, <2>3, <2>4 DEF Droppable
  <1>7. \A j : Local(r, "key", j)
    BY <1>4, <1>5, <1>6 DEF Local
  <1>8. QED
    BY <1>1, <1>2, <1>3, <1>7 DEF r

RowSet(m, k, f, d, w) ==
  [m EXCEPT !.owner = [m.owner EXCEPT ![k] = f], !.written = [m.written EXCEPT ![k] = d], !.wrote = w]

LEMMA RowSetAt ==
  ASSUME NEW m \in Memory, NEW k \in Key,
         NEW f \in Feed \cup {NoFeed}, NEW d \in Nat, f # NoFeed => d >= 1, NEW w \in BOOLEAN
  PROVE  /\ RowAt(RowSet(m, k, f, d, w), m, k)
         /\ RowSet(m, k, f, d, w).owner[k] = f /\ RowSet(m, k, f, d, w).written[k] = d
  <1>0. m.owner \in Rows /\ m.written \in [Key -> Nat]
    BY MemoryOf
  <1> DEFINE o == [m.owner EXCEPT ![k] = f]
             t == [m.written EXCEPT ![k] = d]
             n == RowSet(m, k, f, d, w)
  <1>1. o \in Rows /\ t \in [Key -> Nat]
    BY <1>0 DEF Rows
  <1>2. /\ o[k] = f /\ t[k] = d
        /\ \A x \in Key \ {k} : o[x] = m.owner[x] /\ t[x] = m.written[x]
    BY <1>0 DEF Rows
  <1>3. n = [m EXCEPT !.owner = o, !.written = t, !.wrote = w]
    BY DEF RowSet
  <1> HIDE DEF o, t, n
  <1>4. n \in Memory
    BY <1>1, <1>3 DEF Memory
  <1>5. n.owner = o /\ n.written = t
    BY <1>3 DEF Memory
  <1>6. /\ n.put = m.put /\ n.drop = m.drop /\ n.turn = m.turn /\ n.stamp = m.stamp /\ n.target = m.target
        /\ n.came = m.came /\ n.held = m.held /\ n.want = m.want
        /\ n.mode = m.mode /\ n.boot = m.boot /\ n.marked = m.marked /\ n.adoption = m.adoption
    BY <1>3 DEF Memory
  <1>7. RowAt(n, m, k) /\ n.owner[k] = f /\ n.written[k] = d
    BY <1>2, <1>4, <1>5, <1>6 DEF RowAt, SameSelf
  <1>8. QED
    BY <1>7 DEF n

(* The row is gone, and the map was written. *)
Removed(m, k) == [WithoutRow(m, k) EXCEPT !.wrote = TRUE]

LEMMA RowsAt ==
  ASSUME NEW m \in Memory, NEW k \in Key, NEW label, label \in {"put", "drop"}, Local(m, label, k)
  PROVE  /\ RowAt(m, m, k)
         /\ label = "put" => /\ RowAt(WithRow(m, k), m, k)
                             /\ WithRow(m, k).owner[k] # NoFeed /\ WithRow(m, k).written[k] = m.stamp
         /\ RowAt(WithoutRow(m, k), m, k) /\ WithoutRow(m, k).owner[k] = NoFeed
         /\ RowAt(Removed(m, k), m, k) /\ Removed(m, k).owner[k] = NoFeed
  <1>0. m.owner \in Rows /\ m.written \in [Key -> Nat] /\ m.stamp \in Nat
    BY MemoryOf
  <1>1. RowAt(m, m, k)
    BY DEF RowAt, SameSelf, Local, Dated
  <1>3. ASSUME label = "put"
        PROVE  /\ RowAt(WithRow(m, k), m, k)
               /\ WithRow(m, k).owner[k] # NoFeed /\ WithRow(m, k).written[k] = m.stamp
    <2>1. m.turn >= 1 /\ m.turn <= Len(Order) /\ m.stamp >= 1
      BY <1>3 DEF Local, Place
    <2>2. Now(m) \in Feed /\ Now(m) # NoFeed
      BY <2>1, NowFeed
    <2>w. PICK w \in BOOLEAN : w = TRUE
      OBVIOUS
    <2>3. WithRow(m, k) = RowSet(m, k, Now(m), m.stamp, w)
      BY <2>w DEF WithRow, RowSet
    <2>4. QED
      BY <1>0, <2>1, <2>2, <2>3, RowSetAt
  <1>4. RowAt(WithoutRow(m, k), m, k) /\ WithoutRow(m, k).owner[k] = NoFeed
    <2>1. m.wrote \in BOOLEAN
      BY MemoryOf
    <2>2. WithoutRow(m, k) = RowSet(m, k, NoFeed, 0, m.wrote)
      BY DEF WithoutRow, RowSet, Memory
    <2>3. QED
      BY <2>1, <2>2, RowSetAt
  <1>5. RowAt(Removed(m, k), m, k) /\ Removed(m, k).owner[k] = NoFeed
    <2>w. PICK w \in BOOLEAN : w = TRUE
      OBVIOUS
    <2>1. Removed(m, k) = RowSet(m, k, NoFeed, 0, w)
      BY <2>w DEF Removed, WithoutRow, RowSet, Memory
    <2>2. w \in BOOLEAN
      OBVIOUS
    <2>3. RowAt(RowSet(m, k, NoFeed, 0, w), m, k) /\ RowSet(m, k, NoFeed, 0, w).owner[k] = NoFeed
      BY <2>2, RowSetAt
    <2>4. QED
      BY <2>1, <2>3
  <1>6. QED
    BY <1>1, <1>3, <1>4, <1>5

-----------------------------------------------------------------------------
(***************************************************************************)
(* A step of a process changes its own memory, label and key only.  Here   *)
(* is what such a step owes each part of the invariant.                    *)
(***************************************************************************)
Moves(p, m, label, k) ==
  /\ my' = [my EXCEPT ![p] = m] /\ pc' = [pc EXCEPT ![p] = label] /\ key' = [key EXCEPT ![p] = k]

LEMMA LocalStep ==
  ASSUME TypeOK, LocalInv, NEW p \in Loader, NEW m \in Memory, NEW label \in Labels, NEW k \in Key \cup {NoKey},
         Moves(p, m, label, k), Local(m, label, k), Dated(owner', written')
  PROVE  ProcessOK' /\ LocalInv'
  <1>0. ProcessOK
    BY TypeParts
  <1>1. ProcessOK'
    BY <1>0 DEF ProcessOK, Moves
  <1>2. ASSUME NEW q \in Loader PROVE Local(my'[q], pc'[q], key'[q])
    <2>1. CASE q = p
      BY <1>0, <2>1 DEF ProcessOK, Moves
    <2>2. CASE q # p
      <3>1. my'[q] = my[q] /\ pc'[q] = pc[q] /\ key'[q] = key[q]
        BY <1>0, <2>2 DEF ProcessOK, Moves
      <3>2. QED
        BY <3>1 DEF LocalInv
    <2>3. QED
      BY <2>1, <2>2
  <1>3. QED
    BY <1>1, <1>2 DEF LocalInv

(* A step that leaves the map and the lock alone. *)
LEMMA QuietStep ==
  ASSUME TypeOK, SeenInv, NEW p \in Loader, NEW m, NEW label \in Labels, Moves(p, m, label, key[p]),
         UNCHANGED <<table, lock, at>>, pc[p] \notin {"put", "drop"}, label \notin {"put", "drop"}
  PROVE  TableOK' /\ LockOK' /\ LookupOK' /\ SeenInv'
  <1>0. TableOK /\ LockOK /\ ProcessOK /\ LookupOK
    BY TypeParts
  <1>1. TableOK'
    BY <1>0 DEF TableOK, table
  <1>2. LookupOK'
    BY <1>0 DEF LookupOK, at
  <1>3. \A q \in Loader : AtKey(q)' <=> AtKey(q)
    BY <1>0 DEF AtKey, Moves, ProcessOK
  <1>4. LockOK'
    BY <1>0, <1>3 DEF LockOK
  <1>5. SeenInv'
    BY <1>3 DEF SeenInv, Found, at, table
  <1>6. QED
    BY <1>1, <1>2, <1>4, <1>5

LEMMA MarkStep ==
  ASSUME TypeOK, MarkInv, NEW p \in Loader, NEW m, NEW label, NEW k, Moves(p, m, label, k),
         UNCHANGED boot, m.boot <= boot, file_boot' <= boot, died => died', overlap => overlap',
         m.adoption => died' \/ overlap',
         m.mode # "run" /\ m.marked /\ m.boot = boot => died' \/ overlap',
         Armed' => \/ died' \/ overlap'
                   \/ m.mode = "run" /\ label # "open"
                   \/ Armed /\ ~Marked(p)
  PROVE  MarkInv'
  <1>0. /\ my \in [Loader -> Memory] /\ pc \in [Loader -> Labels]
        /\ my'[p] = m /\ pc'[p] = label
        /\ \A q \in Loader \ {p} : my'[q] = my[q] /\ pc'[q] = pc[q]
    BY TypeParts DEF ProcessOK, Moves
  <1>1. \A q \in Loader : my'[q].boot <= boot'
    <2> SUFFICES ASSUME NEW q \in Loader PROVE my'[q].boot <= boot'
      OBVIOUS
    <2>1. CASE q = p
      BY <1>0, <2>1
    <2>2. CASE q # p
      BY <1>0, <2>2 DEF MarkInv
    <2>3. QED
      BY <2>1, <2>2
  <1>2. Armed' => died' \/ overlap' \/ \E q \in Loader : Marked(q)'
    <2>1. CASE m.mode = "run" /\ label # "open"
      <3>1. Marked(p)'
        BY <1>0, <2>1 DEF Marked
      <3>2. QED
        BY <3>1
    <2>2. CASE Armed /\ ~Marked(p)
      <3>1. CASE died \/ overlap
        BY <3>1
      <3>2. CASE \E q \in Loader : Marked(q)
        <4>1. PICK q \in Loader : Marked(q)
          BY <3>2
        <4>2. q # p
          BY <2>2, <4>1
        <4>3. Marked(q)'
          BY <1>0, <4>1, <4>2 DEF Marked
        <4>4. QED
          BY <4>3
      <3>3. QED
        BY <2>2, <3>1, <3>2 DEF MarkInv
    <2>3. QED
      BY <2>1, <2>2
  <1>3. ASSUME NEW q \in Loader
        PROVE  /\ my'[q].mode # "run" /\ my'[q].marked /\ my'[q].boot = boot' => died' \/ overlap'
               /\ my'[q].adoption => died' \/ overlap'
    <2>1. CASE q = p
      BY <1>0, <2>1
    <2>2. CASE q # p
      <3>1. my'[q] = my[q]
        BY <1>0, <2>2
      <3>2. QED
        BY <3>1 DEF MarkInv, AdoptionEarned
    <2>3. QED
      BY <2>1, <2>2
  <1>4. QED
    BY <1>1, <1>2, <1>3 DEF MarkInv, AdoptionEarned

(* A step of a process that was running already. *)
LEMMA CalmStep ==
  ASSUME TypeOK, CalmInv, NEW p \in Loader, NEW m, NEW label, NEW k, Moves(p, m, label, k),
         UNCHANGED <<boot, overlap>>, pc[p] # "idle", label # "open",
         faults' = 0 => /\ faults = 0 /\ file_boot' \in {0, 1} /\ m.boot \in {0, 1}
                        /\ \A q \in Loader : ~masked'[q],
         Calm /\ Calm' /\ label # "idle" => Kept(block', m.owner, m.written),
         Calm /\ Calm' /\ label = "idle" => Kept(block', owner', written'),
         Calm /\ Calm' => Emptying(m)
  PROVE  CalmInv'
  <1>0. /\ my \in [Loader -> Memory] /\ pc \in [Loader -> Labels]
        /\ my'[p] = m /\ pc'[p] = label
        /\ \A q \in Loader \ {p} : my'[q] = my[q] /\ pc'[q] = pc[q]
    BY TypeParts DEF ProcessOK, Moves
  <1>1. ~overlap' => \A q, r \in Loader : pc'[q] # "idle" /\ pc'[r] # "idle" => q = r
    <2>1. \A q \in Loader : pc'[q] # "idle" => pc[q] # "idle"
      BY <1>0
    <2>2. QED
      BY <2>1 DEF CalmInv
  <1>2. faults' = 0 => /\ boot' = 1 /\ file_boot' \in {0, 1}
                       /\ \A q \in Loader : my'[q].boot \in {0, 1} /\ ~masked'[q]
    <2> SUFFICES ASSUME faults' = 0, NEW q \in Loader
                 PROVE  boot' = 1 /\ file_boot' \in {0, 1} /\ my'[q].boot \in {0, 1} /\ ~masked'[q]
      OBVIOUS
    <2>1. boot' = 1 /\ my[q].boot \in {0, 1}
      BY DEF CalmInv
    <2>2. my'[q] \in {my[q], m}
      BY <1>0
    <2>3. QED
      BY <2>1, <2>2
  <1>3. Calm' => Calm
    BY DEF Calm
  <1>4. ASSUME Calm', NEW q \in Loader, q # p
        PROVE  pc'[q] = "idle" /\ Emptying(my'[q])
    BY <1>0, <1>3, <1>4 DEF CalmInv, Calm
  <1>5. Calm' => \A q \in Loader : pc'[q] = "open" => my'[q].owner = owner' /\ my'[q].written = written'
    BY <1>0, <1>4
  <1>6. Calm' => \A q \in Loader : pc'[q] # "idle" => Kept(block', my'[q].owner, my'[q].written)
    BY <1>0, <1>3, <1>4
  <1>7. Calm' /\ (\A q \in Loader : pc'[q] = "idle") => Kept(block', owner', written')
    BY <1>0, <1>3
  <1>8. Calm' => \A q \in Loader : Emptying(my'[q])
    BY <1>0, <1>3, <1>4
  <1>9. QED
    BY <1>1, <1>2, <1>5, <1>6, <1>7, <1>8 DEF CalmInv

LEMMA InvParts == FeedsInv <=> TypeOK /\ LocalInv /\ SeenInv /\ MarkInv /\ CalmInv
  BY DEF FeedsInv

(* A step of a running process that leaves the map, the lock and the        *)
(* history alone.                                                          *)
LEMMA QuietKeeps ==
  ASSUME FeedsInv, NEW p \in Loader, NEW m \in Memory, NEW label \in Labels \ {"open", "put", "drop"},
         Moves(p, m, label, key[p]), UNCHANGED <<table, lock, boot, at, history, runs, faults>>,
         pc[p] \notin {"idle", "put", "drop"}, Local(m, label, key[p]),
         FileOK', Dated(owner', written'), approved' \in SUBSET Feed, stamp' \in Nat,
         m.boot <= boot, file_boot' <= boot, m.adoption => my[p].adoption,
         m.mode # "run" /\ m.marked /\ m.boot = boot => died \/ overlap,
         Armed' => died \/ overlap \/ m.mode = "run" \/ (Armed /\ ~Marked(p)),
         faults = 0 => file_boot' \in {0, 1} /\ m.boot \in {0, 1},
         Calm /\ label # "idle" => Kept(block, m.owner, m.written),
         Calm /\ label = "idle" => Kept(block, owner', written'),
         Calm => Emptying(m)
  PROVE  FeedsInv'
  <1>0. TypeOK /\ LocalInv /\ SeenInv /\ MarkInv /\ CalmInv
    BY InvParts
  <1>1. ProcessOK' /\ LocalInv'
    <2>1. key[p] \in Key \cup {NoKey}
      BY <1>0, TypeParts DEF ProcessOK
    <2>2. QED
      BY <1>0, <2>1, LocalStep
  <1>2. TableOK' /\ LockOK' /\ LookupOK' /\ SeenInv'
    BY <1>0, QuietStep
  <1>3. WorldOK' /\ HistoryOK'
    <2>1. WorldOK /\ HistoryOK
      BY <1>0, TypeParts
    <2>2. WorldOK'
      BY <2>1 DEF WorldOK
    <2>3. HistoryOK'
      BY <2>1 DEF HistoryOK, history
    <2>4. QED
      BY <2>2, <2>3
  <1>4. TypeOK'
    BY <1>1, <1>2, <1>3, TypeParts, PTL
  <1>5. MarkInv'
    <2>1. UNCHANGED <<boot, died, overlap>>
      BY DEF history
    <2>2. m.adoption => died \/ overlap
      BY <1>0 DEF MarkInv, AdoptionEarned
    <2>3. Armed' => \/ died' \/ overlap'
                    \/ m.mode = "run" /\ label # "open"
                    \/ Armed /\ ~Marked(p)
      BY <2>1
    <2>4. QED
      BY <1>0, <2>1, <2>2, <2>3, MarkStep
  <1>6. CalmInv'
    <2>1. UNCHANGED <<boot, overlap, block, masked, faults>>
      BY DEF history, table, at
    <2>2. faults' = 0 => /\ faults = 0 /\ file_boot' \in {0, 1} /\ m.boot \in {0, 1}
                         /\ \A q \in Loader : ~masked'[q]
      BY <1>0, <2>1 DEF CalmInv
    <2>3. QED
      BY <1>0, <2>1, <2>2, CalmStep
  <1>7. QED
    BY <1>1, <1>2, <1>4, <1>5, <1>6, InvParts, PTL

(* What the invariant says of a process at a label. *)
LEMMA Knows ==
  ASSUME FeedsInv, NEW p \in Loader
  PROVE  /\ my[p] \in Memory /\ pc[p] \in Labels /\ key[p] \in Key \cup {NoKey}
         /\ Local(my[p], pc[p], key[p])
         /\ my[p].boot \in Nat /\ boot \in Nat /\ my[p].boot <= boot /\ file_boot <= boot
         /\ my[p].mode # "run" /\ my[p].marked /\ my[p].boot = boot => died \/ overlap
         /\ faults = 0 => boot = 1 /\ my[p].boot \in {0, 1} /\ file_boot \in {0, 1} /\ ~masked[p]
         /\ Calm /\ pc[p] # "idle" => Kept(block, my[p].owner, my[p].written)
         /\ Calm => Emptying(my[p])
         /\ Calm /\ pc[p] = "open" => my[p].owner = owner /\ my[p].written = written
         /\ FileOK /\ Dated(owner, written) /\ approved \in SUBSET Feed /\ stamp \in Nat
         /\ my' = my => my' = [my EXCEPT ![p] = my[p]]
         /\ key' = key => key' = [key EXCEPT ![p] = key[p]]
         /\ pc' = pc => pc' = [pc EXCEPT ![p] = pc[p]]
  <1>1. TypeOK /\ LocalInv /\ MarkInv /\ CalmInv
    BY InvParts
  <1>2. ProcessOK /\ FileOK /\ WorldOK
    BY <1>1, TypeParts
  <1>3. my[p] \in Memory /\ pc[p] \in Labels /\ key[p] \in Key \cup {NoKey}
    BY <1>2 DEF ProcessOK
  <1>4. my[p].boot \in Nat
    BY <1>3, MemoryOf
  <1>5. Local(my[p], pc[p], key[p]) /\ Dated(owner, written)
    BY <1>1 DEF LocalInv
  <1>6. my[p].boot <= boot /\ file_boot <= boot /\ (my[p].mode # "run" /\ my[p].marked /\ my[p].boot = boot => died \/ overlap)
    BY <1>1 DEF MarkInv
  <1>7. /\ faults = 0 => boot = 1 /\ my[p].boot \in {0, 1} /\ file_boot \in {0, 1} /\ ~masked[p]
        /\ Calm /\ pc[p] # "idle" => Kept(block, my[p].owner, my[p].written)
        /\ Calm => Emptying(my[p])
        /\ Calm /\ pc[p] = "open" => my[p].owner = owner /\ my[p].written = written
    BY <1>1 DEF CalmInv
  <1>8. boot \in Nat /\ approved \in SUBSET Feed /\ stamp \in Nat
    BY <1>2 DEF WorldOK
  <1>9. /\ my' = my => my' = [my EXCEPT ![p] = my[p]]
        /\ key' = key => key' = [key EXCEPT ![p] = key[p]]
        /\ pc' = pc => pc' = [pc EXCEPT ![p] = pc[p]]
    BY <1>2 DEF ProcessOK
  <1>10. QED
    BY <1>2, <1>3, <1>4, <1>5, <1>6, <1>7, <1>8, <1>9

(* What is saved is well formed when the memory is. *)
LEMMA Saved ==
  ASSUME NEW m \in Memory, Dated(m.owner, m.written), NEW marker \in BOOLEAN, Save(m, marker)
  PROVE  /\ FileOK' /\ Dated(owner', written')
         /\ owner' = m.owner /\ written' = m.written /\ file_boot' = m.boot /\ running' = marker
  BY MemoryOf DEF Save, FileOK

LEMMA BlankKnows ==
  Blank.boot = 0 /\ ~Blank.adoption /\ Blank.mode = "none" /\ ~Blank.marked /\ Emptying(Blank)
  BY DEF Blank, Emptying

LEMMA MarkKeeps == ASSUME FeedsInv, NEW p \in Loader, Mark(p) PROVE FeedsInv'
  <1>0. /\ pc[p] = "open"
        /\ UNCHANGED <<table, lock, boot, approved, stamp, at, history, runs, faults>>
        /\ UNCHANGED key
    BY DEF Mark, at
  <1>1. CASE End(p) /\ UNCHANGED file
    <2>1. Moves(p, Blank, "idle", key[p])
      BY <1>0, <1>1, Knows DEF End, Goto, Remember, Moves
    <2>2. UNCHANGED <<owner, written, running, file_boot, based>> /\ FileOK' /\ Dated(owner', written')
      BY <1>1, Knows DEF file, FileOK
    <2>3. Armed' => Armed /\ ~Marked(p)
      BY <1>0, <2>2 DEF Armed, Marked
    <2>4. Calm => Kept(block, owner', written')
      BY <1>0, <2>2, Knows
    <2>5. "idle" \in Labels \ {"open", "put", "drop"} /\ 0 <= boot
      BY Knows DEF Labels
    <2>6. faults = 0 => file_boot' \in {0, 1}
      BY <2>2, Knows
    <2>7. file_boot' <= boot /\ approved' \in SUBSET Feed /\ stamp' \in Nat
      BY <1>0, <2>2, Knows
    <2>8. QED
      BY <1>0, <2>1, <2>2, <2>3, <2>4, <2>5, <2>6, <2>7, BlankLocal, BlankKnows, QuietKeeps
  <1>2. CASE Save(my[p], TRUE) /\ Goto(p, "fetch") /\ UNCHANGED my
    <2>1. Moves(p, my[p], "fetch", key[p])
      BY <1>0, <1>2, Knows DEF Goto, Moves
    <2>2. my[p] \in Memory /\ Local(my[p], "open", key[p])
      BY <1>0, Knows
    <2>3. Local(my[p], "fetch", key[p]) /\ my[p].mode = "run" /\ Dated(my[p].owner, my[p].written)
      BY <2>2 DEF Local, Place
    <2>4. FileOK' /\ Dated(owner', written') /\ file_boot' = my[p].boot
      BY <1>2, <2>2, <2>3, Saved
    <2>5. "fetch" \in Labels \ {"open", "put", "drop"} /\ approved' \in SUBSET Feed /\ stamp' \in Nat
      BY <1>0, Knows DEF Labels
    <2>6. my[p].boot <= boot /\ file_boot' <= boot /\ (faults = 0 => file_boot' \in {0, 1} /\ my[p].boot \in {0, 1})
      BY <2>4, Knows
    <2>7. Calm => Kept(block, my[p].owner, my[p].written) /\ Emptying(my[p])
      BY <1>0, Knows
    <2>8. QED
      BY <1>0, <2>1, <2>2, <2>3, <2>4, <2>5, <2>6, <2>7, QuietKeeps
  <1>3. QED
    BY <1>1, <1>2 DEF Mark

LEMMA FetchKeeps == ASSUME FeedsInv, NEW p \in Loader, Fetch(p) PROVE FeedsInv'
  <1> DEFINE m == SameBoot(my[p])
  <1>0. /\ pc[p] = "fetch"
        /\ UNCHANGED <<table, lock, boot, approved, stamp, at, history, runs, faults>>
        /\ UNCHANGED key
    BY DEF Fetch, at
  <1>1. my[p] \in Memory /\ Local(my[p], "fetch", key[p]) /\ boot \in Nat
    BY <1>0, Knows
  <1>2. /\ m \in Memory /\ Local(m, "fetch", key[p]) /\ m.boot = boot
        /\ m.mode = my[p].mode /\ m.adoption = my[p].adoption
        /\ my[p].boot \in {0, boot} => m.owner = my[p].owner /\ m.written = my[p].written
    BY <1>1, SameBootKeeps
  <1>3. m.mode = "run" /\ Dated(m.owner, m.written)
    BY <1>2 DEF Local, Place
  <1>4. Calm => Kept(block, m.owner, m.written)
    <2>1. Calm => my[p].boot \in {0, boot}
      BY Knows DEF Calm
    <2>2. QED
      BY <1>0, <1>2, <2>1, Knows
  <1>5. faults = 0 => boot \in {0, 1}
    BY Knows
  <1>6. approved' \in SUBSET Feed /\ stamp' \in Nat
    BY <1>0, Knows
  <1> HIDE DEF m
  <1>7. CASE Save(m, FALSE) /\ End(p)
    <2>1. Moves(p, Blank, "idle", key[p])
      BY <1>0, <1>7, Knows DEF End, Goto, Remember, Moves
    <2>2. FileOK' /\ Dated(owner', written') /\ owner' = m.owner /\ written' = m.written /\ file_boot' = boot /\ ~running'
      BY <1>2, <1>3, <1>7, Saved
    <2>3. ~Armed'
      BY <2>2 DEF Armed
    <2>4. Calm => Kept(block, owner', written')
      BY <1>4, <2>2
    <2>5. "idle" \in Labels \ {"open", "put", "drop"} /\ 0 <= boot /\ boot <= boot
      BY <1>1 DEF Labels
    <2>6. file_boot' <= boot /\ (faults = 0 => file_boot' \in {0, 1})
      BY <1>5, <2>2, <2>5
    <2>7. QED
      BY <1>0, <1>6, <2>1, <2>2, <2>3, <2>4, <2>5, <2>6, BlankLocal, BlankKnows, QuietKeeps
  <1>8. CASE /\ Remember(p, [m EXCEPT !.corpses = {k \in lapsed : m.owner[k] = NoFeed}])
             /\ Goto(p, "feed")
             /\ UNCHANGED file
    <2> DEFINE c == {k \in lapsed : m.owner[k] = NoFeed}
               n == [m EXCEPT !.corpses = c]
    <2>1. c \in SUBSET Key
      BY TypeParts DEF FeedsInv, TableOK
    <2> HIDE DEF c
    <2>2. /\ n \in Memory /\ Local(n, "feed", key[p]) /\ SameSelf(n, m)
          /\ n.owner = m.owner /\ n.written = m.written
      BY <1>2, <2>1, NotedLocal
    <2>3. my' = [my EXCEPT ![p] = n]
      BY <1>8 DEF Remember, c
    <2> HIDE DEF n
    <2>4. Moves(p, n, "feed", key[p])
      BY <1>0, <1>8, <2>3, Knows DEF Goto, Moves
    <2>5. UNCHANGED <<owner, written, running, file_boot, based>> /\ FileOK' /\ Dated(owner', written')
      BY <1>8, Knows DEF file, FileOK
    <2>6. n.mode = "run" /\ n.boot = boot /\ n.adoption = my[p].adoption /\ n.boot <= boot
      BY <1>1, <1>2, <1>3, <2>2 DEF SameSelf
    <2>7. "feed" \in Labels \ {"open", "put", "drop"}
      BY DEF Labels
    <2>8. Calm => Kept(block, n.owner, n.written) /\ Emptying(n)
      BY <1>4, <2>2, <2>6 DEF Emptying
    <2>9. file_boot' <= boot /\ (faults = 0 => file_boot' \in {0, 1} /\ n.boot \in {0, 1})
      BY <1>5, <2>5, <2>6, Knows
    <2>10. QED
      BY <1>0, <1>6, <2>2, <2>4, <2>5, <2>6, <2>7, <2>8, <2>9, QuietKeeps
  <1>9. QED
    BY <1>7, <1>8 DEF Fetch, m

(* A step of a run that leaves the rows and the file alone. *)
LEMMA RunGoesOn ==
  ASSUME FeedsInv, NEW p \in Loader, NEW m \in Memory, NEW label \in {"feed", "key"}, Moves(p, m, label, key[p]),
         UNCHANGED <<table, lock, boot, file, approved, at, history, runs, faults>>, stamp' \in Nat,
         pc[p] \in {"feed", "key"}, my[p].mode = "run", Local(m, label, key[p]), SameSelf(m, my[p]),
         m.owner = my[p].owner, m.written = my[p].written
  PROVE  FeedsInv'
  <1>1. UNCHANGED <<owner, written, running, file_boot, based>> /\ FileOK' /\ Dated(owner', written')
    BY Knows DEF file, FileOK
  <1>2. m.mode = "run" /\ m.boot = my[p].boot /\ m.adoption = my[p].adoption
    BY DEF SameSelf
  <1>3. label \in Labels \ {"open", "put", "drop"} /\ label # "idle" /\ pc[p] \notin {"idle", "put", "drop"}
    BY DEF Labels
  <1>4. Calm => Kept(block, m.owner, m.written)
    BY <1>3, Knows
  <1>5. Emptying(m)
    BY <1>2 DEF Emptying
  <1>6. m.boot <= boot /\ file_boot' <= boot /\ (faults = 0 => file_boot' \in {0, 1} /\ m.boot \in {0, 1})
    BY <1>1, <1>2, Knows
  <1>7. approved' \in SUBSET Feed
    BY Knows
  <1>8. QED
    BY <1>1, <1>2, <1>3, <1>4, <1>5, <1>6, <1>7, QuietKeeps

LEMMA PlanKeeps == ASSUME FeedsInv, NEW p \in Loader, Plan(p) PROVE FeedsInv'
  <1>0. /\ pc[p] = "feed" /\ my[p].turn =< Len(Order)
        /\ UNCHANGED <<table, lock, boot, file, approved, at, history, runs, faults>>
        /\ UNCHANGED key
    BY DEF Plan, at
  <1>1. /\ my[p] \in Memory /\ my[p].mode = "run" /\ my[p].turn >= 1 /\ my[p].put = {} /\ my[p].drop = {}
        /\ Dated(my[p].owner, my[p].written) /\ stamp \in Nat
    BY <1>0, Knows DEF Local, Place
  <1>2. PICK came \in BOOLEAN, list \in SUBSET Key, held \in BOOLEAN :
          LET m == Turn(my[p], came, list, held) IN
            \/ came /\ stamp' = stamp + 1 /\ Remember(p, Planned(m, Now(m))) /\ Goto(p, "key")
            \/ Remember(p, NextTurn(m)) /\ UNCHANGED <<stamp, pc>>
    BY DEF Plan
  <1> DEFINE m == Turn(my[p], came, list, held)
  <1>3. /\ m \in Memory /\ SameSelf(m, my[p])
        /\ m.owner = my[p].owner /\ m.written = my[p].written /\ m.put = my[p].put /\ m.drop = my[p].drop
        /\ m.turn = my[p].turn /\ m.came = came
    BY <1>1, TurnKeeps
  <1> HIDE DEF m
  <1>4. m.mode = "run" /\ Dated(m.owner, m.written)
    BY <1>1, <1>3 DEF SameSelf
  <1>5. CASE came /\ stamp' = stamp + 1 /\ Remember(p, Planned(m, Now(m))) /\ Goto(p, "key")
    <2> DEFINE n == Planned(m, Now(m))
    <2>0. m.came /\ m.turn >= 1 /\ m.turn <= Len(Order)
      BY <1>0, <1>1, <1>3, <1>5
    <2>1. n \in Memory /\ Local(n, "key", key[p]) /\ SameSelf(n, m) /\ n.owner = m.owner /\ n.written = m.written
      BY <1>1, <1>3, <1>4, <2>0, PlannedLocal
    <2> HIDE DEF n
    <2>2. Moves(p, n, "key", key[p])
      BY <1>0, <1>5, Knows DEF Remember, Goto, Moves, n
    <2>3. SameSelf(n, my[p]) /\ n.owner = my[p].owner /\ n.written = my[p].written
      BY <1>3, <2>1 DEF SameSelf
    <2>4. stamp' \in Nat
      BY <1>1, <1>5
    <2>5. QED
      BY <1>0, <1>1, <2>1, <2>2, <2>3, <2>4, RunGoesOn
  <1>6. CASE Remember(p, NextTurn(m)) /\ UNCHANGED <<stamp, pc>>
    <2> DEFINE n == NextTurn(m)
    <2>1. n \in Memory /\ Local(n, "feed", key[p]) /\ SameSelf(n, m) /\ n.owner = m.owner /\ n.written = m.written
      BY <1>1, <1>3, <1>4, NextTurnLocal
    <2> HIDE DEF n
    <2>2. Moves(p, n, "feed", key[p])
      BY <1>0, <1>6, Knows DEF Remember, Moves, n
    <2>3. SameSelf(n, my[p]) /\ n.owner = my[p].owner /\ n.written = my[p].written
      BY <1>3, <2>1 DEF SameSelf
    <2>4. stamp' \in Nat
      BY <1>1, <1>6
    <2>5. QED
      BY <1>0, <1>1, <2>1, <2>2, <2>3, <2>4, RunGoesOn
  <1>7. QED
    BY <1>2, <1>5, <1>6 DEF m

LEMMA FeedDoneKeeps == ASSUME FeedsInv, NEW p \in Loader, FeedDone(p) PROVE FeedsInv'
  <1> DEFINE b == [my[p] EXCEPT !.based = Rebased(my[p])]
             n == NextTurn(b)
  <1>0. /\ pc[p] = "key" /\ my[p].put = {} /\ my[p].drop = {} /\ my[p].mode = "run"
        /\ UNCHANGED <<table, lock, boot, file, approved, stamp, at, history, runs, faults>>
        /\ UNCHANGED key
        /\ Goto(p, "feed") /\ Remember(p, n)
    BY DEF FeedDone, KeysDone, at
  <1>1. my[p] \in Memory /\ my[p].turn >= 1 /\ my[p].turn <= Len(Order) /\ Dated(my[p].owner, my[p].written) /\ stamp \in Nat
    BY <1>0, Knows DEF Local, Place
  <1>2. /\ b \in Memory /\ SameSelf(b, my[p])
        /\ b.owner = my[p].owner /\ b.written = my[p].written /\ b.put = {} /\ b.drop = {} /\ b.turn = my[p].turn
    BY <1>0, <1>1, RebasedKeeps
  <1> HIDE DEF b
  <1>3. b.mode = "run" /\ Dated(b.owner, b.written)
    BY <1>0, <1>1, <1>2 DEF SameSelf
  <1>4. n \in Memory /\ Local(n, "feed", key[p]) /\ SameSelf(n, b) /\ n.owner = b.owner /\ n.written = b.written
    BY <1>1, <1>2, <1>3, NextTurnLocal
  <1> HIDE DEF n
  <1>5. Moves(p, n, "feed", key[p])
    BY <1>0, Knows DEF Remember, Goto, Moves
  <1>6. SameSelf(n, my[p]) /\ n.owner = my[p].owner /\ n.written = my[p].written /\ stamp' \in Nat
    BY <1>0, <1>1, <1>2, <1>4 DEF SameSelf
  <1>7. QED
    BY <1>0, <1>1, <1>4, <1>5, <1>6, RunGoesOn

(* The state is saved as the process has it, and the process ends. *)
LEMMA EndKeeps ==
  ASSUME FeedsInv, NEW p \in Loader, NEW marker \in BOOLEAN, Save(my[p], marker), End(p),
         UNCHANGED <<table, lock, boot, approved, stamp, at, history, runs, faults>>,
         pc[p] \in {"feed", "save"}, marker => my[p].mode # "run" /\ my[p].marked
  PROVE  FeedsInv'
  <1>1. Moves(p, Blank, "idle", key[p])
    BY Knows DEF End, Goto, Remember, Moves, at
  <1>2. my[p] \in Memory /\ Dated(my[p].owner, my[p].written)
    BY Knows DEF Local
  <1>3. /\ FileOK' /\ Dated(owner', written') /\ owner' = my[p].owner /\ written' = my[p].written
        /\ file_boot' = my[p].boot /\ running' = marker
    BY <1>2, Saved
  <1>4. Armed' => died \/ overlap
    BY <1>3, Knows DEF Armed
  <1>5. Calm => Kept(block, owner', written')
    BY <1>3, Knows
  <1>6. "idle" \in Labels \ {"open", "put", "drop"} /\ 0 <= boot
    BY Knows DEF Labels
  <1>7. file_boot' <= boot /\ (faults = 0 => file_boot' \in {0, 1})
    BY <1>3, Knows
  <1>8. approved' \in SUBSET Feed /\ stamp' \in Nat
    BY Knows
  <1>9. QED
    BY <1>1, <1>3, <1>4, <1>5, <1>6, <1>7, <1>8, BlankLocal, BlankKnows, QuietKeeps

LEMMA DoneKeeps == ASSUME FeedsInv, NEW p \in Loader, RunDone(p) \/ WithdrawDone(p) PROVE FeedsInv'
  <1>1. CASE RunDone(p)
    BY <1>1, EndKeeps DEF RunDone
  <1>2. CASE WithdrawDone(p)
    <2>1. my[p].marked \in BOOLEAN
      BY Knows, MemoryOf
    <2>2. pc[p] = "save" /\ my[p].mode # "run"
      BY <1>2, Knows DEF WithdrawDone, Local, Place
    <2>3. QED
      BY <1>2, <2>1, <2>2, EndKeeps DEF WithdrawDone
  <1>3. QED
    BY <1>1, <1>2

LEMMA RevokeKeeps == ASSUME FeedsInv, NEW p \in Loader, Revoke(p) PROVE FeedsInv'
  <1>0. /\ pc[p] = "key" /\ my[p].put = {} /\ my[p].drop = {} /\ my[p].mode # "run" /\ Goto(p, "save")
        /\ UNCHANGED <<table, lock, boot, file, stamp, my, at, history, runs, faults>>
        /\ UNCHANGED key
        /\ approved' \subseteq approved
    BY DEF Revoke, KeysDone, at
  <1>1. my[p] \in Memory /\ Local(my[p], "key", key[p])
    BY <1>0, Knows
  <1>2. Moves(p, my[p], "save", key[p])
    BY <1>0, Knows DEF Goto, Moves
  <1>3. Local(my[p], "save", key[p])
    BY <1>0, <1>1 DEF Local, Place
  <1>4. UNCHANGED <<owner, written, running, file_boot, based>> /\ FileOK' /\ Dated(owner', written')
    BY <1>0, Knows DEF file, FileOK
  <1>5. Armed' => Armed /\ ~Marked(p)
    BY <1>0, <1>4 DEF Armed, Marked
  <1>6. "save" \in Labels \ {"open", "put", "drop"} /\ approved' \in SUBSET Feed /\ stamp' \in Nat
    BY <1>0, Knows DEF Labels
  <1>7. my[p].boot <= boot /\ file_boot' <= boot /\ (faults = 0 => file_boot' \in {0, 1} /\ my[p].boot \in {0, 1})
    BY <1>4, Knows
  <1>8. Calm => Kept(block, my[p].owner, my[p].written) /\ Emptying(my[p])
    BY <1>0, Knows
  <1>9. my[p].mode # "run" /\ my[p].marked /\ my[p].boot = boot => died \/ overlap
    BY Knows
  <1>10. QED
    BY <1>0, <1>1, <1>2, <1>3, <1>4, <1>5, <1>6, <1>7, <1>8, <1>9, QuietKeeps

(* A process of the program starts and reads the state. *)
LEMMA OpenKeeps ==
  ASSUME FeedsInv, NEW p \in Loader, NEW mode, mode \in Modes,
         NEW target \in SUBSET Feed, NEW allowed \in SUBSET Feed, Open(p, mode, target, allowed),
         NEW label \in {"open", "key"}, mode = "run" <=> label = "open", Goto(p, label),
         approved' \in SUBSET Feed, hurt' \in BOOLEAN, mode = "withdraw_all" => target = Feed
  PROVE  FeedsInv'
  <1>0. TypeOK /\ LocalInv /\ SeenInv /\ MarkInv /\ CalmInv
    BY InvParts
  <1> DEFINE n == Opened(mode, target, allowed)
  <1>2. /\ n \in Memory
        /\ mode = "run" => \A k : Local(n, "open", k)
        /\ mode # "run" => \A k : Local(n, "key", k)
        /\ n.mode = mode /\ n.boot = file_boot /\ (n.marked => running) /\ (n.adoption => Armed)
        /\ n.owner = owner /\ n.written = written
        /\ \A x \in Key : mode # "run" /\ owner[x] \in target => x \in n.drop
    BY <1>0, OpenedLocal
  <1>1. /\ pc[p] = "idle" /\ runs' = runs + 1 /\ my' = [my EXCEPT ![p] = n]
        /\ overlap' = (overlap \/ \E q \in Loader : pc[q] # "idle")
        /\ UNCHANGED <<table, lock, boot, file, stamp, at, died, faults>>
    BY DEF Open, Remember, Opened
  <1> HIDE DEF n
  <1>b. n \in Memory
    BY <1>2
  <1>a. Local(n, label, key[p])
    <2>1. CASE mode = "run"
      BY <1>2, <2>1
    <2>2. CASE mode # "run"
      <3>1. label = "key"
        BY <2>2
      <3>2. QED
        BY <1>2, <2>2, <3>1
    <2>3. QED
      BY <2>1, <2>2
  <1>3. Moves(p, n, label, key[p])
    BY <1>1, Knows DEF Moves, Goto, at
  <1>4. UNCHANGED <<owner, written, running, file_boot, based>> /\ FileOK' /\ Dated(owner', written')
    BY <1>1, Knows DEF file, FileOK
  <1>5. label \in Labels /\ label \notin {"put", "drop"} /\ label # "idle" /\ key[p] \in Key \cup {NoKey}
    BY Knows DEF Labels
  <1>6. ProcessOK' /\ LocalInv'
    BY <1>0, <1>a, <1>b, <1>3, <1>4, <1>5, LocalStep
  <1>7. TableOK' /\ LockOK' /\ LookupOK' /\ SeenInv'
    BY <1>0, <1>1, <1>3, <1>5, QuietStep
  <1>8. WorldOK' /\ HistoryOK'
    <2>1. WorldOK /\ HistoryOK
      BY <1>0, TypeParts
    <2>2. WorldOK'
      BY <1>1, <2>1 DEF WorldOK
    <2>3. overlap' \in BOOLEAN
      BY <1>1
    <2>4. died' \in BOOLEAN
      BY <1>1, <2>1 DEF HistoryOK
    <2>5. QED
      BY <2>2, <2>3, <2>4 DEF HistoryOK
  <1>9. TypeOK'
    BY <1>4, <1>6, <1>7, <1>8, TypeParts, PTL
  <1>10. (overlap' <=> overlap \/ \E q \in Loader : pc[q] # "idle") /\ UNCHANGED <<boot, died, faults, block, masked>>
    BY <1>1 DEF table, at
  <1>11. \A q \in Loader : pc[q] = "idle" => my[q] = Blank
    BY <1>0 DEF LocalInv, Local, Place
  <1>12. MarkInv'
    <2>1. Armed => died \/ overlap'
      <3>1. ASSUME NEW q \in Loader, Marked(q) PROVE pc[q] # "idle"
        BY <1>11, <3>1, BlankKnows DEF Marked
      <3>2. QED
        BY <1>0, <1>10, <3>1 DEF MarkInv
    <2>2. Armed' => Armed
      BY <1>4, <1>10 DEF Armed
    <2>3. Armed <=> running /\ file_boot = boot
      BY DEF Armed
    <2>4. ~Marked(p)
      BY <1>1, <1>11, BlankKnows DEF Marked
    <2>5. file_boot' <= boot /\ n.boot <= boot
      BY <1>2, <1>4, Knows
    <2>6. n.adoption => died' \/ overlap'
      BY <1>2, <1>10, <2>1
    <2>7. n.mode # "run" /\ n.marked /\ n.boot = boot => died' \/ overlap'
      BY <1>2, <1>10, <2>1, <2>3
    <2>8. Armed' => died' \/ overlap' \/ (n.mode = "run" /\ label # "open") \/ (Armed /\ ~Marked(p))
      BY <2>2, <2>4
    <2>9. QED
      BY <1>0, <1>3, <1>10, <2>5, <2>6, <2>7, <2>8, MarkStep
  <1>13. /\ my'[p] = n /\ pc'[p] = label
         /\ \A q \in Loader \ {p} : my'[q] = my[q] /\ pc'[q] = pc[q]
    BY <1>0, <1>3, TypeParts DEF ProcessOK, Moves
  <1>14. CalmInv'
    <2>1. Calm' => Calm /\ \A q \in Loader : pc[q] = "idle" /\ my[q] = Blank
      BY <1>10, <1>11 DEF Calm
    <2>2. ~overlap' => \A q, r \in Loader : pc'[q] # "idle" /\ pc'[r] # "idle" => q = r
      BY <1>10, <1>13
    <2>3. faults' = 0 => /\ boot' = 1 /\ file_boot' \in {0, 1}
                         /\ \A q \in Loader : my'[q].boot \in {0, 1} /\ ~masked'[q]
      <3> SUFFICES ASSUME faults' = 0, NEW q \in Loader
                   PROVE  boot' = 1 /\ file_boot' \in {0, 1} /\ my'[q].boot \in {0, 1} /\ ~masked'[q]
        OBVIOUS
      <3>1. boot = 1 /\ file_boot \in {0, 1} /\ my[q].boot \in {0, 1} /\ ~masked[q]
        BY <1>10, Knows
      <3>2. my'[q] \in {my[q], n}
        BY <1>13
      <3>3. my'[q].boot \in {0, 1}
        BY <1>2, <3>1, <3>2
      <3>4. QED
        BY <1>4, <1>10, <3>1, <3>3
    <2>4. Calm' => \A q \in Loader : pc'[q] = "open" => my'[q].owner = owner' /\ my'[q].written = written'
      BY <1>2, <1>4, <1>13, <2>1
    <2>5. Calm' => \A q \in Loader : pc'[q] # "idle" => Kept(block', my'[q].owner, my'[q].written)
      <3>1. Calm' => Kept(block, owner, written)
        BY <1>0, <2>1 DEF CalmInv
      <3>2. QED
        BY <1>2, <1>10, <1>13, <2>1, <3>1
    <2>6. Calm' /\ (\A q \in Loader : pc'[q] = "idle") => Kept(block', owner', written')
      BY <1>5, <1>13
    <2>7. Calm' => \A q \in Loader : Emptying(my'[q])
      <3>1. Emptying(n)
        BY <1>2, Knows DEF Emptying, FileOK, Rows
      <3>2. QED
        BY <1>13, <2>1, <3>1, BlankKnows
    <2>8. QED
      BY <2>2, <2>3, <2>4, <2>5, <2>6, <2>7 DEF CalmInv
  <1>15. QED
    BY <1>6, <1>7, <1>9, <1>12, <1>14, InvParts, PTL

LEMMA StartKeeps ==
  ASSUME FeedsInv, NEW p \in Loader, RunStart(p) \/ (\E f \in Feed : ApplyStart(p, f)) \/ WithdrawStart(p)
  PROVE  FeedsInv'
  <1>0. approved \in SUBSET Feed /\ hurt \in BOOLEAN
    BY TypeParts, InvParts DEF WorldOK, HistoryOK
  <1>1. CASE RunStart(p)
    <2>1. Open(p, "run", {}, approved) /\ Goto(p, "open") /\ hurt' \in BOOLEAN /\ approved' \in SUBSET Feed
      BY <1>0, <1>1 DEF RunStart
    <2>2. QED
      BY <1>0, <2>1, OpenKeeps DEF Modes
  <1>2. ASSUME NEW f \in Feed, ApplyStart(p, f) PROVE FeedsInv'
    <2>1. Open(p, "run", {f}, approved') /\ Goto(p, "open") /\ hurt' \in BOOLEAN /\ approved' \in SUBSET Feed
      BY <1>0, <1>2 DEF ApplyStart
    <2>2. QED
      BY <2>1, OpenKeeps DEF Modes
  <1>3. CASE WithdrawStart(p)
    <2>1. Goto(p, "key") /\ hurt' \in BOOLEAN /\ approved' \in SUBSET Feed
      BY <1>0, <1>3 DEF WithdrawStart
    <2>2. (\E f \in Feed : Open(p, "withdraw", {f}, approved)) \/ Open(p, "withdraw_all", Feed, approved)
      BY <1>3 DEF WithdrawStart
    <2>3. QED
      BY <1>0, <2>1, <2>2, OpenKeeps DEF Modes
  <1>4. QED
    BY <1>1, <1>2, <1>3

(* A step between the keys, for the marker: the file and the history stay. *)
LEMMA MarkStays ==
  ASSUME FeedsInv, NEW p \in Loader, NEW m, NEW label, NEW k, Moves(p, m, label, k),
         SameSelf(m, my[p]), label # "open", UNCHANGED <<boot, file, history>>
  PROVE  MarkInv'
  <1>0. TypeOK /\ MarkInv
    BY InvParts
  <1>1. UNCHANGED <<boot, running, file_boot, died, overlap>>
    BY DEF file, history
  <1>2. m.mode = my[p].mode /\ m.boot = my[p].boot /\ m.marked = my[p].marked /\ m.adoption = my[p].adoption
    BY DEF SameSelf
  <1>3. m.boot <= boot /\ file_boot' <= boot /\ (died => died') /\ (overlap => overlap')
    BY <1>1, <1>2, Knows
  <1>4. m.adoption => died' \/ overlap'
    BY <1>0, <1>1, <1>2 DEF MarkInv, AdoptionEarned
  <1>5. m.mode # "run" /\ m.marked /\ m.boot = boot => died' \/ overlap'
    BY <1>0, <1>1, <1>2 DEF MarkInv
  <1>6. Armed' => Armed
    BY <1>1 DEF Armed
  <1>7. Armed' => \/ died' \/ overlap'
                  \/ m.mode = "run" /\ label # "open"
                  \/ Armed /\ ~Marked(p)
    BY <1>2, <1>6 DEF Marked
  <1>8. QED
    BY <1>0, <1>1, <1>3, <1>4, <1>5, <1>7, MarkStep

(* The lock is taken and the key is looked up. *)
LEMMA TakeKeeps == ASSUME FeedsInv, NEW p \in Loader, Take(p) PROVE FeedsInv'
  <1> DEFINE label == IF my[p].put # {} THEN "put" ELSE "drop"
  <1>0. TypeOK /\ LocalInv /\ SeenInv /\ MarkInv /\ CalmInv
    BY InvParts
  <1>1. /\ pc[p] = "key" /\ lock = Free /\ lock' = p /\ Goto(p, label)
        /\ UNCHANGED <<table, boot, file, approved, stamp, my, history, runs>>
    BY DEF Take
  <1>2. PICK k \in IF my[p].put # {} THEN my[p].put ELSE my[p].drop :
          /\ key' = [key EXCEPT ![p] = k]
          /\ \/ /\ seen' = [seen EXCEPT ![p] = block[k]]
                /\ spent' = [spent EXCEPT ![p] = k \in lapsed]
                /\ masked' = [masked EXCEPT ![p] = FALSE]
                /\ Works
             \/ /\ seen' = [seen EXCEPT ![p] = Absent]
                /\ spent' = [spent EXCEPT ![p] = FALSE]
                /\ masked' = [masked EXCEPT ![p] = TRUE]
                /\ Fault
    BY DEF Take
  <1>3. /\ TableOK /\ LockOK /\ FileOK /\ WorldOK /\ ProcessOK /\ LookupOK /\ HistoryOK
    BY <1>0, TypeParts
  <1>4. my[p] \in Memory /\ Local(my[p], "key", key[p])
    BY <1>1, Knows
  <1>5. k \in Key
    BY <1>4, MemoryOf
  <1>6. Local(my[p], label, k)
    BY <1>4 DEF Local, Place
  <1>7. label \in Labels /\ label \in {"put", "drop"} /\ label # "open" /\ label # "idle"
    BY DEF Labels
  <1> HIDE DEF label
  <1>8. Moves(p, my[p], label, k)
    BY <1>1, <1>2, Knows DEF Moves, Goto
  <1>9. /\ UNCHANGED <<owner, written, running, file_boot, based, block, lapsed, boot, overlap, died, hurt>>
        /\ Dated(owner', written')
    BY <1>1, Knows DEF file, table, history
  <1>10. ProcessOK' /\ LocalInv'
    BY <1>0, <1>4, <1>5, <1>6, <1>7, <1>8, <1>9, LocalStep
  <1>11. TableOK' /\ FileOK' /\ HistoryOK'
    BY <1>3, <1>9 DEF TableOK, FileOK, HistoryOK
  <1>12. \A q \in Loader : q # p => pc'[q] = pc[q] /\ ~AtKey(q) /\ ~AtKey(q)'
    BY <1>1, <1>3, <1>8, LoaderAssumption DEF LoaderAssumption, LockOK, ProcessOK, Moves, AtKey
  <1>13. AtKey(p)' /\ key'[p] = k
    BY <1>3, <1>7, <1>8 DEF ProcessOK, Moves, AtKey
  <1>14. LockOK'
    BY <1>1, <1>12, <1>13 DEF LockOK
  <1>15. block[k] \in Value /\ Absent \in Value
    BY <1>3, <1>5 DEF TableOK, Value
  <1>16. ASSUME seen' = [seen EXCEPT ![p] = block[k]],
                spent' = [spent EXCEPT ![p] = k \in lapsed],
                masked' = [masked EXCEPT ![p] = FALSE],
                Works
        PROVE  LookupOK' /\ Found(p)' /\ WorldOK' /\ (faults' = 0 => faults = 0 /\ \A q \in Loader : ~masked'[q])
    <2>1. LookupOK'
      BY <1>3, <1>15, <1>16 DEF LookupOK
    <2>2. seen'[p] = block[k] /\ (spent'[p] <=> k \in lapsed) /\ ~masked'[p]
      BY <1>3, <1>16 DEF LookupOK
    <2>3. Found(p)'
      BY <1>9, <1>13, <2>2 DEF Found
    <2>4. WorldOK' /\ faults' = faults
      BY <1>1, <1>3, <1>16 DEF WorldOK, Works
    <2>5. \A q \in Loader : q # p => masked'[q] = masked[q]
      BY <1>3, <1>16 DEF LookupOK
    <2>6. faults' = 0 => faults = 0 /\ \A q \in Loader : ~masked'[q]
      BY <1>0, <2>2, <2>4, <2>5 DEF CalmInv
    <2>7. QED
      BY <2>1, <2>3, <2>4, <2>6
  <1>17. ASSUME seen' = [seen EXCEPT ![p] = Absent],
                spent' = [spent EXCEPT ![p] = FALSE],
                masked' = [masked EXCEPT ![p] = TRUE],
                Fault
        PROVE  LookupOK' /\ Found(p)' /\ WorldOK' /\ (faults' = 0 => faults = 0 /\ \A q \in Loader : ~masked'[q])
    <2>1. LookupOK'
      BY <1>3, <1>15, <1>17 DEF LookupOK
    <2>2. seen'[p] = Absent /\ ~spent'[p] /\ masked'[p]
      BY <1>3, <1>17 DEF LookupOK
    <2>3. Found(p)'
      BY <2>2 DEF Found
    <2>4. faults \in Nat /\ faults' = faults + 1
      BY <1>3, <1>17 DEF WorldOK, Fault
    <2>5. faults' # 0 /\ faults' \in Nat
      BY <2>4
    <2>6. WorldOK'
      BY <1>1, <1>3, <2>5 DEF WorldOK
    <2>7. QED
      BY <2>1, <2>3, <2>5, <2>6
  <1>18. LookupOK' /\ Found(p)' /\ WorldOK' /\ (faults' = 0 => faults = 0 /\ \A q \in Loader : ~masked'[q])
    BY <1>2, <1>16, <1>17
  <1>19. SeenInv'
    BY <1>12, <1>18 DEF SeenInv
  <1>20. MarkInv'
    BY <1>1, <1>7, <1>8, MarkStays DEF SameSelf
  <1>21. CalmInv'
    <2>1. faults' = 0 => /\ faults = 0 /\ file_boot' \in {0, 1} /\ my[p].boot \in {0, 1}
                         /\ \A q \in Loader : ~masked'[q]
      BY <1>9, <1>18, Knows
    <2>2. Calm => Kept(block', my[p].owner, my[p].written) /\ Emptying(my[p])
      BY <1>1, <1>9, Knows
    <2>3. QED
      BY <1>0, <1>1, <1>7, <1>8, <1>9, <2>1, <2>2, CalmStep
  <1>22. TypeOK'
    BY <1>10, <1>11, <1>14, <1>18, TypeParts, PTL
  <1>23. QED
    BY <1>10, <1>19, <1>20, <1>21, <1>22, InvParts, PTL

(* A process at a key knows it, and holds the lock; no other is at one. *)
LEMMA AtKeyKnows ==
  ASSUME FeedsInv, NEW p \in Loader, pc[p] \in {"put", "drop"}
  PROVE  /\ key[p] \in Key /\ lock = p /\ Found(p)
         /\ my[p] \in Memory /\ Local(my[p], pc[p], key[p])
         /\ \A q \in Loader \ {p} : ~AtKey(q)
         /\ pc[p] = "put" => my[p].mode = "run"
  <1>1. LockOK /\ SeenInv
    BY InvParts, TypeParts
  <1>2. my[p] \in Memory /\ Local(my[p], pc[p], key[p])
    BY Knows
  <1>3. my[p].put \in SUBSET Key /\ my[p].drop \in SUBSET Key
    BY <1>2, MemoryOf
  <1>4. key[p] \in Key /\ (pc[p] = "put" => my[p].mode = "run")
    BY <1>2, <1>3 DEF Local, Place
  <1>5. lock = p /\ Found(p) /\ \A q \in Loader \ {p} : ~AtKey(q)
    BY <1>1 DEF LockOK, SeenInv, AtKey
  <1>6. QED
    BY <1>2, <1>4, <1>5

(* A key is done, whatever was written to the map. *)
LEMMA ReleaseKeeps ==
  ASSUME FeedsInv, NEW p \in Loader, pc[p] \in {"put", "drop"},
         NEW n, RowAt(n, my[p], key[p]), Release(p, n),
         TableOK', faults' \in Nat, faults' = 0 => faults = 0,
         Calm /\ Calm' => Kept(block', n.owner, n.written),
         Calm /\ Calm' /\ pc[p] = "drop" => n.owner[key[p]] = NoFeed
  PROVE  FeedsInv'
  <1> DEFINE r == Released(n, key[p])
  <1>0. TypeOK /\ LocalInv /\ SeenInv /\ MarkInv /\ CalmInv
    BY InvParts
  <1>1. /\ key[p] \in Key /\ lock = p
        /\ my[p] \in Memory /\ Local(my[p], pc[p], key[p])
        /\ \A q \in Loader \ {p} : ~AtKey(q)
        /\ pc[p] = "put" => my[p].mode = "run"
    BY AtKeyKnows
  <1>2. /\ r \in Memory /\ Local(r, "key", NoKey) /\ SameSelf(r, my[p])
        /\ r.owner = n.owner /\ r.written = n.written /\ r.drop = my[p].drop \ {key[p]}
    BY <1>1, ReleasedLocal
  <1>3. /\ lock' = Free /\ Goto(p, "key") /\ my' = [my EXCEPT ![p] = r]
        /\ Forget(p)
        /\ UNCHANGED <<boot, file, approved, stamp, history, runs>>
    BY <1>1 DEF Release, Remember, Released
  <1> HIDE DEF r
  <1>4. Moves(p, r, "key", NoKey)
    BY <1>3 DEF Moves, Goto, Forget
  <1>5. /\ TableOK /\ LockOK /\ FileOK /\ WorldOK /\ ProcessOK /\ LookupOK /\ HistoryOK
    BY <1>0, TypeParts
  <1>6. /\ UNCHANGED <<owner, written, running, file_boot, based, boot, overlap, died, hurt>>
        /\ Dated(owner', written')
    BY <1>3, Knows DEF file, history
  <1>7. ProcessOK' /\ LocalInv'
    <2>1. "key" \in Labels /\ NoKey \in Key \cup {NoKey}
      BY DEF Labels
    <2>2. QED
      BY <1>0, <1>2, <1>4, <1>6, <2>1, LocalStep
  <1>8. \A q \in Loader : ~AtKey(q)'
    BY <1>1, <1>4, <1>5 DEF ProcessOK, Moves, AtKey
  <1>9. LockOK'
    BY <1>3, <1>8, LoaderAssumption DEF LoaderAssumption, LockOK
  <1>10. SeenInv'
    BY <1>8 DEF SeenInv
  <1>11. LookupOK' /\ \A q \in Loader : masked'[q] => masked[q]
    <2>1. Absent \in Value
      BY DEF Value
    <2>2. LookupOK'
      BY <1>3, <1>5, <2>1 DEF LookupOK, Forget
    <2>3. \A q \in Loader : masked'[q] => masked[q]
      BY <1>3, <1>5 DEF LookupOK, Forget
    <2>4. QED
      BY <2>2, <2>3
  <1>12. FileOK' /\ HistoryOK' /\ WorldOK'
    BY <1>3, <1>5, <1>6 DEF FileOK, HistoryOK, WorldOK
  <1>13. TypeOK'
    BY <1>7, <1>9, <1>11, <1>12, TypeParts, PTL
  <1>14. MarkInv'
    BY <1>2, <1>3, <1>4, MarkStays
  <1>15. CalmInv'
    <2>1. r.boot = my[p].boot /\ r.mode = my[p].mode
      BY <1>2 DEF SameSelf
    <2>2. faults' = 0 => /\ faults = 0 /\ file_boot' \in {0, 1} /\ r.boot \in {0, 1}
                         /\ \A q \in Loader : ~masked'[q]
      <3> SUFFICES ASSUME faults' = 0, NEW q \in Loader
                   PROVE  faults = 0 /\ file_boot' \in {0, 1} /\ r.boot \in {0, 1} /\ ~masked'[q]
        OBVIOUS
      <3>1. faults = 0 /\ file_boot \in {0, 1} /\ my[p].boot \in {0, 1} /\ ~masked[q]
        BY Knows
      <3>2. QED
        BY <1>6, <1>11, <2>1, <3>1
    <2>3. Calm /\ Calm' => Kept(block', r.owner, r.written)
      BY <1>2
    <2>4. Calm /\ Calm' => Emptying(r)
      <3> SUFFICES ASSUME Calm, Calm', r.mode = "withdraw_all", NEW x \in Key, r.owner[x] # NoFeed
                   PROVE  x \in r.drop
        BY DEF Emptying
      <3>1. pc[p] = "drop"
        BY <1>1, <2>1
      <3>2. x # key[p]
        BY <1>2, <3>1
      <3>3. my[p].owner[x] # NoFeed
        BY <1>2, <3>2 DEF RowAt
      <3>4. x \in my[p].drop
        BY <2>1, <3>3, Knows DEF Emptying
      <3>5. QED
        BY <1>2, <3>2, <3>4
    <2>5. QED
      BY <1>0, <1>4, <1>6, <2>2, <2>3, <2>4, CalmStep
  <1>16. QED
    BY <1>7, <1>10, <1>13, <1>14, <1>15, InvParts, PTL

(* What the writes of a process at a key do to the map. *)
Near(p) == \A x \in Key \ {key[p]} : block'[x] \in {block[x], Absent}

LEMMA WriteNear ==
  ASSUME TableOK, NEW p \in Loader, key[p] \in Key, my[p].stamp \in Nat, my[p].stamp >= 1, Write(p)
  PROVE  TableOK' /\ Near(p) /\ block'[key[p]] = my[p].stamp
  <1>1. block' = [block EXCEPT ![key[p]] = my[p].stamp] /\ lapsed' = lapsed \ {key[p]}
    BY DEF Write
  <1>2. block' \in [Key -> Value] /\ block'[key[p]] = my[p].stamp /\ \A x \in Key \ {key[p]} : block'[x] = block[x]
    BY <1>1 DEF TableOK, Value
  <1>3. lapsed' \subseteq {x \in Key : block'[x] # Absent}
    BY <1>1, <1>2 DEF TableOK
  <1>4. QED
    BY <1>2, <1>3 DEF TableOK, Near

LEMMA PurgeNear ==
  ASSUME TableOK, NEW p \in Loader, key[p] \in Key, my[p].stamp \in Nat, my[p].stamp >= 1, WriteAndPurge(p)
  PROVE  /\ TableOK' /\ Near(p) /\ block'[key[p]] = my[p].stamp
         /\ \A x \in Key \ {key[p]} : block'[x] # block[x] => x \in lapsed
         /\ Works \/ Fault
  <1>1. PICK gone \in SUBSET Purgeable(p) :
          /\ block' = [k \in Key |-> IF k = key[p] THEN my[p].stamp
                                     ELSE IF k \in gone THEN Absent ELSE block[k]]
          /\ lapsed' = lapsed \ ({key[p]} \cup gone)
          /\ Works \/ Fault
    BY DEF WriteAndPurge
  <1>2. gone \subseteq lapsed
    BY DEF Purgeable
  <1>3. Absent \in Value /\ my[p].stamp \in Value
    BY DEF Value
  <1>4. block' \in [Key -> Value]
    BY <1>1, <1>3 DEF TableOK
  <1>5. block'[key[p]] = my[p].stamp
    BY <1>1
  <1>6. \A x \in Key \ {key[p]} : IF x \in gone THEN block'[x] = Absent ELSE block'[x] = block[x]
    BY <1>1
  <1>7. lapsed' \subseteq {x \in Key : block'[x] # Absent}
    BY <1>1, <1>6 DEF TableOK
  <1>8. Near(p) /\ \A x \in Key \ {key[p]} : block'[x] # block[x] => x \in lapsed
    BY <1>2, <1>6 DEF Near
  <1>9. QED
    BY <1>1, <1>4, <1>5, <1>7, <1>8 DEF TableOK

LEMMA RemoveNear ==
  ASSUME TableOK, NEW p \in Loader, key[p] \in Key, Remove(p)
  PROVE  TableOK' /\ Near(p) /\ block'[key[p]] = Absent
  <1>1. block' = [block EXCEPT ![key[p]] = Absent] /\ lapsed' = lapsed \ {key[p]}
    BY DEF Remove
  <1>2. block' \in [Key -> Value] /\ block'[key[p]] = Absent /\ \A x \in Key \ {key[p]} : block'[x] = block[x]
    BY <1>1 DEF TableOK, Value
  <1>3. lapsed' \subseteq {x \in Key : block'[x] # Absent}
    BY <1>1, <1>2 DEF TableOK
  <1>4. QED
    BY <1>2, <1>3 DEF TableOK, Near

LEMMA IdleNear ==
  ASSUME TableOK, NEW p \in Loader, UNCHANGED table
  PROVE  TableOK' /\ Near(p) /\ block' = block
  BY DEF TableOK, Near, table

LEMMA KeptNear ==
  ASSUME NEW p \in Loader, key[p] \in Key, Kept(block, my[p].owner, my[p].written),
         NEW n, RowAt(n, my[p], key[p]), Near(p),
         block'[key[p]] \in Stamp => n.owner[key[p]] # NoFeed /\ n.written[key[p]] = block'[key[p]]
  PROVE  Kept(block', n.owner, n.written)
  <1> SUFFICES ASSUME NEW x \in Key, block'[x] \in Stamp PROVE n.owner[x] # NoFeed /\ n.written[x] = block'[x]
    BY DEF Kept
  <1>1. CASE x = key[p]
    BY <1>1
  <1>2. CASE x # key[p]
    <2>1. block'[x] = block[x]
      BY <1>2 DEF Near, Stamp, Absent
    <2>2. n.owner[x] = my[p].owner[x] /\ n.written[x] = my[p].written[x]
      BY <1>2 DEF RowAt
    <2>3. QED
      BY <2>1, <2>2 DEF Kept
  <1>3. QED
    BY <1>1, <1>2

(* When nothing fails, an entry with a row that the loader wrote is seen as its own. *)
LEMMA SeenAsOwn ==
  ASSUME FeedsInv, Calm, NEW p \in Loader, pc[p] \in {"put", "drop"}, block[key[p]] \in Stamp
  PROVE  seen[p] # Absent /\ Own(p) /\ my[p].owner[key[p]] # NoFeed
  <1>1. ~masked[p] /\ Kept(block, my[p].owner, my[p].written)
    BY Knows DEF Calm
  <1>2. key[p] \in Key /\ Found(p)
    BY AtKeyKnows
  <1>3. block[key[p]] = seen[p] /\ seen[p] # Absent
    BY <1>1, <1>2 DEF Found, Stamp, Absent
  <1>4. QED
    BY <1>1, <1>2, <1>3 DEF Kept, Own

LEMMA PutKeeps == ASSUME FeedsInv, NEW p \in Loader, Put(p) PROVE FeedsInv'
  <1> DEFINE m == my[p]
             k == key[p]
  <1>0. pc[p] = "put"
    BY DEF Put
  <1>1. k \in Key /\ m \in Memory /\ Local(m, "put", k) /\ m.mode = "run"
    BY <1>0, AtKeyKnows
  <1>2. m.stamp \in Nat /\ m.stamp >= 1
    BY <1>0, <1>1, MemoryOf DEF Local, Place
  <1>3. TableOK /\ faults \in Nat
    BY InvParts, TypeParts DEF WorldOK
  <1>4. /\ RowAt(m, m, k) /\ RowAt(WithRow(m, k), m, k) /\ RowAt(WithoutRow(m, k), m, k)
        /\ WithRow(m, k).owner[k] # NoFeed /\ WithRow(m, k).written[k] = m.stamp
    BY <1>1, RowsAt
  <1>5. Calm => Kept(block, m.owner, m.written)
    BY <1>0, Knows
  <1>6. ASSUME TableOK', Near(p), block'[k] = m.stamp, Works \/ Fault, Release(p, WithRow(m, k))
        PROVE  FeedsInv'
    <2>1. faults' \in Nat /\ (faults' = 0 => faults = 0)
      BY <1>3, <1>6 DEF Works, Fault
    <2>2. Calm => Kept(block', WithRow(m, k).owner, WithRow(m, k).written)
      BY <1>1, <1>4, <1>5, <1>6, KeptNear
    <2>3. pc[p] \in {"put", "drop"} /\ pc[p] # "drop"
      BY <1>0
    <2>4. QED
      BY <1>4, <1>6, <2>1, <2>2, <2>3, ReleaseKeeps
  <1>7. ASSUME ~Refreshes(p), ~Inserts(p), UNCHANGED table, Works,
               Release(p, IF HasRow(p) THEN WithoutRow(m, k) ELSE m)
        PROVE  FeedsInv'
    <2>1. TableOK' /\ block' = block /\ Near(p)
      BY <1>3, <1>7, IdleNear
    <2>2. faults' \in Nat /\ faults' = faults /\ pc[p] \in {"put", "drop"} /\ pc[p] # "drop"
      BY <1>0, <1>3, <1>7 DEF Works
    <2>3. CASE HasRow(p)
      <3>1. Calm => block[k] \notin Stamp
        BY <1>7, <2>2, <2>3, SeenAsOwn DEF Refreshes
      <3>2. Calm => Kept(block', WithoutRow(m, k).owner, WithoutRow(m, k).written)
        BY <1>1, <1>4, <1>5, <2>1, <3>1, KeptNear
      <3>3. Release(p, WithoutRow(m, k))
        BY <1>7, <2>3
      <3>4. QED
        BY <1>4, <2>1, <2>2, <3>2, <3>3, ReleaseKeeps
    <2>4. CASE ~HasRow(p)
      <3>1. Release(p, m)
        BY <1>7, <2>4
      <3>2. QED
        BY <1>4, <1>5, <2>1, <2>2, <3>1, ReleaseKeeps
    <2>5. QED
      BY <2>3, <2>4
  <1>8. CASE Write(p) /\ Works /\ Release(p, WithRow(m, k))
    BY <1>1, <1>2, <1>3, <1>6, <1>8, WriteNear
  <1>9. CASE WriteAndPurge(p) /\ Release(p, WithRow(m, k))
    BY <1>1, <1>2, <1>3, <1>6, <1>9, PurgeNear
  <1>10. QED
    BY <1>7, <1>8, <1>9 DEF Put

LEMMA PutFailsKeeps == ASSUME FeedsInv, NEW p \in Loader, PutFails(p) PROVE FeedsInv'
  <1>0. pc[p] = "put" /\ pc[p] \in {"put", "drop"} /\ Fault /\ Release(p, my[p]) /\ (UNCHANGED table \/ Write(p))
    BY DEF PutFails
  <1>1. key[p] \in Key /\ my[p] \in Memory /\ Local(my[p], "put", key[p])
    BY <1>0, AtKeyKnows
  <1>2. my[p].stamp \in Nat /\ (my[p].mode = "run" => my[p].stamp >= 1) /\ my[p].mode = "run"
    BY <1>0, <1>1, AtKeyKnows, MemoryOf DEF Local, Place
  <1>3. TableOK /\ faults \in Nat
    BY InvParts, TypeParts DEF WorldOK
  <1>4. TableOK'
    BY <1>0, <1>1, <1>2, <1>3, IdleNear, WriteNear
  <1>5. faults' = faults + 1
    BY <1>0 DEF Fault
  <1>6. faults' \in Nat /\ faults' # 0
    BY <1>3, <1>5
  <1>7. RowAt(my[p], my[p], key[p])
    BY <1>1, RowsAt
  <1>8. ~Calm'
    BY <1>6 DEF Calm
  <1>9. QED
    BY <1>0, <1>4, <1>6, <1>7, <1>8, ReleaseKeeps

LEMMA DropKeeps == ASSUME FeedsInv, NEW p \in Loader, Drop(p) PROVE FeedsInv'
  <1> DEFINE m == my[p]
             k == key[p]
  <1>0. pc[p] = "drop" /\ pc[p] \in {"put", "drop"} /\ faults' = faults
    BY DEF Drop, Works
  <1>1. k \in Key /\ m \in Memory /\ Local(m, "drop", k)
    BY <1>0, AtKeyKnows
  <1>2. TableOK /\ faults \in Nat
    BY InvParts, TypeParts DEF WorldOK
  <1>3. /\ RowAt(WithoutRow(m, k), m, k) /\ WithoutRow(m, k).owner[k] = NoFeed
        /\ RowAt(Removed(m, k), m, k) /\ Removed(m, k).owner[k] = NoFeed
    BY <1>1, RowsAt
  <1>4. Calm => Kept(block, m.owner, m.written)
    BY <1>0, Knows
  <1>5. CASE seen[p] # Absent /\ Own(p)
    <2>1. Remove(p) /\ Release(p, Removed(m, k))
      BY <1>5 DEF Drop, Removed
    <2>2. TableOK' /\ Near(p) /\ block'[k] = Absent
      BY <1>1, <1>2, <2>1, RemoveNear
    <2>3. block'[k] \notin Stamp
      BY <2>2 DEF Absent, Stamp
    <2>4. Calm => Kept(block', Removed(m, k).owner, Removed(m, k).written)
      BY <1>1, <1>3, <1>4, <2>2, <2>3, KeptNear
    <2>5. QED
      BY <1>0, <1>2, <1>3, <2>1, <2>2, <2>4, ReleaseKeeps
  <1>6. CASE ~(seen[p] # Absent /\ Own(p))
    <2>1. UNCHANGED table /\ Release(p, WithoutRow(m, k))
      BY <1>6 DEF Drop
    <2>2. TableOK' /\ Near(p) /\ block' = block
      BY <1>2, <2>1, IdleNear
    <2>3. Calm => block[k] \notin Stamp
      BY <1>0, <1>6, SeenAsOwn
    <2>4. Calm => Kept(block', WithoutRow(m, k).owner, WithoutRow(m, k).written)
      BY <1>1, <1>3, <1>4, <2>2, <2>3, KeptNear
    <2>5. QED
      BY <1>0, <1>2, <1>3, <2>1, <2>2, <2>4, ReleaseKeeps
  <1>7. QED
    BY <1>5, <1>6

LEMMA DropFailsKeeps == ASSUME FeedsInv, NEW p \in Loader, DropFails(p) PROVE FeedsInv'
  <1>0. pc[p] = "drop" /\ pc[p] \in {"put", "drop"} /\ Fault /\ Release(p, my[p]) /\ (UNCHANGED table \/ Remove(p))
    BY DEF DropFails
  <1>1. key[p] \in Key /\ my[p] \in Memory /\ Local(my[p], "drop", key[p])
    BY <1>0, AtKeyKnows
  <1>2. TableOK /\ faults \in Nat
    BY InvParts, TypeParts DEF WorldOK
  <1>3. TableOK'
    BY <1>0, <1>1, <1>2, IdleNear, RemoveNear
  <1>4. faults' = faults + 1
    BY <1>0 DEF Fault
  <1>5. faults' \in Nat /\ faults' # 0
    BY <1>2, <1>4
  <1>6. RowAt(my[p], my[p], key[p])
    BY <1>1, RowsAt
  <1>7. ~Calm'
    BY <1>5 DEF Calm
  <1>8. QED
    BY <1>0, <1>3, <1>5, <1>6, <1>7, ReleaseKeeps

(* A process ends where it stands, and the kernel lets its lock go. *)
LEMMA DiesKeeps ==
  ASSUME FeedsInv, NEW p \in Loader, Dies(p), died' \in BOOLEAN, hurt' \in BOOLEAN,
         FileOK', Dated(owner', written'), file_boot' <= boot, died => died',
         Armed' => died' \/ overlap \/ (Armed /\ ~Marked(p))
  PROVE  FeedsInv'
  <1>0. TypeOK /\ LocalInv /\ SeenInv /\ MarkInv /\ CalmInv
    BY InvParts
  <1>1. /\ pc[p] # "idle" /\ lock' = (IF lock = p THEN Free ELSE lock) /\ Moves(p, Blank, "idle", NoKey)
        /\ Forget(p) /\ UNCHANGED <<table, boot, approved, stamp, overlap, runs>>
        /\ faults' = faults + 1
    BY DEF Dies, End, Goto, Remember, Forget, Moves, Fault
  <1>2. /\ TableOK /\ LockOK /\ WorldOK /\ ProcessOK /\ LookupOK /\ HistoryOK
    BY <1>0, TypeParts
  <1>3. ProcessOK' /\ LocalInv'
    <2>1. "idle" \in Labels /\ NoKey \in Key \cup {NoKey} /\ Blank \in Memory /\ Local(Blank, "idle", NoKey)
      BY BlankLocal DEF Labels
    <2>2. QED
      BY <1>0, <1>1, <2>1, LocalStep
  <1>4. ~AtKey(p)' /\ \A q \in Loader \ {p} : AtKey(q)' <=> AtKey(q)
    BY <1>1, <1>2 DEF ProcessOK, Moves, AtKey
  <1>5. LockOK'
    BY <1>1, <1>2, <1>4, LoaderAssumption DEF LoaderAssumption, LockOK
  <1>6. /\ LookupOK'
        /\ \A q \in Loader \ {p} : key'[q] = key[q] /\ seen'[q] = seen[q] /\ spent'[q] = spent[q] /\ masked'[q] = masked[q]
    <2>1. Absent \in Value
      BY DEF Value
    <2>2. LookupOK'
      BY <1>1, <1>2, <2>1 DEF LookupOK, Forget
    <2>3. \A q \in Loader \ {p} : key'[q] = key[q] /\ seen'[q] = seen[q] /\ spent'[q] = spent[q] /\ masked'[q] = masked[q]
      BY <1>1, <1>2 DEF LookupOK, ProcessOK, Forget
    <2>4. QED
      BY <2>2, <2>3
  <1>7. SeenInv'
    <2> SUFFICES ASSUME NEW q \in Loader, AtKey(q)' PROVE Found(q)'
      BY DEF SeenInv
    <2>1. q # p /\ Found(q)
      BY <1>0, <1>4 DEF SeenInv
    <2>2. key'[q] = key[q] /\ seen'[q] = seen[q] /\ spent'[q] = spent[q] /\ masked'[q] = masked[q] /\ UNCHANGED <<block, lapsed>>
      BY <1>1, <1>6, <2>1 DEF table
    <2>3. QED
      BY <2>1, <2>2 DEF Found
  <1>8. faults' \in Nat /\ faults' # 0
    BY <1>1, <1>2 DEF WorldOK
  <1>9. TableOK' /\ WorldOK'
    BY <1>1, <1>2, <1>8 DEF TableOK, WorldOK, table
  <1>10. HistoryOK'
    BY <1>1, <1>2 DEF HistoryOK
  <1>11. TypeOK'
    BY <1>3, <1>5, <1>6, <1>9, <1>10, TypeParts, PTL
  <1>12. MarkInv'
    <2>1. 0 <= boot /\ boot' = boot /\ overlap' = overlap
      BY <1>1, Knows
    <2>2. Armed' => \/ died' \/ overlap'
                    \/ Blank.mode = "run" /\ "idle" # "open"
                    \/ Armed /\ ~Marked(p)
      BY <2>1
    <2>3. QED
      BY <1>0, <1>1, <2>1, <2>2, BlankKnows, MarkStep
  <1>13. CalmInv'
    <2>1. ~Calm' /\ ~(faults' = 0)
      BY <1>8 DEF Calm
    <2>2. UNCHANGED <<boot, overlap>> /\ "idle" # "open"
      BY <1>1
    <2>3. QED
      BY <1>0, <1>1, <2>1, <2>2, CalmStep
  <1>14. QED
    BY <1>3, <1>7, <1>11, <1>12, <1>13, InvParts, PTL

LEMMA KillKeeps == ASSUME FeedsInv, NEW p \in Loader, Kill(p) PROVE FeedsInv'
  <1>1. HistoryOK /\ FileOK
    BY InvParts, TypeParts
  <1>2. Dies(p) /\ (died' <=> died \/ Marked(p)) /\ UNCHANGED <<owner, written, running, file_boot, based>>
    BY <1>1 DEF Kill, file, HistoryOK
  <1>3. boot' = boot
    BY <1>2 DEF Dies
  <1>4. died' \in BOOLEAN /\ hurt' \in BOOLEAN
    BY DEF Kill
  <1>5. FileOK' /\ Dated(owner', written') /\ file_boot' <= boot
    BY <1>2, Knows DEF FileOK
  <1>6. Armed' => Armed
    BY <1>2, <1>3 DEF Armed
  <1>7. QED
    BY <1>2, <1>4, <1>5, <1>6, DiesKeeps

LEMMA CrashKeeps == ASSUME FeedsInv, NEW p \in Loader, Crash(p) PROVE FeedsInv'
  <1>1. HistoryOK /\ FileOK
    BY InvParts, TypeParts
  <1>2. Dies(p)
    BY DEF Crash
  <1>3. CASE my[p].wrote
    <2>1. died' /\ hurt' /\ died' \in BOOLEAN /\ hurt' \in BOOLEAN /\ UNCHANGED <<owner, written, running, file_boot, based>>
      BY <1>3 DEF Crash, file
    <2>2. FileOK' /\ Dated(owner', written') /\ file_boot' <= boot
      BY <2>1, Knows DEF FileOK
    <2>3. QED
      BY <1>2, <2>1, <2>2, DiesKeeps
  <1>4. CASE ~my[p].wrote
    <2>1. Save(my[p], FALSE) /\ UNCHANGED <<died, hurt>>
      BY <1>4 DEF Crash
    <2>2. my[p] \in Memory /\ Dated(my[p].owner, my[p].written)
      BY Knows DEF Local
    <2>3. FileOK' /\ Dated(owner', written') /\ file_boot' = my[p].boot /\ ~running'
      BY <2>1, <2>2, Saved
    <2>4. ~Armed' /\ file_boot' <= boot
      BY <2>3, Knows DEF Armed
    <2>5. died' \in BOOLEAN /\ hurt' \in BOOLEAN
      BY <1>1, <2>1 DEF HistoryOK
    <2>6. QED
      BY <1>2, <2>1, <2>3, <2>4, <2>5, DiesKeeps
  <1>5. QED
    BY <1>3, <1>4

LEMMA RebootKeeps == ASSUME FeedsInv, Reboot PROVE FeedsInv'
  <1>0. TypeOK /\ LocalInv /\ SeenInv /\ MarkInv /\ CalmInv
    BY InvParts
  <1>1. FileOK /\ WorldOK /\ HistoryOK /\ Dated(owner, written) /\ file_boot <= boot
    BY <1>0, TypeParts DEF LocalInv, MarkInv
  <1>2. /\ block' = [k \in Key |-> Absent] /\ lapsed' = {}
        /\ boot' = boot + 1 /\ lock' = Free
        /\ pc' = [p \in Loader |-> "idle"] /\ my' = [p \in Loader |-> Blank] /\ key' = [p \in Loader |-> NoKey]
        /\ seen' = [p \in Loader |-> Absent] /\ spent' = [p \in Loader |-> FALSE] /\ masked' = [p \in Loader |-> FALSE]
        /\ died' = FALSE /\ hurt' = FALSE /\ overlap' = FALSE /\ faults' = faults + 1
        /\ UNCHANGED <<owner, written, running, file_boot, based, approved, stamp, runs>>
    BY DEF Reboot, Fault, file
  <1>3. TableOK' /\ LookupOK'
    BY <1>2 DEF TableOK, LookupOK, Value
  <1>4. ProcessOK' /\ LockOK'
    BY <1>2, BlankLocal, LoaderAssumption DEF LoaderAssumption, ProcessOK, LockOK, AtKey, Labels
  <1>5. FileOK' /\ HistoryOK'
    BY <1>1, <1>2 DEF FileOK, HistoryOK
  <1>6. boot' \in Nat /\ faults' \in Nat /\ faults' # 0 /\ file_boot' <= boot' /\ file_boot' # boot' /\ 0 <= boot'
    BY <1>1, <1>2 DEF WorldOK, FileOK
  <1>7. WorldOK'
    BY <1>1, <1>2, <1>6 DEF WorldOK
  <1>8. TypeOK'
    BY <1>3, <1>4, <1>5, <1>7, TypeParts, PTL
  <1>9. LocalInv'
    BY <1>1, <1>2, BlankLocal DEF LocalInv
  <1>10. SeenInv'
    BY <1>2 DEF SeenInv, AtKey
  <1>11. \A p \in Loader : my'[p] = Blank /\ pc'[p] = "idle"
    BY <1>2
  <1>12. MarkInv'
    <2>1. ~Armed'
      BY <1>6 DEF Armed
    <2>2. QED
      BY <1>6, <1>11, <2>1, BlankKnows DEF MarkInv, AdoptionEarned
  <1>13. CalmInv'
    <2>1. ~Calm'
      BY <1>6 DEF Calm
    <2>2. QED
      BY <1>6, <1>11, <2>1 DEF CalmInv
  <1>14. QED
    BY <1>8, <1>9, <1>10, <1>12, <1>13, InvParts, PTL

(* The other writers, the operator and the time change the map alone. *)
LEMMA OthersKeep ==
  ASSUME FeedsInv, UNCHANGED <<lock, rest>>, TableOK',
         \A p \in Loader : AtKey(p) => Found(p)',
         \A k \in Key : block'[k] \in Stamp => block'[k] = block[k]
  PROVE  FeedsInv'
  <1>0. TypeOK /\ LocalInv /\ SeenInv /\ MarkInv /\ CalmInv
    BY InvParts
  <1>1. UNCHANGED <<lock, boot, owner, written, running, file_boot, based, approved, stamp, pc, my, key, seen, spent,
                    masked, died, hurt, overlap, runs, faults>>
    BY DEF rest, file, at, history
  <1>2. LockOK /\ FileOK /\ WorldOK /\ ProcessOK /\ LookupOK /\ HistoryOK
    BY <1>0, TypeParts
  <1>3. LockOK' /\ FileOK' /\ WorldOK' /\ ProcessOK' /\ LookupOK' /\ HistoryOK'
    BY <1>1, <1>2 DEF LockOK, FileOK, WorldOK, ProcessOK, LookupOK, HistoryOK, AtKey
  <1>4. TypeOK'
    BY <1>3, TypeParts, PTL
  <1>5. LocalInv'
    BY <1>0, <1>1 DEF LocalInv
  <1>6. SeenInv'
    BY <1>1 DEF SeenInv, AtKey
  <1>7. MarkInv'
    BY <1>0, <1>1 DEF MarkInv, AdoptionEarned, Armed, Marked
  <1>8. \A r, d : Kept(block, r, d) => Kept(block', r, d)
    BY DEF Kept
  <1>9. CalmInv'
    BY <1>0, <1>1, <1>8 DEF CalmInv, Calm
  <1>10. QED
    BY <1>4, <1>5, <1>6, <1>7, <1>9, InvParts, PTL

LEMMA WorldKeeps ==
  ASSUME FeedsInv, NEW k \in Key, ForeignBlock(k) \/ Unblock(k) \/ Lapse(k) \/ Sweep(k)
  PROVE  FeedsInv'
  <1>0. TableOK /\ LockOK /\ ProcessOK /\ SeenInv
    BY InvParts, TypeParts
  <1>1. lock = Free => \A p \in Loader : ~AtKey(p)
    BY <1>0, LoaderAssumption DEF LoaderAssumption, LockOK
  <1>2. UNCHANGED <<lock, rest>> /\ UNCHANGED <<key, seen, spent, masked>>
    BY DEF ForeignBlock, Unblock, Lapse, Sweep, rest, at
  <1>3. CASE ForeignBlock(k)
    <2>1. PICK v \in {Foreign, Permanent} : block' = [block EXCEPT ![k] = v] /\ lapsed' = lapsed \ {k} /\ lock = Free
      BY <1>3 DEF ForeignBlock
    <2>2. v \in Value /\ v \notin Stamp /\ v # Absent
      BY DEF Value, Foreign, Permanent, Stamp, Absent
    <2>3. TableOK'
      BY <1>0, <2>1, <2>2 DEF TableOK
    <2>4. \A x \in Key : block'[x] \in Stamp => block'[x] = block[x]
      BY <1>0, <2>1, <2>2 DEF TableOK
    <2>5. QED
      BY <1>1, <1>2, <2>1, <2>3, <2>4, OthersKeep
  <1>4. CASE Unblock(k) \/ Sweep(k)
    <2>1. block' = [block EXCEPT ![k] = Absent] /\ lapsed' = lapsed \ {k}
      BY <1>4 DEF Unblock, Sweep
    <2>2. Absent \in Value /\ Absent \notin Stamp
      BY DEF Value, Stamp, Absent
    <2>3. TableOK'
      BY <1>0, <2>1, <2>2 DEF TableOK
    <2>4. \A x \in Key : IF x = k THEN block'[x] = Absent ELSE block'[x] = block[x]
      BY <1>0, <2>1 DEF TableOK
    <2>5. \A x \in Key : block'[x] \in Stamp => block'[x] = block[x]
      BY <2>2, <2>4
    <2>6. ASSUME NEW p \in Loader, AtKey(p) PROVE Found(p)'
      <3>1. Found(p) /\ key[p] \in Key
        BY <1>0, <2>6, AtKeyKnows DEF SeenInv, AtKey
      <3>2. QED
        BY <1>2, <2>1, <2>4, <3>1 DEF Found
    <2>7. QED
      BY <1>2, <2>3, <2>5, <2>6, OthersKeep
  <1>5. CASE Lapse(k)
    <2>1. block' = block /\ lapsed' = lapsed \cup {k} /\ block[k] # Absent
      BY <1>5 DEF Lapse
    <2>2. TableOK'
      BY <1>0, <2>1 DEF TableOK
    <2>3. ASSUME NEW p \in Loader, AtKey(p) PROVE Found(p)'
      BY <1>0, <1>2, <2>1, <2>3 DEF SeenInv, Found
    <2>4. QED
      BY <1>2, <2>1, <2>2, <2>3, OthersKeep
  <1>6. QED
    BY <1>3, <1>4, <1>5

LEMMA StutterKeeps == ASSUME FeedsInv, UNCHANGED vars PROVE FeedsInv'
  <1>1. UNCHANGED <<lock, rest>> /\ UNCHANGED <<block, lapsed, key, seen, spent, masked>>
    BY DEF vars, rest, table, at
  <1>2. TableOK /\ SeenInv
    BY InvParts, TypeParts
  <1>3. TableOK'
    BY <1>1, <1>2 DEF TableOK
  <1>4. \A p \in Loader : AtKey(p) => Found(p)'
    BY <1>1, <1>2 DEF SeenInv, Found
  <1>5. QED
    BY <1>1, <1>3, <1>4, OthersKeep

LEMMA InitHolds == Init => FeedsInv
  <1> SUFFICES ASSUME Init PROVE FeedsInv
    OBVIOUS
  <1>1. /\ block = [k \in Key |-> Absent] /\ lapsed = {} /\ lock = Free /\ boot = 1
        /\ owner = NoRows /\ written = Nothing /\ running = FALSE /\ based = {} /\ file_boot \in {0, 1}
        /\ approved = {} /\ stamp = 0 /\ runs = 0 /\ faults = 0
        /\ pc = [p \in Loader |-> "idle"] /\ my = [p \in Loader |-> Blank] /\ key = [p \in Loader |-> NoKey]
        /\ seen = [p \in Loader |-> Absent] /\ spent = [p \in Loader |-> FALSE] /\ masked = [p \in Loader |-> FALSE]
        /\ died = FALSE /\ hurt = FALSE /\ overlap = FALSE
    BY DEF Init
  <1>2. TableOK /\ LookupOK
    BY <1>1 DEF TableOK, LookupOK, Value
  <1>3. ProcessOK /\ LockOK
    BY <1>1, BlankLocal, LoaderAssumption DEF LoaderAssumption, ProcessOK, LockOK, AtKey, Labels
  <1>4. FileOK /\ Dated(owner, written)
    <2>1. owner \in Rows /\ written \in [Key -> Nat] /\ Dated(owner, written)
      BY <1>1 DEF Dated, NoRows, Nothing, Rows
    <2>2. running \in BOOLEAN /\ based \subseteq Feed
      BY <1>1
    <2>3. file_boot \in Nat
      BY <1>1
    <2>4. QED
      BY <2>1, <2>2, <2>3 DEF FileOK
  <1>5. WorldOK /\ HistoryOK
    BY <1>1 DEF WorldOK, HistoryOK
  <1>6. TypeOK
    BY <1>2, <1>3, <1>4, <1>5, TypeParts
  <1>7. \A p \in Loader : my[p] = Blank /\ pc[p] = "idle" /\ ~masked[p]
    BY <1>1
  <1>8. LocalInv /\ SeenInv
    BY <1>4, <1>7, BlankLocal DEF LocalInv, SeenInv, AtKey
  <1>9. MarkInv
    BY <1>1, <1>7, BlankKnows DEF MarkInv, AdoptionEarned, Armed
  <1>10. Kept(block, owner, written)
    BY <1>1 DEF Kept, Absent, Stamp
  <1>11. CalmInv
    BY <1>1, <1>7, <1>10, BlankKnows DEF CalmInv
  <1>12. QED
    BY <1>6, <1>8, <1>9, <1>11, InvParts

LEMMA NextKeeps == FeedsInv /\ [Next]_vars => FeedsInv'
  <1> SUFFICES ASSUME FeedsInv, [Next]_vars PROVE FeedsInv'
    OBVIOUS
  <1>1. CASE UNCHANGED vars
    BY <1>1, StutterKeeps
  <1>2. ASSUME NEW p \in Loader, RunStart(p) \/ (\E f \in Feed : ApplyStart(p, f)) \/ WithdrawStart(p) PROVE FeedsInv'
    BY <1>2, StartKeeps
  <1>3. ASSUME NEW p \in Loader, RunStep(p) PROVE FeedsInv'
    BY <1>3, MarkKeeps, FetchKeeps, PlanKeeps, TakeKeeps, PutKeeps, PutFailsKeeps, DropKeeps, DropFailsKeeps,
       FeedDoneKeeps, DoneKeeps, RevokeKeeps DEF RunStep
  <1>4. ASSUME NEW p \in Loader, Kill(p) \/ Crash(p) PROVE FeedsInv'
    BY <1>4, KillKeeps, CrashKeeps
  <1>5. ASSUME NEW k \in Key, ForeignBlock(k) \/ Unblock(k) \/ Lapse(k) \/ Sweep(k) PROVE FeedsInv'
    BY <1>5, WorldKeeps
  <1>6. CASE Reboot
    BY <1>6, RebootKeeps
  <1>7. QED
    BY <1>1, <1>2, <1>3, <1>4, <1>5, <1>6 DEF Next
-----------------------------------------------------------------------------
(***************************************************************************)
(* The invariant every property below rests on: what a process of the      *)
(* loader remembers fits what it is doing, the lookup of one_key holds     *)
(* until the lock is released, the crash marker of state.json is accounted *)
(* for, and in a history without faults the journal has every own entry.   *)
(***************************************************************************)
THEOREM FeedsInvariant == Spec => []FeedsInv
  <1>1. QED
    BY InitHolds, NextKeeps, PTL DEF Spec

(* Every variable keeps its type, and the block lock is held exactly by the *)
(* process that is at a key.                                               *)
THEOREM TypeCorrect == Spec => []TypeOK
  <1>1. FeedsInv => TypeOK
    BY DEF FeedsInv
  <1>2. QED
    BY <1>1, FeedsInvariant, PTL

(***************************************************************************)
(* Adoption, in which a run takes live entries of others for its own, is   *)
(* armed only when a run of this boot died or two processes met.           *)
(***************************************************************************)
THEOREM AdoptionOnlyEarned == Spec => []AdoptionEarned
  <1>1. FeedsInv => AdoptionEarned
    BY DEF FeedsInv, MarkInv
  <1>2. QED
    BY <1>1, FeedsInvariant, PTL

(***************************************************************************)
(* While nothing fails and no two processes meet, every entry of the       *)
(* loader's in the map has its row, in the journal of the process that     *)
(* runs or, when none does, in state.json.                                 *)
(***************************************************************************)
THEOREM AccountedFor == Spec => []Accounted
  <1>1. ASSUME FeedsInv PROVE Accounted
    <2> SUFFICES ASSUME Calm, NEW k \in Key, block[k] \in Stamp
                 PROVE  \/ \E p \in Loader : /\ pc[p] # "idle"
                                             /\ my[p].owner[k] # NoFeed
                                             /\ my[p].written[k] = block[k]
                        \/ /\ \A p \in Loader : pc[p] = "idle"
                           /\ owner[k] # NoFeed /\ written[k] = block[k]
      BY DEF Accounted, Calm
    <2>1. CASE \A p \in Loader : pc[p] = "idle"
      <3>1. Kept(block, owner, written)
        BY <1>1, <2>1 DEF FeedsInv, CalmInv
      <3>2. QED
        BY <2>1, <3>1 DEF Kept
    <2>2. CASE \E p \in Loader : pc[p] # "idle"
      <3>1. PICK p \in Loader : pc[p] # "idle"
        BY <2>2
      <3>2. Kept(block, my[p].owner, my[p].written)
        BY <1>1, <3>1, Knows
      <3>3. QED
        BY <3>1, <3>2 DEF Kept
    <2>3. QED
      BY <2>1, <2>2
  <1>2. QED
    BY <1>1, FeedsInvariant, PTL

(***************************************************************************)
(* Under the same conditions, when mode_withdraw of everything saves the   *)
(* state no entry of the loader's is left in the map.                      *)
(***************************************************************************)
THEOREM WithdrawalClean == Spec => []WithdrawnClean
  <1>1. ASSUME FeedsInv PROVE WithdrawnClean
    <2> SUFFICES ASSUME Calm, NEW p \in Loader, pc[p] = "save", my[p].mode = "withdraw_all",
                        NEW k \in Key, block[k] \in Stamp
                 PROVE  FALSE
      BY DEF WithdrawnClean, Calm
    <2>1. my[p].drop = {}
      BY <1>1, Knows DEF Local, Place
    <2>2. my[p].owner[k] = NoFeed
      BY <1>1, <2>1, Knows DEF Emptying
    <2>3. my[p].owner[k] # NoFeed
      BY <1>1, Knows DEF Kept
    <2>4. QED
      BY <2>2, <2>3
  <1>2. QED
    BY <1>1, FeedsInvariant, PTL
-----------------------------------------------------------------------------
(* Only the process itself is done with its key. *)
LEMMA HandledBy ==
  ASSUME FeedsInv, [Next]_vars, NEW p \in Loader, Handles(p)
  PROVE  Put(p) \/ PutFails(p) \/ Drop(p) \/ DropFails(p)
  <1>0. pc \in [Loader -> Labels]
    BY InvParts, TypeParts DEF ProcessOK
  <1>1. pc[p] \in {"put", "drop"} /\ pc'[p] = "key"
    BY DEF Handles, AtKey
  <1>2. pc' # pc
    BY <1>1
  <1>3. ASSUME NEW q \in Loader, NEW label, Goto(q, label) PROVE q = p /\ label = "key"
    BY <1>0, <1>1, <1>3 DEF Goto
  <1>4. ASSUME NEW q \in Loader, RunStart(q) \/ (\E f \in Feed : ApplyStart(q, f)) \/ WithdrawStart(q) PROVE FALSE
    <2>1. pc[q] = "idle" /\ (Goto(q, "open") \/ Goto(q, "key"))
      BY <1>4 DEF RunStart, ApplyStart, WithdrawStart, Open
    <2>2. QED
      BY <1>1, <1>3, <2>1
  <1>5. ASSUME NEW q \in Loader, Kill(q) \/ Crash(q) PROVE FALSE
    <2>1. Goto(q, "idle")
      BY <1>5 DEF Kill, Crash, Dies, End
    <2>2. QED
      BY <1>3, <2>1
  <1>6. ASSUME NEW q \in Loader, RunStep(q) PROVE Put(p) \/ PutFails(p) \/ Drop(p) \/ DropFails(p)
    <2>1. CASE Put(q) \/ PutFails(q) \/ Drop(q) \/ DropFails(q)
      <3>1. Goto(q, "key")
        BY <2>1 DEF Put, PutFails, Drop, DropFails, Release
      <3>2. QED
        BY <1>3, <2>1, <3>1
    <2>2. CASE Mark(q) \/ Fetch(q) \/ FeedDone(q) \/ RunDone(q) \/ Revoke(q) \/ WithdrawDone(q)
      <3>1. Goto(q, "idle") \/ Goto(q, "fetch") \/ Goto(q, "feed") \/ Goto(q, "save")
        BY <2>2 DEF Mark, Fetch, FeedDone, RunDone, Revoke, WithdrawDone, End
      <3>2. QED
        BY <1>3, <3>1
    <2>3. CASE Plan(q)
      <3>1. pc[q] = "feed" /\ (Goto(q, "key") \/ pc' = pc)
        BY <2>3 DEF Plan
      <3>2. QED
        BY <1>1, <1>2, <1>3, <3>1
    <2>4. CASE Take(q)
      <3>1. pc[q] = "key" /\ (Goto(q, "put") \/ Goto(q, "drop"))
        BY <2>4 DEF Take
      <3>2. QED
        BY <1>3, <3>1
    <2>5. QED
      BY <1>6, <2>1, <2>2, <2>3, <2>4 DEF RunStep
  <1>7. ASSUME NEW k \in Key, ForeignBlock(k) \/ Unblock(k) \/ Lapse(k) \/ Sweep(k) PROVE FALSE
    <2>1. pc' = pc
      BY <1>7 DEF ForeignBlock, Unblock, Lapse, Sweep, rest
    <2>2. QED
      BY <1>2, <2>1
  <1>8. ~Reboot
    BY <1>1 DEF Reboot
  <1>9. ~UNCHANGED vars
    BY <1>2 DEF vars
  <1>10. QED
    BY <1>4, <1>5, <1>6, <1>7, <1>8, <1>9 DEF Next

(* What a process that is done with a key has changed in the map, and on   *)
(* what grounds.                                                           *)
LEMMA HandledHow ==
  ASSUME FeedsInv, NEW p \in Loader, Put(p) \/ PutFails(p) \/ Drop(p) \/ DropFails(p)
  PROVE  /\ pc[p] \in {"put", "drop"}
         /\ \A x \in Key \ {key[p]} : block'[x] # block[x] => x \in lapsed
         /\ block' # block => \/ pc[p] = "put" /\ (Refreshes(p) \/ Inserts(p)) /\ block'[key[p]] = my[p].stamp
                              \/ pc[p] = "drop" /\ seen[p] # Absent /\ Own(p)
         /\ pc[p] = "put" => my[p].stamp \in Nat /\ my[p].stamp >= 1
  <1>0. TableOK
    BY InvParts, TypeParts
  <1>1. pc[p] \in {"put", "drop"}
    BY DEF Put, PutFails, Drop, DropFails
  <1>2. key[p] \in Key /\ my[p] \in Memory /\ Local(my[p], pc[p], key[p]) /\ (pc[p] = "put" => my[p].mode = "run")
    BY <1>1, AtKeyKnows
  <1>3. my[p].stamp \in Nat /\ (pc[p] = "put" => my[p].stamp >= 1)
    BY <1>2, MemoryOf DEF Local, Place
  <1>4. ASSUME Write(p), pc[p] = "put"
        PROVE  block'[key[p]] = my[p].stamp /\ \A x \in Key \ {key[p]} : block'[x] = block[x]
    BY <1>0, <1>2, <1>3, <1>4 DEF Write, TableOK
  <1>5. ASSUME Remove(p) PROVE \A x \in Key \ {key[p]} : block'[x] = block[x]
    BY <1>0, <1>5 DEF Remove, TableOK
  <1>6. ASSUME WriteAndPurge(p), pc[p] = "put"
        PROVE  block'[key[p]] = my[p].stamp /\ \A x \in Key \ {key[p]} : block'[x] # block[x] => x \in lapsed
    BY <1>0, <1>2, <1>3, <1>6, PurgeNear
  <1>7. UNCHANGED table => block' = block
    BY DEF table
  <1>8. CASE Put(p)
    BY <1>1, <1>3, <1>4, <1>6, <1>7, <1>8 DEF Put
  <1>9. CASE PutFails(p)
    BY <1>1, <1>3, <1>4, <1>7, <1>9 DEF PutFails
  <1>10. CASE Drop(p) \/ DropFails(p)
    BY <1>1, <1>3, <1>5, <1>7, <1>10 DEF Drop, DropFails
  <1>11. QED
    BY <1>8, <1>9, <1>10

(***************************************************************************)
(* A run, a purge or a withdrawal changes no live entry of another writer, *)
(* but for one with an expiry that an adopting run takes over and for a    *)
(* lookup that failed without saying so: the compare and swap of one_key   *)
(* and withdraw_key cannot take it for the loader's own.                   *)
(***************************************************************************)
THEOREM ForeignSafe == Spec => ForeignSpared
  <1>1. ASSUME FeedsInv, NEW p \in Loader, Handles(p), [Next]_vars,
               NEW k \in Key, Live(k), block[k] \in {Foreign, Permanent}, block'[k] # block[k]
        PROVE  k = key[p] /\ (masked[p] \/ (my[p].adoption /\ block[k] = Foreign))
    <2>1. Put(p) \/ PutFails(p) \/ Drop(p) \/ DropFails(p)
      BY <1>1, HandledBy
    <2>2. /\ pc[p] \in {"put", "drop"}
          /\ k = key[p] \/ k \in lapsed
          /\ \/ pc[p] = "put" /\ (Refreshes(p) \/ Inserts(p))
             \/ pc[p] = "drop" /\ seen[p] # Absent /\ Own(p)
          /\ pc[p] = "put" => my[p].stamp \in Nat /\ my[p].stamp >= 1
      BY <1>1, <2>1, HandledHow
    <2>3. k = key[p] /\ k \notin lapsed /\ block[k] # Absent
      BY <1>1, <2>2 DEF Live
    <2>4. key[p] \in Key /\ Found(p) /\ my[p] \in Memory /\ Local(my[p], pc[p], key[p]) /\ (pc[p] = "put" => my[p].mode = "run")
      BY <1>1, <2>2, AtKeyKnows
    <2>5. ASSUME ~masked[p], my[p].owner[k] # NoFeed, Own(p) PROVE FALSE
      <3>1. my[p].written[k] >= 1
        BY <2>4, <2>5 DEF Local, Dated
      <3>2. block[k] = seen[p]
        BY <2>3, <2>4, <2>5 DEF Found
      <3>3. seen[p] = my[p].written[k] /\ my[p].written[k] \in Nat
        BY <2>3, <2>4, <2>5, MemoryOf DEF Own
      <3>4. QED
        BY <1>1, <3>1, <3>2, <3>3 DEF Foreign, Permanent
    <2>6. CASE masked[p]
      BY <2>3, <2>6
    <2>7. CASE ~masked[p] /\ pc[p] = "drop"
      <3>1. my[p].owner[k] # NoFeed
        BY <2>3, <2>4, <2>7 DEF Local, Place
      <3>2. QED
        BY <2>2, <2>5, <2>7, <3>1
    <2>8. CASE ~masked[p] /\ pc[p] = "put" /\ Refreshes(p)
      <3>1. my[p].turn >= 1 /\ my[p].turn <= Len(Order)
        BY <2>4, <2>8 DEF Local, Place
      <3>2. my[p].owner[k] # NoFeed
        BY <2>3, <2>4, <2>8, <3>1, NowFeed DEF Refreshes, HasRow
      <3>3. QED
        BY <2>5, <2>8, <3>2 DEF Refreshes
    <2>9. CASE ~masked[p] /\ pc[p] = "put" /\ Inserts(p)
      <3>1. block[k] = seen[p] /\ (spent[p] => k \in lapsed)
        BY <2>3, <2>4, <2>9 DEF Found
      <3>2. seen[p] # Permanent /\ my[p].adoption
        BY <2>3, <2>9, <3>1 DEF Inserts
      <3>3. QED
        BY <1>1, <2>3, <3>1, <3>2
    <2>10. QED
      BY <2>2, <2>6, <2>7, <2>8, <2>9
  <1> DEFINE A == \A p \in Loader : Handles(p) =>
                    \A k \in Key :
                      Live(k) /\ block[k] \in {Foreign, Permanent} /\ block'[k] # block[k] =>
                        /\ k = key[p]
                        /\ masked[p] \/ (my[p].adoption /\ block[k] = Foreign)
  <1>2. FeedsInv /\ [Next]_vars => [A]_vars
    BY <1>1
  <1>3. QED
    BY <1>2, FeedsInvariant, PTL DEF Spec, ForeignSpared

(***************************************************************************)
(* INVARIANT W1 of the loader: a live entry of its own is deleted only by  *)
(* a withdraw command of its feed, or by a run in whose turn the feed came *)
(* through, was not held, and does not list the network any more.          *)
(***************************************************************************)
THEOREM WithdrawalsWarranted == Spec => WithdrawalWarranted
  <1>1. ASSUME FeedsInv, NEW p \in Loader, Handles(p), [Next]_vars,
               NEW k \in Key, Live(k), block[k] \in Stamp, block'[k] = Absent
        PROVE  LET f == my[p].owner[k] IN
               /\ k = key[p]
               /\ \/ my[p].mode # "run" /\ f \in my[p].target
                  \/ f = Now(my[p]) /\ my[p].came /\ ~my[p].held /\ k \notin my[p].want
    <2>1. Put(p) \/ PutFails(p) \/ Drop(p) \/ DropFails(p)
      BY <1>1, HandledBy
    <2>2. block'[k] # block[k]
      BY <1>1 DEF Absent, Stamp
    <2>3. /\ pc[p] \in {"put", "drop"}
          /\ k = key[p] \/ k \in lapsed
          /\ \/ pc[p] = "put" /\ block'[key[p]] = my[p].stamp
             \/ pc[p] = "drop"
          /\ pc[p] = "put" => my[p].stamp \in Nat /\ my[p].stamp >= 1
      BY <1>1, <2>1, <2>2, HandledHow
    <2>4. k = key[p]
      BY <1>1, <2>3 DEF Live
    <2>5. pc[p] = "drop"
      BY <1>1, <2>3, <2>4 DEF Absent
    <2>6. Droppable(my[p], k)
      BY <1>1, <2>4, <2>5, Knows DEF Local, Place
    <2>7. QED
      BY <2>4, <2>6 DEF Droppable
  <1> DEFINE A == \A p \in Loader : Handles(p) =>
                    \A k \in Key :
                      Live(k) /\ block[k] \in Stamp /\ block'[k] = Absent =>
                        LET f == my[p].owner[k] IN
                          /\ k = key[p]
                          /\ \/ my[p].mode # "run" /\ f \in my[p].target
                             \/ /\ f = Now(my[p]) /\ my[p].came /\ ~my[p].held
                                /\ k \notin my[p].want
  <1>2. FeedsInv /\ [Next]_vars => [A]_vars
    BY <1>1
  <1>3. QED
    BY <1>2, FeedsInvariant, PTL DEF Spec, WithdrawalWarranted
=============================================================================
