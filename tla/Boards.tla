------------------------------- MODULE Boards -------------------------------
(***************************************************************************)
(* zbx/dashboards.py against the Zabbix server: operators run it, as a      *)
(* plan or with --confirm, while hosts join and leave the group, items      *)
(* come and go, dashboards are deleted by hand and calls fail.              *)
(*                                                                         *)
(* Each call of the API is a step.  A failed call ends the run (exit 2);   *)
(* one that writes may have written.  What the server holds of a board is  *)
(* the snapshot it was built from: BoardLayout says what is drawn of it.   *)
(***************************************************************************)
EXTENDS BoardLayout

CONSTANTS
  Host,        \* hosts, as numbers in the order of their names
  Fleets,      \* the fleets the group may start with
  Changing,    \* the hosts that may join, leave or change
  Flaky,       \* the fields an item may lack at times
  Length,      \* lengths of the last values of a host
  Runner,      \* operators
  NoBoard,     \* a board the server does not have
  MaxChanges,  \* bound: changes of hosts, items and boards by others
  MaxRuns,     \* bound: runs
  MaxFaults    \* bound: calls that fail

ASSUME FleetAssumption ==
  /\ Host \subseteq Nat \ {0} /\ IsFiniteSet(Host)
  /\ Fleets \subseteq SUBSET Host /\ Changing \subseteq Host
  /\ Flaky \subseteq Field /\ Length \subseteq Nat
ASSUME BoundAssumption == MaxChanges \in Nat /\ MaxRuns \in Nat /\ MaxFaults \in Nat

BuildOrder == <<"overview", "security", "capacity">>

VARIABLES
  members,   \* hosts in the group
  lacks,     \* the fields each host has no item for
  length,    \* of the last values of each host
  board,     \* the server's dashboards, by name
  pc, run,   \* each operator's run
  changes, runs, faults

world == <<members, lacks, length>>
vars == <<world, board, pc, run, changes, runs, faults>>

(* The hosts in the order of their names. *)
InOrder(S) ==
  [i \in 1..Cardinality(S) |-> CHOOSE h \in S : Cardinality({x \in S : x <= h}) = i]

(* What a run knows: the snapshot, the boards left to write, and, as a      *)
(* history, which boards it was asked for and whether the world and the    *)
(* boards were left alone since it resolved the group.                     *)
Idle == [c |-> [fleet |-> <<>>, lacks |-> <<>>, length |-> <<>>],
         plan |-> <<>>, asked |-> {}, confirm |-> FALSE, exists |-> FALSE, alone |-> FALSE]

Snapshot(hosts) == [fleet |-> InOrder(hosts),
                    lacks |-> [h \in hosts |-> lacks[h]],
                    length |-> [h \in hosts |-> length[h]]]

Init ==
  /\ members \in Fleets
  /\ lacks = [h \in Host |-> {}]
  /\ length \in {[h \in Host |-> n] : n \in Length}
  /\ board = [b \in Board |-> NoBoard]
  /\ pc = [p \in Runner |-> "idle"]
  /\ run = [p \in Runner |-> Idle]
  /\ changes = 0 /\ runs = 0 /\ faults = 0
-----------------------------------------------------------------------------
Disturb(others) == run' = [p \in Runner |-> IF p \in others THEN [run[p] EXCEPT !.alone = FALSE]
                                            ELSE run[p]]
Change == changes < MaxChanges /\ changes' = changes + 1 /\ Disturb(Runner)
Others == UNCHANGED <<pc, runs, faults>>

Join(h) ==
  /\ Change /\ Others
  /\ h \notin members /\ members' = members \cup {h}
  /\ lacks' = [lacks EXCEPT ![h] = @ \cap Flaky]
  /\ UNCHANGED <<length, board>>

(* A host leaves the group, or is deleted with its items. *)
Leave(h) ==
  /\ Change /\ Others
  /\ h \in members /\ members' = members \ {h}
  /\ lacks' \in {lacks, [lacks EXCEPT ![h] = Field]}
  /\ UNCHANGED <<length, board>>

(* Items are unlinked or linked again, all at once, or values change. *)
Items(h) ==
  /\ Change /\ Others
  /\ h \in members
  /\ \/ \E F \in {{}, Flaky} \ {lacks[h]} : lacks' = [lacks EXCEPT ![h] = F] /\ UNCHANGED length
     \/ \E n \in Length \ {length[h]} : length' = [length EXCEPT ![h] = n] /\ UNCHANGED lacks
  /\ UNCHANGED <<members, board>>

DeleteBoard(b) ==
  /\ Change /\ Others
  /\ board[b] # NoBoard /\ board' = [board EXCEPT ![b] = NoBoard]
  /\ UNCHANGED world
-----------------------------------------------------------------------------
Goto(p, label) == pc' = [pc EXCEPT ![p] = label]
Stay == UNCHANGED <<world, changes, runs>>

(* A call that fails: the run ends with an error. *)
CallFails(p) ==
  /\ pc[p] \in {"items", "get", "write"}
  /\ faults < MaxFaults /\ faults' = faults + 1
  /\ Goto(p, "idle") /\ run' = [run EXCEPT ![p] = Idle]
  /\ Stay /\ UNCHANGED board

(* hostgroup.get and host.get; a group without members is an error. *)
Resolve(p) ==
  /\ pc[p] = "idle"
  /\ runs < MaxRuns /\ runs' = runs + 1
  /\ members # {}
  /\ \E confirm \in BOOLEAN, plan \in {BuildOrder} \cup {<<b>> : b \in Board} :
       run' = [run EXCEPT ![p] =
                 [Idle EXCEPT !.c = [Snapshot(members) EXCEPT !.lacks = <<>>, !.length = <<>>],
                              !.plan = plan, !.asked = Fields(plan), !.confirm = confirm,
                              !.alone = TRUE]]
  /\ Goto(p, "items")
  /\ UNCHANGED <<world, board, changes, faults>>

(* item.get for each host, a host that was deleted having none; then the    *)
(* boards are built, and printed, or written.  The hosts are read in one   *)
(* step: nothing on a board relates the items of two hosts.                *)
ReadItems(p) ==
  /\ pc[p] = "items"
  /\ run' = [run EXCEPT ![p].c = Snapshot(Fields(@.fleet))]
  /\ Goto(p, IF run[p].confirm THEN "get" ELSE "done")
  /\ Stay /\ UNCHANGED <<board, faults>>

GetBoard(p) ==
  /\ pc[p] = "get"
  /\ run' = [run EXCEPT ![p].exists = board[Head(run[p].plan)] # NoBoard]
  /\ Goto(p, "write")
  /\ Stay /\ UNCHANGED <<board, faults>>

(* dashboard.update of a board that was deleted, or dashboard.create of a   *)
(* name that was taken in the meantime, is refused; of a write whose answer *)
(* is lost the run knows only that it failed.                               *)
Refused(p) == run[p].exists # (board[Head(run[p].plan)] # NoBoard)

(* Variant: a board that exists is left as it is. *)
WriteNew(p) ==
  /\ pc[p] = "write" /\ ~Refused(p)
  /\ LET b == Head(run[p].plan)
         rest == Tail(run[p].plan)
     IN /\ board' = IF run[p].exists THEN board ELSE [board EXCEPT ![b] = run[p].c]
        /\ \/ /\ UNCHANGED faults
              /\ Goto(p, IF rest = <<>> THEN "done" ELSE "get")
              /\ run' = [q \in Runner |-> IF q = p THEN [run[p] EXCEPT !.plan = rest]
                                          ELSE [run[q] EXCEPT !.alone = FALSE]]
           \/ /\ faults < MaxFaults /\ faults' = faults + 1
              /\ Goto(p, "idle")
              /\ run' = [q \in Runner |-> IF q = p THEN Idle ELSE [run[q] EXCEPT !.alone = FALSE]]
  /\ Stay

WriteBoard(p) ==
  /\ pc[p] = "write" /\ ~Refused(p)
  /\ LET b == Head(run[p].plan)
         rest == Tail(run[p].plan)
     IN /\ board' = [board EXCEPT ![b] = run[p].c]
        /\ \/ /\ UNCHANGED faults
              /\ Goto(p, IF rest = <<>> THEN "done" ELSE "get")
              /\ run' = [q \in Runner |-> IF q = p THEN [run[p] EXCEPT !.plan = rest]
                                          ELSE [run[q] EXCEPT !.alone = FALSE]]
           \/ /\ faults < MaxFaults /\ faults' = faults + 1
              /\ Goto(p, "idle")
              /\ run' = [q \in Runner |-> IF q = p THEN Idle ELSE [run[q] EXCEPT !.alone = FALSE]]
  /\ Stay

WriteRefused(p) ==
  /\ pc[p] = "write" /\ Refused(p)
  /\ Goto(p, "idle") /\ run' = [run EXCEPT ![p] = Idle]
  /\ Stay /\ UNCHANGED <<board, faults>>

(* The run has ended well (exit 0), and its output is there to be read. *)
Close(p) ==
  /\ pc[p] = "done"
  /\ Goto(p, "idle") /\ run' = [run EXCEPT ![p] = Idle]
  /\ Stay /\ UNCHANGED <<board, faults>>

RunStep(p) ==
  \/ Resolve(p) \/ ReadItems(p) \/ GetBoard(p) \/ WriteBoard(p) \/ WriteRefused(p)
  \/ CallFails(p) \/ Close(p)

Next ==
  \/ \E h \in Changing : Join(h) \/ Leave(h) \/ Items(h)
  \/ \E b \in Board : DeleteBoard(b)
  \/ \E p \in Runner : RunStep(p)

Spec == Init /\ [][Next]_vars
-----------------------------------------------------------------------------
Written(b) == board'[b] # board[b] /\ board'[b] # NoBoard

(* No widget of a board that is written leaves the grid or covers another, *)
(* and every item that its hosts had when they were read is shown once     *)
(* (the others are named in a warning, Ctx.item), whichever tiles are      *)
(* missing.  So for fleets of up to 36 hosts: of more the security board   *)
(* has half columns of width 0.                                            *)
WellLaid ==
  [][\A b \in Board : Written(b) =>
       \A widgets \in {Build(b, board'[b])} :
         Tiled(widgets) /\ ShowsFleet(b, board'[b], widgets)]_vars

(* Values keep readable, in the tiles of every width (value_size_for). *)
ValuesReadable == [][\A b \in Board : Written(b) => Readable(b, board'[b])]_vars

(* Adding a host costs one run: when a confirmed run ends well and nobody   *)
(* changed the fleet or wrote a board since it resolved the group, every    *)
(* board it was asked for shows the fleet as it is, whatever failed before. *)
OneRun ==
  \A p \in Runner : pc[p] = "done" /\ run[p].confirm /\ run[p].alone =>
    \A b \in run[p].asked : board[b] = Snapshot(members)
=============================================================================
