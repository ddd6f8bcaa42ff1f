----------------------------- MODULE Dispatcher -----------------------------
(***************************************************************************)
(* The program in the libxdp dispatcher of the interface: nodeguard-attach, *)
(* nodeguard-detach and nodeguard-reload, each as its sequence of calls.   *)
(*                                                                         *)
(* systemd runs attach, one at a time; operators, the deployment and the   *)
(* watchdog run the others at any time, beside it and beside each other.   *)
(* Every call may fail, every script may be killed, and a listing that     *)
(* failed says nothing of what is attached (ng_prog_ids).  A program is    *)
(* sound when its maps are the pinned ones (ng_verify_map_identity).       *)
(***************************************************************************)
EXTENDS Naturals, FiniteSets

CONSTANTS
  Script,     \* scripts that may run
  MaxRuns,    \* bound: runs
  MaxPrograms,\* bound: programs loaded since the boot
  MaxFaults   \* bound: calls that fail, kills, lost pins and reboots

ASSUME BoundAssumption == MaxRuns \in Nat /\ MaxPrograms \in Nat /\ MaxFaults \in Nat

VARIABLES
  member,     \* ids of our programs in the dispatcher
  sound,      \* those of all programs whose maps are the pinned ones
  recorded,   \* prog_id and expected_prog_id: at most one id
  loads,      \* the last id given
  pc, run,
  runs, faults, boots

vars == <<member, sound, recorded, loads, pc, run, runs, faults, boots>>

Program == 1..MaxPrograms

(* kind of script; ids to go through; ids of the first listing; the program *)
(* chosen; the exit code of detach.  History: another script changed what  *)
(* is attached or recorded, or the pins were lost, since this one started; *)
(* a sound program was doubted; an unload failed.                          *)
Idle == [kind |-> "none", todo |-> {}, old |-> {}, new |-> 0, rc |-> 0,
         disturbed |-> FALSE, doubted |-> FALSE, slipped |-> FALSE]

Init ==
  /\ member = {} /\ sound = {} /\ recorded = {} /\ loads = 0
  /\ pc = [p \in Script |-> "idle"] /\ run = [p \in Script |-> Idle]
  /\ runs = 0 /\ faults = 0 /\ boots = 0
-----------------------------------------------------------------------------
Fault == faults < MaxFaults /\ faults' = faults + 1
Works == UNCHANGED faults
Goto(p, label) == pc' = [pc EXCEPT ![p] = label]
(* The script goes on to label with mine, and the others do not notice. *)
Step(p, label, mine) == Goto(p, label) /\ run' = [run EXCEPT ![p] = mine]
Disturbed(p) == IF pc[p] = "idle" THEN Idle ELSE [run[p] EXCEPT !.disturbed = TRUE]
(* The same, and what they rely on has changed. *)
Disturb(p, label, mine) ==
  /\ Goto(p, label)
  /\ run' = [q \in Script |-> IF q = p THEN mine ELSE Disturbed(q)]
Fails(p) == Step(p, "idle", Idle)
Dispatcher == <<member, sound, loads>>
Bounds == <<runs, boots>>

(* An unload fails by itself, or because the program is not there. *)
UnloadFails(ids) == Fault \/ (~(ids \subseteq member) /\ Works)

Start(p, kind) ==
  /\ pc[p] = "idle"
  /\ runs < MaxRuns /\ runs' = runs + 1
  /\ kind = "attach" => \A q \in Script : run[q].kind # "attach"
  /\ Step(p, "list", [Idle EXCEPT !.kind = kind])
  /\ UNCHANGED <<Dispatcher, recorded, faults, boots>>

(* The first listing.  Attach and detach refuse when it failed; reload     *)
(* reads that as not attached.                                             *)
List(p) ==
  /\ pc[p] = "list"
  /\ LET r == run[p]
     IN \/ r.kind = "attach" /\ Works /\ Step(p, "check", [r EXCEPT !.todo = member])
        \/ r.kind = "detach" /\ Works /\ Step(p, "unload", [r EXCEPT !.todo = member \cup recorded])
        \/ r.kind = "reload" /\ Works /\ member # {} /\ Step(p, "load", [r EXCEPT !.old = member])
        \/ r.kind = "reload" /\ Works /\ member = {} /\ Fails(p)
        \/ Fault /\ Fails(p)
  /\ UNCHANGED <<Dispatcher, recorded, Bounds>>

(* Variant: that the program is there is all that is asked.                *)
IdentityUnasked(p, id, label, good, bad) ==
  Works /\ IF id \in member THEN Step(p, label, good) ELSE Step(p, "reject", bad)

(* Whether a program's maps are the pinned ones; a failed look reads as no. *)
Identity(p, id, label, good, bad) ==
  \/ id \in member \cap sound /\ Works /\ Step(p, label, good)
  \/ id \notin member \cap sound /\ Works /\ Step(p, "reject", bad)
  \/ /\ id \in member \cap sound /\ Fault
     /\ Step(p, "reject", [bad EXCEPT !.doubted = TRUE])

(* attach: the members found, one by one; the last sound one is recorded.  *)
Check(p) ==
  /\ pc[p] = "check"
  /\ \/ \E id \in run[p].todo :
          LET rest == [run[p] EXCEPT !.todo = @ \ {id}]
          IN Identity(p, id, "check", [rest EXCEPT !.new = id], [rest EXCEPT !.old = {id}])
     \/ /\ run[p].todo = {} /\ Works
        /\ Step(p, IF run[p].new # 0 THEN "record" ELSE "load", run[p])
  /\ UNCHANGED <<Dispatcher, recorded, Bounds>>

(* attach: a member found unsound is unloaded, or the attach ends. *)
Reject(p) ==
  /\ pc[p] = "reject" /\ run[p].old # {} /\ run[p].kind = "attach"
  /\ \/ /\ run[p].old \subseteq member /\ Works
        /\ member' = member \ run[p].old
        /\ Disturb(p, "check", [run[p] EXCEPT !.old = {}])
     \/ /\ UnloadFails(run[p].old)
        /\ Fails(p) /\ UNCHANGED member
  /\ UNCHANGED <<sound, loads, recorded, Bounds>>

(* The spec's pins are there and the program is loaded against them; a     *)
(* fault there leaves none, or a program with maps of its own.             *)
Load(p) ==
  /\ pc[p] = "load"
  /\ \/ /\ loads < MaxPrograms /\ loads' = loads + 1 /\ member' = member \cup {loads'}
        /\ \/ sound' = sound \cup {loads'} /\ Works
           \/ UNCHANGED sound /\ Fault
        /\ Disturb(p, "relist", run[p])
     \/ Fault /\ Fails(p) /\ UNCHANGED Dispatcher
  /\ UNCHANGED <<recorded, Bounds>>

(* The second listing: attach takes the first member of it, reload the one *)
(* that is new.  Nothing there, as after a failed listing, is an error and *)
(* leaves what was loaded.  More than one new member, and the last of them *)
(* is taken for the one just loaded, and unloaded.                         *)
Relist(p) ==
  /\ pc[p] = "relist"
  /\ LET found == member \ run[p].old
     IN \/ /\ Works
           /\ IF found = {} THEN Fails(p)
              ELSE \E id \in found :
                     Step(p, IF run[p].kind = "attach" \/ found = {id} THEN "verify" ELSE "reject",
                          [run[p] EXCEPT !.new = id])
        \/ Fault /\ Fails(p)
  /\ UNCHANGED <<Dispatcher, recorded, Bounds>>

Verify(p) ==
  /\ pc[p] = "verify"
  /\ Identity(p, run[p].new, IF run[p].kind = "attach" THEN "record" ELSE "retire",
              [run[p] EXCEPT !.todo = run[p].old], [run[p] EXCEPT !.todo = {}])
  /\ UNCHANGED <<Dispatcher, recorded, Bounds>>

(* The program just loaded is unloaded; that it fails is only logged. *)
Abandon(p) ==
  /\ pc[p] = "reject" /\ (run[p].kind = "reload" \/ run[p].old = {})
  /\ \/ /\ run[p].new \in member /\ Works
        /\ member' = member \ {run[p].new} /\ Disturb(p, "idle", Idle)
     \/ /\ UnloadFails({run[p].new})
        /\ Fails(p) /\ UNCHANGED member
  /\ UNCHANGED <<sound, loads, recorded, Bounds>>

(* reload: the old members are unloaded, whatever comes of it. *)
Retire(p) ==
  /\ pc[p] = "retire"
  /\ \/ \E id \in run[p].todo :
          LET rest == [run[p] EXCEPT !.todo = @ \ {id}]
          IN \/ id \in member /\ Works /\ member' = member \ {id} /\ Disturb(p, "retire", rest)
             \/ id \notin member /\ Works /\ UNCHANGED member /\ Step(p, "retire", rest)
             \/ Fault /\ UNCHANGED member /\ Step(p, "retire", [rest EXCEPT !.slipped = TRUE])
     \/ run[p].todo = {} /\ Works /\ UNCHANGED member /\ Step(p, "record", run[p])
  /\ UNCHANGED <<sound, loads, recorded, Bounds>>

(* prog_id and expected_prog_id; exit 0. *)
Record(p) ==
  /\ pc[p] = "record"
  /\ recorded' = {run[p].new} /\ Disturb(p, "ended", run[p])
  /\ UNCHANGED <<Dispatcher, faults, Bounds>>
-----------------------------------------------------------------------------
(* detach: the recorded and the listed programs, one by one.  What could   *)
(* not be unloaded is listed again.                                        *)
Unload(p) ==
  /\ pc[p] = "unload"
  /\ \E id \in run[p].todo :
       LET rest == [run[p] EXCEPT !.todo = @ \ {id}]
       IN \/ id \in member /\ Works /\ member' = member \ {id} /\ Disturb(p, "unload", rest)
          \/ /\ UnloadFails({id})
             /\ UNCHANGED member /\ Step(p, "recheck", [rest EXCEPT !.new = id])
  /\ UNCHANGED <<sound, loads, recorded, Bounds>>

(* Variant: a listing that failed names no program. *)
RecheckPiped(p) ==
  /\ pc[p] = "recheck"
  /\ \/ Works /\ Step(p, "unload", [run[p] EXCEPT !.rc = IF run[p].new \in member THEN 1 ELSE @])
     \/ Fault /\ Step(p, "unload", run[p])
  /\ UNCHANGED <<Dispatcher, recorded, Bounds>>

Recheck(p) ==
  /\ pc[p] = "recheck"
  /\ \/ Works /\ Step(p, "unload", [run[p] EXCEPT !.rc = IF run[p].new \in member THEN 1 ELSE @])
     \/ Fault /\ Step(p, "unload", [run[p] EXCEPT !.rc = 1])
  /\ UNCHANGED <<Dispatcher, recorded, Bounds>>

(* The run files go only when everything is out. *)
Detached(p) ==
  /\ pc[p] = "unload" /\ run[p].todo = {}
  /\ IF run[p].rc = 0 THEN recorded' = {} /\ Disturb(p, "ended", run[p])
     ELSE Fails(p) /\ UNCHANGED recorded
  /\ UNCHANGED <<Dispatcher, faults, Bounds>>

(* Exit 0 has been seen. *)
Close(p) ==
  /\ pc[p] = "ended" /\ Fails(p)
  /\ UNCHANGED <<Dispatcher, recorded, faults, Bounds>>
-----------------------------------------------------------------------------
(* Killed by its timeout or by hand. *)
Kill(p) ==
  /\ pc[p] \notin {"idle", "ended"} /\ Fault /\ Fails(p)
  /\ UNCHANGED <<Dispatcher, recorded, Bounds>>

(* The pins are removed and created again: every program has other maps. *)
LosePins ==
  /\ Fault /\ sound # {} /\ sound' = {}
  /\ run' = [p \in Script |-> Disturbed(p)]
  /\ UNCHANGED <<member, loads, recorded, pc, Bounds>>

Reboot ==
  /\ Fault /\ boots' = boots + 1
  /\ member' = {} /\ sound' = {} /\ recorded' = {} /\ loads' = 0
  /\ pc' = [p \in Script |-> "idle"] /\ run' = [p \in Script |-> Idle]
  /\ UNCHANGED runs

ScriptStep(p) ==
  \/ (\E kind \in {"attach", "detach", "reload"} : Start(p, kind))
  \/ List(p) \/ Check(p) \/ Reject(p) \/ Load(p) \/ Relist(p) \/ Verify(p) \/ Abandon(p) \/ Retire(p)
  \/ Record(p) \/ Unload(p) \/ Recheck(p) \/ Detached(p) \/ Close(p) \/ Kill(p)

Next == (\E p \in Script : ScriptStep(p)) \/ LosePins \/ Reboot

Spec == Init /\ [][Next]_vars
-----------------------------------------------------------------------------
Enforced == member \cap sound # {}
Undisturbed(p) == ~run[p].disturbed /\ ~run'[p].disturbed /\ boots' = boots

(* A reload is hitless: neither it nor an attach takes the last program    *)
(* that enforces the pinned maps out of the dispatcher, at none of its      *)
(* steps and on none of its failures; unless another script interfered, or  *)
(* the script took a sound program for an unsound one: an attach unloads    *)
(* such a program when it finds it, a reload when it has just loaded it,    *)
(* and then the old members may enforce nothing.                           *)
Hitless ==
  [][\A p \in Script :
       run[p].kind \in {"attach", "reload"} /\ Undisturbed(p) /\ ~run[p].doubted
         => (Enforced => Enforced')]_vars

(* What exit 0 says: nothing is attached or recorded after a detach; after *)
(* an attach every member is sound and the recorded program is one; after  *)
(* a reload the recorded program is sound and, if no unload failed, the    *)
(* only one.                                                               *)
Told(p) ==
  pc[p] = "ended" =>
    CASE run[p].kind = "detach" -> member = {} /\ recorded = {}
      [] run[p].kind = "attach" -> recorded \subseteq member /\ recorded # {} /\ member \subseteq sound
      [] run[p].kind = "reload" -> /\ recorded \subseteq member \cap sound /\ recorded # {}
                                   /\ run[p].slipped \/ member = recorded

(* A script that nobody interfered with told the truth, whatever failed    *)
(* before it, and whatever that left attached and unrecorded.              *)
Settled == \A p \in Script : run[p].disturbed \/ Told(p)
=============================================================================
