------------------------------ MODULE Watchdog ------------------------------
(***************************************************************************)
(* The switches of nodeguard: the watchdog's cycle (bin/nodeguard-watchdog) *)
(* and the commands nodeguard-on and nodeguard-off (bin/nodeguard-cli),     *)
(* which operators run and the watchdog itself runs.  They share the kill   *)
(* switch and the re-arm flag of the config map, two marker files and the   *)
(* attachment of the XDP program, and nothing orders them.                  *)
(*                                                                         *)
(* Each call of a tool is a step.  A cycle may be killed between any two    *)
(* (its unit times out after 55 seconds) and a tool may fail.               *)
(***************************************************************************)
EXTENDS Integers

CONSTANTS
  Operator,      \* people at a shell
  Wd,            \* the watchdog's unit, one cycle at a time
  CanaryTrip,    \* failed canary cycles before a soft-off (3)
  LifelineTrip,  \* dead lifeline cycles before a soft-off (5)
  DetachTrip,    \* dead lifeline cycles before a detach, once latched (10)
  CleanRearm,    \* clean cycles before an automatic re-arm (15)
  MaxFaults      \* bound: kills, tool failures and reboots

Proc == Operator \cup {Wd}

ASSUME ProcAssumption == Wd \notin Operator
ASSUME TripAssumption ==
  /\ CanaryTrip \in Nat \ {0} /\ LifelineTrip \in Nat \ {0}
  /\ DetachTrip \in Nat \ {0} /\ CleanRearm \in Nat \ {0}
  /\ LifelineTrip =< DetachTrip
  /\ MaxFaults \in Nat

VARIABLES
  switch,       \* config[1]: 0 is enforcing, 1 is off
  flag,         \* config[2]: 1 once an automatic re-arm was recorded
  manual_off,   \* the marker of an operator's nodeguard-off
  watchdog_off, \* the marker of the watchdog's
  attached,     \* the program is in the dispatcher
  unit,         \* nodeguard-xdp.service is active
  canary_fail, lifeline_fail, clean,   \* the watchdog's counter files
  net,          \* the network the probes see
  pc,           \* the next step of each process
  canary_ok, lifeline_ok, lifeline_all_ok, ks,  \* variables of a cycle
  reset,        \* the soft-off of the cycle is due to the lifelines
  rearms,       \* history: automatic re-arms since the boot
  streak,       \* history: clean cycles since the last soft-off
  faults        \* faults so far

config == <<switch, flag>>
markers == <<manual_off, watchdog_off>>
xdp == <<attached, unit>>
count == <<canary_fail, lifeline_fail, clean>>
cycle == <<canary_ok, lifeline_ok, lifeline_all_ok, ks, reset>>
history == <<rearms, streak>>
vars == <<config, markers, xdp, count, net, pc, cycle, history, faults>>

Enforcing == attached /\ switch = 0

(***************************************************************************)
(* overblock: the canary target is out of reach because of the filter.     *)
(* partial: some lifelines are dead.  outage: nothing answers.             *)
(***************************************************************************)
Network == {"fine", "overblock", "partial", "outage"}
CanaryUp == net \in {"fine", "partial"} \/ (net = "overblock" /\ ~Enforcing)
SomeLifeline == net # "outage"
EveryLifeline == net \in {"fine", "overblock"}

(* Only the thresholds are ever compared with a counter: it may stop there. *)
Bump(n, limit) == IF n < limit THEN n + 1 ELSE limit
(* The steps of a re-arm after the markers were tested. *)
Rearming == {"on_set", "on_read", "on_remove"}

Goto(p, label) == pc' = [pc EXCEPT ![p] = label]

Fault ==
  /\ faults < MaxFaults
  /\ faults' = faults + 1

Works == UNCHANGED faults

ZeroCounts == canary_fail' = 0 /\ lifeline_fail' = 0 /\ clean' = 0

ForgetCycle ==
  /\ canary_ok' = FALSE /\ lifeline_ok' = FALSE /\ lifeline_all_ok' = FALSE
  /\ ks' = "" /\ reset' = FALSE

Init ==
  /\ switch = 0 /\ flag = 0
  /\ manual_off = FALSE /\ watchdog_off = FALSE
  /\ attached = FALSE /\ unit = FALSE
  /\ canary_fail = 0 /\ lifeline_fail = 0 /\ clean = 0
  /\ net \in Network
  /\ pc = [p \in Proc |-> "idle"]
  /\ canary_ok = FALSE /\ lifeline_ok = FALSE /\ lifeline_all_ok = FALSE
  /\ ks = "" /\ reset = FALSE
  /\ rearms = 0 /\ streak = 0
  /\ faults = 0
-----------------------------------------------------------------------------
(* nodeguard-off, run by an operator or by soft_off_or_detach. *)
OffRequest(p) ==
  /\ pc[p] = "idle"
  /\ Goto(p, "off_set")
  /\ UNCHANGED <<config, markers, xdp, count, net, cycle, history, faults>>

(* The exit of nodeguard-off; the watchdog stops the unit if it failed. *)
OffExit(p, ok) ==
  Goto(p, IF p # Wd THEN "idle" ELSE IF ok THEN "tripped" ELSE "stop")

(* set-config 1 1: a failed call may have written. *)
OffSet(p) ==
  /\ pc[p] = "off_set"
  /\ \/ switch' = 1 /\ Goto(p, "off_read") /\ Works
     \/ switch' \in {switch, 1} /\ OffExit(p, FALSE) /\ Fault
  /\ UNCHANGED <<flag, markers, xdp, count, net, cycle, history>>

(* The read-back. *)
OffRead(p) ==
  /\ pc[p] = "off_read"
  /\ \/ switch # 0 /\ Goto(p, "off_touch") /\ Works
     \/ switch = 0 /\ OffExit(p, FALSE) /\ Works
     \/ OffExit(p, FALSE) /\ Fault
  /\ UNCHANGED <<config, markers, xdp, count, net, cycle, history>>

OffTouch(p) ==
  /\ pc[p] = "off_touch"
  /\ IF p = Wd
     THEN /\ watchdog_off' = TRUE /\ streak' = 0
          /\ UNCHANGED manual_off
     ELSE /\ manual_off' = TRUE
          /\ UNCHANGED <<watchdog_off, streak>>
  /\ OffExit(p, TRUE)
  /\ UNCHANGED <<config, xdp, count, net, cycle, rearms, faults>>

(* nodeguard-on, run by an operator or by the automatic re-arm. *)
OnRequest(p) ==
  /\ pc[p] = "idle"
  /\ Goto(p, "on_set")
  /\ UNCHANGED <<config, markers, xdp, count, net, cycle, history, faults>>

OnExit(p, ok) == Goto(p, IF p = Wd /\ ok THEN "record" ELSE "idle")

OnSet(p) ==
  /\ pc[p] = "on_set"
  /\ \/ switch' = 0 /\ Goto(p, "on_read") /\ Works
     \/ switch' \in {switch, 0} /\ OnExit(p, FALSE) /\ Fault
  /\ UNCHANGED <<flag, markers, xdp, count, net, cycle, history>>

OnRead(p) ==
  /\ pc[p] = "on_read"
  /\ \/ switch = 0 /\ Goto(p, "on_remove") /\ Works
     \/ switch # 0 /\ OnExit(p, FALSE) /\ Works
     \/ OnExit(p, FALSE) /\ Fault
  /\ UNCHANGED <<config, markers, xdp, count, net, cycle, history>>

(* rm -f of both markers: the re-arm succeeded. *)
OnRemove(p) ==
  /\ pc[p] = "on_remove"
  /\ manual_off' = FALSE /\ watchdog_off' = FALSE
  /\ rearms' = IF p = Wd THEN rearms + 1 ELSE rearms
  /\ OnExit(p, TRUE)
  /\ UNCHANGED <<config, xdp, count, net, cycle, streak, faults>>
-----------------------------------------------------------------------------
(* systemctl start nodeguard-xdp.  A listing that fails after the load      *)
(* fails the unit and leaves the program attached.                          *)
Attach ==
  /\ ~unit
  /\ attached' = TRUE
  /\ \/ unit' = TRUE /\ Works
     \/ UNCHANGED unit /\ Fault
  /\ UNCHANGED <<config, markers, count, net, pc, cycle, history>>

(* systemctl stop nodeguard-xdp: nothing happens when it is not active, *)
(* and a failed nodeguard-detach still ends the unit.                   *)
StopUnit ==
  /\ unit' = FALSE
  /\ \/ attached' = (attached /\ ~unit) /\ Works
     \/ unit /\ UNCHANGED attached /\ Fault

Detach ==
  /\ unit
  /\ StopUnit
  /\ UNCHANGED <<config, markers, count, net, pc, cycle, history>>
-----------------------------------------------------------------------------
(* The cycle is over. *)
CycleEnd ==
  /\ ForgetCycle
  /\ Goto(Wd, "idle")

(* The timer starts a cycle, which probes the lifelines and the canary. *)
CycleStart ==
  /\ pc[Wd] = "idle"
  /\ canary_ok' = CanaryUp
  /\ lifeline_ok' = SomeLifeline
  /\ lifeline_all_ok' = EveryLifeline
  /\ ks' = "" /\ reset' = FALSE
  /\ Goto(Wd, "switch")
  /\ UNCHANGED <<config, markers, xdp, count, net, history, faults>>

SwitchText == IF switch = 0 THEN "0" ELSE "1"

(* Variant: a failed read leaves the text of its error. *)
ReadSwitchPrints ==
  /\ pc[Wd] = "switch"
  /\ \/ ks' = SwitchText /\ Works
     \/ ks' = "error" /\ Fault
  /\ Goto(Wd, "listing")
  /\ UNCHANGED <<canary_ok, lifeline_ok, lifeline_all_ok, reset>>
  /\ UNCHANGED <<config, markers, xdp, count, net, history>>

(* ks: an unreadable switch is the empty string. *)
ReadSwitch ==
  /\ pc[Wd] = "switch"
  /\ \/ ks' = SwitchText /\ Works
     \/ ks' = "" /\ Fault
  /\ Goto(Wd, "listing")
  /\ UNCHANGED <<canary_ok, lifeline_ok, lifeline_all_ok, reset>>
  /\ UNCHANGED <<config, markers, xdp, count, net, history>>

(* The attach state: attached and unknown go on, detached ends the cycle. *)
ReadAttached ==
  /\ pc[Wd] = "listing"
  /\ \/ /\ attached /\ Works
        /\ Goto(Wd, "tally")
        /\ UNCHANGED <<count, cycle, streak>>
     \/ /\ Fault
        /\ Goto(Wd, "tally")
        /\ UNCHANGED <<count, cycle, streak>>
     \/ /\ ~attached /\ Works
        /\ ZeroCounts /\ streak' = 0
        /\ CycleEnd
  /\ UNCHANGED <<config, markers, xdp, net, rearms>>

(* What the three counters become, in the order they are written. *)
NewCanary == IF canary_ok THEN 0 ELSE Bump(canary_fail, CanaryTrip)
NewLifeline == IF lifeline_ok THEN 0 ELSE Bump(lifeline_fail, DetachTrip)

(* Variant: only cycles of an enforcing filter are clean. *)
CleanCycleArmed == canary_ok /\ lifeline_all_ok /\ ks = "0"

CleanCycle == canary_ok /\ lifeline_all_ok
NewClean == IF CleanCycle THEN Bump(clean, CleanRearm) ELSE 0

(* Variant: a bad cycle does not end a run of clean ones. *)
TallyKeepsClean ==
  /\ pc[Wd] = "tally"
  /\ canary_fail' = NewCanary /\ lifeline_fail' = NewLifeline
  /\ clean' = IF CleanCycle THEN Bump(clean, CleanRearm) ELSE clean
  /\ streak' = IF CleanCycle THEN Bump(streak, CleanRearm) ELSE 0
  /\ Goto(Wd, IF ks = "0" THEN "armed" ELSE "latched")
  /\ UNCHANGED <<config, markers, xdp, net, cycle, rearms, faults>>

Tally ==
  /\ pc[Wd] = "tally"
  /\ canary_fail' = NewCanary /\ lifeline_fail' = NewLifeline /\ clean' = NewClean
  /\ streak' = IF CleanCycle THEN Bump(streak, CleanRearm) ELSE 0
  /\ Goto(Wd, IF ks = "0" THEN "armed" ELSE "latched")
  /\ UNCHANGED <<config, markers, xdp, net, cycle, rearms, faults>>

(* The cycle is killed before the last counter is written. *)
TallyCut ==
  /\ pc[Wd] = "tally"
  /\ canary_fail' = NewCanary
  /\ lifeline_fail' \in {lifeline_fail, NewLifeline}
  /\ Fault
  /\ CycleEnd
  /\ UNCHANGED <<config, markers, xdp, clean, net, history>>

(* Variant: both trips ask for a lifeline that answers. *)
ArmedNeedsLifeline ==
  /\ pc[Wd] = "armed"
  /\ LET trip == canary_fail >= CanaryTrip \/ lifeline_fail >= LifelineTrip IN
       \/ trip /\ lifeline_ok /\ Goto(Wd, "off_set") /\ UNCHANGED cycle
       \/ ~(trip /\ lifeline_ok) /\ CycleEnd
  /\ UNCHANGED <<config, markers, xdp, count, net, history, faults>>

(* The switch read 0: over-block, or every lifeline dead for long enough. *)
Armed ==
  /\ pc[Wd] = "armed"
  /\ \/ /\ canary_fail >= CanaryTrip /\ lifeline_ok
        /\ Goto(Wd, "off_set")
        /\ UNCHANGED cycle
     \/ /\ ~(canary_fail >= CanaryTrip /\ lifeline_ok)
        /\ lifeline_fail >= LifelineTrip
        /\ reset' = TRUE
        /\ Goto(Wd, "off_set")
        /\ UNCHANGED <<canary_ok, lifeline_ok, lifeline_all_ok, ks>>
     \/ /\ ~(canary_fail >= CanaryTrip /\ lifeline_ok)
        /\ lifeline_fail < LifelineTrip
        /\ CycleEnd
  /\ UNCHANGED <<config, markers, xdp, count, net, history, faults>>

(* soft_off_or_detach: the soft-off failed. *)
SoftOffStop ==
  /\ pc[Wd] = "stop"
  /\ StopUnit
  /\ Goto(Wd, "tripped")
  /\ UNCHANGED <<config, markers, count, net, cycle, history>>

Tripped ==
  /\ pc[Wd] = "tripped"
  /\ lifeline_fail' = IF reset THEN 0 ELSE lifeline_fail
  /\ CycleEnd
  /\ UNCHANGED <<config, markers, xdp, canary_fail, clean, net, history, faults>>

(* The switch did not read 0: stop the unit when the lifelines stay dead. *)
Latched ==
  /\ pc[Wd] = "latched"
  /\ IF lifeline_fail >= DetachTrip
     THEN StopUnit /\ Goto(Wd, "verify")
     ELSE Works /\ UNCHANGED xdp /\ Goto(Wd, "check")
  /\ UNCHANGED <<config, markers, count, net, cycle, history>>

(* Variant: stopping the unit is taken to have detached the program. *)
VerifyTrusts ==
  /\ pc[Wd] = "verify"
  /\ lifeline_fail' = 0
  /\ Goto(Wd, "check") /\ Works
  /\ UNCHANGED <<config, markers, xdp, canary_fail, clean, net, cycle, history>>

(* Did the dispatcher shed the program?  If not, nodeguard-detach; the     *)
(* counter stays at its threshold until a listing shows nothing.           *)
Verify ==
  /\ pc[Wd] = "verify"
  /\ \/ attached' = FALSE /\ lifeline_fail' = 0 /\ Works
     \/ (UNCHANGED attached \/ attached' = FALSE) /\ UNCHANGED lifeline_fail /\ Fault
  /\ Goto(Wd, "check")
  /\ UNCHANGED <<config, markers, unit, canary_fail, clean, net, cycle, history>>

MayRearm ==
  /\ watchdog_off /\ ~manual_off
  /\ clean >= CleanRearm
  /\ flag = 0

(* Variant: the re-arm flag is not looked at. *)
CheckIgnoresFlag ==
  /\ pc[Wd] = "check"
  /\ Works
  /\ \/ /\ watchdog_off /\ ~manual_off /\ clean >= CleanRearm
        /\ Goto(Wd, "on_set")
        /\ UNCHANGED cycle
     \/ ~(watchdog_off /\ ~manual_off) /\ CycleEnd
  /\ UNCHANGED <<config, markers, xdp, count, net, history>>

(* The test before an automatic re-arm; an unreadable flag forbids it. *)
Check ==
  /\ pc[Wd] = "check"
  /\ \/ /\ MayRearm /\ Works
        /\ Goto(Wd, "on_set")
        /\ UNCHANGED cycle
     \/ ~MayRearm /\ CycleEnd /\ Works
     \/ CycleEnd /\ Fault
  /\ UNCHANGED <<config, markers, xdp, count, net, history>>

(* set-config 2 1, whose failure nobody sees. *)
Record ==
  /\ pc[Wd] = "record"
  /\ \/ flag' = 1 /\ Works
     \/ flag' \in {flag, 1} /\ Fault
  /\ CycleEnd
  /\ UNCHANGED <<switch, markers, xdp, count, net, history>>
-----------------------------------------------------------------------------
Kill(p) ==
  /\ pc[p] # "idle"
  /\ Fault
  /\ Goto(p, "idle")
  /\ IF p = Wd THEN ForgetCycle ELSE UNCHANGED cycle
  /\ UNCHANGED <<config, markers, xdp, count, net, history>>

(* The maps and /run are gone; create-maps starts with the switch at 0. *)
Reboot ==
  /\ Fault
  /\ switch' = 0 /\ flag' = 0
  /\ manual_off' = FALSE /\ watchdog_off' = FALSE
  /\ attached' = FALSE /\ unit' = FALSE
  /\ ZeroCounts
  /\ pc' = [p \in Proc |-> "idle"]
  /\ ForgetCycle
  /\ rearms' = 0 /\ streak' = 0
  /\ UNCHANGED net

NetworkChange ==
  /\ net' \in Network \ {net}
  /\ UNCHANGED <<config, markers, xdp, count, pc, cycle, history, faults>>
-----------------------------------------------------------------------------
CommandStep(p) ==
  OffSet(p) \/ OffRead(p) \/ OffTouch(p) \/ OnSet(p) \/ OnRead(p) \/ OnRemove(p)

CycleStep ==
  \/ CycleStart \/ ReadSwitch \/ ReadAttached \/ Tally \/ Armed \/ SoftOffStop
  \/ Tripped \/ Latched \/ Verify \/ Check \/ Record

Next ==
  \/ \E p \in Operator : OffRequest(p) \/ OnRequest(p)
  \/ \E p \in Proc : CommandStep(p) \/ Kill(p)
  \/ CycleStep \/ TallyCut
  \/ Attach \/ Detach \/ Reboot \/ NetworkChange

Spec == Init /\ [][Next]_vars

(***************************************************************************)
(* The timer starts a cycle a minute after the last, and every tool a      *)
(* cycle or a command calls is bounded by a timeout.                       *)
(***************************************************************************)
Fairness == WF_vars(CycleStep) /\ \A p \in Proc : WF_vars(CommandStep(p))

FairSpec == Spec /\ Fairness
-----------------------------------------------------------------------------
Label == {"idle", "off_set", "off_read", "off_touch", "stop", "tripped",
          "record", "switch", "listing", "tally", "armed", "latched", "verify",
          "check"} \cup Rearming

(* Every variable has its type. *)
TypeOK ==
  /\ switch \in {0, 1} /\ flag \in {0, 1}
  /\ manual_off \in BOOLEAN /\ watchdog_off \in BOOLEAN
  /\ attached \in BOOLEAN /\ unit \in BOOLEAN
  /\ canary_fail \in Nat /\ lifeline_fail \in Nat /\ clean \in Nat
  /\ net \in Network
  /\ pc \in [Proc -> Label]
  /\ canary_ok \in BOOLEAN /\ lifeline_ok \in BOOLEAN
  /\ lifeline_all_ok \in BOOLEAN
  /\ ks \in {"", "0", "1"} /\ reset \in BOOLEAN
  /\ rearms \in Nat /\ streak \in Nat
  /\ faults \in Nat

(***************************************************************************)
(* The watchdog re-arms at most once per boot, and once more for each kill *)
(* or unseen failure that kept it from recording a re-arm, whatever        *)
(* operators do meanwhile.                                                 *)
(***************************************************************************)
OncePerBoot == rearms =< 1 + faults

(***************************************************************************)
(* What docs/design.md:430-431 says: any manual nodeguard-off is human-only *)
(* recovery, so the automatic re-arm never removes an operator's marker.   *)
(* The code tests the markers before it runs nodeguard-on, which removes   *)
(* whatever markers there are by then: an off in between is undone.        *)
(***************************************************************************)
ManualOffKept == [][OnRemove(Wd) => ~manual_off]_vars

(* A re-arm is earned by clean cycles that all came after the soft-off that *)
(* it undoes: no clean cycle from before it counts.                         *)
RearmEarned ==
  pc[Wd] \in Rearming => streak >= CleanRearm

(***************************************************************************)
(* A filter that cuts off the canary target, or whose host is cut off from *)
(* everything, is eventually taken out of the way, whatever fails on the   *)
(* way and whatever operators do, if the network does not recover first.   *)
(***************************************************************************)
TroubleOpens ==
  \A n \in {"overblock", "outage"} :
    net = n /\ Enforcing ~> ~Enforcing \/ net # n

(* When the lifelines stay dead after a soft-off, the program is detached  *)
(* even if its unit had stopped knowing about it.                          *)
OutageDetaches ==
  net = "outage" /\ switch = 1 ~> ~attached \/ net # "outage" \/ switch = 0

(***************************************************************************)
(* A latch of the watchdog's own is lifted once the network stays well,    *)
(* unless the re-arm of this boot is spent or an operator takes over.  (An *)
(* operator's on may remove the marker of a soft-off that came just before: *)
(* that latch has no marker, and only an operator can lift it.)            *)
(***************************************************************************)
WellRearms ==
  watchdog_off /\ switch = 1 ~>
    \/ switch = 0 \/ flag = 1
    \/ net # "fine" \/ ~attached
    \/ manual_off \/ ~watchdog_off

(***************************************************************************)
(* The inductive invariant behind the safety properties: a re-arm    *)
(* that is not covered by the flag or by a fault is being recorded, and    *)
(* the clean counter never runs ahead of the cycles since the soft-off.    *)
(***************************************************************************)
RearmInv ==
  /\ rearms =< 1 + faults
  /\ flag = 0 /\ pc[Wd] # "record" => rearms =< faults
  /\ pc[Wd] \in Rearming => flag = 0

StreakInv ==
  /\ lifeline_all_ok => lifeline_ok
  /\ clean =< streak
  /\ pc[Wd] = "armed" /\ (canary_fail > 0 \/ lifeline_fail > 0) => clean = 0
  /\ pc[Wd] \in {"off_set", "off_read", "off_touch"} => clean = 0

WatchdogInv == RearmInv /\ StreakInv /\ RearmEarned

(* Automatic re-arm is once per boot (bin/nodeguard-watchdog:410). *)
RearmsOnce == rearms =< 1
=============================================================================
