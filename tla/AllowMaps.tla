----------------------------- MODULE AllowMaps -----------------------------
(***************************************************************************)
(* bin/nodeguard-maps: the pinned maps, the allow maps and the WireGuard    *)
(* port, brought up to date at boot and every hour.                        *)
(*                                                                         *)
(* systemd runs one at a time and may kill it (TimeoutStartSec); any call  *)
(* may fail.  The kernel reads the maps at every moment.  The snapshots of *)
(* the directives survive a reboot, the maps do not.                       *)
(***************************************************************************)
EXTENDS Naturals, Sequences

CONSTANTS
  Range, Address,  \* networks and addresses
  Covers,          \* Covers[r]: the addresses of r
  Version,         \* Version[r]: 4 or 6
  CANARY,          \* the address the watchdog probes, CANARY_IP
  Directive,       \* dynamic lines of protected.conf: resolve and derp
  Answers,         \* Answers[d]: what a lookup of d may find
  Literal,         \* ranges that a cidr line or the WAN lookup may add
  Statics,         \* what the static files may hold
  MaxChanges,      \* bound: changes of files, pins and switch by others
  MaxRuns,         \* bound: runs
  MaxFaults        \* bound: calls that fail, kills and reboots

ASSUME RangeAssumption ==
  /\ Covers \in [Range -> SUBSET Address] /\ Version \in [Range -> {4, 6}] /\ CANARY \in Address
  /\ Answers \in [Directive -> SUBSET ((SUBSET Range) \ {{}})]
  /\ Literal \subseteq Range /\ Statics \subseteq SUBSET Range
(* Ranges that share an address are of one family. *)
ASSUME FamilyAssumption ==
  \A r, s \in Range : Covers[r] \cap Covers[s] # {} => Version[r] = Version[s]
ASSUME LabelAssumption ==
  Directive \cap {"idle", "maps", "generate", "update", "delete", "export", "port", "done"} = {}
ASSUME BoundAssumption == MaxChanges \in Nat /\ MaxRuns \in Nat /\ MaxFaults \in Nat

(* The maps of the spec in its order; stats stands for every other map.    *)
SpecOrder == <<"allow4", "allow6", "config", "stats">>
Map == {SpecOrder[i] : i \in DOMAIN SpecOrder}
AllowMap == [v \in {4, 6} |-> IF v = 4 THEN "allow4" ELSE "allow6"]

VARIABLES
  pin,       \* the shape of each pinned map, 0 when there is none
  spec,      \* the shape of each map in the installed spec
  allow,     \* allow4 and allow6: the tag of each range, 0 when absent
  switch,    \* config[1], the kill switch
  port,      \* config[0]: the live port, or the default of tailscale
  static,    \* allow4.txt and allow6.txt
  conf,      \* protected.conf: directives
  cache,     \* allow-cache: the snapshot of each directive
  kv,        \* allow.kv: gen_fail and gen_stale
  pc, run,
  answered,  \* history: the last answer of each directive that a run took over
  behind,    \* history: its snapshot could not be written
  changes, runs, faults

files == <<static, conf, spec>>
maps == <<pin, allow, switch, port>>
past == <<answered, behind>>
vars == <<files, maps, cache, kv, pc, run, past, changes, runs, faults>>

Idle == [todo |-> <<>>, created |-> {}, dirs |-> {}, conf |-> {}, fresh |-> {}, gen |-> {}, fail |-> FALSE,
         stale |-> 0, tag |-> [r \in Range |-> 0], ver |-> 4]

Init ==
  /\ pin = [m \in Map |-> 0] /\ spec = [m \in Map |-> 1]
  /\ allow = [r \in Range |-> 0] /\ switch = 0 /\ port = "default"
  /\ static \in Statics /\ conf = Directive
  /\ cache = [d \in Directive |-> {}] /\ kv = [fail |-> FALSE, stale |-> 0]
  /\ pc = "idle" /\ run = Idle
  /\ answered = [d \in Directive |-> {}] /\ behind = {}
  /\ changes = 0 /\ runs = 0 /\ faults = 0

Live == {r \in Range : allow[r] # 0}
Covered(ranges) == UNION {Covers[r] : r \in ranges}
Wanted == {r \in Range : run.tag[r] # 0}
-----------------------------------------------------------------------------
Fault == faults < MaxFaults /\ faults' = faults + 1
Goto(label) == pc' = label
(* The run ends with an error. *)
Die == Goto("idle") /\ run' = Idle

Start ==
  /\ pc = "idle"
  /\ runs < MaxRuns /\ runs' = runs + 1
  /\ run' = [Idle EXCEPT !.todo = SpecOrder] /\ Goto("maps")
  /\ UNCHANGED <<files, maps, cache, kv, past, changes, faults>>

(* create-maps, map by map: a map without a pin is created, one with the   *)
(* wrong shape ends the run.  When the look at a pin fails the map is      *)
(* created over it, which the kernel refuses: that is Cut.                 *)
Ensure ==
  /\ pc = "maps" /\ run.todo # <<>>
  /\ LET m == Head(run.todo)
     IN \/ /\ pin[m] = 0
           /\ pin' = [pin EXCEPT ![m] = spec[m]]
           /\ run' = [run EXCEPT !.todo = Tail(@), !.created = @ \cup {m}]
           /\ UNCHANGED <<pc, faults>>
        \/ /\ pin[m] = spec[m]
           /\ run' = [run EXCEPT !.todo = Tail(@)]
           /\ UNCHANGED <<pc, pin, faults>>
        \/ pin[m] \notin {0, spec[m]} /\ Die /\ UNCHANGED <<pin, faults>>
  /\ UNCHANGED <<files, allow, switch, port, cache, kv, past, changes, runs>>

(* A new config map gets kill switch 0; then protected.conf is read. *)
InitSwitch ==
  /\ pc = "maps" /\ run.todo = <<>>
  /\ switch' = IF "config" \in run.created THEN 0 ELSE switch
  /\ Goto("generate") /\ run' = [run EXCEPT !.dirs = conf, !.conf = conf]
  /\ UNCHANGED <<files, pin, allow, port, cache, kv, past, changes, runs, faults>>
-----------------------------------------------------------------------------
(* Variant: an answer without entries is one as well. *)
AnyAnswer(found) == TRUE

(* An answer without entries counts as a failure. *)
Good(found) == found # {}

(* The directives are asked in the order of the file. *)
Foremost(dirs) == CHOOSE d \in dirs : TRUE

(* The next directive is looked up, which may find nothing or fail.  Then   *)
(* the snapshot answers, if there is one.                                  *)
Lookup ==
  /\ pc = "generate" /\ run.dirs # {}
  /\ LET d == Foremost(run.dirs)
         rest == [run EXCEPT !.dirs = @ \ {d}]
         taken(found) == [rest EXCEPT !.fresh = found, !.gen = @ \cup found]
         served == [rest EXCEPT !.gen = @ \cup cache[d], !.fail = TRUE,
                                !.stale = IF cache[d] # {} THEN @ + 1 ELSE @]
     IN \E found \in Answers[d] \cup {{}} :
          /\ IF found = {} THEN Fault ELSE UNCHANGED faults
          /\ IF Good(found) THEN run' = taken(found) /\ Goto(d) ELSE run' = served /\ UNCHANGED pc
  /\ UNCHANGED <<files, maps, cache, kv, past, changes, runs>>

(* The snapshot is replaced; where that fails it stays as it was. *)
Replace(d) ==
  /\ pc = d /\ Goto("generate")
  /\ \/ /\ cache' = [cache EXCEPT ![d] = run.fresh] /\ behind' = behind \ {d}
        /\ run' = [run EXCEPT !.fresh = {}] /\ UNCHANGED faults
     \/ /\ Fault /\ UNCHANGED cache /\ behind' = behind \cup {d}
        /\ run' = [run EXCEPT !.fresh = {}, !.fail = TRUE]
  /\ answered' = [answered EXCEPT ![d] = IF run.fresh = {} THEN @ ELSE run.fresh]
  /\ UNCHANGED <<files, maps, kv, changes, runs>>

(* No allow source may contain the canary. *)
Refuse(literal) == CANARY \in Covered(static \cup run.gen \cup literal)

(* The literal lines and the WAN addresses are added.  A file that is       *)
(* missing or malformed, or a source that covers the canary, ends the run   *)
(* before anything is written.                                             *)
Plan ==
  /\ pc = "generate" /\ run.dirs = {}
  /\ \E literal \in SUBSET Literal :
       LET gen == run.gen \cup literal
           tag == [r \in Range |-> IF r \in static THEN 1 ELSE IF r \in gen THEN 2 ELSE 0]
       IN \/ ~Refuse(literal) /\ Goto("update") /\ run' = [run EXCEPT !.tag = tag] /\ UNCHANGED faults
          \/ Refuse(literal) /\ Die /\ UNCHANGED faults
          \/ Fault /\ Die
  /\ UNCHANGED <<files, maps, cache, kv, past, changes, runs>>

Family == {r \in Range : Version[r] = run.ver}
Outdated == {r \in Family \cap Wanted : allow[r] # run.tag[r]}
Unwanted == {r \in Family \ Wanted : allow[r] # 0}

Update ==
  /\ pc = "update"
  /\ \/ \E r \in Outdated : allow' = [allow EXCEPT ![r] = run.tag[r]] /\ UNCHANGED <<pc, faults>>
     \/ Outdated = {} /\ Goto("delete") /\ UNCHANGED <<allow, faults>>
  /\ UNCHANGED <<files, pin, switch, port, cache, kv, run, past, changes, runs>>

(* Variant: what is not wanted goes first. *)
DeleteEarly ==
  /\ pc \in {"update", "delete"}
  /\ \/ \E r \in Unwanted : allow' = [allow EXCEPT ![r] = 0] /\ UNCHANGED <<pc, run>>
     \/ /\ pc = "delete" /\ Unwanted = {} /\ UNCHANGED allow
        /\ \/ run.ver = 4 /\ run' = [run EXCEPT !.ver = 6] /\ Goto("update")
           \/ run.ver = 6 /\ Goto("export") /\ UNCHANGED run
  /\ UNCHANGED <<files, pin, switch, port, cache, kv, past, changes, runs, faults>>

Delete ==
  /\ pc = "delete"
  /\ \/ \E r \in Unwanted : allow' = [allow EXCEPT ![r] = 0] /\ UNCHANGED <<pc, run>>
     \/ /\ Unwanted = {} /\ UNCHANGED allow
        /\ \/ run.ver = 4 /\ run' = [run EXCEPT !.ver = 6] /\ Goto("update")
           \/ run.ver = 6 /\ Goto("export") /\ UNCHANGED run
  /\ UNCHANGED <<files, pin, switch, port, cache, kv, past, changes, runs, faults>>

(* The state of the generation, for the monitoring: allow.kv. *)
Export ==
  /\ pc = "export" /\ Goto("port")
  /\ kv' = [fail |-> run.fail, stale |-> run.stale]
  /\ UNCHANGED <<files, maps, cache, run, past, changes, runs, faults>>

(* The default port when no socket was found.  That the port could not be  *)
(* written is not noticed.                                                 *)
SetPort ==
  /\ pc = "port" /\ Goto("done")
  /\ \/ port' = "live" /\ UNCHANGED faults
     \/ Fault /\ port' \in {port, "default"}
  /\ UNCHANGED <<files, pin, allow, switch, cache, kv, run, past, changes, runs>>

Exit ==
  /\ pc = "done" /\ Die
  /\ UNCHANGED <<files, maps, cache, kv, past, changes, runs, faults>>

(* bpftool fails, or systemd kills the run. *)
Cut ==
  /\ pc \notin {"idle", "done"}
  /\ Fault /\ Die
  /\ UNCHANGED <<files, maps, cache, kv, past, changes, runs>>

Reboot ==
  /\ Fault /\ Die
  /\ pin' = [m \in Map |-> 0] /\ allow' = [r \in Range |-> 0] /\ switch' = 0 /\ port' = "default"
  /\ kv' = [fail |-> FALSE, stale |-> 0]
  /\ UNCHANGED <<files, cache, past, changes, runs>>
-----------------------------------------------------------------------------
Change == changes < MaxChanges /\ changes' = changes + 1
Others == UNCHANGED <<cache, kv, pc, run, answered, runs, faults>>

EditStatic ==
  /\ Change /\ Others
  /\ static' \in Statics \ {static}
  /\ UNCHANGED <<conf, spec, maps, behind>>

EditConf(d) ==
  /\ Change /\ Others
  /\ conf' = IF d \in conf THEN conf \ {d} ELSE conf \cup {d}
  /\ UNCHANGED <<static, spec, maps, behind>>

(* nodeguard-off, nodeguard-on and the watchdog. *)
Toggle ==
  /\ Change /\ Others
  /\ pin["config"] # 0 /\ switch' = 1 - switch
  /\ UNCHANGED <<files, pin, allow, port, behind>>

(* A new object with other maps is installed. *)
Deploy(m) ==
  /\ Change /\ Others
  /\ spec[m] = 1 /\ spec' = [spec EXCEPT ![m] = 2]
  /\ UNCHANGED <<static, conf, maps, behind>>

(* The operator removes a pin that does not match, as create-maps says. *)
RemovePin(m) ==
  /\ Change /\ Others
  /\ pc = "idle" /\ pin[m] \notin {0, spec[m]}
  /\ pin' = [pin EXCEPT ![m] = 0]
  /\ allow' = [r \in Range |-> IF AllowMap[Version[r]] = m THEN 0 ELSE allow[r]]
  /\ switch' = IF m = "config" THEN 0 ELSE switch
  /\ port' = IF m = "config" THEN "default" ELSE port
  /\ UNCHANGED <<files, behind>>

RunStep ==
  \/ Start \/ Ensure \/ InitSwitch \/ Lookup \/ (\E d \in Directive : Replace(d)) \/ Plan
  \/ Update \/ Delete \/ Export \/ SetPort \/ Exit \/ Cut

Next ==
  \/ RunStep \/ Reboot \/ EditStatic \/ Toggle
  \/ \E d \in Directive : EditConf(d)
  \/ \E m \in Map : Deploy(m) \/ RemovePin(m)

Spec == Init /\ [][Next]_vars
-----------------------------------------------------------------------------
(* An address that was allowed and that the sources still cover is allowed *)
(* at every moment of a run, also where one range takes the place of       *)
(* another, and after a run that was cut short: as long as its maps stay    *)
(* pinned no step uncovers an address that the run wants covered           *)
(* (cmd_reconcile_allow updates first and deletes last).                   *)
NoHole ==
  [][pin' = pin => Covered(Live) \ Covered(Live)' \subseteq Address \ Covered(Wanted)]_vars

(* After a run that ended well the remotes that a directive last answered  *)
(* are allowed while it stands in protected.conf, whatever lookups failed, *)
(* runs were cut and reboots came between; unless the snapshot of that     *)
(* answer could not be written, and then gen_fail is set (allow_cache_fold). *)
RemoteKept ==
  pc = "done" => \A d \in run.conf : \/ answered[d] \subseteq Live
                                    \/ (d \in behind /\ kv.fail)

(* No run changes the kill switch of a config map that is there (the       *)
(* SAFETY note of cmd_create_maps: a restart can never silently re-arm).    *)
(* The code breaks it: a new config map is visible from its creation, and   *)
(* is set to 0 only when every other map of the spec has been seen to, so   *)
(* an off in between is undone.                                            *)
SwitchKept ==
  [][changes' = changes /\ pin["config"] # 0 /\ pin' = pin => switch' = switch]_vars
=============================================================================
