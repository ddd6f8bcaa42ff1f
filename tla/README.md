# A verification project for nodeguard

nodeguard is an XDP packet filter for public hosts.  A BPF program drops packets whose source is in
a *block* map unless it is in an *allow* map; scripts and one daemon fill the maps, refresh them,
guard the host against being cut off, and can always take the filter out of the way.  The program is
small, but many processes write the same kernel maps and the same files with no coordinator: systemd
timers, a long-running responder, a feed loader, a watchdog, and operators at a shell.  These modules
model that concurrency, and the promises the code makes about it.

## The system

| Part (source) | State it keeps | Operations |
|---|---|---|
| Packet filter (`src/nodeguard_kern.c`) | per-entry hit counts, per-CPU counters | parse; kill switch; WireGuard port; allow and block longest-prefix match |
| Block map commands (`bin/ngmap.py`) | `block4`/`block6` with expiry and hits, `/run/nodeguard/block.lock` | block, unblock, flush, sweep |
| Map creation, allow maps and configuration (`bin/ngmap.py`, `bin/nodeguard-maps`) | `allow4`/`allow6`, `config`, `stats`, pins, snapshots of the lookups | create-maps, lookups with their fallback, reconcile-allow with its canary check, set-config |
| Operator switches (`bin/nodeguard-cli`) | `config[1]`, `manual_off`, `watchdog_off` | on, off |
| Watchdog (`bin/nodeguard-watchdog`) | four counters, the two latches, `config[0..2]`, an EWMA baseline of drops | one cycle a minute: port, probes, soft-off, detach, re-arm, anomaly score |
| Attach lifecycle (`bin/nodeguard-attach`, `-detach`, `-reload`, `nodeguard-lib.sh`) | the XDP dispatcher's members, `prog_id`, `expected_prog_id` | attach, detach, hitless reload |
| Responder (`bin/nodeguard-responder`) | journal of sightings and offenses, windows, allow cache, rate history | follow the alert log, gate, block, save |
| Feed loader (`bin/nodeguard-feeds`) | `state.json` of the entries it owns, last-known-good lists | fetch, gate, plan, write, withdraw, change of mode |
| Monitoring template (`zbx/gen-template.py`, `zbx/check_template.py`, `build/build.sh`) | the committed template with its uuids, `removed-objects.txt`, what Zabbix imported | render, check, commit, import |
| Dashboards (`zbx/dashboards.py`, `zbx/lib.py`) | three boards on the Zabbix server | plan, build, create or update |
| Allow canary, status, geo, deployment, the rest of the build | reports and files | see "Not modelled" |

At run time they meet in four places: the block maps (packet filter, sweep, responder, feed loader and operators),
the allow maps (`nodeguard-maps` against every refusal that reads them), the `config` map with its
marker files (watchdog against operators and `nodeguard-maps`), and the dispatcher (attach, detach,
reload, watchdog).  The template and the boards meet the rest in the names of the values that the hosts report.

### What is hard in it

* *Interleaving.*  Every map access is one bpftool process.  Read-then-write sequences are protected by
  a file lock in some commands (block, sweep, the loader's changes) and not in others (unblock, flush,
  the allow maps, the switches), and never against the kernel.
* *Staleness.*  The sweep acts on a dump, the block command on allow ranges read before it queued for
  the lock, the watchdog on a kill switch read before its probes' verdict is used, the loader on a plan.
* *Crashes.*  systemd kills a watchdog cycle after 55 seconds wherever it is; a loader run or the
  responder may die between changing the map and recording it; a reboot clears the maps and `/run` but
  not `/var/lib`.
* *Time.*  Leases are compared with a monotonic clock read in three different programs, windows and
  debounces with wall clocks, and a boot id decides whether a stored time means anything.
* *Failure that looks like an answer.*  A failed lookup reads as an absent key, an unreadable switch
  as a set one, a failed dispatcher listing, in some callers, as an empty one.
* *Long histories.*  A uuid lost by a regeneration takes the history of its item with it at the next
  import, many commits later; a snapshot of a lookup is what is allowed after a reboot without DNS.

### What makes each part correct

* Block map: no live or permanent entry is lost except by an operator; never-block ranges are never
  covered; a new covering block is not undermined by the corpse of a narrower one; every corpse is
  collected; nobody waits for ever.
* Switches and watchdog: an operator's *off* stands until an operator's *on*; automatic re-arming
  happens once per boot and never for a manual latch; sustained over-blocking or a total outage ends
  with the datapath open; the latches and the switch agree.
* Attach lifecycle: an operation that succeeds leaves members that enforce the pinned maps and records one
  of them, a hitless reload never leaves a gap, and "unknown" is never taken for "detached".
* Responder: no address is blocked that a gate refuses, the journal never promises a repeat offender
  less than its history says, rates are bounded, every alert that is durable in the log is handled.
* Feed loader: it withdraws and extends only what it wrote, its state covers what is in the map at every
  crash point, permanent and foreign entries are left alone, withdrawal leaves nothing of its own behind.
* Allow maps: an update never opens a moment in which a range that is in the old and the new set is
  missing; the remotes of the host stay allowed through failed lookups, reboots and runs cut short; the
  canary address is never allowlisted; a restart does not touch the kill switch.
* Template: no import deletes or renames an object that nobody meant to, no two objects share a uuid.
* Dashboards: every value of every host is shown once, nothing overlaps, for fleets of up to 36 hosts.
* Packet filter: the order of its checks, in particular that sanity counters survive the kill switch
  and that nothing is dropped while it is set.

## The modules

### NgMap: the block map and its commands

`NgMap` is the part the others rest on: `cmd_block`, `cmd_unblock`, `cmd_flush` and `cmd_sweep` of
`bin/ngmap.py`, processes that interleave with the kernel program, the clock, kills and a reboot.  A
network is a value with the set of addresses it spans (`Span`), so nesting, longest match and overlap
are relations between sets; `NestingAssumption` says that CIDR networks nest or are disjoint.

| State | In the code |
|---|---|
| `block` | `block4` and `block6`: expiry and hits of each key (`struct block_val`) |
| `allow` | `allow4` and `allow6` |
| `clock` | `CLOCK_MONOTONIC`, read by `mono_ns` and `bpf_ktime_get_ns` |
| `lock` | holder of the flock in `block_lock()` |
| `pc`, `loc` | the point each command is at and its local variables |
| `missed` | history only: hits that landed since a block command's lookup |
| `loc[p].masked` | history only: which lookups of a block command failed and were taken for a miss |
| `faults` | kills, timeouts and reboots used up |

A block command is `BlockRequest` (argument checks, `is_protected`), `BlockContain` (the containment
refusal and the expiry, both *before* the lock), `Acquire`, `BlockLookup`, `BlockWrite`, then the purge
`PurgeDump`, `PurgeExamine`, `PurgeEvict`, `PurgeDone`, and `BlockDone`.  A sweep is `SweepStart`,
`SweepDump`, and for each candidate `SweepPick`, `Acquire`, `SweepRecheck`, `SweepCollect`; `NextFamily`
walks IPv4 then IPv6.  `unblock` and `flush` (`UnblockRequest`, `FlushRequest`, `FlushDump`,
`OperatorDelete`) take no lock.  `Drop` is the only packet that changes the map.  `MaskedLookup` is
`lookup_value` reading any bpftool failure as an absent key; `Die` any other failure, or a kill.

`BlockTable` is the abstract specification: a table of leases.  A lease leaves it only when it has run
out or an operator asked for its removal; permanence is given only while a command with `--i-mean-it`
for that network is in flight, and overwritten only then or by a writer whose locked lookup failed and
read as a miss.  `Lease` is `NgMap` implementing it (hits, lock and program counters are hidden;
`consent`, `unread` and `revoking` are computed from the commands in flight).

Properties of `NgMap`:

* `MapInv`, the inductive invariant (proved, in no run): the lock is held exactly inside the critical sections (`LockInv`);
  what a locked lookup found expired is still expired when it is deleted (`ExpiredInv`); the target of
  a block passed the refusals (`RefusalInv`); the entry about to be written over is the one looked up
  (`WriteInv`); a corpse the purge saw is still a candidate or gone (`PurgeInv`).
* `LossConfined`: a refresh carries the hits of the entry it replaces, but for packets dropped between
  its lookup and its write, and but for a command whose lookup failed and read as a miss.
* `CoverAnswers`: when the purge of a covering block ends, no address of it is answered by a corpse
  that was there when the purge began, unless a lookup of that purge failed and read as a miss.  (The
  kernel does one longest match and passes if that is expired.)
* `NeverBlockSpared`: no key ever overlaps a never-block range, although only the network address and
  the ranges *inside* the target are tested.  It rests on nesting.
* `OnlyCorpsesCollected`: sweep and purge delete only entries expired at that moment, even when lookups
  fail silently and even though operators delete without the lock.
* `CorpsesGo`, `BlockEnds` (liveness): every corpse is collected or replaced; no block command hangs.

Seen while modelling: `cmd_block` writes back the hit count it read, so a packet dropped between the lookup and
the write is not counted, although `openspec/specs/state-lifecycle/spec.md:107-111` promises that a refresh
carries the count unchanged.  `LossConfined` says how far the loss goes.  And `lookup_value` takes any nonzero
exit of bpftool for an absent key: such a lookup lets a block overwrite a permanent entry without
`--i-mean-it`, start its hits again, or leave a corpse in the purge; the first is against `state-lifecycle/spec.md:91-92`.  The properties except exactly
the command whose own lookup failed.

Fairness.  A started command takes its next step because every bpftool call has a timeout; the kernel
wakes the waiters of a flock in turn, hence strong fairness of `Acquire`; the timer restarts the sweep.
Neither operators, packets, faults nor the clock are fair.

### Watchdog: the switches and the latches

`Watchdog` models a cycle of `bin/nodeguard-watchdog` call by call, beside operators who run
`nodeguard-on` and `nodeguard-off` (`bin/nodeguard-cli`) at any moment.  The watchdog runs the same two
commands, so they are one set of actions with the process as a parameter.

| State | In the code |
|---|---|
| `switch`, `flag` | `config[1]` (kill switch) and `config[2]` (an automatic re-arm was recorded) |
| `manual_off`, `watchdog_off` | the marker files in `/run/nodeguard` |
| `attached`, `unit` | the program in the dispatcher; `nodeguard-xdp.service` active |
| `canary_fail`, `lifeline_fail`, `clean` | the counter files of the watchdog |
| `net` | what the probes meet: `fine`, `overblock`, `partial`, `outage` |
| `pc`, `canary_ok`, `lifeline_ok`, `lifeline_all_ok`, `ks`, `reset` | where each process is and the variables of the cycle |
| `rearms`, `streak` | history only: re-arms since the boot, clean cycles since the last soft-off |

`nodeguard-off` is `OffSet`, `OffRead` (the read-back), `OffTouch`; `nodeguard-on` is `OnSet`, `OnRead`,
`OnRemove`.  A cycle is `CycleStart` (the probes), `ReadSwitch`, `ReadAttached`, `Tally`, then either
`Armed` (over-block or dead lifelines: soft-off, and `SoftOffStop` when that fails, then `Tripped`) or
`Latched` (`StopUnit`, `Verify` with its fallback to `nodeguard-detach`, `Check`, the re-arm, `Record`).
`Kill` ends a process between two steps, `TallyCut` inside the writing of the counters.  An unreadable
switch is the empty string and takes the latched branch, as in the script; an unreadable attach state
goes on as if attached; a `set-config` that fails may have written.

The counters stop at the only values they are compared with, so the model is finite without a bound on
cycles.  The thresholds are constants (3, 5, 10 and 15 in the script) and the runs lower them; what is
proved holds for all of them.

Properties:

* `OncePerBoot`: automatic re-arms since the boot never exceed one plus the faults.  The documented
  bound ("once per boot") holds exactly without faults, which is theorem `OnceWithoutFaults`.
* `RearmEarned`: a re-arm has `CleanRearm` clean cycles behind it, all later than the soft-off it undoes,
  although kills cut cycles between counter writes and nobody resets the clean counter on a soft-off.
* `WatchdogInv`: the inductive invariant behind the two (proved, in no run).
* `TroubleOpens`, `OutageDetaches`, `WellRearms` (liveness): lasting over-blocking or a lasting outage ends with the
  datapath open; a lasting outage ends with the program out of the dispatcher; a latch of the watchdog's
  own ends with a re-arm when the network stays well.

Seen while modelling: a manual off that ends between the test of the markers and the `nodeguard-on` at
`bin/nodeguard-watchdog:413` is lifted by it, since it clears both markers whatever they have become
(the run `watchdog_manual`, see Findings); and a cycle killed before the flag is recorded at `:414` leaves it at 0, so there
can be a second re-arm (`OncePerBoot` charges it to the fault).

Fairness.  The timer starts a cycle after the last one and every tool of a cycle or a command has a
timeout, hence weak fairness of `CycleStep` and of each process's `CommandStep`.  Requests by operators,
faults, attach, detach and the network are not fair.

### Feeds: the loader and its journal

`Feeds` models `bin/nodeguard-feeds`: runs (of the timer or by hand), `apply --confirm` and
`withdraw --confirm`, as processes that read `state.json` when they start and write it when they end, and
that change the block map key by key under the block lock, beside the other writers of the map.  The
loader knows an entry as its own by comparing the expiry in the map with the one its journal says it
wrote; every reconcile computes a new one, so the values of the loader's entries are *stamps* and
those of everybody else are `Foreign` (with an expiry) or `Permanent`.

| State | In the code |
|---|---|
| `block`, `lapsed` | the value of each key, and the keys whose expiry has passed |
| `lock` | holder of the flock in `block_lock()` |
| `owner`, `written` | the rows of `state["entries"]`: `feed` and `written_expiry_ns` |
| `running`, `file_boot`, `based` | `run_in_progress`, `boot_id`, the feeds with a non-empty `applied_cidrs` |
| `approved` | `approved.json` |
| `my` | the `Runner` of each process, with its plan, its place and the rows as it has them in memory |
| `key`, `seen`, `spent`, `masked` | the locals of `one_key`, `withdraw_key` and the loop of `mode_withdraw` |
| `stamp` | the last expiry computed |
| `died`, `hurt`, `overlap` | history only: a run of this boot ended abnormally, or did so after a write; two processes met in it |

A run is `RunStart` or `ApplyStart`, `Mark` (the allow snapshot and the first save), `Fetch` (refusal by a
gate, or the snapshot of corpses), `Plan` for each feed in order, then `Take` and `Put` or `Drop` for each
key, `FeedDone`, and `RunDone` (the last save).  A withdrawal is `WithdrawStart`, `Take` and `Drop`,
`Revoke`, `WithdrawDone`.  `PutFails` and `DropFails` are bpftool failures, which `_mutate` confines to one
key and which may have written; `Crash` is an exception, whose handler clears the marker of a run that wrote
nothing; `Kill` is anything else.  What a feed lists, whether it comes through, whether its churn is held
and whether a gate refuses the run are free choices (a hold only where the code can hold), so the model
covers every content; the choice is made when the plan of the feed needs it.  The order of keys within a
plan is left open.  The journal's boot id is that of an earlier save of this boot, or there was none.

Properties:

* `ForeignSpared`: no run, purge or withdrawal changes a live entry of another writer, whatever has
  become of the plan, the journal or the corpses noted at the start; the exceptions are adoption, never of
  a permanent entry, and a lookup error that reads as an absent key.
* `WithdrawalWarranted`: a live entry of the loader's own disappears only by a withdrawal of its feed or
  because its feed came through, was not held and no longer has it (INVARIANT W1).
* `AdoptionEarned`: adoption is armed only in a boot in which a run died or two processes met.
* `Accounted`, `WithdrawnClean`: when nothing fails or overlaps, the journal in force knows every entry
  of the loader's as it was written, and `withdraw` of everything leaves none, through any sequence of runs,
  hand-overs between feeds, lapses and other writers.
* `CrashRecovered`: what `openspec/specs/feed-loading/spec.md` says, and what does not hold: see the findings.

Seen while modelling: `apply --confirm` while the run of the timer is in progress reads that run's marker as the
marker of a crash (`bin/nodeguard-feeds:336`) and takes over a live foreign entry that equals a desired network,
where `feed-loading/spec.md:56-57` has adoption after a crash only.  `AdoptionEarned` and `ForeignSpared`
name that case.

No liveness is claimed: a run ends or is killed after 30 minutes, and its entries expire by themselves.

### Responder: alerts, the journal and the caps

`Responder` models the event loop of `bin/nodeguard-responder` from the allow gate on, for alerts that
passed the gates that keep no state.  The loop never reads the block map, so the map is kept only as a
history of the blocks that succeeded.

| State | In the code |
|---|---|
| `disk`, `stamped` | `blocks.json`: offense count and what is left of `blocked_until` per source; whether its `_meta` names this boot |
| `boot` | whether `Journal.boot` could be read when the process started |
| `rec`, `dirty`, `flush_age` | `Journal.data`, `dirty`, the time since `last_flush` |
| `allow`, `cache`, `cache_age` | the allow maps, and `AllowCache` |
| `minute`, `hour` | the ages in `EventState.minute` and `hour_seen` |
| `enforce` | `EventState.enforce` |
| `pc`, `src`, `ttl` | where `handle_event` is around the block command, and for whom |
| `real`, `here`, `tried`, `again`, `allow_age` | history only: blocks since the source was pruned, windows opened in this boot, the age of the last attempt at each source, whether another came within the hour before it, how long a source has been allowed |

An alert ends as `SkipProtected`, `AllowUnknown` (the dump failed), `Sighting`, `Suppress` (a cap holds),
`Shadow` (dry-run) or `Act`, each with the refresh of the cache and the flush that the code makes on the
way.  The block command runs outside the process, so `Act`, `Block` or `BlockFails`, and `RecordOffense` are
steps between which the clock, operators and signals come.  `Loop` is a line of another kind or the idle
sentinel; `IdleFails` is a write that fails while there is no line, which no handler catches.  `Die` is
the end of the process, with or without the last flush of `main`; `Stop`, `StopFails`, `StopInBlock`, `Kill` and
`Reboot` differ in what they lose.  `Start` loads the journal, without its windows where it or the process
cannot tell the boot; `StartAfresh` is a journal that does not parse, which is put aside with all counts.  The prune
after 30 days may take any source whose window is over; a write that
fails during a prune is left out: memory and file then differ until the next prune or restart.

Times are kept as what is left of a window, or as an age up to the limit it is compared with, so the clock
needs no bound.

Properties:

* `EscalationKept`: the count that doubles the next block is never above the number of blocks (shadow
  windows, repeats, refused and capped attempts do not count), and below it by at most one per kill, failed
  block or failed write, on disk and in memory, through every restart; after a journal that did not parse the
  blocks count from there on.
* `WindowsOfThisBoot`: a window for which alerts are taken as sightings was opened in this boot.
* `HourCap`: one process attempts at most `RateHour` sources in any hour, in dry-run too, not counting those that
  were attempted again within the hour.  The cap by the minute is the guard itself, so it is no property.
* `AllowHonoured`: no attempt on a source that has been allowed for longer than the cache may be old.
* `PendingWritten`: what is pending does not stay so, even when alerts never pause (the wait for the write is not
  put off by further changes), and it ceases to be pending by being in the file, unless a kill or a failing write
  takes it.

Fairness.  The clock advances, the loop gets a line or the idle sentinel every half second, and
the block command ends.  Alerts, operators, faults and starts are not fair.

Seen while modelling: `control-plane-hardening/spec.md:108-112` promises that a crash right after a block
never loses escalation; between the return of the block command and the write the count can lose one, and a
write that fails there is not marked as pending.  `EscalationKept` charges both to a fault.  The rate
history starts again with the process, so `HourCap` is about one process.
And `hour_seen` keeps a source from its first attempt only (`nodeguard-responder:584`): with a TTL below the hour, a
block that failed or dry-run, a source is attempted again while it counts, and leaves the count an hour after the
first; another takes its place while the last attempt is of this hour, so an hour sees more sources than
`alert-to-block-response/spec.md:69` allows.  `HourCap` excepts exactly those attempted again.

### Dispatcher: attach, detach and reload

`Dispatcher` models the three scripts as sequences of calls, beside each other: systemd runs one attach at
a time, everybody else runs the others at any moment.  Every call may fail and every script may be killed.

| State | In the code |
|---|---|
| `member` | our programs in the libxdp dispatcher of the interface |
| `sound` | the programs whose maps are the pinned ones |
| `recorded` | `prog_id` and `expected_prog_id` in `/run/nodeguard`, written together |
| `pc`, `run` | where each script is; its listing, what is left of it, the program it chose, its exit code |
| `disturbed`, `doubted`, `slipped` (in `run`) | history only: something it relies on was changed by another; it took a sound program for an unsound one; an unload failed |

Attach is `Start`, `List`, `Check` of each member (`Reject` unloads an unsound one), then `Record`, or `Load`,
`Relist`, `Verify`, `Record` or `Abandon`.  Reload is the same from `List` to `Load` to `Verify`, then `Retire` for
each old member and `Record`.  Detach is `List`, `Unload` for each id with `Recheck` where that failed, `Detached`.
`Identity` is `ng_verify_map_identity`, whose every failure reads as "not the pinned maps".  `LosePins` is what
makes a program unsound: its pins are removed and created again.  `ended` is an exit code 0 that the caller has not
looked at yet.

* `Hitless`: no step of a reload, and of no failure of one, takes the last program that enforces the pinned maps
  out of the dispatcher, nor does a step of an attach, unless another script interferes or a failing call made the
  script itself take a sound program for an unsound one.
* `Settled`: what exit 0 says is so, whatever failed before and whatever an earlier run left attached and unrecorded.

Seen while modelling.  The scripts take no lock, and two overlapping reloads can empty the dispatcher: the first
finds two new members in its listing, takes the last for its own and unloads it, although the second has verified it
and goes on to unload the old ones.  The order in which the two write `prog_id` may also leave the id of a program that is gone.
Reload reads a failed listing as "not attached" (`nodeguard-reload:16`), and ignores an old member that it
could not unload; a `bpftool` call that fails makes attach unload a sound program.

### AllowMaps: what may never be blocked

`AllowMaps` models `bin/nodeguard-maps`, which systemd runs at boot and every hour, one at a time: `create-maps` map
by map (`Ensure`, `InitSwitch`), the lookups of the directives of `protected.conf` with a snapshot of
each good answer (`Lookup`, `Replace`), the canary check (`Plan`), `reconcile-allow` entry by entry (`Update`,
`Delete`), `allow.kv` (`Export`) and the port (`SetPort`).  `Cut` is a call that fails, or the end by systemd's
timeout.  Beside it, operators edit the files, toggle the kill switch, deploy an object with other maps and remove pins.

| State | In the code |
|---|---|
| `pin`, `spec` | the shape of each pinned map, and of each map in the installed spec |
| `allow`, `switch`, `port` | the contents of `allow4` and `allow6` (with the tag of each range), `config[1]`, `config[0]` |
| `static`, `conf` | `allow4.txt` and `allow6.txt`; the directives in `protected.conf` |
| `cache` | the snapshots in the allow cache, which survive a reboot |
| `kv` | `gen_fail` and `gen_stale` in `allow.kv` |
| `answered`, `behind` | history only: the last good answer of each directive; its snapshot could not be written |

The spec lists the maps in the order `allow4`, `allow6`, `config`, `stats`, where `stats` stands for every other map.

* `RemoteKept`: after a run that ended well, what a directive last answered is allowed, through any sequence
  of failed lookups, cut runs and reboots, unless its snapshot could not be written, and then `gen_fail` is set.
* `NoHole`: no step of a run uncovers an address that the run wants covered, also where a wide range takes the
  place of a narrow one, and after a run that was cut short.
* `SwitchKept` (`allowmaps_switch`, expected to fail): no run changes the kill switch of a config map that is
  there.  The map is in use from its creation and initialised at the end of `create-maps`, so an off in between
  is undone (a finding).

The refusal of a source that covers the canary is modelled; as a property it would repeat the guard.

Seen while modelling.  The port falls back to the default on a `ss` that fails once, over a good port; a
failing `ng_cfg_set 0` is not noticed.  The totals of the sweep that a reboot makes stale are removed only when
`create-maps` printed `CREATED` and ended well, so a run that fails after the last map was created leaves them
(comment at `nodeguard-maps:68-71`).

### Template: from the table to the import

`Template` models `zbx/gen-template.py`, `zbx/check_template.py` and the drift gate of `build/build.sh` over
the three copies of the template that matter: the working tree, HEAD and what Zabbix imported.  An object is
its kind and its natural key; a file gives each object a uuid and a display name.

| State | In the code |
|---|---|
| `table`, `headTable` | the rows in `gen-template.py`, in the working tree and at HEAD |
| `sanctions`, `headSanctions` | `removed-objects.txt` |
| `tree`, `headTree`, `live` | `templates/zabbix-nodeguard-template.json` in the working tree (or torn), at HEAD, as imported |
| `retired`, `slipped` | history only: lost since the import by a sanctioned commit; lost, renamed or out of step by a careless one |

`Render` with `MakeUuid` is the generator, `Gate` with one operator per check is the checker.  The maintainer edits
(`SetRow`, `DropRow`, `Sanction`), regenerates, goes back (`Checkout`), and commits by the book (regenerated and
checked against HEAD) or carelessly; `Release` is the gate of the build and the import.

* `HistoryKept`, `NamesKept`: no import deletes or renames an object but one that a sanction retired or a
  careless commit lost, even when its row went and came back in between.
* `NoResurrection`: a retired object stays out while its sanction stands.
* `UuidsDistinct`: no two objects of a template share a uuid, although some uuids are of v1 and others are minted.

Seen while modelling: `build.sh:306-309` passes the template of the same commit as the baseline, so the gate of
the build alone cannot see what a regeneration in that commit lost, where `removed-objects.txt:3-5` speaks of the
build and says that an accidental disappearance fails it.  The check is worth what the maintainer's own run of it
against HEAD is worth; the properties say so with `slipped`.

### BoardLayout and Boards: the dashboards

`BoardLayout` is the pure part of `zbx/dashboards.py` and `zbx/lib.py`: what is drawn of a snapshot of the fleet,
as sets of widgets on a grid of 72 columns, and the font sizes, in integers (pixels in 72nds of the width, pixels per size in
thousandths).  `Boards` is the runs: `Resolve` (the group), `ReadItems`, then `GetBoard` and `WriteBoard` for each
board asked for, by several operators, while hosts join, leave and lose items, boards are deleted and
calls fail (`CallFails`; a `WriteBoard` may fail after it wrote; `WriteRefused`).

| State | In the code |
|---|---|
| `members`, `lacks`, `length` | hosts of the group, items each host lacks, lengths of their last values (Zabbix) |
| `board` | the dashboards on the server, by name, as the snapshot each was built from |
| `pc`, `run` | each operator's run: its snapshot, the boards left, `--confirm`, whether the board exists |

The hosts' items are read in one step: no widget relates the items of two hosts.

* `WellLaid`: no widget leaves the grid or covers another, and every item that the hosts had is shown exactly once,
  whatever is missing, in fleets of up to 36 hosts.
* `ValuesReadable`: the chosen font size lets the longest value fit its tile, or is the smallest.
* `OneRun`: after a confirmed run that ended well and undisturbed, each board asked for shows the fleet as it is.

Seen while modelling: `--attack-map-url` is accepted and used by no builder; the comment at `dashboards.py:163-167`
says that every numeric tile is coloured, but those of `top1_hits` and `resp_last_*` have no threshold; beyond 72 hosts (36
for the leaderboards) a column has no width.

## The runs

| Run | Instance | Shows |
|---|---|---|
| `ngmap_safety` | two blocks, one sweep; a network, a host in it, a never-block range and a network around it; three ticks, one hit | `TypeOK`, `LossConfined`, `CoverAnswers`, `NeverBlockSpared`, the refinement `Lease` |
| `ngmap_live` | one block, one sweep, one operator, both families, lookups that fail unseen, one fault, fair | `Lease`, `OnlyCorpsesCollected`, `CorpsesGo`, `BlockEnds` |
| `watchdog_fair` | one operator, thresholds 1, 1, 2, 2, one fault, fair | `TypeOK`, `OncePerBoot`, `RearmEarned`, `TroubleOpens`, `OutageDetaches`, `WellRearms` |
| `watchdog_manual` (violation) | one operator, no fault | `ManualOffKept` |
| `feeds_safety` | two processes, two feeds, two nested networks (the outer alone once processes have met or something failed), two runs, one fault | `TypeOK`, `Accounted`, `WithdrawnClean`, `AdoptionEarned`, `WithdrawalWarranted`, `ForeignSpared` |
| `feeds_crash` (violation) | one process, one fault | `CrashRecovered` |
| `responder_fair` | two sources, windows of one and two ticks, one attempt a minute (one tick), one source an hour (two ticks), two blocks each, one fault, fair | `TypeOK`, `EscalationKept`, `WindowsOfThisBoot`, `HourCap`, `AllowHonoured`, `PendingWritten` |
| `template_safety` | five objects: an item of v1 with its trigger, an undocumented item, a rule with a prototype named like the trigger; two names, four edits | `TypeOK`, `UuidsDistinct`, `HistoryKept`, `NamesKept`, `NoResurrection` |
| `boards_safety` | fleets around one and eight hosts, two of which change; two operators, one change, two runs, one fault | `OneRun`, `WellLaid`, `ValuesReadable` |
| `allowmaps_safety` | four ranges (nested, IPv6, one with the canary), two directives, two changes, three runs, two faults | `RemoteKept`, `NoHole` |
| `allowmaps_switch` (violation) | the same | `SwitchKept` |
| `dispatcher_safety` | two scripts at a time, four runs, four programs, three faults | `Settled`, `Hitless` |

Bounds.  `MaxClock`, `MaxHits`, `MaxFaults`, `MaxRuns`, `MaxStamp`, `MaxBlocks`, `MaxEdits`, `MaxChanges` and
`MaxPrograms` are the only ones, with `OneOrTwo` in `MCFeeds`.
In `NgMap` three ticks let an entry be written, expire and be written again while a sweep holds an old
dump; two block commands are the smallest number that can race for a key (`ngmap_live` has one, so that a fault can
meet every step of it), and the ranges are chosen so that nesting, the refusal by containment and the too-broad prefix all happen.  In `Watchdog` two clean
cycles for a re-arm tell "enough" from "any"; the other thresholds are as low as the liveness graph needs them, and one
fault is what a second re-arm of a boot costs.  In `Feeds` two runs
are what it takes to refresh, hand over, withdraw, overlap, or adopt after a fault (the journal may start with this
boot's id); the constraint `OneOrTwo` takes the inner network out of use once two processes have met or something has
failed, so that purges and nested networks are explored for runs in sequence, and overlaps and faults for one network
that two feeds list.  The theorems need neither.
In `Responder` two blocks of a source are needed for an escalated window, a second source for the cap on
sources, and an hour longer than a minute for a source to be held by one cap and not the other and to be attempted
again in it.
In `Template` four edits let a row go with its sanction, and come back once the sanction is gone; commits,
regenerations and imports are not bounded.  In `Boards` eight hosts fill four rows of gauges and give every kind of
tile its neighbours, and a host in the first and in the middle of the order may come and go; layout is a function of
what one run read, so larger fleets add no interleaving.  In `AllowMaps` three runs are what it takes for a snapshot
to be made, missed and served, and two faults allow a failed lookup after a reboot or after a failed write.
In `Dispatcher` two scripts suffice, because what a third does is for one script the same disturbance as what the
second does; four runs let a detach follow two failed reloads, and the proofs need none of these bounds.

## Findings

* *A crash that is not recovered* (`feeds_crash`).  The marker is saved before the new boot id: in the first run
  of a boot it goes to disk with the old one, and a death after a write does not arm adoption.  The
  orphaned entries are skipped as foreign until they expire.
* *A manual off undone by the watchdog* (`watchdog_manual`).  The re-arm tests the markers first and then runs
  `nodeguard-on`, which removes a `manual_off` that came in between and clears the switch.
* *A manual off undone by the creation of the maps* (`allowmaps_switch`).  `create-maps` writes 0 into the switch of
  a new config map some calls after the map is there, over an off that was read back and reported.

## What is proved

`NgMapProofs`, `WatchdogProofs`, `TemplateProofs`, `DispatcherProofs`, `AllowMapsProofs`, `ResponderProofs`,
`FeedsProofs` and `BoardsProofs` prove, with TLAPS and for every value of the constants allowed by the named
assumptions, what the safety runs check on small instances.

`NgMapProofs`: `TypeCorrect`; `MapInvariant`, that `MapInv` is inductive, with one step per action; from it
`NeverBlockRespected`, `HitLossConfined`, `CoverComplete`, `CollectedOnlyExpired`, and `LeaseImplemented`,
the refinement of `BlockTable`, whether or not lookups fail silently.
`LockInv` is what makes the rest inductive: a value read under the lock is still there because whoever could
change it would have to hold the lock too, except unblock, flush and the kernel, which can only remove the
entry or add a hit; each part of `MapInv` is weakened by exactly those.  `NeverBlockSpared` needs
`NestingAssumption`: two networks that overlap are nested, so testing the base address and the ranges
inside is enough.

`WatchdogProofs`: `TypeCorrect`; `Invariant`, that `WatchdogInv` is inductive; from it `RearmsBounded`,
`OnceWithoutFaults`, `RearmsEarned`.  `OncePerBoot` is not inductive: that a re-arm
under way found the flag at 0, and that re-arms without flag are paid for by faults, are the two facts
`RearmInv` adds.  `RearmEarned` needs `StreakInv`: the clean counter never runs ahead of the history of clean cycles, because
the cycle that decides on a soft-off has just written 0 to it.

`TemplateProofs`: `TypeCorrect`, `NoUuidTwice`, `HistorySafe`, `NamesSafe`, `RetiredStaysOut`, and
`RegenerationStable`, that regenerating twice changes nothing more.  Each rests on one part of an invariant
that relates two of the three copies of the template: whatever HEAD lost of the last import is sanctioned or
slipped in (`LostInv`, `NameInv`), every uuid is one that only its object can have (`OwnInv`, from
`ObjAssumption` and `LegacyAssumption`: `Mint` is injective and no uuid of v1 is minted), and what HEAD emits without a row was
imported before or slipped in (`StaleInv`).

`DispatcherProofs`: `KnownWhileUndisturbed`, the inductive invariant; `ExitMeansIt` (`Settled`); `ReloadHitless`
(`Hitless`); for any number of scripts, programs, runs and faults.  The invariant says what a script knows
at each of its labels as long as nobody disturbs it: which members it has sifted (`Sifted`), that its program is new,
enforcing and, but for the old members, alone (`Loaded`), which members a detach has left (`Emptied`).  A step of
another script either leaves all that alone or sets `disturbed` (lemma `Beside`), so each action
is proved for its own script only (`OwnStep`).

`AllowMapsProofs`: `AllowInvariant`; `RemoteStays` (`RemoteKept`) and `NoHoleEver` (`NoHole`).  `RemoteKept` is a chain: a snapshot is the last answer or its directive is behind
(`SnapshotInv`), so what a run has asked is in what it generated, then in what it wants (`AnswerInv`), and what it
wants is in the map once the updates of the family are through (`TagInv`).  The same `TagInv` makes a delete
harmless for `NoHole`, which needs `FamilyAssumption`: ranges that share an address are of one family, since
reconcile goes family by family.  `PinInv`, that entries and a set switch are in pinned maps only, tells the steps
in which maps vanish from the others.  `LabelAssumption` keeps the names of directives apart from the labels.

`ResponderProofs`: `TypeCorrect`; `ResponderInvariant`; `EscalationHolds` (`EscalationKept`), `WindowsHold`
(`WindowsOfThisBoot`), `HourHolds` (`HourCap`) and `AllowRespected` (`AllowHonoured`); from `TimeAssumption`,
`RateAssumption` and `BoundAssumption`.  Escalation is a statement about two copies of a count, in memory and in
the file, and a history: each copy is behind the history by at most one block per fault, and while a block is in
flight (`Unrecorded`) the history is ahead by that block too (`CountInv`).  The cap of an hour needs that no
source counts from later than its last attempt, and that one attempted once in the hour counts from it (`RateInv`).
The allow list needs that a source allowed for longer than the snapshot is old is in the snapshot (`AgeInv`).

`FeedsProofs`: `TypeCorrect`; `FeedsInvariant`; `AdoptionOnlyEarned` (`AdoptionEarned`), `AccountedFor`
(`Accounted`), `WithdrawalClean` (`WithdrawnClean`), `ForeignSafe` (`ForeignSpared`) and `WithdrawalsWarranted`
(`WithdrawalWarranted`); from `KeyAssumption`, `FeedAssumption` and `LoaderAssumption`.  The invariant has a part for
each reason a step of a loader is right: its memory fits its label, its rows carry a date and what it is about to
drop it may drop (`LocalInv`); what a lookup found under the lock is still there, unless an unblock, which takes
no feed lock, removed it (`SeenInv`); a marker of this boot is that of a run under way, of a dead one, or of one that
another overlapped (`MarkInv`); and without faults and overlap the one process there is has rows that match
the map, and a withdrawal still has every row it has to drop (`CalmInv`).

`BoardsProofs`: `BoardsInvariant`, `OneRunHolds` (`OneRun`) and `ValuesStayReadable` (`ValuesReadable`), from
`FleetAssumption` only, and `FleetWellLaid` (`WellLaid`) for at most 36 hosts.  A run that was left alone has the group, then the fleet; a board it was asked for is still
in its plan or shows the fleet (`Knows`).  `InOrderOf`, that the sequence of the hosts lists each host of a finite
group once, is what makes the snapshot of the hosts it resolved the snapshot of the group.  `SizeOf` is
the arithmetic of `value_size_for`: the quotient that is rounded down leaves a tenth of the room, and the next
size does not; it holds for every width, also for the tiles of width 0 of a very large fleet.

`WellLaid` is proved by boxes.  `Boxed` says that a set of widgets lies in a rectangle and that no two of them
overlap; boxes are put below each other (`Under`, `Rows`) or side by side (`Right`, `Columns`), so each board needs
only the boxes of its parts and one sum.  That every item is shown once is a bijection between the widgets
and what they show (`Shows`): a part is injective because the hosts of a snapshot are (`ListedOnce`) and no field is
listed twice, and the parts of a board show fields that are apart.  The bound is exact: with 37 hosts a column of
the security board has a width of 1 and its left half (`colw // 2`) a width of 0, which the grid does not have.

Model-checked only: the liveness properties (`CorpsesGo`, `BlockEnds`, `TroubleOpens`, `OutageDetaches`,
`WellRearms`, `PendingWritten`), which rest on fairness and `ENABLED`.
`CrashRecovered`, `ManualOffKept` and `SwitchKept` are violated (see
Findings), so there is nothing to prove.

## Not modelled

* The kernel program's parsing, the port exemption and the sanity counters; BPF verification, maps as kernel
  objects, and memory ordering inside a map update.
* The anomaly detector of the watchdog (its baseline after a counter that went backwards) and its refresh of the port.
* The mapstat cache that a sweep writes, the metrics files, logs and diffs.
* The contents of feeds: parsing, record counts, staleness clocks, coverage and churn arithmetic are free
  choices of `Fetch` and `Plan`.
* The responder's gates that look at one alert only, `sids.conf`, its telemetry file, and how it follows the log.
* Template: the expressions of triggers and calculated items, units and descriptions; what Zabbix makes of an
  import is external.  Boards: captions, colours, thresholds, the series of graphs, header budgets, description
  sizes and the export of the legacy board.
* `AllowMaps`: the address of the WAN has no snapshot and is a free choice; the canary address is not edited.
* `nodeguard-status`, `nodeguard-geo`: read-only.  `nodeguard-canary`: a report over the allow sources.
* `deploy/` and the rest of `build/`: sequential administration scripts without state at run time.

## Plan

In this order:

1. The anomaly detector as part of `Watchdog`, and the responder's reading of the log.
2. The decision of the filter over packets and maps against a reference definition, with the theorem that they
   agree.

`Watchdog` and `Dispatcher` share the attach state and may be composed, now that both are proved.
