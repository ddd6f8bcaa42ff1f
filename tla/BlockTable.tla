----------------------------- MODULE BlockTable -----------------------------
(***************************************************************************)
(* What the block map promises its users, whatever the interleaving of the *)
(* commands that write it: every entry is a lease with an expiry on the    *)
(* monotonic clock (0 means permanent) and                                 *)
(*   - an entry leaves the table only because it has expired, or because   *)
(*     an operator who asked for its removal is being served;              *)
(*   - a permanent entry is created only while a deliberate override for   *)
(*     that very network is being served, and overwritten only then or by  *)
(*     a writer that could not read what it overwrites.                    *)
(* NgMap, the lock-level model of bin/ngmap.py, implements this module.    *)
(***************************************************************************)
EXTENDS Naturals

CONSTANTS
  Net,      \* networks that can be keys of the block map
  Absent    \* the value of a key that is not in the map (no natural number)

VARIABLES
  table,    \* expiry of each network, or Absent
  now,      \* the monotonic clock
  consent,  \* networks with a deliberate override (--i-mean-it) in flight
  unread,   \* networks about to be written by a command that could not read them
  revoking  \* networks an unblock or flush in flight may remove

vars == <<table, now, consent, unread, revoking>>

Init ==
  /\ table = [n \in Net |-> Absent]
  /\ now = 1
  /\ consent = {}
  /\ unread = {}
  /\ revoking = {}

(* The table may differ after the step only at n. *)
OnlyAt(n) == \A m \in Net \ {n} : table'[m] = table[m]

(* A write: the new value is permanent only with consent, and the old one *)
(* only with consent or unread.                                           *)
Grant(n) ==
  /\ now' = now
  /\ OnlyAt(n)
  /\ table'[n] \in Nat
  /\ table'[n] = 0 => n \in consent
  /\ table[n] = 0 => n \in consent \cup unread

(* The removal of a lease that has run out. *)
Collect(n) ==
  /\ now' = now
  /\ OnlyAt(n)
  /\ table'[n] = Absent
  /\ table[n] \in Nat \ {0}
  /\ table[n] =< now

(* The removal an operator asked for. *)
Revoke(n) ==
  /\ now' = now
  /\ OnlyAt(n)
  /\ table'[n] = Absent
  /\ n \in revoking

Tick == now' > now /\ UNCHANGED table

(* Commands come and go: only the sets of requests in flight change. *)
Intend == UNCHANGED <<table, now>>

(* bpffs is empty and the clock starts again after a reboot. *)
Reboot ==
  /\ table' = [n \in Net |-> Absent]
  /\ now' = 1
  /\ consent' = {} /\ unread' = {} /\ revoking' = {}

Next ==
  \/ \E n \in Net : Grant(n) \/ Collect(n) \/ Revoke(n)
  \/ Tick
  \/ Intend
  \/ Reboot

Spec == Init /\ [][Next]_vars
=============================================================================
