----------------------------- MODULE MCTemplate -----------------------------
(* An item of v1 with its trigger, an item outside the kv surface, and a *)
(* discovery rule whose prototype has the name of the trigger.           *)
EXTENDS Template, TLC

CONSTANTS v1, v2

item == [kind |-> "item", key |-> "blocks"]
trigger == [kind |-> "trigger", key |-> "stale"]
stray == [kind |-> "item", key |-> "stray"]
rule == [kind |-> "discovery_rule", key |-> "feeds"]
prototype == [kind |-> "trigger_prototype", key |-> "stale"]

MCObj == {item, trigger, stray, rule, prototype}
MCOwner == [o \in MCObj |-> CASE o = trigger -> item [] o = prototype -> rule [] OTHER -> o]
MCLegacy == item :> v1 @@ trigger :> v2
MCSurface == MCObj \ {stray}
=============================================================================
