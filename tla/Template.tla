------------------------------ MODULE Template ------------------------------
(***************************************************************************)
(* The monitoring template from an edit of its table to the import:        *)
(* zbx/gen-template.py renders the table, carrying the uuids of the        *)
(* committed template; zbx/check_template.py compares a rendering with a   *)
(* baseline; build/build.sh runs both and a release imports the committed  *)
(* file.  Zabbix deletes an object whose uuid is gone, with its history.   *)
(*                                                                         *)
(* An object is its kind and its natural key; a template file gives each   *)
(* object its uuid and display name.  Expressions, units and descriptions  *)
(* are left out.  A commit is by the book (regenerated, and checked        *)
(* against HEAD) or careless; what a careless one loses is kept as a       *)
(* history, so that the properties say what the checks are worth.          *)
(***************************************************************************)
EXTENDS Naturals

CONSTANTS
  Obj,        \* objects: records of a kind and a key
  Owner,      \* the object whose table row declares an object: itself, an item or a rule
  Title,      \* display names of items and item prototypes
  Legacy,     \* the objects of v1, with uuids that no key yields
  Documented, \* objects with a key of the documented kv surface
  Sampled,    \* objects whose regular expression finds a value in the sample
  Absent,     \* an object that is not in a table or a file
  Torn,       \* a file that was not written to its end
  HalfLine,   \* a malformed line of the sanction file
  MaxEdits    \* bound: edits of the table and of the sanction file

Removable == {"item", "trigger", "discovery_rule", "item_prototype", "trigger_prototype"}
Kind == Removable \cup {"template_group", "template"}
(* Their display names are what the dashboards address. *)
Named == {"item", "item_prototype"}

(* Variant: the kind is left out. *)
MintOfKey(o) == <<"", o.key>>

(* The uuid of a new object: a function of its kind and key alone. *)
Mint(o) == <<o.kind, o.key>>

ASSUME ObjAssumption ==
  /\ \A o \in Obj : o = [kind |-> o.kind, key |-> o.key] /\ o.kind \in Kind
  /\ Owner \in [Obj -> Obj]
  /\ HalfLine \notin Obj
ASSUME LegacyAssumption ==
  /\ DOMAIN Legacy \subseteq Obj
  /\ \A o \in DOMAIN Legacy :
       /\ \A x \in DOMAIN Legacy : Legacy[o] = Legacy[x] => o = x
       /\ \A x \in Obj : Legacy[o] # Mint(x)
ASSUME BoundAssumption == MaxEdits \in Nat

(* A trigger, rule or group is known by its name, so it has but one. *)
Names(o) == IF o.kind \in Named THEN Title ELSE {o.key}
Uuid == {Mint(o) : o \in Obj} \cup {Legacy[o] : o \in DOMAIN Legacy}
Entry == [uuid : Uuid, name : Title \cup {o.key : o \in Obj}]
File == [Obj -> Entry \cup {Absent}]
Table == [Obj -> Title \cup {o.key : o \in Obj} \cup {Absent}]
Line == {o \in Obj : o.kind \in Removable} \cup {HalfLine}

ASSUME AbsentAssumption ==
  /\ Absent \notin Entry /\ Torn \notin File
  /\ Absent \notin Title \cup {o.key : o \in Obj}

VARIABLES
  table, sanctions, tree,              \* the generator, removed-objects.txt and the
                                       \* committed template, in the working tree
  headTable, headSanctions, headTree,  \* the same at HEAD
  live,                                \* the template last imported
  edits,
  retired,    \* history: lost by a commit that a sanction covers, since the import
  slipped     \* history: lost, renamed or left out of step by a careless commit

work == <<table, sanctions, tree>>
head == <<headTable, headSanctions, headTree>>
past == <<retired, slipped>>
vars == <<work, head, live, edits, past>>

Init ==
  /\ \E t \in Title :
       table = [o \in Obj |-> IF o \notin DOMAIN Legacy THEN Absent
                              ELSE IF o.kind \in Named THEN t ELSE o.key]
  /\ tree = [o \in Obj |-> IF table[o] = Absent THEN Absent
                           ELSE [uuid |-> Legacy[o], name |-> table[o]]]
  /\ sanctions = {}
  /\ headTable = table /\ headSanctions = sanctions /\ headTree = tree
  /\ live = tree
  /\ edits = 0 /\ retired = {} /\ slipped = {}
-----------------------------------------------------------------------------
(* The generator. *)

Emitted(file) == {o \in Obj : file[o] # Absent}

(* The uuid of the committed template, or a new one. *)
MakeUuid(base, o) == IF o \in Emitted(base) THEN base[o].uuid ELSE Mint(o)

Render(rows, base) ==
  [o \in Obj |-> IF rows[o] = Absent THEN Absent
                 ELSE [uuid |-> MakeUuid(base, o), name |-> rows[o]]]
-----------------------------------------------------------------------------
(* The checker: exp is a rendering, base the baseline it is held against. *)

CheckRegexes(exp) == \A o \in Emitted(exp) : o.kind \in Named => o \in Sampled

(* Variant: the items are forgotten. *)
CheckPrototypeNames(exp, base) ==
  \A o \in Emitted(base) \cap Emitted(exp) :
    o.kind = "item_prototype" => exp[o].name = base[o].name

CheckNames(exp, base) ==
  \A o \in Emitted(base) \cap Emitted(exp) :
    o.kind \in Named => exp[o].name = base[o].name

(* Variant: what is missing passes. *)
CheckUuidsOfKept(exp, base, removed) ==
  \A o \in Emitted(base) \cap Emitted(exp) : exp[o].uuid = base[o].uuid

CheckUuids(exp, base, removed) ==
  \A o \in Emitted(base) :
    IF o \in Emitted(exp) THEN exp[o].uuid = base[o].uuid ELSE o \in removed

(* Variant: triggers alone are looked at. *)
CheckSanctionsOfTriggers(exp, removed) ==
  {o \in removed \cap Emitted(exp) : o.kind = "trigger"} = {}

CheckSanctions(exp, removed) == removed \cap Emitted(exp) = {}

CheckKeys(exp) ==
  \A o \in Emitted(exp) :
    o.kind \in Named \cup {"discovery_rule"} => o \in Documented

(* A malformed line is an error, not a sanction. *)
LoadRemoved(lines) == HalfLine \notin lines

Gate(exp, base, lines) ==
  /\ LoadRemoved(lines)
  /\ CheckRegexes(exp)
  /\ CheckNames(exp, base)
  /\ CheckUuids(exp, base, lines)
  /\ CheckSanctions(exp, lines)
  /\ CheckKeys(exp)
-----------------------------------------------------------------------------
(* The maintainer. *)

Edit == edits < MaxEdits /\ edits' = edits + 1

(* A row comes, or gets another name. *)
SetRow(o) ==
  /\ Edit
  /\ Owner[o] = o \/ table[Owner[o]] # Absent
  /\ \E t \in Names(o) \ {table[o]} : table' = [table EXCEPT ![o] = t]
  /\ UNCHANGED <<sanctions, tree, head, live, past>>

(* A row goes, with the triggers or prototypes that hang on it. *)
DropRow(o) ==
  /\ Edit
  /\ table[o] # Absent
  /\ table' = [x \in Obj |-> IF o \in {x, Owner[x]} THEN Absent ELSE table[x]]
  /\ UNCHANGED <<sanctions, tree, head, live, past>>

(* A line of removed-objects.txt comes or goes. *)
Sanction(line) ==
  /\ Edit
  /\ sanctions' = (sanctions \ {line}) \cup ({line} \ sanctions)
  /\ UNCHANGED <<table, tree, head, live, past>>

(* gen-template.py --out over the committed file: read to the end first, *)
(* so a file that does not parse stops it, and then written in place.    *)
Regenerate ==
  /\ tree # Torn
  /\ tree' \in {Render(table, tree), Torn}
  /\ UNCHANGED <<table, sanctions, head, live, edits, past>>

(* The way back from a torn file, and from a mistake. *)
Checkout ==
  /\ tree' = headTree
  /\ UNCHANGED <<table, sanctions, head, live, edits, past>>

Lost(old, new) ==
  {o \in Emitted(old) : o \in Emitted(new) => new[o].uuid # old[o].uuid}
Renamed(old, new) ==
  {o \in Emitted(old) \cap Emitted(new) : new[o].name # old[o].name /\ o.kind \in Named}
OutOfStep == {o \in Obj : tree[o] # Render(table, tree)[o]}

CommitBook ==
  /\ tree # Torn
  /\ OutOfStep = {}
  /\ Gate(tree, headTree, sanctions)
  /\ headTable' = table /\ headSanctions' = sanctions /\ headTree' = tree
  /\ retired' = retired \cup (sanctions \cap Lost(headTree, tree))
  /\ UNCHANGED <<work, live, edits, slipped>>

CommitCareless ==
  /\ tree # Torn
  /\ headTable' = table /\ headSanctions' = sanctions /\ headTree' = tree
  /\ slipped' = slipped \cup Lost(headTree, tree) \cup Renamed(headTree, tree) \cup OutOfStep
  /\ UNCHANGED <<work, live, edits, retired>>

(* Variant: the import takes the file of the working tree. *)
ReleaseWork ==
  /\ Gate(Render(headTable, headTree), headTree, headSanctions)
  /\ live' = tree
  /\ retired' = {} /\ slipped' = {}
  /\ UNCHANGED <<work, head, edits>>

(* The drift gate of build.sh: the rendering of the commit against the *)
(* template of the same commit; then the import of that template.      *)
Release ==
  /\ Gate(Render(headTable, headTree), headTree, headSanctions)
  /\ live' = headTree
  /\ retired' = {} /\ slipped' = {}
  /\ UNCHANGED <<work, head, edits>>

Next ==
  \/ \E o \in Obj : SetRow(o) \/ DropRow(o)
  \/ \E line \in Line : Sanction(line)
  \/ Regenerate \/ Checkout
  \/ CommitBook \/ CommitCareless \/ Release

Spec == Init /\ [][Next]_vars
-----------------------------------------------------------------------------
TypeOK ==
  /\ table \in Table /\ headTable \in Table
  /\ tree \in File \cup {Torn} /\ headTree \in File /\ live \in File
  /\ sanctions \subseteq Line /\ headSanctions \subseteq Line
  /\ edits \in Nat
  /\ retired \subseteq Obj /\ slipped \subseteq Obj

Distinct(file) ==
  \A o, x \in Emitted(file) : file[o].uuid = file[x].uuid => o = x

(* No two objects of a template share a uuid, through every carry, mint, *)
(* removal and return (make_uuid): an import would merge them.           *)
UuidsDistinct == (tree # Torn => Distinct(tree)) /\ Distinct(headTree) /\ Distinct(live)

(* No import deletes an object and its history but one that a sanction has *)
(* retired or a careless commit has lost (check_uuids against HEAD), even   *)
(* when a row went and came back in between and got a new uuid.            *)
HistoryKept == [][Lost(live, live') \subseteq retired \cup slipped]_vars

(* No import renames an item or item prototype, which would empty the *)
(* graphs that address it by name (check_names), but for the same two. *)
NamesKept == [][Renamed(live, live') \subseteq retired \cup slipped]_vars

(* A retired object does not come back while its sanction stands          *)
(* (check_sanctions): the import may bring it only after a commit that   *)
(* left table and template out of step.                                  *)
NoResurrection ==
  [][\A o \in Emitted(live') \ Emitted(live) : o \in headSanctions => o \in slipped]_vars
=============================================================================
