---------------------------- MODULE BoardLayout ----------------------------
(***************************************************************************)
(* The three dashboards that zbx/dashboards.py builds from the fleet, as    *)
(* sets of widgets on a grid of 72 columns, and the font sizes of          *)
(* zbx/lib.py, in integer arithmetic.                                      *)
(*                                                                         *)
(* A snapshot is what one run read: the sequence of hosts, the fields that *)
(* each host lacks, and the length of its last values.  Captions, colours, *)
(* thresholds and the series of a graph are left out.                      *)
(***************************************************************************)
EXTENDS Integers, Sequences, FiniteSets

GRID_COLUMNS == 72
GAUGES_PER_ROW == 4

Least(a, b) == IF a < b THEN a ELSE b
Greatest(a, b) == IF a > b THEN a ELSE b

Widget(type, x, y, w, h, of) ==
  [type |-> type, x |-> x, y |-> y, w |-> w, h |-> h, of |-> of]

(* n columns of equal width. *)
SplitColumns(n, total) ==
  [i \in 1..n |-> [x |-> (i - 1) * (total \div n), w |-> total \div n]]
-----------------------------------------------------------------------------
OverviewTiles == <<"attach_state", "killswitch", "prog_match", "blocks", "responder",
                   "anomaly_count">>
SecurityTiles == <<"resp_last_alert_ts", "resp_last_action_ts", "wd_canary_fail",
                   "top1_hits">>
TopBlocked == <<"top_blocked_1", "top_blocked_2", "top_blocked_3", "top_blocked_4",
                "top_blocked_5">>
TopCountries == <<"geo_country_1", "geo_country_2", "geo_country_3", "geo_country_4",
                  "geo_country_5">>
Gauges == <<"util_v4_pct", "util_v6_pct">>
CapacityTilesA == <<"feeds_enforce", "feeds_approved", "feeds_entries", "feeds_failed",
                    "feeds_map_errors", "feeds_churn_held">>
CapacityTilesB == <<"feeds_journal_reset", "rearm_count", "wd_lifeline_fail", "sweep_age">>

Fields(tiles) == {tiles[i] : i \in DOMAIN tiles}
(* The fields that each host has a widget for. *)
FieldsOf(b) ==
  CASE b = "overview" -> Fields(OverviewTiles)
    [] b = "security" -> Fields(SecurityTiles) \cup Fields(TopBlocked) \cup Fields(TopCountries)
    [] b = "capacity" -> Fields(Gauges) \cup Fields(CapacityTilesA) \cup Fields(CapacityTilesB)
Board == {"overview", "security", "capacity"}
Field == UNION {FieldsOf(b) : b \in Board}

(* The item a builder asks for, unless the host lacks it; then its place *)
(* stays empty and a warning names it.                                   *)
Resolved(c, i, field) == field \notin c.lacks[c.fleet[i]]

Hosts(c) == DOMAIN c.fleet
-----------------------------------------------------------------------------
(* Font sizes.  Pixels are in 72nds, pixels per unit of size in thousandths. *)

PX_PER_SIZE(h) == CASE h = 2 -> 675 [] h = 3 -> 1290 [] h = 5 -> 2336
Usable(w) == Greatest(72, 1396 * w - 40 * 72)

Text == {"attach_state", "responder"} \cup Fields(TopBlocked) \cup Fields(TopCountries)
Float == Fields(Gauges)
Decimals(field) == IF field \in Float THEN 1 ELSE 0

(* What the frontend draws: dates and spans have a fixed length, long *)
(* numbers are abbreviated, and an item may have no value yet.        *)
RenderedChars(field, length) ==
  CASE field \in {"resp_last_alert_ts", "resp_last_action_ts"} -> 22
    [] field = "sweep_age" -> 10
    [] OTHER ->
         IF length = 0 THEN 12
         ELSE (IF field \in Text THEN length ELSE Least(length, 8))
              + (IF Decimals(field) > 0 THEN 1 + Decimals(field) ELSE 0)
              + (IF field \in Float THEN 2 ELSE 0)

(* Variant: the size of a narrow tile for every width. *)
ValueSizeOfAny(chars, w, h) ==
  Greatest(8, Least(45, (Usable(12) * 6250) \div (31 * Greatest(10, 12 * chars) * PX_PER_SIZE(h))))

(* 0.9 of the room, for a string a fifth longer than it is, at 0.62 of the *)
(* size a character; between 8 and 45.                                     *)
ValueSize(chars, w, h) ==
  Greatest(8, Least(45, (Usable(w) * 6250) \div (31 * Greatest(10, 12 * chars) * PX_PER_SIZE(h))))

(* chars, and a fifth more, at size s take at most the room of the widget. *)
Fits(chars, s, w, h) == 837 * PX_PER_SIZE(h) * s * chars <= 15625 * Usable(w)
(* The same within 0.9 of the room. *)
FitsWell(chars, s, w, h) == 930 * PX_PER_SIZE(h) * s * chars <= 15625 * Usable(w)
-----------------------------------------------------------------------------
(* One tile for each field a host has, from the left. *)
TileRow(c, i, y, tiles, w, h) ==
  {Widget("item", (k - 1) * w, y, w, h, <<c.fleet[i], tiles[k]>>) :
     k \in {k \in DOMAIN tiles : Resolved(c, i, tiles[k])}}

(* Variant: the last rank is left out. *)
LeaderboardShort(c, i, x, y, w, ranks) ==
  {Widget("item", x, y + (k - 1) * 2, w, 2, <<c.fleet[i], ranks[k]>>) :
     k \in {k \in 1..Len(ranks) - 1 : Resolved(c, i, ranks[k])}}

(* Ranked tiles, one below the other. *)
Leaderboard(c, i, x, y, w, ranks) ==
  {Widget("item", x, y + (k - 1) * 2, w, 2, <<c.fleet[i], ranks[k]>>) :
     k \in {k \in DOMAIN ranks : Resolved(c, i, ranks[k])}}

(* Graphs of half the width, two in a row. *)
Graphs(n, y) ==
  {Widget("svggraph", (k % 2) * 36, y + (k \div 2) * 7, 36, 7, <<k, "graph">>) : k \in 0..n - 1}
Below(n) == ((n + 1) \div 2) * 7

(* One widget for each host, side by side. *)
PerHost(c, type, y, h) ==
  LET column == SplitColumns(Len(c.fleet), GRID_COLUMNS)
  IN {Widget(type, column[i].x, y, column[i].w, h, <<c.fleet[i], type>>) : i \in Hosts(c)}

Legend == Widget("url", 0, 0, 72, 3, <<0, "legend">>)

BuildOverview(c) ==
  LET y == 3 + 3 * Len(c.fleet)
  IN {Legend}
     \cup (UNION {TileRow(c, i, 3 * i, OverviewTiles, 12, 3) : i \in Hosts(c)})
     \cup Graphs(6, y)
     \cup PerHost(c, "piechart", y + Below(6), 7)

BuildSecurity(c) ==
  LET y == 18 + 3 * Len(c.fleet)
      column == GRID_COLUMNS \div Greatest(1, Len(c.fleet))
      half == column \div 2
  IN {Legend, Widget("svggraph", 0, 10, 72, 8, <<2, "graph">>)}
     \cup Graphs(2, 3)
     \cup (UNION {TileRow(c, i, 15 + 3 * i, SecurityTiles, 18, 3) : i \in Hosts(c)})
     \cup (UNION {Leaderboard(c, i, (i - 1) * column, y, half, TopBlocked) : i \in Hosts(c)})
     \cup (UNION {Leaderboard(c, i, (i - 1) * column + half, y, column - half, TopCountries) :
                   i \in Hosts(c)})

(* Variant: all in the first row. *)
DialsInOneRow(c) ==
  LET n == 2 * Len(c.fleet)
      slot == SplitColumns(Least(GAUGES_PER_ROW, n), GRID_COLUMNS - 24)
  IN {Widget("gauge", slot[1 + (d % GAUGES_PER_ROW)].x, 3,
             slot[1 + (d % GAUGES_PER_ROW)].w, 5, <<c.fleet[1 + (d \div 2)], Gauges[1 + (d % 2)]>>) :
        d \in {d \in 0..n - 1 : Resolved(c, 1 + (d \div 2), Gauges[1 + (d % 2)])}}

(* The dials, two for each host, four in a row. *)
Dials(c) ==
  LET n == 2 * Len(c.fleet)
      slot == SplitColumns(Least(GAUGES_PER_ROW, n), GRID_COLUMNS - 24)
  IN {Widget("gauge", slot[1 + (d % GAUGES_PER_ROW)].x, 3 + (d \div GAUGES_PER_ROW) * 5,
             slot[1 + (d % GAUGES_PER_ROW)].w, 5, <<c.fleet[1 + (d \div 2)], Gauges[1 + (d % 2)]>>) :
        d \in {d \in 0..n - 1 : Resolved(c, 1 + (d \div 2), Gauges[1 + (d % 2)])}}

BuildCapacity(c) ==
  LET comb == 3 + 5 * ((2 * Len(c.fleet) + GAUGES_PER_ROW - 1) \div GAUGES_PER_ROW)
      y == comb + 5 + Below(3)
  IN {Legend, Widget("svggraph", 48, 3, 24, 5, <<3, "graph">>)}
     \cup Dials(c)
     \cup PerHost(c, "honeycomb", comb, 5)
     \cup Graphs(3, comb + 5)
     \cup (UNION {TileRow(c, i, y + 6 * (i - 1), CapacityTilesA, 12, 3) : i \in Hosts(c)})
     \cup (UNION {TileRow(c, i, y + 6 * (i - 1) + 3, CapacityTilesB, 12, 3) : i \in Hosts(c)})

Build(b, c) == CASE b = "overview" -> BuildOverview(c)
                 [] b = "security" -> BuildSecurity(c)
                 [] b = "capacity" -> BuildCapacity(c)
-----------------------------------------------------------------------------
InGrid(v) == v.x >= 0 /\ v.y >= 0 /\ v.w > 0 /\ v.x + v.w <= GRID_COLUMNS

Overlap(v, u) ==
  /\ v.y < u.y + u.h /\ u.y < v.y + v.h
  /\ v.x < u.x + u.w /\ u.x < v.x + v.w

(* Every widget is on the grid and covers no other. *)
Tiled(widgets) ==
  /\ \A v \in widgets : InGrid(v)
  /\ \A v \in widgets : \A u \in widgets : Overlap(v, u) => v = u

(* Each host has one widget for each field it has, and none for another. *)
ShowsFleet(b, c, widgets) ==
  LET shown == {v \in widgets : v.type \in {"item", "gauge"}}
      had == UNION {{<<c.fleet[i], f>> : f \in FieldsOf(b) \ c.lacks[c.fleet[i]]} : i \in Hosts(c)}
  IN /\ {v.of : v \in shown} = had
     /\ Cardinality(shown) = Cardinality(had)

(* No value that grows by up to a fifth is clipped, unless its tile is at  *)
(* the smallest size, and no size is smaller than it has to be.            *)
Readable(b, c) ==
  \A v \in Build(b, c) : v.type = "item" =>
    LET chars == RenderedChars(v.of[2], c.length[v.of[1]])
        size == ValueSize(chars, v.w, v.h)
    IN /\ size > 8 => Fits(chars, size, v.w, v.h)
       /\ size < 45 => ~FitsWell(chars, size + 1, v.w, v.h)
=============================================================================
