------------------------------ MODULE CrowdModel ------------------------------
(***************************************************************************)
(* src/crowd_model.cpp: hourly ridership becomes a load per stop and hour, *)
(* and the load, sampled at each departure, the second cost of every edge  *)
(* of a built graph.  A load is left as the sum over the days seen, whose  *)
(* number cancels against the peak; an interpolated load is left times     *)
(* SECONDS_PER_HOUR.                                                       *)
(***************************************************************************)
EXTENDS Feed

CONSTANTS
  HOURS_PER_DAY, SECONDS_PER_HOUR,   \* 24 and 3600
  ridership_name,                    \* [Stop -> its name, normalised]
  aliases                            \* [some ridership names -> name]

ASSUME HoursAssumption ==
  HOURS_PER_DAY \in Nat \ {0} /\ SECONDS_PER_HOUR \in Nat \ {0} /\ SECONDS_PER_HOUR % 2 = 0

Hour == 0 .. HOURS_PER_DAY - 1

(* A row of the ridership file: date, station and what std::stol made of   *)
(* the hour and the riders, Unreadable when one of them threw.             *)
RidershipRow(date, station, hour, riders) ==
  [date |-> date, station |-> station, hour |-> hour, riders |-> riders]
Unreadable == -1000

NodesNamed(station) ==
  LET name == IF station \in DOMAIN aliases THEN aliases[station] ELSE station
  IN  {p \in Stop : ridership_name[p] = name}

RowCounted(surf, row) ==
  LET read == [surf EXCEPT !.rows_read = @ + 1, !.dates = @ \cup {row.date}]
      nodes == NodesNamed(row.station)
  IN  IF nodes = {}
      THEN [read EXCEPT !.rows_unmatched = @ + 1, !.unmatched_names = @ \cup {row.station}]
      ELSE IF row.hour = Unreadable \/ row.riders = Unreadable
      THEN [read EXCEPT !.rows_unmatched = @ + 1]
      ELSE IF row.hour \notin Hour \/ row.riders < 0 THEN read
      ELSE [read EXCEPT !.load = [p \in Stop |-> [h \in Hour |->
                                    IF p \in nodes /\ h = row.hour THEN @[p][h] + row.riders
                                    ELSE @[p][h]]],
                        !.matched = @ \cup nodes]

load_hourly_ridership_csv(rows) ==
  FoldLeft(RowCounted,
           [num_stops |-> NumStops, load |-> [p \in Stop |-> [h \in Hour |-> 0]], dates |-> {},
            rows_read |-> 0, rows_unmatched |-> 0, unmatched_names |-> {}, matched |-> {}],
           rows)

unmatched_gtfs_stops(surf) == {ridership_name[p] : p \in Stop \ surf.matched}

peak(surf) == Max({0} \cup {surf.load[p][h] : p \in Stop, h \in Hour})

-----------------------------------------------------------------------------
(* The load at a second of the day, times SECONDS_PER_HOUR: the hours' own *)
(* values, or the line between the centres of two hours, the last and the  *)
(* first one included.  (Mutant: no line across midnight.)                 *)
NotAcrossMidnight(lo) == IF lo = HOURS_PER_DAY - 1 THEN lo ELSE lo + 1
HourAfter(lo) == (lo + 1) % HOURS_PER_DAY

sample_load(surf, node, t, interpolate) ==
  LET second == t % (HOURS_PER_DAY * SECONDS_PER_HOUR)
      x == second - SECONDS_PER_HOUR \div 2
      lo == (x \div SECONDS_PER_HOUR) % HOURS_PER_DAY
      past == x % SECONDS_PER_HOUR
      a == surf.load[node][lo]
      b == surf.load[node][HourAfter(lo)]
  IN  IF interpolate THEN a * SECONDS_PER_HOUR + (b - a) * past
      ELSE surf.load[node][second \div SECONDS_PER_HOUR] * SECONDS_PER_HOUR

(* load * scale / peak, rounded to the nearest.                            *)
WeightAt(surf, cfg, u, t) ==
  LET whole == SECONDS_PER_HOUR * peak(surf)
  IN  (2 * sample_load(surf, u, t, cfg.interpolate) * cfg.scale + whole) \div (2 * whole)

(* What apply_hourly_crowd refuses before it has touched an edge.          *)
CrowdRefused(g, surf) ==
  \/ g.second_objective # "CrowdExposure"
  \/ surf.num_stops # NumStops
  \/ peak(surf) <= 0

Reweighted(g, surf, cfg) ==
  [g EXCEPT !.edges = [u \in Stop |->
     [i \in DOMAIN g.edges[u] |->
        [g.edges[u][i] EXCEPT !.secondary_weight =
           WeightAt(surf, cfg, u, g.edges[u][i].departure_time)]]]]

(* The falls of the weight between consecutive departures of one link,     *)
(* each << how much, over how long >>.  (Mutant: between consecutive       *)
(* departures of the node.)                                                *)
FollowsAtNode(es, i, j) == j = i + 1 /\ es[i].destination = es[j].destination
Follows(es, i, j) ==
  /\ i < j /\ es[i].destination = es[j].destination
  /\ \A k \in i + 1 .. j - 1 : es[k].destination # es[i].destination

Fall(e, later) ==
  << e.secondary_weight - later.secondary_weight, later.departure_time - e.departure_time >>
IsFall(s) == s[1] > 0 /\ s[2] > 0

Falls(g) ==
  UNION {LET es == g.edges[u]
         IN  {s \in {Fall(es[ij[1]], es[ij[2]]) :
                       ij \in {p \in (DOMAIN es) \X (DOMAIN es) : Follows(es, p[1], p[2])}} :
                IsFall(s)} : u \in Stop}

NoSteeper(s, r) == s[1] * r[2] <= r[1] * s[2]
max_negative_slope(g) ==
  LET falls == Falls(g)
  IN  IF falls = {} THEN << 0, 1 >>
      ELSE CHOOSE r \in falls : \A s \in falls : NoSteeper(s, r)

CrowdApplyReport(g, surf) ==
  [edges_rewritten |-> FoldSet(LAMBDA u, n : n + Len(g.edges[u]), 0, Stop),
   edges_from_unmatched_stop |->
     FoldSet(LAMBDA u, n : n + Len(g.edges[u]), 0,
             {u \in Stop : \A h \in Hour : surf.load[u][h] <= 0}),
   max_weight |-> Max({0} \cup UNION {{e.secondary_weight : e \in Range(g.edges[u])} : u \in Stop}),
   max_negative_slope |-> max_negative_slope(g),
   fifo_bound_holds |-> NoSteeper(max_negative_slope(g), << 1, 1 >>)]
=============================================================================
