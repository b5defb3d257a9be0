------------------------------ MODULE Interchange ------------------------------
(***************************************************************************)
(* src/interchange.cpp: pairs of stations close enough to walk between but *)
(* not joined, and what one added footpath does to the reachability of the *)
(* whole network.  Means over origins are left as sums: the stations, and  *)
(* with them the divisor, never change.                                    *)
(***************************************************************************)
EXTENDS RaptorBuilder, Topology, Accessibility

CONSTANTS
  haversine_m,    \* [Stop \X Stop -> metres]
  stop_name       \* [Stop -> the normalised name]

(* An InterchangeSearchConfig is [max_walk_m, walk_speed, min_walk_time_s, *)
(* accessibility, threshold_index].                                        *)
walk_time_s(cfg, distance) ==
  Max({cfg.min_walk_time_s, (2 * distance + cfg.walk_speed) \div (2 * cfg.walk_speed)})

already_walkable(f, graph) ==
  {{graph.station_of[t.from_stop], graph.station_of[t.to_stop]} :
     t \in {x \in Range(f.transfers) : x.from_stop # Unresolved /\ x.to_stop # Unresolved}}

(* Sorted by distance, then by node.                                       *)
generate_interchange_candidates(f, graph, cfg) ==
  LET pairs == {p \in graph.stations \X graph.stations :
                  /\ p[1] < p[2]
                  /\ {p[1], p[2]} \notin graph.links
                  /\ {p[1], p[2]} \notin already_walkable(f, graph)
                  /\ haversine_m[p] <= cfg.max_walk_m}
      Closer(p, q) ==
        \/ haversine_m[p] < haversine_m[q]
        \/ haversine_m[p] = haversine_m[q] /\ p[1] < q[1]
        \/ haversine_m[p] = haversine_m[q] /\ p[1] = q[1] /\ p[2] < q[2]
      sorted == Sorted(pairs, Closer)
  IN  [i \in DOMAIN sorted |->
         [station_a |-> sorted[i][1], station_b |-> sorted[i][2],
          walk_time_s |-> walk_time_s(cfg, haversine_m[sorted[i]]),
          same_name |-> stop_name[sorted[i][1]] = stop_name[sorted[i][2]]]]

surface_means(surface, cfg) ==
  LET SumAt(c) == FoldSet(LAMBDA o, n : n + surface[o].counts[c, cfg.threshold_index],
                          0, DOMAIN surface)
      direct == SumAt(0)
      full == SumAt(cfg.accessibility.max_changes)
  IN  [direct |-> direct, full |-> full, gap |-> full - direct]

(* measure_with: a timetable is built anew around the extra walks, and the *)
(* reachability of the stations the unmodified feed serves is taken in it. *)
(* (Mutants: the walks are put into the timetable at hand; the stations    *)
(* are those of the feed with the walks.)                                  *)
WithWalks(f, extra) == [f EXCEPT !.transfers = @ \o extra]
WalksSplicedIn(f, extra) ==
  LET tt == build(f)
  IN  [tt EXCEPT !.transfers = [s \in Stop |-> @[s] \o Walkable([transfers |-> extra], s)]]
RebuiltAround(f, extra) == build(WithWalks(f, extra))

StationsRecomputed(f, graph, extra) == compute_topology(WithWalks(f, extra)).stations
StationsMeasured(f, graph, extra) == graph.stations

measure(tt, stations, cfg) ==
  surface_means(compute_accessibility(tt, stations, cfg.accessibility, stations), cfg)

Footpath(c) ==
  << TransferRecord(c.station_a, c.station_b, c.walk_time_s),
     TransferRecord(c.station_b, c.station_a, c.walk_time_s) >>

InterchangeEvaluation(c, before, after) ==
  [candidate |-> c, before |-> before, after |-> after,
   delta_reach |-> after.full - before.full,
   delta_direct |-> after.direct - before.direct,
   delta_gap |-> after.gap - before.gap]

(* Best first; ties by the shorter walk, then by node.                     *)
RankedBefore(x, y) ==
  LET key(e) == << - e.delta_reach, e.candidate.walk_time_s,
                   e.candidate.station_a, e.candidate.station_b >>
  IN  \E i \in 1 .. 4 : /\ key(x)[i] < key(y)[i]
                        /\ \A j \in 1 .. i - 1 : key(x)[j] = key(y)[j]
=============================================================================
