------------------------------- MODULE Topology -------------------------------
(***************************************************************************)
(* compute_topology (src/topology.cpp): platforms are merged into stations *)
(* over the transfers, the trips' segments give the links between them,    *)
(* and the metrics are read off that graph.  Ratios are left as their two  *)
(* terms, a median as its multiple.                                        *)
(***************************************************************************)
EXTENDS Feed

CONSTANTS
  route_of_trip,              \* [the trips that trips.txt has -> Route]
  WINDOW_START, WINDOW_END    \* headways are sampled between these times

(* DisjointSet: the root of each element and the rank of each root.  The   *)
(* parents between are left out: halving a path changes no root.           *)
DisjointSet == [root |-> [p \in Stop |-> p], rank |-> [p \in Stop |-> 0]]

(* (Mutant: an element is hung under the other without looking for their   *)
(* roots.)                                                                 *)
UniteElements(d, a, b) == [d EXCEPT !.root[b] = d.root[a]]
unite(d, a, b) ==
  LET ra == d.root[a]
      rb == d.root[b]
      over == IF d.rank[ra] < d.rank[rb] THEN rb ELSE ra
      under == IF over = ra THEN rb ELSE ra
  IN  IF ra = rb THEN d
      ELSE [root |-> [p \in Stop |-> IF d.root[p] = under THEN over ELSE d.root[p]],
            rank |-> IF d.rank[ra] = d.rank[rb] THEN [d.rank EXCEPT ![over] = @ + 1]
                     ELSE d.rank]

(* Platforms to stations; walks with an end the index does not know are    *)
(* left out.                                                               *)
Merged(transfers) ==
  FoldLeft(LAMBDA d, t : IF t.from_stop = Unresolved \/ t.to_stop = Unresolved THEN d
                         ELSE unite(d, t.from_stop, t.to_stop),
           DisjointSet, transfers)

(* "Exactly GraphBuilder's admission rules".  (Mutant: where drop_off_type *)
(* forbids it a segment may end.)                                          *)
CountedAnywhere(from, to) ==
  /\ from.pickup_type # 1
  /\ from.departure_time # UINT32_MAX /\ to.arrival_time # UINT32_MAX
  /\ to.arrival_time >= from.departure_time
  /\ from.stop # Unresolved /\ to.stop # Unresolved
SegmentCounted(from, to) ==
  /\ from.pickup_type # 1 /\ to.drop_off_type # 1
  /\ from.departure_time # UINT32_MAX /\ to.arrival_time # UINT32_MAX
  /\ to.arrival_time >= from.departure_time
  /\ from.stop # Unresolved /\ to.stop # Unresolved

CountedSegments(f) ==
  UNION {LET rs == TripRecords(f, t)
         IN  {<< rs[k], rs[k + 1] >> : k \in {i \in 1 .. Len(rs) - 1 :
                                                SegmentCounted(rs[i], rs[i + 1])}} :
           t \in Trips(f)}

Ends(segments) == UNION {{s[1].stop, s[2].stop} : s \in segments}

-----------------------------------------------------------------------------
(* The components of the station graph, over served stations.  (Mutant:    *)
(* over all platforms.)                                                    *)
RootsOfAll(links, stations) ==
  LET comp == FoldSet(LAMBDA l, d : unite(d, Min(l), Max(l)), DisjointSet, links)
  IN  {comp.root[s] : s \in Stop}
ComponentRoots(links, stations) ==
  LET comp == FoldSet(LAMBDA l, d : unite(d, Min(l), Max(l)), DisjointSet, links)
  IN  {comp.root[s] : s \in stations}

(* Twice the median of a sorted sequence of numbers; 0 of an empty one.    *)
TwiceMedian(v) ==
  LET n == Len(v)
  IN  IF n = 0 THEN 0
      ELSE IF n % 2 = 1 THEN 2 * v[n \div 2 + 1]
      ELSE v[n \div 2] + v[n \div 2 + 1]
SortedUp(v) == SortSeq(v, <)

(* The departures of some segments in the window, earliest first.          *)
Sampled(segments) ==
  LET inside == SetToSeq({s \in segments :
                            s[1].departure_time \in WINDOW_START .. WINDOW_END})
  IN  SortedUp([i \in DOMAIN inside |-> inside[i][1].departure_time])

(* Four times the median over platform links of their median headway.      *)
FourMedianHeadways(rides) ==
  LET links == {<< s[1].stop, s[2].stop >> : s \in rides}
      deps(l) == Sampled({s \in rides : << s[1].stop, s[2].stop >> = l})
      gaps(d) == [i \in 1 .. Len(d) - 1 |-> d[i + 1] - d[i]]
      per_link == SetToSeq({l \in links : Len(deps(l)) >= 2})
  IN  TwiceMedian(SortedUp([i \in DOMAIN per_link |->
                              TwiceMedian(SortedUp(gaps(deps(per_link[i]))))]))

-----------------------------------------------------------------------------
EmptyStationGraph == [station_of |-> << >>, links |-> {}, stations |-> {}]

Between(s, station) == {station[s[1].stop], station[s[2].stop]}

DegreeCounts(links, stations) ==
  LET degree(s) == Cardinality({l \in links : s \in l})
  IN  [d \in 0 .. Cardinality(links) |-> Cardinality({s \in stations : degree(s) = d})]

(* The line of each route that has a segment is the set of its stations:   *)
(* two routes over one set of stations are one line.                       *)
RouteOf(s) == route_of_trip[s[1].trip_id]
Attributed(segments) == {s \in segments : s[1].trip_id \in DOMAIN route_of_trip}
LineOfRoute(segments, station) ==
  [r \in {RouteOf(s) : s \in segments} |->
     UNION {Between(s, station) : s \in {x \in segments : RouteOf(x) = r}}]

(* Lines through a station or over a link, those without a route left out. *)
LineMetrics(segments, station, links, stations) ==
  LET attributed == Attributed(segments)
      line == LineOfRoute(attributed, station)
      at(s) == {line[RouteOf(x)] : x \in {y \in attributed : s \in Between(y, station)}}
      over(l) == {line[RouteOf(x)] : x \in {y \in attributed : Between(y, station) = l}}
  IN  [lines |-> Cardinality(Range(line)),
       interchange_stations |-> Cardinality({s \in stations : Cardinality(at(s)) >= 2}),
       lines_over_links |-> FoldSet(LAMBDA l, n : n + Cardinality(over(l)), 0, links),
       shared_links |-> Cardinality({l \in links : Cardinality(over(l)) >= 2})]

compute_topology(f) ==
  LET station == Merged(f.transfers).root
      segments == CountedSegments(f)
      rides == {s \in segments : station[s[1].stop] # station[s[2].stop]}
      links == {Between(s, station) : s \in rides}
      stations == {station[p] : p \in Ends(segments)}
      components == Cardinality(ComponentRoots(links, stations))
      times == {s[1].departure_time : s \in segments}
  IN  IF NumStops = 0 \/ f.stop_times = {} THEN EmptyStationGraph
      ELSE [station_of |-> station, links |-> links, stations |-> stations,
            segments |-> Cardinality(segments),
            trips |-> Cardinality({s[1].trip_id : s \in segments}),
            platforms_served |-> Cardinality(Ends(segments)),
            service_span |-> IF times = {} THEN 0 ELSE Max(times) - Min(times),
            degrees |-> DegreeCounts(links, stations),
            components |-> components,
            cyclomatic |-> Cardinality(links) - Cardinality(stations) + components,
            lines |-> LineMetrics(segments, station, links, stations),
            headways |-> FourMedianHeadways(rides)]
=============================================================================
