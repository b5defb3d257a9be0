----------------------------- MODULE NetworkBuild -----------------------------
(***************************************************************************)
(* The load step of the tools: one feed, built into a time-dependent graph *)
(* and, from the same records and index, into a RAPTOR timetable.  What    *)
(* the two must have in common is stated over their contents.              *)
(***************************************************************************)
EXTENDS GraphBuilder, RaptorBuilder

CONSTANTS
  Feeds,        \* the feeds
  Objectives    \* subset of {"TransferCount", "CrowdExposure"}

ASSUME SizesAssumption ==
  NumStops \in Nat /\ UINT32_MAX \in Nat /\ kMaxComponentDegree \in Nat \ {0}
ASSUME FeedsAssumption == \A f \in Feeds : WellFormed(f)
(* No chain of footpaths comes near the sentinel.                          *)
ASSUME WalksAssumption ==
  \A f \in Feeds : \E longest \in 1 .. UINT32_MAX :
    /\ 2 * NumStops * longest < UINT32_MAX
    /\ \A t \in Range(f.transfers) : t.min_transfer_time <= longest

VARIABLES
  feed,
  graph,       \* the CSRGraph, NotBuilt before build_with_transfers
  timetable    \* the RaptorTimetable, NotBuilt before RaptorBuilder::build

buildVars == << feed, graph, timetable >>
NotBuilt == << >>

BuildInit == feed \in Feeds /\ graph = NotBuilt /\ timetable = NotBuilt

BuildGraph ==
  /\ graph = NotBuilt
  /\ \E o \in Objectives : graph' = build_with_transfers(feed, o)
  /\ UNCHANGED << feed, timetable >>

BuildTimetable ==
  /\ graph # NotBuilt /\ timetable = NotBuilt
  /\ timetable' = build(feed)
  /\ UNCHANGED << feed, graph >>

BuildNext == BuildGraph \/ BuildTimetable
BuildSpec == BuildInit /\ [][BuildNext]_buildVars

Built == timetable # NotBuilt

-----------------------------------------------------------------------------
(* The connections a passenger can ride: from where, when, to where, when. *)
GraphConnections ==
  UNION {{<< u, e.departure_time, e.destination, e.departure_time + e.travel_time >> :
            e \in Range(graph.edges[u])} : u \in Stop}

TripConnections(stops, times) ==
  {<< stops[i], times[i].departure, stops[i + 1], times[i + 1].arrival >> :
     i \in 1 .. Len(stops) - 1}
TimetableConnections ==
  UNION {UNION {TripConnections(r.stops, t) : t \in Range(r.trips)} :
           r \in Range(timetable.routes)}

(* The two structures carry the same connections, to the second: the       *)
(* builders repeat each other's admission rules and clamp, and cutting     *)
(* trips, grouping them and splitting the groups must lose none            *)
(* (raptor.hpp, "MODEL EQUIVALENCE WITH GraphBuilder").                    *)
SameNetwork == Built => GraphConnections = TimetableConnections

(* The @post of RaptorBuilder::build, for every pair of trips although the *)
(* builder compares neighbours only: the binary search of earliest_trip    *)
(* rests on it.  And what a scan rides through is a ride the graph has     *)
(* too: at each inner stop a trip is still there on arrival (the run       *)
(* cutter, can_ride_through).                                              *)
TripsNeverOvertake ==
  Built => \A r \in Range(timetable.routes) :
             /\ \A a, b \in DOMAIN r.trips :
                  a < b => \A i \in DOMAIN r.stops :
                             /\ r.trips[a][i].arrival <= r.trips[b][i].arrival
                             /\ r.trips[a][i].departure <= r.trips[b][i].departure
             /\ \A t \in Range(r.trips) : \A i \in 2 .. Len(r.stops) - 1 :
                  t[i].arrival <= t[i].departure

(* The shortest walk from u to v over the graph's transfer layer, by       *)
(* Floyd and Warshall's recurrence; UINT32_MAX when there is none.         *)
LeastOf(S) == IF S = {} THEN UINT32_MAX ELSE Min(S)
ShortestWalks ==
  LET direct ==
        [uv \in Stop \X Stop |->
           IF uv[1] = uv[2] THEN 0
           ELSE LeastOf({t.travel_time : t \in {x \in Range(graph.transfers[uv[1]]) :
                                                  x.destination = uv[2]}})]
      through[n \in 0 .. NumStops] ==
        IF n = 0 THEN direct
        ELSE LET before == through[n - 1]
             IN  [uv \in Stop \X Stop |->
                    Min({before[uv],
                         Min({before[<< uv[1], n - 1 >>] + before[<< n - 1, uv[2] >>],
                              UINT32_MAX})})]
  IN  through[NumStops]

FootpathsShortest ==
  LET shortest == ShortestWalks
  IN  \A u, v \in Stop :
        u # v => LeastOf({t.travel_time : t \in {x \in Range(timetable.transfers[u]) :
                                                   x.destination = v}})
                   = shortest[<< u, v >>]

(* Where the timetable has routes and the check made at load time accepts  *)
(* its footpaths, each is the shortest walk of the graph: a search cut     *)
(* short by kMaxComponentDegree is always noticed (the warning of build:   *)
(* "transfers_are_transitively_closed() will say so").                     *)
ClosedMeansShortest ==
  (Built /\ timetable.routes # << >> /\ transfers_are_transitively_closed(timetable))
    => FootpathsShortest

(* With no search cut short the check accepts what build returns: a pop   *)
(* follows a walk that brought some stop closer, and none does so twice.   *)
ClosureEstablished ==
  (Built /\ Len(feed.transfers) < kMaxComponentDegree)
    => transfers_are_transitively_closed(timetable)
=============================================================================
