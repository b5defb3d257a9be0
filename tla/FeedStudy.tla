------------------------------- MODULE FeedStudy -------------------------------
(***************************************************************************)
(* The analyses the tools make of one loaded feed, beside the graph and    *)
(* the timetable that NetworkBuild builds of it: its topology, the crowd   *)
(* weights of tools/crowd_study.cpp, and the sweep over new interchanges   *)
(* of tools/interchange_search.cpp.                                        *)
(***************************************************************************)
EXTENDS NetworkBuild, Interchange, CrowdModel

CONSTANTS
  CrowdFeeds, RidershipFiles,     \* feeds crowd_study is run on, with which rows
  CrowdConfigs,                   \* [scale, interpolate]
  SearchedFeeds, SearchConfigs    \* feeds interchange_search is run on, and how

(* std::stol makes an integer of what it does not refuse.                  *)
ASSUME RidershipAssumption ==
  \A file \in RidershipFiles :
    file \in Seq(Range(file)) /\ \A row \in Range(file) : row.hour \in Int /\ row.riders \in Int
ASSUME CrowdConfigsAssumption == \A config \in CrowdConfigs : config.scale \in Nat

VARIABLES
  station_graph,    \* what compute_topology returned, NotComputed before
  surface, crowd,   \* the ridership, and [config, report] or Refused; None before
  search,           \* the configuration of the sweep, None before it
  candidates,       \* the candidates not measured yet
  rebuilt,          \* the timetable around the first of them, None before
  baseline,
  evaluations,      \* in the order they were made, ranked at the end
  ranked

crowdVars == << surface, crowd >>
searchVars == << search, candidates, rebuilt, baseline, evaluations, ranked >>
studyVars == << buildVars, station_graph, crowdVars, searchVars >>

None == [done |-> FALSE]
Refused == [refused |-> TRUE]

StudyInit ==
  /\ BuildInit
  /\ station_graph = None /\ surface = None /\ crowd = None
  /\ search = None /\ candidates = << >> /\ rebuilt = None /\ baseline = None
  /\ evaluations = << >> /\ ranked = FALSE

Build ==
  /\ BuildNext
  /\ UNCHANGED << station_graph, crowdVars, searchVars >>

ComputeTopology ==
  /\ Built /\ station_graph = None
  /\ station_graph' = compute_topology(feed)
  /\ UNCHANGED << buildVars, crowdVars, searchVars >>

Idle == station_graph # None /\ surface = None /\ search = None

(* crowd_study: a file is read, and the weights of the graph are rewritten *)
(* or nothing is.                                                          *)
LoadRidership ==
  /\ Idle /\ feed \in CrowdFeeds
  /\ \E file \in RidershipFiles : surface' = load_hourly_ridership_csv(file)
  /\ UNCHANGED << buildVars, station_graph, crowd, searchVars >>

ApplyRefused ==
  /\ surface # None /\ crowd = None
  /\ CrowdRefused(graph, surface)
  /\ crowd' = Refused
  /\ UNCHANGED << buildVars, station_graph, surface, searchVars >>

ApplyHourlyCrowd ==
  /\ surface # None /\ crowd = None
  /\ ~ CrowdRefused(graph, surface)
  /\ \E config \in CrowdConfigs :
       /\ graph' = Reweighted(graph, surface, config)
       /\ crowd' = [config |-> config, report |-> CrowdApplyReport(graph', surface)]
  /\ UNCHANGED << feed, timetable, station_graph, surface, searchVars >>

(* interchange_search: it gives up without a served station; the graph it  *)
(* does not need is here that of transfer counts.                          *)
StartSearch ==
  /\ Idle /\ feed \in SearchedFeeds /\ graph.second_objective = "TransferCount"
  /\ station_graph.stations # {}
  /\ \E config \in SearchConfigs :
       /\ search' = config
       /\ candidates' = generate_interchange_candidates(feed, station_graph, config)
       /\ baseline' = measure(timetable, station_graph.stations, config)
  /\ UNCHANGED << buildVars, station_graph, crowdVars, rebuilt, evaluations, ranked >>

Rebuild ==
  /\ candidates # << >> /\ rebuilt = None
  /\ rebuilt' = RebuiltAround(feed, Footpath(Head(candidates)))
  /\ UNCHANGED << buildVars, station_graph, crowdVars, search, candidates, baseline,
                  evaluations, ranked >>

EvaluateCandidate ==
  /\ rebuilt # None /\ rebuilt' = None
  /\ LET c == Head(candidates)
         after == measure(rebuilt, StationsMeasured(feed, station_graph, Footpath(c)), search)
     IN  evaluations' = Append(evaluations, InterchangeEvaluation(c, baseline, after))
  /\ candidates' = Tail(candidates)
  /\ UNCHANGED << buildVars, station_graph, crowdVars, search, baseline, ranked >>

Rank ==
  /\ candidates = << >> /\ evaluations # << >> /\ ~ ranked
  /\ evaluations' = SortSeq(evaluations, RankedBefore)
  /\ ranked' = TRUE
  /\ UNCHANGED << buildVars, station_graph, crowdVars, search, candidates, rebuilt, baseline >>

StudyNext ==
  \/ Build \/ ComputeTopology
  \/ LoadRidership \/ ApplyRefused \/ ApplyHourlyCrowd
  \/ StartSearch \/ Rebuild \/ EvaluateCandidate \/ Rank

StudySpec == StudyInit /\ [][StudyNext]_studyVars

-----------------------------------------------------------------------------
Described == Idle /\ NumStops # 0 /\ feed.stop_times # {}

(* "The metrics must describe the network the router actually sees": the   *)
(* rule that admits a segment stands here for the third time, and what was *)
(* counted is what the graph has: its edges, its served stops, their       *)
(* stations and the links between these.                                   *)
TopologyDescribesGraph ==
  Described =>
    LET station == station_graph.station_of
        rides == {ue \in UNION {{u} \X Range(graph.edges[u]) : u \in Stop} :
                    station[ue[1]] # station[ue[2].destination]}
        served == UNION {{u} \cup {e.destination : e \in Range(graph.edges[u])} :
                           u \in {x \in Stop : graph.edges[x] # << >>}}
    IN  /\ station_graph.segments = FoldSet(LAMBDA u, n : n + Len(graph.edges[u]), 0, Stop)
        /\ station_graph.platforms_served = Cardinality(served)
        /\ station_graph.stations = {station[p] : p \in served}
        /\ station_graph.links = {{station[ue[1]], station[ue[2].destination]} : ue \in rides}

(* Two stops have one station exactly when a chain of the graph's walks    *)
(* joins them, and a station is named by one of its stops ("connected      *)
(* components of the transfer graph"): hanging roots under roots, by rank, *)
(* loses no chain and makes none.                                          *)
Reached(links, from) ==
  LET within[n \in 0 .. NumStops] ==
        IF n = 0 THEN {from}
        ELSE LET nearer == within[n - 1]
             IN  nearer \cup UNION {l \in links : l \cap nearer # {}}
  IN  within[NumStops]
StationsAreComponents ==
  Described =>
    LET walks == UNION {{{u, t.destination} : t \in Range(graph.transfers[u])} : u \in Stop}
        station == station_graph.station_of
    IN  \A u \in Stop : /\ {v \in Stop : station[v] = station[u]} = Reached(walks, u)
                         /\ station[station[u]] = station[u]

(* "Zero iff the network is a forest": L - S + C is 0 exactly when no link *)
(* can be left out without cutting its ends apart, and is otherwise the    *)
(* least number of links whose loss leaves a forest.                       *)
IsForest(links) ==
  \A l \in links : \A a, b \in l : a # b => b \notin Reached(links \ {l}, a)
CyclomaticCountsCycles ==
  Described =>
    /\ station_graph.cyclomatic \in Nat
    /\ \E cut \in kSubset(station_graph.cyclomatic, station_graph.links) :
         IsForest(station_graph.links \ cut)
    /\ \A l \in station_graph.links :
         IsForest(station_graph.links \ {l}) => station_graph.cyclomatic <= 1
    /\ station_graph.cyclomatic = 0 <=> IsForest(station_graph.links)

-----------------------------------------------------------------------------
Applied == crowd \notin {None, Refused}

(* Comparing consecutive departures "is exact rather than an               *)
(* approximation": no two departures of a link, however far apart, fall    *)
(* more steeply than the report says.                                      *)
SteepestFallIsAdjacent ==
  Applied =>
    \A u \in Stop : \A i, j \in DOMAIN graph.edges[u] :
      LET e == graph.edges[u][i]
          later == graph.edges[u][j]
      IN  (e.destination = later.destination /\ IsFall(Fall(e, later)))
            => NoSteeper(Fall(e, later), crowd.report.max_negative_slope)

(* "The interpolation argument says this cannot fail for scale <= 3600,    *)
(* but the argument is about the continuous function": it does not fail on *)
(* the rounded samples either, across midnight included.                   *)
InterpolationKeepsFIFO ==
  (Applied /\ crowd.config.interpolate /\ crowd.config.scale <= SECONDS_PER_HOUR)
    => crowd.report.fifo_bound_holds

-----------------------------------------------------------------------------
(* An added footpath makes no station harder to reach, whether or not one  *)
(* changes (test AFootpathNeverReducesReachability): the stations it joins *)
(* stay two, and the walks are closed anew around it.                      *)
AddedWalkNeverHurts ==
  \A e \in Range(evaluations) : e.delta_reach >= 0 /\ e.delta_direct >= 0

(* The number a candidate is ranked by is true of the network it proposes: *)
(* the count of stations reached in time is that of earliest arrivals on   *)
(* the graph which GraphBuilder makes of the feed with the footpath.  It   *)
(* is so when the change budget is not below the number of trips.          *)
ReachOnGraph(g, config) ==
  LET acc == config.accessibility
      InTime(o, dep, at) ==
        {v \in station_graph.stations \ {o} :
           /\ at[v] # UINT32_MAX
           /\ at[v] - dep <= acc.thresholds_s[config.threshold_index]}
      InTimeFrom(o, d) ==
        UNION {{<< o, d, v >> : v \in InTime(o, acc.departures[d], at)} :
                 at \in {EarliestArrivals(g, o, acc.departures[d])}}
  IN  Cardinality(UNION {InTimeFrom(od[1], od[2]) :
                           od \in station_graph.stations \X DOMAIN acc.departures})
GraphAround(extra) == build_with_transfers(WithWalks(feed, extra), "TransferCount")
ReachMatchesGraph ==
  (search # None /\ ~ ranked
     /\ Cardinality(Runs(feed)) <= search.accessibility.max_changes + 1) =>
    IF evaluations = << >> THEN baseline.full = ReachOnGraph(graph, search)
    ELSE \E g \in {GraphAround(Footpath(Last(evaluations).candidate))} :
           Last(evaluations).after.full = ReachOnGraph(g, search)
=============================================================================
