--------------------------- MODULE FeedStudy_proofs ---------------------------
(***************************************************************************)
(* For every feed, ridership and configuration: what the analyses of one   *)
(* loaded feed say of the network that was built of it.                    *)
(***************************************************************************)
EXTENDS FeedStudy, NetworkBuild_proofs

-----------------------------------------------------------------------------
(* Nothing that is built or computed changes afterwards, but for the       *)
(* weights of the graph, which are rewritten once.                         *)
BaseGraph(g) == \E o \in Objectives : g = build_with_transfers(feed, o)
Weighted(g) ==
  /\ crowd.config \in CrowdConfigs
  /\ \E base : BaseGraph(base) /\ g = Reweighted(base, surface, crowd.config)
  /\ crowd.report = CrowdApplyReport(g, surface)
  /\ ~ (peak(surface) <= 0)

StudyInv ==
  /\ feed \in Feeds
  /\ graph # NotBuilt => BaseGraph(graph) \/ (Applied /\ Weighted(graph))
  /\ crowd = None => surface = None \/ station_graph # None
  /\ graph # NotBuilt /\ ~ Applied => BaseGraph(graph)
  /\ Applied => graph # NotBuilt /\ Weighted(graph) /\ Built
  /\ surface # None =>
       /\ Built
       /\ \E file \in RidershipFiles : surface = load_hourly_ridership_csv(file)
  /\ surface = None => crowd = None
  /\ Built => graph # NotBuilt /\ timetable = build(feed)
  /\ station_graph # None => Built /\ station_graph = compute_topology(feed)

LEMMA StudyInvInit == StudyInit => StudyInv
BY DEF StudyInit, BuildInit, StudyInv, Applied, Built

LEMMA StudyInvStep == StudyInv /\ [StudyNext]_studyVars => StudyInv'
<1> SUFFICES ASSUME StudyInv, [StudyNext]_studyVars  PROVE  StudyInv'
  OBVIOUS
<1>1. \A o : build_with_transfers(feed, o) # NotBuilt
  <2> SUFFICES ASSUME NEW o, build_with_transfers(feed, o) = NotBuilt  PROVE  FALSE
    OBVIOUS
  <2>1. "edges" \in DOMAIN build_with_transfers(feed, o)
    BY DEF build_with_transfers
  <2>2. DOMAIN NotBuilt = {}
    BY DEF NotBuilt
  <2> QED
    BY <2>1, <2>2
<1>s. USE DEF StudyInv
<1>2. CASE Build
  <2>1. UNCHANGED << station_graph, surface, crowd >>
    BY <1>2 DEF Build, crowdVars
  <2>2. CASE BuildGraph
    <3>1. graph = NotBuilt /\ feed' = feed /\ timetable' = timetable /\ BaseGraph(graph)'
      BY <2>2 DEF BuildGraph, BaseGraph
    <3>2. ~ Applied /\ ~ Applied'
      BY <2>1, <3>1 DEF Applied
    <3>3. ~ Built /\ ~ Built'
      BY <3>1 DEF Built
    <3> QED
      BY <2>1, <3>1, <3>2, <3>3
  <2>3. CASE BuildTimetable
    <3>1. /\ graph # NotBuilt /\ feed' = feed /\ graph' = graph /\ timetable' = build(feed)
          /\ ~ Built
      BY <2>3 DEF BuildTimetable, Built
    <3>2. ~ Applied /\ ~ Applied'
      BY <2>1, <3>1 DEF Applied
    <3>3. BaseGraph(graph)'
      BY <3>1, <3>2 DEF BaseGraph
    <3> QED
      BY <2>1, <3>1, <3>2, <3>3 DEF Built
  <2> QED
    BY <1>2, <2>2, <2>3 DEF Build, BuildNext
<1>3. CASE ComputeTopology
  BY <1>3 DEF ComputeTopology, buildVars, crowdVars, Built, Applied, BaseGraph, Weighted
<1>4. CASE LoadRidership
  <2>1. UNCHANGED << feed, graph, timetable, station_graph, crowd >> /\ Idle
    BY <1>4 DEF LoadRidership, buildVars
  <2>2. \E file \in RidershipFiles : surface' = load_hourly_ridership_csv(file)
    BY <1>4 DEF LoadRidership
  <2>3. crowd = None /\ station_graph # None
    BY <2>1 DEF Idle
  <2> QED
    BY <2>1, <2>2, <2>3 DEF Built, Applied, BaseGraph
<1>5. CASE ApplyRefused
  <2>1. UNCHANGED << feed, graph, timetable, station_graph, surface >> /\ surface # None
        /\ crowd = None /\ crowd' = Refused
    BY <1>5 DEF ApplyRefused, buildVars
  <2>2. ~ Applied /\ ~ Applied' /\ crowd' # None
    <3>1. Refused # None
      BY DEF Refused, None
    <3> QED
      BY <2>1, <3>1 DEF Applied
  <2> QED
    BY <2>1, <2>2 DEF Built, BaseGraph
<1>6. CASE ApplyHourlyCrowd
  <2>1. UNCHANGED << feed, timetable, station_graph, surface >> /\ surface # None /\ crowd = None
        /\ ~ CrowdRefused(graph, surface)
    BY <1>6 DEF ApplyHourlyCrowd
  <2>2. PICK config \in CrowdConfigs :
          /\ graph' = Reweighted(graph, surface, config)
          /\ crowd' = [config |-> config, report |-> CrowdApplyReport(graph', surface)]
    BY <1>6 DEF ApplyHourlyCrowd
  <2>3. BaseGraph(graph) /\ graph # NotBuilt /\ Built
    BY <2>1 DEF Applied
  <2>4. crowd' # None /\ crowd' # Refused
    <3>1. "config" \in DOMAIN crowd'
      BY <2>2
    <3>2. "config" \notin DOMAIN None /\ "config" \notin DOMAIN Refused
      BY DEF None, Refused
    <3> QED
      BY <3>1, <3>2
  <2>5. BaseGraph(graph)' <=> \E o \in Objectives : graph' = build_with_transfers(feed, o)
    BY <2>1 DEF BaseGraph
  <2>6. crowd'.config = config /\ crowd'.report = CrowdApplyReport(graph', surface)
    BY <2>2
  <2>7. Weighted(graph)'
    <3>1. (\E base : BaseGraph(base) /\ graph = Reweighted(base, surface, crowd.config))'
      BY <2>1, <2>2, <2>3, <2>6 DEF BaseGraph
    <3>2. (~ (peak(surface) <= 0))'
      <4>1. ~ (peak(surface) <= 0)
        BY <2>1 DEF CrowdRefused
      <4> QED
        BY <2>1, <4>1
    <3> QED
      BY <2>1, <2>2, <2>6, <3>1, <3>2 DEF Weighted
  <2>8. graph' # NotBuilt
    <3>1. "edges" \in DOMAIN graph
      BY <2>3 DEF BaseGraph, build_with_transfers
    <3>2. "edges" \in DOMAIN graph'
      BY <2>2, <3>1 DEF Reweighted
    <3>3. DOMAIN NotBuilt = {}
      BY DEF NotBuilt
    <3> QED
      BY <3>2, <3>3
  <2> QED
    BY <2>1, <2>3, <2>4, <2>7, <2>8 DEF Applied, Built
<1>7. ASSUME UNCHANGED << feed, graph, timetable, station_graph, surface, crowd >>
      PROVE  StudyInv'
  BY <1>7 DEF Built, Applied, BaseGraph, Weighted
<1>8. StartSearch \/ Rebuild \/ EvaluateCandidate \/ Rank \/ UNCHANGED studyVars
        => UNCHANGED << feed, graph, timetable, station_graph, surface, crowd >>
  BY DEF StartSearch, Rebuild, EvaluateCandidate, Rank, studyVars, buildVars, crowdVars
<1> QED
  BY <1>2, <1>3, <1>4, <1>5, <1>6, <1>7, <1>8 DEF StudyNext

LEMMA StudyInvAlways == StudySpec => []StudyInv
BY StudyInvInit, StudyInvStep, PTL DEF StudySpec

-----------------------------------------------------------------------------
(* The two structures stay equal while the weights are rewritten.          *)
LEMMA UnweightedIsBuilt == StudyInv /\ ~ Applied => BuiltFromFeed
BY DEF StudyInv, BuiltFromFeed, BaseGraph

(* The edges of a graph as it is built: a sequence in order of departure.  *)
EdgeLike(e) ==
  /\ e = [destination |-> e.destination, departure_time |-> e.departure_time,
          travel_time |-> e.travel_time, secondary_weight |-> e.secondary_weight,
          penalty |-> e.penalty]
  /\ e.departure_time \in Nat /\ e.travel_time \in Nat /\ e.destination \in Stop

LEMMA BaseEdges ==
  ASSUME WellFormed(feed), NEW g, BaseGraph(g), NEW u \in Stop
  PROVE  LET n == Cardinality(SegmentsFrom(feed, u))
             es == g.edges[u]
         IN  /\ n \in Nat /\ Len(es) = n /\ DOMAIN es = 1 .. n
             /\ \A i \in 1 .. n : EdgeLike(es[i])
             /\ \A i, j \in 1 .. n : i <= j => es[i].departure_time <= es[j].departure_time
<1>1. PICK o \in Objectives : g = build_with_transfers(feed, o)
  BY DEF BaseGraph
<1> DEFINE n == Cardinality(SegmentsFrom(feed, u))
           es == edges_of(feed, o, u)
<1>2. g.edges[u] = es
  BY <1>1 DEF build_with_transfers
<1>3. /\ n \in Nat /\ Len(es) = n /\ DOMAIN es = 1 .. n
      /\ \A i \in 1 .. n : \E s \in SegmentsFrom(feed, u) : es[i] = EdgeOf(o, s)
      /\ \A i, j \in 1 .. n : i <= j => es[i].departure_time <= es[j].departure_time
  <2>1. /\ IsFiniteSet(SegmentsFrom(feed, u)) /\ n \in Nat
        /\ Len(es) = n /\ DOMAIN es = 1 .. n
        /\ \A i \in 1 .. n : \E s \in SegmentsFrom(feed, u) : es[i] = EdgeOf(o, s)
        /\ \A s \in SegmentsFrom(feed, u) : \E i \in 1 .. n : es[i] = EdgeOf(o, s)
        /\ \A i, j \in 1 .. n : i <= j => es[i].departure_time <= es[j].departure_time
        /\ \A i \in 1 .. n : es[i].departure_time \in Nat
    BY EdgesInOrder, Zenon
  <2> HIDE DEF es, n
  <2> QED
    BY <2>1
<1>4. ASSUME NEW s \in SegmentsFrom(feed, u)  PROVE  EdgeLike(EdgeOf(o, s))
  <2>1. s \in StopTimeRecords \X StopTimeRecords /\ EdgeAdmitted(s[1], s[2])
    BY SegmentsFacts DEF SegmentsFrom
  <2>2. EdgeOf(o, s).departure_time \in Nat /\ EdgeOf(o, s).travel_time \in Nat
    BY <2>1, EdgeIsConnection
  <2>3. EdgeOf(o, s).destination \in Stop
    <3>1. s[2] \in StopTimeRecords /\ s[2].stop # Unresolved
      BY <2>1 DEF EdgeAdmitted
    <3> QED
      BY <3>1, RecordTypes DEF EdgeOf
  <2> QED
    BY <2>2, <2>3 DEF EdgeLike, EdgeOf
<1> HIDE DEF es, n
<1>5. \A i \in 1 .. n : EdgeLike(es[i])
  BY <1>3, <1>4
<1> QED
  BY <1>2, <1>3, <1>5 DEF n

(* The same edges with other weights.                                      *)
LEMMA ReweightedEdges ==
  ASSUME WellFormed(feed), NEW g, BaseGraph(g), NEW surf, NEW cfg
  PROVE  LET r == Reweighted(g, surf, cfg)
         IN  /\ r.transfers = g.transfers /\ r.second_objective = g.second_objective
             /\ \A u \in Stop :
                  /\ DOMAIN r.edges[u] = DOMAIN g.edges[u] /\ Len(r.edges[u]) = Len(g.edges[u])
                  /\ \A i \in DOMAIN g.edges[u] :
                       /\ EdgeLike(r.edges[u][i])
                       /\ r.edges[u][i].destination = g.edges[u][i].destination
                       /\ r.edges[u][i].departure_time = g.edges[u][i].departure_time
                       /\ r.edges[u][i].travel_time = g.edges[u][i].travel_time
                       /\ r.edges[u][i].secondary_weight
                            = WeightAt(surf, cfg, u, g.edges[u][i].departure_time)
<1> DEFINE r == Reweighted(g, surf, cfg)
           W(u, i) == WeightAt(surf, cfg, u, g.edges[u][i].departure_time)
<1>1. "edges" \in DOMAIN g /\ "transfers" \in DOMAIN g /\ "second_objective" \in DOMAIN g
  BY DEF BaseGraph, build_with_transfers
<1>2. /\ r.transfers = g.transfers /\ r.second_objective = g.second_objective
      /\ r.edges = [u \in Stop |-> [i \in DOMAIN g.edges[u] |->
                      [g.edges[u][i] EXCEPT !.secondary_weight = W(u, i)]]]
  BY <1>1 DEF Reweighted
<1>3. ASSUME NEW u \in Stop
      PROVE  /\ DOMAIN r.edges[u] = DOMAIN g.edges[u] /\ Len(r.edges[u]) = Len(g.edges[u])
             /\ \A i \in DOMAIN g.edges[u] :
                  /\ EdgeLike(r.edges[u][i])
                  /\ r.edges[u][i].destination = g.edges[u][i].destination
                  /\ r.edges[u][i].departure_time = g.edges[u][i].departure_time
                  /\ r.edges[u][i].travel_time = g.edges[u][i].travel_time
                  /\ r.edges[u][i].secondary_weight = W(u, i)
  <2> DEFINE n == Cardinality(SegmentsFrom(feed, u))
             es == g.edges[u]
  <2>1. /\ n \in Nat /\ Len(es) = n /\ DOMAIN es = 1 .. n
        /\ \A i \in 1 .. n : EdgeLike(es[i])
    BY BaseEdges
  <2> HIDE DEF W, r, n
  <2>2. r.edges[u] = [i \in 1 .. n |-> [es[i] EXCEPT !.secondary_weight = W(u, i)]]
    BY <1>2, <2>1
  <2>3. DOMAIN r.edges[u] = 1 .. n /\ Len(r.edges[u]) = n
    BY <2>1, <2>2
  <2>4. ASSUME NEW i \in 1 .. n
        PROVE  /\ EdgeLike(r.edges[u][i])
               /\ r.edges[u][i].destination = es[i].destination
               /\ r.edges[u][i].departure_time = es[i].departure_time
               /\ r.edges[u][i].travel_time = es[i].travel_time
               /\ r.edges[u][i].secondary_weight = W(u, i)
    <3>1. r.edges[u][i] = [es[i] EXCEPT !.secondary_weight = W(u, i)]
      BY <2>2
    <3>2. EdgeLike(es[i])
      BY <2>1
    <3> QED
      BY <3>1, <3>2 DEF EdgeLike
  <2> QED
    BY <2>1, <2>3, <2>4
<1> QED
  BY <1>2, <1>3
(* The walks are those of the transfers of the graph.                      *)
WalksOver(transfers) ==
  LET direct ==
        [uv \in Stop \X Stop |->
           IF uv[1] = uv[2] THEN 0
           ELSE LeastOf({t.travel_time : t \in {x \in Range(transfers[uv[1]]) :
                                                  x.destination = uv[2]}})]
      through[n \in 0 .. NumStops] ==
        IF n = 0 THEN direct
        ELSE LET before == through[n - 1]
             IN  [uv \in Stop \X Stop |->
                    Min({before[uv],
                         Min({before[<< uv[1], n - 1 >>] + before[<< n - 1, uv[2] >>],
                              UINT32_MAX})})]
  IN  through[NumStops]

LEMMA ShortestWalksOver == ShortestWalks = WalksOver(graph.transfers)
BY DEF ShortestWalks, WalksOver

ConnectionsOut(u, es) ==
  {<< u, es[i].departure_time, es[i].destination, es[i].departure_time + es[i].travel_time >> :
     i \in DOMAIN es}

LEMMA GraphConnectionsOut ==
  GraphConnections = UNION {ConnectionsOut(u, graph.edges[u]) : u \in Stop}
BY DEF GraphConnections, ConnectionsOut, Range

NetworkOK == SameNetwork /\ TripsNeverOvertake /\ ClosureEstablished /\ ClosedMeansShortest

LEMMA ReweightedKeepsNetwork ==
  ASSUME StudyInv, ApplyHourlyCrowd, NetworkOK
  PROVE  NetworkOK'
<1>1. UNCHANGED << feed, timetable >> /\ ~ Applied /\ Built /\ surface # None
  BY DEF ApplyHourlyCrowd, Applied, StudyInv
<1>2. BaseGraph(graph) /\ WellFormed(feed)
  BY <1>1, FeedIsWellFormed DEF StudyInv
<1>3. PICK config \in CrowdConfigs : graph' = Reweighted(graph, surface, config)
  BY DEF ApplyHourlyCrowd
<1>4. graph'.transfers = graph.transfers
  BY <1>2, <1>3, ReweightedEdges
<1>5. \A u \in Stop : ConnectionsOut(u, graph'.edges[u]) = ConnectionsOut(u, graph.edges[u])
  <2> SUFFICES ASSUME NEW u \in Stop
               PROVE  ConnectionsOut(u, graph'.edges[u]) = ConnectionsOut(u, graph.edges[u])
    OBVIOUS
  <2> DEFINE es == graph.edges[u]
             fs == graph'.edges[u]
  <2>1. DOMAIN fs = DOMAIN es /\ \A i \in DOMAIN es : /\ fs[i].destination = es[i].destination
                                                     /\ fs[i].departure_time = es[i].departure_time
                                                     /\ fs[i].travel_time = es[i].travel_time
    BY <1>2, <1>3, ReweightedEdges
  <2> HIDE DEF es, fs
  <2>2. ConnectionsOut(u, fs) = ConnectionsOut(u, es)
    BY <2>1 DEF ConnectionsOut
  <2> QED
    BY <2>2 DEF es, fs
<1>6. GraphConnections' = GraphConnections
  <2>1. GraphConnections' = UNION {ConnectionsOut(u, graph'.edges[u]) : u \in Stop}
    BY DEF GraphConnections, ConnectionsOut, Range
  <2> QED
    BY <1>5, <2>1, GraphConnectionsOut
<1>7. ShortestWalks' = ShortestWalks
  <2>1. ShortestWalks' = WalksOver(graph'.transfers)
    BY DEF ShortestWalks, WalksOver
  <2> QED
    BY <1>4, <2>1, ShortestWalksOver
<1>8. Built' /\ TimetableConnections' = TimetableConnections
  BY <1>1 DEF Built, TimetableConnections
<1>9. SameNetwork'
  BY <1>1, <1>6, <1>8 DEF SameNetwork, NetworkOK
<1>10. TripsNeverOvertake'
  BY <1>1 DEF TripsNeverOvertake, NetworkOK, Built
<1>11. ClosureEstablished'
  BY <1>1 DEF ClosureEstablished, NetworkOK, Built
<1>12. ClosedMeansShortest'
  BY <1>1, <1>7, <1>8 DEF ClosedMeansShortest, FootpathsShortest, NetworkOK, Built
<1> QED
  BY <1>9, <1>10, <1>11, <1>12 DEF NetworkOK

LEMMA NetworkKept == StudyInv /\ StudyInv' /\ NetworkOK /\ [StudyNext]_studyVars => NetworkOK'
<1> SUFFICES ASSUME StudyInv, StudyInv', NetworkOK, [StudyNext]_studyVars  PROVE  NetworkOK'
  OBVIOUS
<1>1. CASE ~ Applied'
  <2>1. BuiltFromFeed'
    BY <1>1 DEF StudyInv, BuiltFromFeed, BaseGraph
  <2> QED
    BY <2>1, SameNetworkOfBuilt, TripsNeverOvertakeOfBuilt, ClosureEstablishedOfBuilt,
       ClosedMeansShortestOfBuilt, PTL DEF NetworkOK
<1>2. CASE Applied' /\ ~ ApplyHourlyCrowd
  <2>1. UNCHANGED << feed, graph, timetable >>
    <3>1. ~ Build
      <4> SUFFICES ASSUME Build  PROVE  FALSE
        OBVIOUS
      <4>1. Applied /\ (BuildGraph \/ BuildTimetable)
        BY <1>2 DEF Build, BuildNext, crowdVars, Applied
      <4>2. graph # NotBuilt /\ Built
        BY <4>1 DEF StudyInv
      <4> QED
        BY <4>1, <4>2 DEF BuildGraph, BuildTimetable, Built
    <3> QED
      BY <1>2, <3>1 DEF StudyNext, ComputeTopology, LoadRidership, ApplyRefused, StartSearch,
         Rebuild, EvaluateCandidate, Rank, studyVars, buildVars
  <2>2. GraphConnections' = GraphConnections /\ TimetableConnections' = TimetableConnections
    BY <2>1 DEF GraphConnections, TimetableConnections
  <2>3. ShortestWalks' = ShortestWalks
    <3>1. ShortestWalks' = WalksOver(graph'.transfers)
      BY DEF ShortestWalks, WalksOver
    <3> QED
      BY <2>1, <3>1, ShortestWalksOver
  <2> QED
    BY <2>1, <2>2, <2>3 DEF NetworkOK, SameNetwork, TripsNeverOvertake, ClosureEstablished,
       ClosedMeansShortest, FootpathsShortest, Built
<1>3. CASE ApplyHourlyCrowd
  BY <1>3, ReweightedKeepsNetwork
<1> QED
  BY <1>1, <1>2, <1>3

(* What holds of graph and timetable when they are built holds after       *)
(* apply_hourly_crowd too (SameNetwork, TripsNeverOvertake,                *)
(* ClosureEstablished, ClosedMeansShortest).                               *)
THEOREM StudyNetworkHolds ==
  StudySpec => [](SameNetwork /\ TripsNeverOvertake /\ ClosureEstablished /\ ClosedMeansShortest)
<1>1. StudyInit => NetworkOK
  BY DEF StudyInit, BuildInit, NetworkOK, SameNetwork, TripsNeverOvertake, ClosureEstablished,
     ClosedMeansShortest, Built
<1> QED
  BY <1>1, StudyInvAlways, NetworkKept, PTL DEF StudySpec, NetworkOK

-----------------------------------------------------------------------------
(* Finite sets, one element after the other.                               *)
LEMMA Enumerated ==
  ASSUME NEW S, IsFiniteSet(S)
  PROVE  /\ Cardinality(S) \in Nat
         /\ \E e \in [1 .. Cardinality(S) -> S] :
              /\ \A x \in S : \E i \in 1 .. Cardinality(S) : e[i] = x
              /\ \A i, j \in 1 .. Cardinality(S) : e[i] = e[j] => i = j
<1>1. Cardinality(S) \in Nat /\ ExistsBijection(1 .. Cardinality(S), S)
  BY FS_CardinalityType
<1>2. PICK e \in Bijection(1 .. Cardinality(S), S) : TRUE
  BY <1>1 DEF ExistsBijection
<1>3. /\ e \in [1 .. Cardinality(S) -> S]
      /\ \A x \in S : \E i \in 1 .. Cardinality(S) : e[i] = x
      /\ \A i, j \in 1 .. Cardinality(S) : e[i] = e[j] => i = j
  BY <1>2 DEF Bijection, Injection, Surjection, IsInjective
<1> QED
  BY <1>1, <1>3

(* A transitive and total relation has a last element in every finite set  *)
(* that is not empty.                                                      *)
LEMMA LastInOrder ==
  ASSUME NEW S, IsFiniteSet(S), S # {}, NEW order,
         \A x, y \in S : << x, y >> \in order \/ << y, x >> \in order,
         \A x, y, z \in S : << x, y >> \in order /\ << y, z >> \in order => << x, z >> \in order
  PROVE  \E m \in S : \A x \in S : << x, m >> \in order
<1> DEFINE n == Cardinality(S)
<1>1. PICK e \in [1 .. n -> S] : \A x \in S : \E i \in 1 .. n : e[i] = x
  BY Enumerated
<1>2. n \in Nat
  BY Enumerated
<1> HIDE DEF n
<1>3. n # 0
  BY <1>1, <1>2
<1> DEFINE Fine == {k \in 0 .. n - 1 : \E m \in S : \A i \in 1 .. k + 1 : << e[i], m >> \in order}
<1>4. 0 \in Fine
  <2>1. 1 \in 1 .. n /\ 0 \in 0 .. n - 1
    BY <1>2, <1>3
  <2>2. \A i \in 1 .. 0 + 1 : i = 1
    OBVIOUS
  <2>3. e[1] \in S /\ << e[1], e[1] >> \in order
    BY <2>1
  <2> QED
    BY <2>1, <2>2, <2>3
<1>5. ASSUME NEW k \in 0 .. (n - 1) - 1, k \in Fine  PROVE  k + 1 \in Fine
  <2>1. PICK m \in S : \A i \in 1 .. k + 1 : << e[i], m >> \in order
    BY <1>5
  <2>2. k + 2 \in 1 .. n /\ k + 1 \in 0 .. n - 1 /\ 1 .. (k + 1) + 1 = (1 .. k + 1) \cup {k + 2}
        /\ 1 .. k + 1 \subseteq 1 .. n
    BY <1>2
  <2>3. e[k + 2] \in S /\ \A i \in 1 .. k + 1 : e[i] \in S
    BY <2>2
  <2>4. CASE << e[k + 2], m >> \in order
    <3>1. \A i \in 1 .. (k + 1) + 1 : << e[i], m >> \in order
      BY <2>1, <2>2, <2>4
    <3> QED
      BY <2>2, <3>1
  <2>5. CASE << m, e[k + 2] >> \in order
    <3>1. \A i \in 1 .. (k + 1) + 1 : << e[i], e[k + 2] >> \in order
      BY <2>1, <2>2, <2>3, <2>5
    <3> QED
      BY <2>2, <2>3, <3>1
  <2> QED
    BY <2>3, <2>4, <2>5
<1> HIDE DEF Fine
<1>6. n - 1 \in Nat
  BY <1>2, <1>3
<1>7. n - 1 \in Fine
  BY <1>4, <1>5, <1>6, UpTo
<1>8. PICK m \in S : \A i \in 1 .. (n - 1) + 1 : << e[i], m >> \in order
  BY <1>7 DEF Fine
<1>9. (n - 1) + 1 = n
  BY <1>2
<1> QED
  BY <1>1, <1>8, <1>9

LEMMA MaxOfFinite ==
  ASSUME NEW S \in SUBSET Nat, IsFiniteSet(S), S # {}
  PROVE  Max(S) \in S /\ \A x \in S : x <= Max(S)
<1> DEFINE order == {p \in S \X S : p[1] <= p[2]}
<1>1. \A x, y \in S : << x, y >> \in order \/ << y, x >> \in order
  OBVIOUS
<1>2. \A x, y, z \in S : << x, y >> \in order /\ << y, z >> \in order => << x, z >> \in order
  OBVIOUS
<1>3. \A x, y \in S : << x, y >> \in order => x <= y
  OBVIOUS
<1> HIDE DEF order
<1>4. PICK m \in S : \A x \in S : << x, m >> \in order
  BY <1>1, <1>2, LastInOrder
<1>5. \A y \in S : m >= y
  BY <1>3, <1>4
<1>6. Max(S) \in S /\ \A y \in S : Max(S) >= y
  BY <1>5 DEF Max
<1> QED
  BY <1>6

-----------------------------------------------------------------------------
(* The surface read from a file: a load for each stop and hour.            *)
Surfaces(D, N) ==
  [num_stops : {NumStops}, load : [Stop -> [Hour -> Nat]], dates : SUBSET D, rows_read : Nat,
   rows_unmatched : Nat, unmatched_names : SUBSET N, matched : SUBSET Stop]

LEMMA RowKeepsSurface ==
  ASSUME NEW D, NEW N, NEW surf \in Surfaces(D, N),
         NEW row, row.date \in D, row.station \in N, row.hour \in Int, row.riders \in Int
  PROVE  RowCounted(surf, row) \in Surfaces(D, N)
<1> DEFINE nodes == NodesNamed(row.station)
           read == [surf EXCEPT !.rows_read = @ + 1, !.dates = @ \cup {row.date}]
           more == [p \in Stop |-> [h \in Hour |->
                      IF p \in nodes /\ h = row.hour THEN surf.load[p][h] + row.riders
                      ELSE surf.load[p][h]]]
<1>0. /\ surf.dates \in SUBSET D /\ surf.rows_read \in Nat /\ surf.rows_unmatched \in Nat
      /\ surf.unmatched_names \in SUBSET N /\ surf.matched \in SUBSET Stop
  BY DEF Surfaces
<1>1. read \in Surfaces(D, N) /\ read.load = surf.load
  <2>1. surf.rows_read + 1 \in Nat /\ surf.dates \cup {row.date} \in SUBSET D
    BY <1>0
  <2> QED
    BY <2>1 DEF Surfaces
<1>2. nodes \in SUBSET Stop
  BY DEF NodesNamed
<1> HIDE DEF nodes, read
<1>3. CASE nodes = {}
  <2>1. RowCounted(surf, row)
          = [read EXCEPT !.rows_unmatched = @ + 1, !.unmatched_names = @ \cup {row.station}]
    BY <1>3 DEF RowCounted, nodes, read
  <2>2. read.rows_unmatched + 1 \in Nat /\ read.unmatched_names \cup {row.station} \in SUBSET N
    BY <1>1 DEF Surfaces
  <2> QED
    BY <1>1, <2>1, <2>2 DEF Surfaces
<1>4. CASE nodes # {} /\ (row.hour = Unreadable \/ row.riders = Unreadable)
  <2>1. RowCounted(surf, row) = [read EXCEPT !.rows_unmatched = @ + 1]
    BY <1>4 DEF RowCounted, nodes, read
  <2> QED
    BY <1>1, <2>1 DEF Surfaces
<1>5. CASE nodes # {} /\ ~ (row.hour = Unreadable \/ row.riders = Unreadable)
           /\ (row.hour \notin Hour \/ row.riders < 0)
  <2>1. RowCounted(surf, row) = read
    BY <1>5 DEF RowCounted, nodes, read
  <2> QED
    BY <1>1, <2>1
<1>6. CASE nodes # {} /\ ~ (row.hour = Unreadable \/ row.riders = Unreadable)
           /\ ~ (row.hour \notin Hour \/ row.riders < 0)
  <2>1. RowCounted(surf, row) = [read EXCEPT !.load = more, !.matched = @ \cup nodes]
    BY <1>1, <1>6 DEF RowCounted, nodes, read
  <2>2. surf.load \in [Stop -> [Hour -> Nat]] /\ row.riders \in Nat
    BY <1>6 DEF Surfaces
  <2>3. more \in [Stop -> [Hour -> Nat]]
    <3>1. \A p \in Stop : \A h \in Hour : surf.load[p][h] \in Nat
      BY <2>2
    <3> QED
      BY <2>2, <3>1
  <2> HIDE DEF more
  <2> QED
    BY <1>1, <1>2, <2>1, <2>3 DEF Surfaces
<1> QED
  BY <1>3, <1>4, <1>5, <1>6

LEMMA SurfaceFacts ==
  ASSUME NEW file \in RidershipFiles
  PROVE  load_hourly_ridership_csv(file).load \in [Stop -> [Hour -> Nat]]
<1> DEFINE D == {row.date : row \in Range(file)}
           N == {row.station : row \in Range(file)}
           S == Surfaces(D, N)
           op(surf, row) == RowCounted(surf, row)
           base == [num_stops |-> NumStops, load |-> [p \in Stop |-> [h \in Hour |-> 0]],
                    dates |-> {}, rows_read |-> 0, rows_unmatched |-> 0, unmatched_names |-> {},
                    matched |-> {}]
<1>1. PICK n \in Nat : n = Len(file) /\ DOMAIN file = 1 .. n
  BY RidershipAssumption
<1> DEFINE step == [i \in 1 .. n |-> [x \in S |-> op(x, file[i])]]
           Good == [i \in 0 .. n |-> S]
           eq(f) == [t \in SUBSET (1 .. n) |->
                       IF t = {} THEN base ELSE op(f[t \ {Max(t)}], file[Max(t)])]
           F == CHOOSE f : f = eq(f)
<1>2. load_hourly_ridership_csv(file) = F[1 .. n]
  BY <1>1 DEF load_hourly_ridership_csv, FoldLeft, MapThenFoldSet
<1>3. ASSUME NEW i \in 1 .. n, NEW x \in S  PROVE  op(x, file[i]) \in S
  <2>1. file[i] \in Range(file)
    BY <1>1 DEF Range
  <2>2. file[i].hour \in Int /\ file[i].riders \in Int
    BY <2>1, RidershipAssumption
  <2> QED
    BY <2>1, <2>2, RowKeepsSurface
<1>4. base \in S
  BY DEF Surfaces
<1> HIDE DEF op, S, base
<1>5. step \in [1 .. n -> [S -> S]]
  BY <1>3
<1>6. \A i \in 1 .. n, x \in S : step[i][x] = op(x, file[i])
  OBVIOUS
<1> HIDE DEF step
<1>7. PICK f : f \in Folds(n, S, base, step)
  BY <1>4, <1>5, FoldExists
<1>8. \A t \in SUBSET (1 .. n) : t # {} => Max(t) \in 1 .. n
  BY MaxInUpTo
<1>9. f = eq(f)
  BY <1>6, <1>7, <1>8 DEF Folds
<1>10. F = eq(F)
  BY <1>9
<1> HIDE DEF F
<1>11. IsFold(F, n, S, base, step)
  BY <1>6, <1>8, <1>10 DEF IsFold
<1>12. base \in Good[0] /\ \A i \in 1 .. n : \A x \in S : x \in Good[i - 1] => step[i][x] \in Good[i]
  BY <1>3, <1>4, <1>6
<1> HIDE DEF Good
<1>13. F[1 .. n] \in S
  BY <1>4, <1>5, <1>11, <1>12, FoldKeeps
<1> QED
  BY <1>2, <1>13 DEF S, Surfaces

LEMMA PeakFacts ==
  ASSUME NEW surf, surf.load \in [Stop -> [Hour -> Nat]]
  PROVE  /\ peak(surf) \in Nat
         /\ \A p \in Stop, h \in Hour : surf.load[p][h] <= peak(surf)
<1> DEFINE loads == {surf.load[p][h] : p \in Stop, h \in Hour}
           F == [p \in Stop |-> {surf.load[p][h] : h \in Hour}]
<1>1. IsFiniteSet(Stop) /\ IsFiniteSet(Hour)
  BY FS_Interval, Sizes, HoursAssumption DEF Stop, Hour
<1>2. \A p \in Stop : IsFiniteSet(F[p])
  <2> SUFFICES ASSUME NEW p \in Stop  PROVE  IsFiniteSet(F[p])
    OBVIOUS
  <2> DEFINE g == [h \in Hour |-> surf.load[p][h]]
  <2>1. g \in Surjection(Hour, F[p])
    BY DEF Surjection
  <2> QED
    BY <1>1, <2>1, FS_Surjection
<1>3. loads = UNION {F[p] : p \in Stop}
  OBVIOUS
<1>5. {0} \cup loads \in SUBSET Nat
  OBVIOUS
<1> HIDE DEF F, loads
<1>4. IsFiniteSet(loads)
  BY <1>1, <1>2, <1>3, UnionIsFinite
<1>6. IsFiniteSet({0} \cup loads) /\ {0} \cup loads # {}
  BY <1>4, FS_AddElement, FS_Union, FS_Singleton
<1>7. Max({0} \cup loads) \in Nat /\ \A x \in {0} \cup loads : x <= Max({0} \cup loads)
  BY <1>5, <1>6, MaxOfFinite
<1>8. peak(surf) = Max({0} \cup loads)
  BY DEF peak, loads
<1> QED
  BY <1>7, <1>8 DEF loads

-----------------------------------------------------------------------------
(* Products keep an order, and give it back.                               *)
LEMMA ProductOrder ==
  ASSUME NEW a \in Int, NEW b \in Int, NEW c \in Nat, a <= b
  PROVE  a * c <= b * c
OBVIOUS

LEMMA ProductCancels ==
  ASSUME NEW a \in Int, NEW b \in Int, NEW c \in Nat \ {0}, a * c <= b * c
  PROVE  a <= b
<1> SUFFICES ASSUME b + 1 <= a  PROVE  FALSE
  OBVIOUS
<1>1. (b + 1) * c <= a * c
  BY ProductOrder
<1>2. (b + 1) * c = b * c + c
  OBVIOUS
<1>3. b * c \in Int /\ a * c \in Int
  OBVIOUS
<1> QED
  BY <1>1, <1>2, <1>3

(* Slopes are compared without a division, and the comparison is an order. *)
LEMMA SlopesTransitive ==
  ASSUME NEW a \in Nat, NEW b \in Nat \ {0}, NEW c \in Nat, NEW d \in Nat \ {0},
         NEW e \in Nat, NEW f \in Nat \ {0}, a * d <= c * b, c * f <= e * d
  PROVE  a * f <= e * b
<1>1. (a * d) * f <= (c * b) * f /\ (c * f) * b <= (e * d) * b
  BY ProductOrder
<1>2. (a * d) * f = (a * f) * d /\ (c * b) * f = (c * f) * b /\ (e * d) * b = (e * b) * d
  OBVIOUS
<1>3. (a * f) * d <= (e * b) * d
  <2>1. (a * f) * d \in Int /\ (c * f) * b \in Int /\ (e * b) * d \in Int
    OBVIOUS
  <2> QED
    BY <1>1, <1>2, <2>1
<1>4. a * f \in Int /\ e * b \in Int
  OBVIOUS
<1> QED
  BY <1>3, <1>4, ProductCancels

LEMMA NoFallIsNoSteeper ==
  ASSUME NEW x \in Int, NEW s \in Nat, NEW a \in Nat, NEW b \in Nat, x <= 0
  PROVE  x * b <= a * s
<1>1. x * b <= 0 * b /\ 0 * s <= a * s
  BY ProductOrder
<1>2. x * b \in Int /\ a * s \in Int /\ 0 * b = 0 /\ 0 * s = 0
  OBVIOUS
<1> QED
  BY <1>1, <1>2

LEMMA SlopesAdd ==
  ASSUME NEW x \in Int, NEW y \in Int, NEW z \in Int, NEW r \in Int, NEW s \in Int, NEW t \in Int,
         NEW a \in Nat, NEW b \in Nat, (x - y) * b <= a * (s - r), (y - z) * b <= a * (t - s)
  PROVE  (x - z) * b <= a * (t - r)
<1>1. (x - z) * b = (x - y) * b + (y - z) * b /\ a * (t - r) = a * (s - r) + a * (t - s)
  OBVIOUS
<1>2. /\ (x - y) * b \in Int /\ (y - z) * b \in Int /\ a * (s - r) \in Int /\ a * (t - s) \in Int
  OBVIOUS
<1> QED
  BY <1>1, <1>2

(* What falls no faster than r from each departure to the next falls no    *)
(* faster than r between any two.                                          *)
LEMMA FallsAddUp ==
  ASSUME NEW n \in Nat, NEW dest, NEW w \in [1 .. n -> Int], NEW t \in [1 .. n -> Nat],
         NEW a \in Nat, NEW b \in Nat \ {0},
         \A i, j \in 1 .. n : i <= j => t[i] <= t[j],
         \A i, j \in 1 .. n : t[i] = t[j] => w[i] = w[j],
         \A i, j \in 1 .. n :
           /\ i < j /\ dest[i] = dest[j] /\ \A k \in i + 1 .. j - 1 : dest[k] # dest[i]
           /\ w[i] - w[j] > 0 /\ t[j] - t[i] > 0
           => (w[i] - w[j]) * b <= a * (t[j] - t[i])
  PROVE  \A i, j \in 1 .. n : i <= j /\ dest[i] = dest[j] =>
           (w[i] - w[j]) * b <= a * (t[j] - t[i])
<1> DEFINE Q(i, j) == (w[i] - w[j]) * b <= a * (t[j] - t[i])
           Fine == {m \in 0 .. n : \A i, j \in 1 .. m : i <= j /\ dest[i] = dest[j] => Q(i, j)}
<1>1. ASSUME NEW i \in 1 .. n, NEW j \in 1 .. n, i <= j, w[i] - w[j] <= 0  PROVE  Q(i, j)
  <2>1. w[i] - w[j] \in Int /\ t[j] - t[i] \in Nat
    BY <1>1
  <2> QED
    BY ONLY <1>1, <2>1, a \in Nat, b \in Nat, NoFallIsNoSteeper
<1>2. ASSUME NEW i \in 1 .. n, NEW j \in 1 .. n, i < j, dest[i] = dest[j],
             \A k \in i + 1 .. j - 1 : dest[k] # dest[i]
      PROVE  Q(i, j)
  <2>1. CASE w[i] - w[j] <= 0
    BY <1>1, <1>2, <2>1
  <2>2. CASE w[i] - w[j] > 0
    <3>1. t[i] <= t[j] /\ t[i] # t[j]
      BY <1>2, <2>2
    <3>2. t[j] - t[i] > 0
      BY <3>1
    <3> QED
      BY <1>2, <2>2, <3>2
  <2> QED
    BY <2>1, <2>2
<1>3. ASSUME NEW i \in 1 .. n, NEW k \in 1 .. n, NEW j \in 1 .. n, Q(i, k), Q(k, j)
      PROVE  Q(i, j)
  <2>1. /\ w[i] \in Int /\ w[j] \in Int /\ w[k] \in Int
        /\ t[i] \in Int /\ t[j] \in Int /\ t[k] \in Int
    OBVIOUS
  <2>2. /\ (w[i] - w[k]) * b <= a * (t[k] - t[i])
        /\ (w[k] - w[j]) * b <= a * (t[j] - t[k])
    BY <1>3
  <2>3. a \in Nat /\ b \in Nat
    OBVIOUS
  <2>4. (w[i] - w[j]) * b <= a * (t[j] - t[i])
    BY ONLY <2>1, <2>2, <2>3, SlopesAdd, Zenon
  <2> QED
    BY <2>4
<1>4. 0 \in Fine
  OBVIOUS
<1>5. ASSUME NEW m \in 0 .. n - 1, m \in Fine  PROVE  m + 1 \in Fine
  <2>1. ASSUME NEW i \in 1 .. m + 1, NEW j \in 1 .. m + 1, i <= j, dest[i] = dest[j]
        PROVE  Q(i, j)
    <3>0. i \in 1 .. n /\ j \in 1 .. n
      OBVIOUS
    <3>1. CASE i = j
      BY <1>1, <3>0, <3>1
    <3>2. CASE i < j
      <4> DEFINE B == {k \in i .. j - 1 : dest[k] = dest[j]}
      <4>1. B \in SUBSET (0 .. n) /\ i \in B
        <5>1. i \in i .. j - 1 /\ i .. j - 1 \subseteq 0 .. n
          BY ONLY <3>0, <3>2, n \in Nat
        <5> QED
          BY <2>1, <5>1
      <4>2. Max(B) \in B /\ \A k \in B : k <= Max(B)
        BY <4>1, MaxIsGreatest
      <4>3. PICK k \in B : \A x \in B : x <= k
        BY <4>2
      <4>4. k \in 1 .. n /\ k < j /\ k \in 1 .. m /\ i \in 1 .. m /\ i <= k /\ dest[k] = dest[j]
        BY <3>0, <4>3
      <4>5. \A x \in k + 1 .. j - 1 : dest[x] # dest[k]
        BY <4>3, <4>4
      <4>6. Q(k, j)
        BY <1>2, <3>0, <4>4, <4>5
      <4>7. Q(i, k)
        BY <1>5, <2>1, <4>4
      <4> HIDE DEF Q
      <4> QED
        BY <1>3, <3>0, <4>4, <4>6, <4>7
    <3> QED
      BY <2>1, <3>1, <3>2
  <2> HIDE DEF Q
  <2> QED
    BY <2>1
<1> HIDE DEF Fine
<1>6. n \in Fine
  <2>1. 0 .. n \subseteq Fine
    BY ONLY n \in Nat, <1>4, <1>5, UpTo
  <2> QED
    BY ONLY n \in Nat, <2>1
<1> QED
  BY <1>6 DEF Fine

-----------------------------------------------------------------------------
(* Division by a positive number, and the sample as a point of one line.   *)
LEMMA Division ==
  ASSUME NEW a \in Int, NEW b \in Nat \ {0}
  PROVE  a \div b \in Int /\ (a % b) \in 0 .. b - 1 /\ a = b * (a \div b) + (a % b)
OBVIOUS

LEMMA DivisionUnique ==
  ASSUME NEW a \in Int, NEW b \in Nat \ {0}, NEW q \in Int, NEW r \in 0 .. b - 1, a = b * q + r
  PROVE  a \div b = q /\ (a % b) = r
OBVIOUS

LEMMA WholeTurns ==
  ASSUME NEW a \in Int, NEW b \in Nat \ {0}, NEW k \in Int
  PROVE  ((a + b * k) % b) = (a % b)
<1> DEFINE q == a \div b
           r == a % b
<1>1. q \in Int /\ r \in 0 .. b - 1 /\ a = b * q + r
  BY Division
<1> HIDE DEF q, r
<1>2. a + b * k = b * (q + k) + r /\ q + k \in Int /\ a + b * k \in Int
  BY <1>1
<1>3. ((a + b * k) % b) = r
  BY ONLY <1>1, <1>2, b \in Nat \ {0}, DivisionUnique
<1> QED
  BY <1>3 DEF r

LEMMA NextSecond ==
  ASSUME NEW a \in Int, NEW b \in Nat \ {0}
  PROVE  \/ (a + 1) \div b = a \div b /\ ((a + 1) % b) = (a % b) + 1
         \/ (a + 1) \div b = (a \div b) + 1 /\ ((a + 1) % b) = 0 /\ (a % b) = b - 1
<1> DEFINE q == a \div b
           r == a % b
<1>1. q \in Int /\ r \in 0 .. b - 1 /\ a = b * q + r
  BY Division
<1> HIDE DEF q, r
<1>2. CASE r + 1 \in 0 .. b - 1
  <2>1. a + 1 = b * q + (r + 1) /\ a + 1 \in Int
    BY <1>1
  <2>2. (a + 1) \div b = q /\ ((a + 1) % b) = r + 1
    BY ONLY <1>1, <1>2, <2>1, b \in Nat \ {0}, DivisionUnique
  <2> QED
    BY <2>2 DEF q, r
<1>3. CASE r + 1 = b
  <2>1. a + 1 = b * (q + 1) + 0 /\ a + 1 \in Int /\ q + 1 \in Int /\ 0 \in 0 .. b - 1
    BY <1>1, <1>3
  <2>2. (a + 1) \div b = q + 1 /\ ((a + 1) % b) = 0
    BY ONLY <2>1, b \in Nat \ {0}, DivisionUnique
  <2> QED
    BY <1>1, <1>3, <2>2 DEF q, r
<1> QED
  BY <1>1, <1>2, <1>3

Loads(surf) == surf.load \in [Stop -> [Hour -> Nat]]
HourLoad(surf, u, q) == surf.load[u][q % HOURS_PER_DAY]
OnLine(surf, u, q, past) ==
  HourLoad(surf, u, q) * SECONDS_PER_HOUR
    + (HourLoad(surf, u, q + 1) - HourLoad(surf, u, q)) * past

LEMMA HourLoadTyped ==
  ASSUME NEW surf, Loads(surf), NEW u \in Stop, NEW q \in Int
  PROVE  HourLoad(surf, u, q) \in Nat /\ HourLoad(surf, u, q) <= peak(surf)
<1>1. (q % HOURS_PER_DAY) \in Hour
  BY HoursAssumption, Division DEF Hour
<1> QED
  BY <1>1, PeakFacts DEF Loads, HourLoad

LEMMA SampleOnLine ==
  ASSUME NEW surf, Loads(surf), NEW u \in Stop, NEW t \in Nat
  PROVE  LET y == t - SECONDS_PER_HOUR \div 2
         IN  sample_load(surf, u, t, TRUE)
               = OnLine(surf, u, y \div SECONDS_PER_HOUR, y % SECONDS_PER_HOUR)
<1> DEFINE S == SECONDS_PER_HOUR
           H == HOURS_PER_DAY
           half == S \div 2
           y == t - half
           q == y \div S
           past == y % S
           D == H * S
           m == t \div D
           second == t % D
           x == second - half
           lo == (x \div S) % H
<1>1. S \in Nat \ {0} /\ H \in Nat \ {0}
  BY HoursAssumption
<1> HIDE DEF S, H
<1>2. D \in Nat \ {0} /\ D = H * S
  BY <1>1
<1> HIDE DEF D
<1>3. half \in Int
  BY <1>1
<1> HIDE DEF half
<1>4. y \in Int
  BY <1>3
<1>5. m \in Int /\ second \in Int /\ t = D * m + second /\ D * m \in Int
  <2>1. t \in Int
    OBVIOUS
  <2>2. m \in Int /\ second \in 0 .. D - 1 /\ t = D * m + second
    BY ONLY <1>2, <2>1, Division
  <2>3. D * m \in Int
    BY <1>2, <2>2
  <2> QED
    BY <2>2, <2>3
<1>6. q \in Int /\ past \in 0 .. S - 1 /\ y = S * q + past
  BY <1>1, <1>4, Division
<1> HIDE DEF m, second
<1>7. x \in Int /\ x = y - D * m
  <2>1. x = second - half /\ y = t - half
    OBVIOUS
  <2> HIDE DEF x, y
  <2> QED
    BY <1>3, <1>5, <2>1
<1> HIDE DEF x, y, q, past
<1>8. H * m \in Int /\ D * m = S * (H * m)
  BY <1>1, <1>2, <1>5
<1>9. x = S * (q - H * m) + past /\ q - H * m \in Int
  <2>1. S * (q - H * m) = S * q - S * (H * m)
    BY <1>1, <1>6, <1>8
  <2>2. S * q \in Int /\ S * (H * m) \in Int
    BY <1>1, <1>6, <1>8
  <2> QED
    BY <1>6, <1>7, <1>8, <2>1, <2>2
<1>10. x \div S = q - H * m /\ (x % S) = past
  BY ONLY <1>1, <1>6, <1>7, <1>9, DivisionUnique
<1>11. lo = (q % H)
  <2>1. q - H * m = q + H * (- m) /\ - m \in Int
    BY <1>1, <1>5, <1>6
  <2> QED
    <3>1. ((q + H * (- m)) % H) = (q % H)
      BY ONLY <1>1, <1>6, <2>1, WholeTurns
    <3> QED
      BY <1>10, <2>1, <3>1
<1>12. HourAfter(lo) = ((q + 1) % H)
  <2> DEFINE k == q \div H
             r == q % H
  <2>1. k \in Int /\ r \in 0 .. H - 1 /\ q = H * k + r
    BY <1>1, <1>6, Division
  <2> HIDE DEF k, r
  <2>2. q + 1 = (r + 1) + H * k /\ r + 1 \in Int
    BY <1>1, <2>1
  <2>3. ((q + 1) % H) = ((r + 1) % H)
    BY <1>1, <2>1, <2>2, WholeTurns
  <2> QED
    BY <1>11, <2>3 DEF HourAfter, H, r
<1>13. sample_load(surf, u, t, TRUE)
         = surf.load[u][lo] * S + (surf.load[u][HourAfter(lo)] - surf.load[u][lo]) * past
  BY <1>10 DEF sample_load, S, H, half, x, second, D
<1> QED
  BY <1>11, <1>12, <1>13 DEF OnLine, HourLoad, S, H, y, half, q, past

(* From one second to the next the load falls by no more than the peak.    *)
LEMMA LineFalls ==
  ASSUME NEW a \in Nat, NEW b \in Nat, NEW c \in Nat, NEW top \in Nat, a <= top, b <= top, c <= top,
         NEW s \in Nat \ {0}, NEW past \in 0 .. s - 1
  PROVE  /\ (a * s + (b - a) * past) - (a * s + (b - a) * (past + 1)) <= top
         /\ past = s - 1 => (a * s + (b - a) * past) - (b * s + (c - b) * 0) <= top
<1>1. (b - a) * (past + 1) = (b - a) * past + (b - a)
  OBVIOUS
<1>2. a * s \in Int /\ (b - a) * past \in Int /\ b - a \in Int
  OBVIOUS
<1>3. (a * s + (b - a) * past) - (a * s + (b - a) * (past + 1)) <= top
  BY <1>1, <1>2
<1>4. ASSUME past = s - 1
      PROVE  (a * s + (b - a) * past) - (b * s + (c - b) * 0) <= top
  <2>1. (b - a) * past = (b * s - a * s) - (b - a) /\ (c - b) * 0 = 0
    BY <1>4
  <2>2. a * s \in Int /\ b * s \in Int
    OBVIOUS
  <2> QED
    BY <2>1, <2>2
<1> QED
  BY <1>3, <1>4

LEMMA SampleFalls ==
  ASSUME NEW surf, Loads(surf), NEW u \in Stop, NEW t \in Nat
  PROVE  /\ sample_load(surf, u, t, TRUE) \in Int
         /\ sample_load(surf, u, t, TRUE) - sample_load(surf, u, t + 1, TRUE) <= peak(surf)
<1> DEFINE S == SECONDS_PER_HOUR
           half == S \div 2
           y == t - half
           next == (t + 1) - half
           a == HourLoad(surf, u, y \div S)
           b == HourLoad(surf, u, (y \div S) + 1)
           c == HourLoad(surf, u, (y \div S) + 2)
           past == y % S
           top == peak(surf)
<1>1. S \in Nat \ {0}
  BY HoursAssumption
<1>2. half \in Int
  BY <1>1
<1>3. y \in Int /\ next = y + 1
  BY <1>2
<1>4. y \div S \in Int /\ past \in 0 .. S - 1
  BY <1>1, <1>3, Division
<1>5. a \in Nat /\ b \in Nat /\ c \in Nat /\ top \in Nat /\ a <= top /\ b <= top /\ c <= top
  BY <1>4, HourLoadTyped, PeakFacts DEF Loads
<1>6. sample_load(surf, u, t, TRUE) = a * S + (b - a) * past
  BY SampleOnLine DEF OnLine
<1>7. sample_load(surf, u, t + 1, TRUE) = OnLine(surf, u, next \div S, next % S)
  <2>1. t + 1 \in Nat
    OBVIOUS
  <2> QED
    BY <2>1, SampleOnLine
<1> HIDE DEF next, a, b, c, past, top
<1>8. (a * S + (b - a) * past) \in Int
  BY <1>1, <1>4, <1>5
<1>9. CASE next \div S = y \div S /\ (next % S) = past + 1
  <2>1. sample_load(surf, u, t + 1, TRUE) = a * S + (b - a) * (past + 1)
    BY <1>7, <1>9 DEF OnLine, a, b
  <2>2. (a * S + (b - a) * past) - (a * S + (b - a) * (past + 1)) <= top
    BY ONLY <1>1, <1>4, <1>5, LineFalls
  <2> QED
    BY <1>6, <1>8, <2>1, <2>2 DEF top
<1>10. CASE next \div S = (y \div S) + 1 /\ (next % S) = 0 /\ past = S - 1
  <2>0. ((y \div S) + 1) + 1 = (y \div S) + 2
    BY <1>4
  <2>1. sample_load(surf, u, t + 1, TRUE) = b * S + (c - b) * 0
    BY <1>7, <1>10, <2>0 DEF OnLine, b, c
  <2>2. (a * S + (b - a) * past) - (b * S + (c - b) * 0) <= top
    BY ONLY <1>1, <1>4, <1>5, <1>10, LineFalls
  <2> QED
    BY <1>6, <1>8, <2>1, <2>2 DEF top
<1>11. \/ next \div S = y \div S /\ (next % S) = past + 1
       \/ next \div S = (y \div S) + 1 /\ (next % S) = 0 /\ past = S - 1
  BY <1>1, <1>3, NextSecond DEF past
<1> QED
  BY <1>9, <1>10, <1>11

(* Over d seconds, by no more than d times the peak.                       *)
LEMMA SampleFallsOver ==
  ASSUME NEW surf, Loads(surf), NEW u \in Stop, NEW t \in Nat, NEW d \in Nat
  PROVE  sample_load(surf, u, t, TRUE) - sample_load(surf, u, t + d, TRUE) <= peak(surf) * d
<1> DEFINE L(s) == sample_load(surf, u, s, TRUE)
           top == peak(surf)
           Fine == {k \in 0 .. d : L(t) - L(t + k) <= top * k}
<1>1. top \in Nat
  BY PeakFacts DEF Loads
<1>2. ASSUME NEW s \in Nat  PROVE  L(s) \in Int /\ L(s) - L(s + 1) <= top
  BY SampleFalls
<1> HIDE DEF L, top
<1>3. 0 \in Fine
  <2>1. t + 0 = t /\ top * 0 = 0 /\ L(t) \in Int
    BY <1>1, <1>2
  <2> QED
    BY <2>1
<1>4. ASSUME NEW k \in 0 .. d - 1, k \in Fine  PROVE  k + 1 \in Fine
  <2>1. L(t) - L(t + k) <= top * k
    BY <1>4
  <2>2. t + k \in Nat /\ (t + k) + 1 = t + (k + 1) /\ t + (k + 1) \in Nat
    OBVIOUS
  <2>3. L(t) \in Int /\ L(t + k) \in Int /\ L(t + (k + 1)) \in Int
    BY <1>2, <2>2
  <2>4. L(t + k) - L(t + (k + 1)) <= top
    BY <1>2, <2>2
  <2>5. top * (k + 1) = top * k + top /\ top * k \in Int
    BY <1>1
  <2>6. L(t) - L(t + (k + 1)) <= top * (k + 1)
    BY <1>1, <2>1, <2>3, <2>4, <2>5
  <2> QED
    BY <2>6
<1> HIDE DEF Fine
<1>5. 0 .. d \subseteq Fine
  BY ONLY d \in Nat, <1>3, <1>4, UpTo
<1>6. d \in Fine
  BY <1>5
<1> QED
  BY <1>6 DEF Fine, L, top

LEMMA DivisionOrder ==
  ASSUME NEW x \in Int, NEW y \in Int, NEW b \in Nat \ {0}, NEW d \in Int, x <= y + b * d
  PROVE  x \div b <= (y \div b) + d
<1> DEFINE p == x \div b
           q == y \div b
<1>1. /\ p \in Int /\ (x % b) \in 0 .. b - 1 /\ x = b * p + (x % b)
      /\ q \in Int /\ (y % b) \in 0 .. b - 1 /\ y = b * q + (y % b)
  BY Division
<1> HIDE DEF p, q
<1>2. SUFFICES ASSUME (q + d) + 1 <= p  PROVE  FALSE
  BY <1>1 DEF p, q
<1>3. ((q + d) + 1) * b <= p * b
  BY <1>1, <1>2, ProductOrder
<1>4. ((q + d) + 1) * b = b * q + b * d + b /\ p * b = b * p
  BY <1>1
<1>5. b * q \in Int /\ b * d \in Int /\ b * p \in Int
  BY <1>1
<1> QED
  BY <1>1, <1>3, <1>4, <1>5

-----------------------------------------------------------------------------
(* The weights: an integer at every second, and with a scale that is no    *)
(* more than an hour's seconds, no fall in d seconds of more than d.       *)
LEMMA SampleTyped ==
  ASSUME NEW surf, Loads(surf), NEW u \in Stop, NEW t \in Nat, NEW cfg
  PROVE  sample_load(surf, u, t, cfg.interpolate) \in Int
<1>1. CASE cfg.interpolate
  <2>1. sample_load(surf, u, t, cfg.interpolate) = sample_load(surf, u, t, TRUE)
    BY <1>1 DEF sample_load
  <2> QED
    BY <2>1, SampleFalls
<1>2. CASE ~ cfg.interpolate
  <2> DEFINE S == SECONDS_PER_HOUR
             H == HOURS_PER_DAY
             D == H * S
             second == t % D
             q == second \div S
  <2>1. S \in Nat \ {0} /\ H \in Nat \ {0}
    BY HoursAssumption
  <2> HIDE DEF S, H
  <2>2. D \in Nat \ {0}
    BY <2>1
  <2>3. second \in 0 .. D - 1
    <3> HIDE DEF D
    <3>1. t \in Int
      OBVIOUS
    <3> QED
      BY ONLY <2>2, <3>1, Division
  <2>3a. second \in Int /\ 0 <= second /\ second < H * S /\ H * S \in Int
    BY <2>2, <2>3
  <2> HIDE DEF second
  <2>4. q \in Int /\ (second % S) \in 0 .. S - 1 /\ second = S * q + (second % S)
    BY <2>1, <2>3a, Division
  <2> HIDE DEF q
  <2>5. q < H
    <3> SUFFICES ASSUME H <= q  PROVE  FALSE
      BY <2>1, <2>4
    <3>1. H * S <= q * S /\ q * S = S * q /\ S * q \in Int
      BY <2>1, <2>4, ProductOrder
    <3> QED
      BY <2>1, <2>3a, <2>4, <3>1
  <2>6. 0 <= q
    <3> SUFFICES ASSUME q <= -1  PROVE  FALSE
      BY <2>4
    <3>1. q * S <= (-1) * S /\ q * S = S * q /\ (-1) * S = - S /\ S * q \in Int
      BY <2>1, <2>4, ProductOrder
    <3> QED
      BY <2>1, <2>3a, <2>4, <3>1
  <2>7. surf.load[u][q] \in Nat
    BY <2>1, <2>4, <2>5, <2>6 DEF Loads, Hour, H
  <2>8. sample_load(surf, u, t, cfg.interpolate) = surf.load[u][q] * S
    BY <1>2 DEF sample_load, q, second, S, H
  <2> QED
    BY <2>1, <2>7, <2>8
<1> QED
  BY <1>1, <1>2

LEMMA WeightTyped ==
  ASSUME NEW surf, Loads(surf), NEW u \in Stop, NEW t \in Nat,
         NEW cfg, cfg.scale \in Nat, ~ (peak(surf) <= 0)
  PROVE  WeightAt(surf, cfg, u, t) \in Int
<1> DEFINE L == sample_load(surf, u, t, cfg.interpolate)
           whole == SECONDS_PER_HOUR * peak(surf)
<1>1. L \in Int
  BY SampleTyped
<1>2. whole \in Nat \ {0}
  <2>1. peak(surf) \in Nat \ {0} /\ SECONDS_PER_HOUR \in Nat \ {0}
    BY PeakFacts, HoursAssumption DEF Loads
  <2> QED
    BY <2>1
<1>3. WeightAt(surf, cfg, u, t) = (2 * L * cfg.scale + whole) \div (2 * whole)
  BY DEF WeightAt
<1> HIDE DEF L, whole
<1>4. 2 * L * cfg.scale + whole \in Int /\ 2 * whole \in Nat \ {0}
  BY <1>1, <1>2
<1> QED
  BY <1>3, <1>4, Division

LEMMA WeightFalls ==
  ASSUME NEW surf, Loads(surf), NEW u \in Stop, NEW t \in Nat, NEW d \in Nat,
         NEW cfg, cfg.scale \in Nat, cfg.scale <= SECONDS_PER_HOUR, cfg.interpolate,
         ~ (peak(surf) <= 0)
  PROVE  WeightAt(surf, cfg, u, t) <= WeightAt(surf, cfg, u, t + d) + d
<1> DEFINE L == sample_load(surf, u, t, TRUE)
           M == sample_load(surf, u, t + d, TRUE)
           S == SECONDS_PER_HOUR
           top == peak(surf)
           whole == S * top
           scale == cfg.scale
           x == 2 * L * scale + whole
           y == 2 * M * scale + whole
<1>1. /\ WeightAt(surf, cfg, u, t) = x \div (2 * whole)
      /\ WeightAt(surf, cfg, u, t + d) = y \div (2 * whole)
  BY DEF WeightAt, sample_load
<1>2. t + d \in Nat
  OBVIOUS
<1>3. L \in Int /\ M \in Int
  BY <1>2, SampleFalls
<1>4. S \in Nat \ {0} /\ top \in Nat \ {0} /\ scale \in Nat /\ scale <= S
  BY PeakFacts, HoursAssumption DEF Loads
<1>5. L - M <= top * d
  BY SampleFallsOver
<1> HIDE DEF L, M, S, top, scale
<1>6. (L - M) * scale <= (top * d) * S
  <2>1. top * d \in Nat /\ L - M \in Int
    BY <1>3, <1>4
  <2>2. (L - M) * scale <= (top * d) * scale
    BY <1>4, <1>5, <2>1, ProductOrder
  <2>3. scale * (top * d) <= S * (top * d)
    BY <1>4, <2>1, ProductOrder
  <2>4. scale * (top * d) = (top * d) * scale /\ S * (top * d) = (top * d) * S
    BY <1>4, <2>1
  <2>5. (L - M) * scale \in Int /\ (top * d) * scale \in Int /\ (top * d) * S \in Int
    BY <1>4, <2>1
  <2> QED
    BY <2>2, <2>3, <2>4, <2>5
<1>7. whole \in Nat \ {0} /\ 2 * whole \in Nat \ {0} /\ x \in Int /\ y \in Int
  BY <1>3, <1>4
<1>8. x <= y + (2 * whole) * d
  <2>1. (L - M) * scale = L * scale - M * scale /\ (2 * whole) * d = 2 * ((top * d) * S)
    BY <1>3, <1>4
  <2>2. 2 * L * scale = 2 * (L * scale) /\ 2 * M * scale = 2 * (M * scale)
    BY <1>3, <1>4
  <2>3. /\ L * scale \in Int /\ M * scale \in Int /\ (top * d) * S \in Int
        /\ whole \in Int
    BY <1>3, <1>4
  <2> HIDE DEF whole
  <2> QED
    BY <1>6, <2>1, <2>2, <2>3
<1> HIDE DEF x, y, whole
<1>9. x \div (2 * whole) <= (y \div (2 * whole)) + d
  BY <1>7, <1>8, DivisionOrder
<1> QED
  BY <1>1, <1>9

-----------------------------------------------------------------------------
(* The falls of a graph: finitely many, so that one of them is steepest.   *)
WeightedEdges(g) ==
  \A u \in Stop : \E n \in Nat :
    /\ DOMAIN g.edges[u] = 1 .. n
    /\ \A i \in 1 .. n : /\ g.edges[u][i].secondary_weight \in Int
                         /\ g.edges[u][i].departure_time \in Nat

LEMMA FallsMembers ==
  ASSUME NEW g, NEW s
  PROVE  s \in Falls(g) <=>
           \E u \in Stop : \E i, j \in DOMAIN g.edges[u] :
             /\ Follows(g.edges[u], i, j) /\ s = Fall(g.edges[u][i], g.edges[u][j])
             /\ IsFall(s)
<1> DEFINE Of(u) == LET es == g.edges[u]
                    IN  {x \in {Fall(es[ij[1]], es[ij[2]]) :
                                  ij \in {p \in (DOMAIN es) \X (DOMAIN es) :
                                            Follows(es, p[1], p[2])}} : IsFall(x)}
<1>1. Falls(g) = UNION {Of(u) : u \in Stop}
  BY DEF Falls
<1>2. ASSUME NEW u \in Stop
      PROVE  s \in Of(u) <=> \E i, j \in DOMAIN g.edges[u] :
                               /\ Follows(g.edges[u], i, j)
                               /\ s = Fall(g.edges[u][i], g.edges[u][j]) /\ IsFall(s)
  <2> DEFINE es == g.edges[u]
             D == DOMAIN es
  <2>1. ASSUME s \in Of(u)
        PROVE  \E i, j \in D : Follows(es, i, j) /\ s = Fall(es[i], es[j]) /\ IsFall(s)
    <3>1. PICK p \in D \X D : /\ Follows(es, p[1], p[2]) /\ s = Fall(es[p[1]], es[p[2]])
                              /\ IsFall(s)
      BY <2>1
    <3>2. p[1] \in D /\ p[2] \in D
      OBVIOUS
    <3> QED
      BY <3>1, <3>2
  <2>2. ASSUME NEW i \in D, NEW j \in D, Follows(es, i, j), s = Fall(es[i], es[j]), IsFall(s)
        PROVE  s \in Of(u)
    <3>1. << i, j >> \in D \X D /\ << i, j >>[1] = i /\ << i, j >>[2] = j
      OBVIOUS
    <3> QED
      BY <2>2, <3>1
  <2> HIDE DEF Of
  <2> QED
    BY <2>1, <2>2
<1> HIDE DEF Of
<1> QED
  BY <1>1, <1>2

LEMMA FallsFinite ==
  ASSUME NEW g, WeightedEdges(g)
  PROVE  IsFiniteSet(Falls(g)) /\ Falls(g) \subseteq (Nat \ {0}) \X (Nat \ {0})
<1> DEFINE F == [u \in Stop |-> {Fall(g.edges[u][p[1]], g.edges[u][p[2]]) :
                                   p \in (DOMAIN g.edges[u]) \X (DOMAIN g.edges[u])}]
<1>1. ASSUME NEW u \in Stop  PROVE  IsFiniteSet(F[u])
  <2> DEFINE P == (DOMAIN g.edges[u]) \X (DOMAIN g.edges[u])
             f == [p \in P |-> Fall(g.edges[u][p[1]], g.edges[u][p[2]])]
  <2>1. IsFiniteSet(P)
    <3>1. PICK n \in Nat : DOMAIN g.edges[u] = 1 .. n
      BY DEF WeightedEdges
    <3>2. IsFiniteSet(DOMAIN g.edges[u])
      BY <3>1, FS_Interval
    <3> QED
      BY <3>2, FS_Product
  <2>2. f \in Surjection(P, F[u])
    BY DEF Surjection
  <2> QED
    BY <2>1, <2>2, FS_Surjection
<1>2. IsFiniteSet(Stop)
  BY FS_Interval, Sizes DEF Stop
<1>3. Falls(g) \subseteq UNION {F[u] : u \in Stop}
  <2> SUFFICES ASSUME NEW s \in Falls(g)  PROVE  \E u \in Stop : s \in F[u]
    OBVIOUS
  <2>1. PICK u \in Stop : \E i, j \in DOMAIN g.edges[u] : s = Fall(g.edges[u][i], g.edges[u][j])
    BY FallsMembers
  <2> DEFINE D == DOMAIN g.edges[u]
  <2>2. PICK i \in D, j \in D : s = Fall(g.edges[u][i], g.edges[u][j])
    BY <2>1
  <2>3. << i, j >> \in D \X D /\ << i, j >>[1] = i /\ << i, j >>[2] = j
    OBVIOUS
  <2>4. s \in F[u]
    BY <2>2, <2>3
  <2> QED
    BY <2>4
<1> HIDE DEF F
<1>4. IsFiniteSet(UNION {F[u] : u \in Stop})
  BY <1>1, <1>2, UnionIsFinite
<1>5. ASSUME NEW s \in Falls(g)  PROVE  s \in (Nat \ {0}) \X (Nat \ {0})
  <2>1. PICK u \in Stop : \E i, j \in DOMAIN g.edges[u] :
               s = Fall(g.edges[u][i], g.edges[u][j]) /\ IsFall(s)
    BY FallsMembers
  <2>2. PICK i \in DOMAIN g.edges[u], j \in DOMAIN g.edges[u] :
               s = Fall(g.edges[u][i], g.edges[u][j]) /\ IsFall(s)
    BY <2>1
  <2> DEFINE x == g.edges[u][i].secondary_weight - g.edges[u][j].secondary_weight
             y == g.edges[u][j].departure_time - g.edges[u][i].departure_time
  <2>3. x \in Int /\ y \in Int
    <3>1. \A k \in DOMAIN g.edges[u] : /\ g.edges[u][k].secondary_weight \in Int
                                       /\ g.edges[u][k].departure_time \in Nat
      BY DEF WeightedEdges
    <3> QED
      BY <3>1
  <2>4. s = << x, y >> /\ s[1] > 0 /\ s[2] > 0
    BY <2>2 DEF Fall, IsFall
  <2> HIDE DEF x, y
  <2> QED
    BY <2>3, <2>4
<1> QED
  BY <1>3, <1>4, <1>5, FS_Subset

LEMMA SteepestOfAll ==
  ASSUME NEW g, WeightedEdges(g)
  PROVE  LET r == max_negative_slope(g)
         IN  /\ r \in Falls(g) \/ r = << 0, 1 >>
             /\ r \in Nat \X (Nat \ {0})
             /\ \A s \in Falls(g) : NoSteeper(s, r)
<1> DEFINE S == Falls(g)
           P == Nat \ {0}
           order == {p \in S \X S : NoSteeper(p[1], p[2])}
<1>1. IsFiniteSet(S) /\ S \subseteq P \X P
  BY FallsFinite
<1>2. CASE S = {}
  BY <1>2 DEF max_negative_slope
<1>3. CASE S # {}
  <2>1. ASSUME NEW x \in S, NEW y \in S  PROVE  NoSteeper(x, y) \/ NoSteeper(y, x)
    <3>1. PICK a \in P, b \in P, c \in P, d \in P : x = << a, b >> /\ y = << c, d >>
      BY <1>1
    <3>2. a * d \in Int /\ c * b \in Int
      OBVIOUS
    <3>3. a * d <= c * b \/ c * b <= a * d
      BY <3>2
    <3> QED
      BY <3>1, <3>3 DEF NoSteeper
  <2>2. ASSUME NEW x \in S, NEW y \in S, NEW z \in S, NoSteeper(x, y), NoSteeper(y, z)
        PROVE  NoSteeper(x, z)
    <3>0. x \in P \X P /\ y \in P \X P /\ z \in P \X P
      BY <1>1
    <3>1. PICK a \in P, b \in P, c \in P, d \in P, e \in P, f \in P :
            x = << a, b >> /\ y = << c, d >> /\ z = << e, f >>
      BY ONLY <3>0
    <3>2. a * d <= c * b /\ c * f <= e * d
      BY <2>2, <3>1 DEF NoSteeper
    <3>3. a * f <= e * b
      <4>1. /\ a \in Nat /\ b \in Nat \ {0} /\ c \in Nat /\ d \in Nat \ {0}
            /\ e \in Nat /\ f \in Nat \ {0}
        OBVIOUS
      <4> QED
        BY ONLY <3>2, <4>1, SlopesTransitive
    <3> QED
      BY <3>1, <3>3 DEF NoSteeper
  <2>3. \A x, y \in S : << x, y >> \in order <=> NoSteeper(x, y)
    OBVIOUS
  <2> HIDE DEF S, order
  <2>4. \A x, y \in S : << x, y >> \in order \/ << y, x >> \in order
    BY <2>1, <2>3
  <2>5. \A x, y, z \in S : << x, y >> \in order /\ << y, z >> \in order => << x, z >> \in order
    BY <2>2, <2>3
  <2>6. \E m \in S : \A x \in S : << x, m >> \in order
    BY <1>1, <1>3, <2>4, <2>5, LastInOrder
  <2>7. \E m \in S : \A x \in S : NoSteeper(x, m)
    BY <2>3, <2>6
  <2>8. max_negative_slope(g) = CHOOSE m \in S : \A x \in S : NoSteeper(x, m)
    BY <1>3 DEF max_negative_slope, S
  <2>9. max_negative_slope(g) \in S /\ \A x \in S : NoSteeper(x, max_negative_slope(g))
    BY <2>7, <2>8
  <2>10. max_negative_slope(g) \in Nat \X (Nat \ {0})
    BY <1>1, <2>9
  <2> QED
    BY <2>9, <2>10 DEF S
<1> QED
  BY <1>2, <1>3

(* What a rewritten graph is.                                              *)
LEMMA AppliedFacts ==
  ASSUME StudyInv, Applied
  PROVE  /\ WellFormed(feed) /\ Loads(surface) /\ ~ (peak(surface) <= 0)
         /\ crowd.config.scale \in Nat
         /\ crowd.report.max_negative_slope = max_negative_slope(graph)
         /\ WeightedEdges(graph)
         /\ \A u \in Stop : \E n \in Nat :
              /\ DOMAIN graph.edges[u] = 1 .. n
              /\ \A i \in 1 .. n :
                   /\ graph.edges[u][i].departure_time \in Nat
                   /\ graph.edges[u][i].secondary_weight
                        = WeightAt(surface, crowd.config, u, graph.edges[u][i].departure_time)
              /\ \A i, j \in 1 .. n :
                   i <= j => graph.edges[u][i].departure_time <= graph.edges[u][j].departure_time
<1>1. Weighted(graph) /\ Built /\ surface # None
  BY DEF StudyInv, Applied
<1>2. WellFormed(feed)
  BY <1>1, FeedIsWellFormed DEF StudyInv
<1>3. Loads(surface)
  BY <1>1, SurfaceFacts DEF StudyInv, Loads
<1>4. ~ (peak(surface) <= 0) /\ crowd.config.scale \in Nat
      /\ crowd.report.max_negative_slope = max_negative_slope(graph)
  <2>1. ~ (peak(surface) <= 0) /\ crowd.config \in CrowdConfigs
        /\ crowd.report = CrowdApplyReport(graph, surface)
    BY <1>1 DEF Weighted
  <2>2. CrowdApplyReport(graph, surface).max_negative_slope = max_negative_slope(graph)
    BY DEF CrowdApplyReport
  <2> QED
    BY <2>1, <2>2, CrowdConfigsAssumption
<1>5. PICK base : BaseGraph(base) /\ graph = Reweighted(base, surface, crowd.config)
  BY <1>1 DEF Weighted
<1>6. ASSUME NEW u \in Stop
      PROVE  \E n \in Nat :
               /\ DOMAIN graph.edges[u] = 1 .. n
               /\ \A i \in 1 .. n :
                    /\ graph.edges[u][i].departure_time \in Nat
                    /\ graph.edges[u][i].secondary_weight
                         = WeightAt(surface, crowd.config, u, graph.edges[u][i].departure_time)
                    /\ graph.edges[u][i].secondary_weight \in Int
               /\ \A i, j \in 1 .. n :
                    i <= j => graph.edges[u][i].departure_time <= graph.edges[u][j].departure_time
  <2> DEFINE n == Cardinality(SegmentsFrom(feed, u))
             es == base.edges[u]
             fs == graph.edges[u]
  <2>1. /\ n \in Nat /\ DOMAIN es = 1 .. n
        /\ \A i \in 1 .. n : EdgeLike(es[i])
        /\ \A i, j \in 1 .. n : i <= j => es[i].departure_time <= es[j].departure_time
    BY <1>2, <1>5, BaseEdges
  <2>2. /\ DOMAIN fs = DOMAIN es
        /\ \A i \in DOMAIN es :
             /\ fs[i].departure_time = es[i].departure_time
             /\ fs[i].secondary_weight = WeightAt(surface, crowd.config, u, es[i].departure_time)
    BY <1>2, <1>5, ReweightedEdges
  <2> HIDE DEF n, es, fs
  <2>3. \A i \in 1 .. n : es[i].departure_time \in Nat
    BY <2>1 DEF EdgeLike
  <2>4. \A i \in 1 .. n :
          /\ fs[i].departure_time \in Nat
          /\ fs[i].secondary_weight = WeightAt(surface, crowd.config, u, fs[i].departure_time)
    BY <2>1, <2>2, <2>3
  <2>5. \A i \in 1 .. n : fs[i].secondary_weight \in Int
    BY <1>3, <1>4, <2>4, WeightTyped
  <2>6. \A i, j \in 1 .. n : i <= j => fs[i].departure_time <= fs[j].departure_time
    BY <2>1, <2>2
  <2> QED
    BY <2>1, <2>2, <2>4, <2>5, <2>6 DEF fs
<1> QED
  BY <1>2, <1>3, <1>4, <1>6 DEF WeightedEdges

LEMMA SteepestOfStudy == StudyInv => SteepestFallIsAdjacent
<1> SUFFICES ASSUME StudyInv, Applied, NEW u \in Stop,
                    NEW i \in DOMAIN graph.edges[u], NEW j \in DOMAIN graph.edges[u],
                    graph.edges[u][i].destination = graph.edges[u][j].destination,
                    IsFall(Fall(graph.edges[u][i], graph.edges[u][j]))
             PROVE  NoSteeper(Fall(graph.edges[u][i], graph.edges[u][j]),
                              crowd.report.max_negative_slope)
  BY DEF SteepestFallIsAdjacent
<1> DEFINE es == graph.edges[u]
           r == max_negative_slope(graph)
<1>1. PICK n \in Nat :
        /\ DOMAIN es = 1 .. n
        /\ \A x \in 1 .. n :
             /\ es[x].departure_time \in Nat
             /\ es[x].secondary_weight
                  = WeightAt(surface, crowd.config, u, es[x].departure_time)
        /\ \A x, y \in 1 .. n : x <= y => es[x].departure_time <= es[y].departure_time
  BY AppliedFacts
<1>2. WeightedEdges(graph) /\ crowd.report.max_negative_slope = r
  BY AppliedFacts
<1>3. r \in Nat \X (Nat \ {0}) /\ \A s \in Falls(graph) : NoSteeper(s, r)
  BY <1>2, SteepestOfAll
<1>4. \A x \in 1 .. n : es[x].secondary_weight \in Int
  BY <1>1, <1>2 DEF WeightedEdges
<1> DEFINE dest == [x \in 1 .. n |-> es[x].destination]
           w == [x \in 1 .. n |-> es[x].secondary_weight]
           t == [x \in 1 .. n |-> es[x].departure_time]
           a == r[1]
           b == r[2]
<1>5. w \in [1 .. n -> Int] /\ t \in [1 .. n -> Nat]
  BY <1>1, <1>4
<1>6. a \in Nat /\ b \in Nat \ {0} /\ r = << a, b >>
  BY <1>3
<1>7. \A x \in 1 .. n : /\ dest[x] = es[x].destination /\ w[x] = es[x].secondary_weight
                        /\ t[x] = es[x].departure_time
  OBVIOUS
<1> HIDE DEF dest, w, t, a, b, r
<1>8. \A x, y \in 1 .. n : x <= y => t[x] <= t[y]
  BY <1>1, <1>7
<1>9. \A x, y \in 1 .. n : t[x] = t[y] => w[x] = w[y]
  BY <1>1, <1>7
<1>10. ASSUME NEW x \in 1 .. n, NEW y \in 1 .. n, x < y, dest[x] = dest[y],
              \A k \in x + 1 .. y - 1 : dest[k] # dest[x], w[x] - w[y] > 0, t[y] - t[x] > 0
       PROVE  (w[x] - w[y]) * b <= a * (t[y] - t[x])
  <2> DEFINE s == << w[x] - w[y], t[y] - t[x] >>
  <2>1. s = Fall(es[x], es[y])
    BY <1>7 DEF Fall
  <2>2. IsFall(s)
    BY <1>10 DEF IsFall
  <2>3. Follows(es, x, y)
    <3>1. \A k \in x + 1 .. y - 1 : k \in 1 .. n
      OBVIOUS
    <3> QED
      BY <1>7, <1>10, <3>1 DEF Follows
  <2>4. s \in Falls(graph)
    BY <1>1, <2>1, <2>2, <2>3, FallsMembers
  <2>5. NoSteeper(s, r)
    BY <1>3, <2>4
  <2> QED
    BY <1>6, <2>5 DEF NoSteeper
<1>11. \A x, y \in 1 .. n : x <= y /\ dest[x] = dest[y] =>
         (w[x] - w[y]) * b <= a * (t[y] - t[x])
  BY <1>5, <1>6, <1>8, <1>9, <1>10, FallsAddUp
<1>12. t[j] - t[i] > 0 /\ i \in 1 .. n /\ j \in 1 .. n
  BY <1>1, <1>7 DEF IsFall, Fall
<1>13. i <= j
  <2> SUFFICES ASSUME j <= i  PROVE  t[j] <= t[i]
    BY <1>5, <1>12
  <2> QED
    BY <1>8, <1>12
<1>14. (w[i] - w[j]) * b <= a * (t[j] - t[i])
  BY <1>7, <1>11, <1>12, <1>13
<1> QED
  BY <1>2, <1>6, <1>7, <1>12, <1>14 DEF NoSteeper, Fall

(* No two departures of a link fall more steeply than the report of        *)
(* apply_hourly_crowd says, which compares only consecutive ones           *)
(* (SteepestFallIsAdjacent).                                               *)
THEOREM SteepestFallHolds == StudySpec => []SteepestFallIsAdjacent
BY StudyInvAlways, SteepestOfStudy, PTL

LEMMA FIFOOfStudy == StudyInv => InterpolationKeepsFIFO
<1> SUFFICES ASSUME StudyInv, Applied, crowd.config.interpolate,
                    crowd.config.scale <= SECONDS_PER_HOUR
             PROVE  crowd.report.fifo_bound_holds
  BY DEF InterpolationKeepsFIFO
<1> DEFINE r == max_negative_slope(graph)
<1>1. WeightedEdges(graph)
  BY AppliedFacts
<1>2. crowd.report.fifo_bound_holds = NoSteeper(r, << 1, 1 >>)
  <2>1. crowd.report = CrowdApplyReport(graph, surface)
    BY DEF StudyInv, Weighted
  <2>2. CrowdApplyReport(graph, surface).fifo_bound_holds = NoSteeper(r, << 1, 1 >>)
    BY DEF CrowdApplyReport
  <2> QED
    BY <2>1, <2>2
<1>3. r \in Falls(graph) \/ r = << 0, 1 >>
  BY <1>1, SteepestOfAll
<1>4. ASSUME r = << 0, 1 >>  PROVE  NoSteeper(r, << 1, 1 >>)
  BY <1>4 DEF NoSteeper
<1>5. ASSUME r \in Falls(graph)  PROVE  NoSteeper(r, << 1, 1 >>)
  <2>1. PICK u \in Stop : \E i, j \in DOMAIN graph.edges[u] :
               Follows(graph.edges[u], i, j) /\ r = Fall(graph.edges[u][i], graph.edges[u][j])
    BY <1>5, FallsMembers
  <2> DEFINE es == graph.edges[u]
  <2>2. PICK i \in DOMAIN es, j \in DOMAIN es : Follows(es, i, j) /\ r = Fall(es[i], es[j])
    BY <2>1
  <2>3. PICK n \in Nat :
          /\ DOMAIN es = 1 .. n
          /\ \A x \in 1 .. n :
               /\ es[x].departure_time \in Nat
               /\ es[x].secondary_weight
                    = WeightAt(surface, crowd.config, u, es[x].departure_time)
          /\ \A x, y \in 1 .. n : x <= y => es[x].departure_time <= es[y].departure_time
    BY AppliedFacts
  <2> DEFINE t == es[i].departure_time
             d == es[j].departure_time - t
             w == es[i].secondary_weight
             v == es[j].secondary_weight
  <2>4. t \in Nat /\ d \in Nat /\ es[j].departure_time = t + d
    BY <2>2, <2>3 DEF Follows
  <2>5. w \in Int /\ v \in Int
    BY <1>1, <2>2 DEF WeightedEdges
  <2>6. /\ w = WeightAt(surface, crowd.config, u, t)
        /\ v = WeightAt(surface, crowd.config, u, t + d)
    BY <2>2, <2>3, <2>4
  <2>7. r = << w - v, d >>
    BY <2>2 DEF Fall
  <2> HIDE DEF t, d, w, v, r, es
  <2>8. w <= v + d
    BY <2>4, <2>6, AppliedFacts, WeightFalls
  <2> QED
    BY <2>4, <2>5, <2>7, <2>8 DEF NoSteeper
<1>6. NoSteeper(r, << 1, 1 >>)
  BY <1>3, <1>4, <1>5
<1> HIDE DEF r
<1> QED
  BY <1>2, <1>6, Zenon

(* With a scale of no more than an hour's seconds the weights that are     *)
(* interpolated fall by no more than time passes, rounded and across       *)
(* midnight too (InterpolationKeepsFIFO).                                  *)
THEOREM InterpolationHolds == StudySpec => []InterpolationKeepsFIFO
BY StudyInvAlways, FIFOOfStudy, PTL

-----------------------------------------------------------------------------
(* One root hung under another: ends that had one root have one, the two   *)
(* that are united too, and no element leaves the set its root is in.      *)
Forests ==
  {d \in [root : [Stop -> Stop], rank : [Stop -> Nat]] :
     \A p \in Stop : d.root[d.root[p]] = d.root[p]}
KeepsTo(d, R) == \A p \in Stop : p \in R <=> d.root[p] \in R

UnitedIn(d, a, b, e) ==
  /\ e \in Forests
  /\ e.root[a] = e.root[b]
  /\ \A p, q \in Stop : d.root[p] = d.root[q] => e.root[p] = e.root[q]
  /\ \A R \in SUBSET Stop : KeepsTo(d, R) /\ (a \in R <=> b \in R) => KeepsTo(e, R)

LEMMA UniteFacts ==
  ASSUME NEW d \in Forests, NEW a \in Stop, NEW b \in Stop
  PROVE  UnitedIn(d, a, b, unite(d, a, b))
<1> DEFINE ra == d.root[a]
           rb == d.root[b]
           over == IF d.rank[ra] < d.rank[rb] THEN rb ELSE ra
           under == IF over = ra THEN rb ELSE ra
           e == unite(d, a, b)
           root == [p \in Stop |-> IF d.root[p] = under THEN over ELSE d.root[p]]
           rank == IF d.rank[ra] = d.rank[rb] THEN [d.rank EXCEPT ![over] = @ + 1] ELSE d.rank
<1>1. /\ d.root \in [Stop -> Stop] /\ d.rank \in [Stop -> Nat]
      /\ \A p \in Stop : d.root[d.root[p]] = d.root[p]
  BY DEF Forests
<1>2. CASE ra = rb
  BY <1>1, <1>2 DEF unite, UnitedIn
<1>3. CASE ra # rb
  <2>1. e = [root |-> root, rank |-> rank]
    BY <1>3 DEF unite
  <2>2. /\ ra \in Stop /\ rb \in Stop /\ d.root[ra] = ra /\ d.root[rb] = rb
    BY <1>1
  <2>3. \/ over = ra /\ under = rb
        \/ over = rb /\ under = ra
    BY <1>3
  <2>4. over \in Stop /\ under \in Stop /\ over # under /\ d.root[over] = over
    BY <1>3, <2>2, <2>3
  <2> HIDE DEF over, under
  <2>5. root \in [Stop -> Stop] /\ rank \in [Stop -> Nat]
    BY <1>1, <2>4
  <2>6. \A p \in Stop : root[p] = IF d.root[p] = under THEN over ELSE d.root[p]
    OBVIOUS
  <2>7. e.root = root /\ e.rank = rank
    BY <2>1
  <2> HIDE DEF root, rank, e
  <2>8. \A p \in Stop : root[root[p]] = root[p]
    BY <1>1, <2>4, <2>6
  <2>9. e \in Forests
    BY <2>1, <2>5, <2>7, <2>8 DEF Forests
  <2>10. root[a] = root[b]
    BY <2>3, <2>6 DEF ra, rb
  <2>11. \A p, q \in Stop : d.root[p] = d.root[q] => root[p] = root[q]
    BY <2>6
  <2>12. ASSUME NEW R \in SUBSET Stop, KeepsTo(d, R), a \in R <=> b \in R  PROVE  KeepsTo(e, R)
    <3>1. ra \in R <=> rb \in R
      BY <2>12 DEF KeepsTo
    <3>2. over \in R <=> under \in R
      BY <2>3, <3>1
    <3> QED
      BY <2>6, <2>7, <2>12, <3>2 DEF KeepsTo
  <2> QED
    BY <2>7, <2>9, <2>10, <2>11, <2>12 DEF e, UnitedIn
<1> HIDE DEF e
<1> QED
  BY <1>2, <1>3 DEF e

(* All walks merged: one root for the ends of each, and none leaves a set  *)
(* which every walk keeps to.                                              *)
Resolved(t) == t.from_stop # Unresolved /\ t.to_stop # Unresolved
StayedIn(ts, k, R) ==
  \A j \in 1 .. k : Resolved(ts[j]) => (ts[j].from_stop \in R <=> ts[j].to_stop \in R)
JoinedTo(ts, k) ==
  {d \in Forests :
     /\ \A j \in 1 .. k : Resolved(ts[j]) => d.root[ts[j].from_stop] = d.root[ts[j].to_stop]
     /\ \A R \in SUBSET Stop : StayedIn(ts, k, R) => KeepsTo(d, R)}

LEMMA MergedFacts ==
  ASSUME NEW ts \in Seq(TransferRecords)
  PROVE  Merged(ts) \in JoinedTo(ts, Len(ts))
<1> DEFINE n == Len(ts)
           S == Forests
           op(d, t) == IF t.from_stop = Unresolved \/ t.to_stop = Unresolved THEN d
                       ELSE unite(d, t.from_stop, t.to_stop)
           base == DisjointSet
           step == [i \in 1 .. n |-> [x \in S |-> op(x, ts[i])]]
           Good == [i \in 0 .. n |-> JoinedTo(ts, i)]
           eq(f) == [t \in SUBSET (1 .. n) |->
                       IF t = {} THEN base ELSE op(f[t \ {Max(t)}], ts[Max(t)])]
           F == CHOOSE f : f = eq(f)
<1>1. n \in Nat /\ DOMAIN ts = 1 .. n /\ \A i \in 1 .. n : ts[i] \in TransferRecords
  OBVIOUS
<1>2. Merged(ts) = F[1 .. n]
  BY <1>1 DEF Merged, FoldLeft, MapThenFoldSet
<1>3. ASSUME NEW i \in 1 .. n, Resolved(ts[i])  PROVE  ts[i].from_stop \in Stop /\ ts[i].to_stop \in Stop
  <2>1. ts[i].from_stop \in 0 .. NumStops /\ ts[i].to_stop \in 0 .. NumStops
    BY <1>1 DEF TransferRecords
  <2> QED
    BY <1>3, <2>1, Sizes DEF Resolved, Unresolved, Stop
<1>4. ASSUME NEW i \in 1 .. n, NEW x \in S  PROVE  op(x, ts[i]) \in S
  <2>1. CASE Resolved(ts[i])
    <3>1. UnitedIn(x, ts[i].from_stop, ts[i].to_stop, unite(x, ts[i].from_stop, ts[i].to_stop))
      BY <1>3, <2>1, UniteFacts
    <3>2. op(x, ts[i]) = unite(x, ts[i].from_stop, ts[i].to_stop)
      BY <2>1 DEF Resolved
    <3> QED
      BY <3>1, <3>2 DEF UnitedIn
  <2>2. CASE ~ Resolved(ts[i])
    BY <2>2 DEF Resolved
  <2> QED
    BY <2>1, <2>2
<1>5. base \in S
  BY DEF DisjointSet, Forests
<1>6. base \in Good[0]
  BY <1>5 DEF JoinedTo, KeepsTo, DisjointSet
<1>7. ASSUME NEW i \in 1 .. n, NEW x \in S, x \in Good[i - 1]  PROVE  op(x, ts[i]) \in Good[i]
  <2> DEFINE y == op(x, ts[i])
  <2>0. i - 1 \in 0 .. n /\ i \in 0 .. n /\ 1 .. i = (1 .. i - 1) \cup {i}
    BY <1>1
  <2>1. x \in JoinedTo(ts, i - 1)
    BY <1>7, <2>0
  <2>2. \A j \in 1 .. i - 1 : Resolved(ts[j]) =>
          /\ ts[j].from_stop \in Stop /\ ts[j].to_stop \in Stop
          /\ x.root[ts[j].from_stop] = x.root[ts[j].to_stop]
    BY <1>3, <2>1 DEF JoinedTo
  <2>3. \A R \in SUBSET Stop : StayedIn(ts, i, R) =>
          /\ KeepsTo(x, R) /\ (Resolved(ts[i]) => (ts[i].from_stop \in R <=> ts[i].to_stop \in R))
    <3> SUFFICES ASSUME NEW R \in SUBSET Stop, StayedIn(ts, i, R)
                 PROVE  /\ KeepsTo(x, R)
                        /\ Resolved(ts[i]) => (ts[i].from_stop \in R <=> ts[i].to_stop \in R)
      OBVIOUS
    <3>1. StayedIn(ts, i - 1, R)
      BY <2>0 DEF StayedIn
    <3> QED
      BY <2>0, <2>1, <3>1 DEF JoinedTo, StayedIn
  <2>4. CASE Resolved(ts[i])
    <3>1. y = unite(x, ts[i].from_stop, ts[i].to_stop)
      BY <2>4 DEF Resolved
    <3> HIDE DEF y
    <3>2. UnitedIn(x, ts[i].from_stop, ts[i].to_stop, y)
      BY <1>3, <2>4, <3>1, UniteFacts
    <3>3. \A j \in 1 .. i : Resolved(ts[j]) => y.root[ts[j].from_stop] = y.root[ts[j].to_stop]
      BY <2>0, <2>2, <3>2 DEF UnitedIn
    <3>4. \A R \in SUBSET Stop : StayedIn(ts, i, R) => KeepsTo(y, R)
      BY <2>3, <2>4, <3>2 DEF UnitedIn
    <3>5. y \in JoinedTo(ts, i)
      BY <3>2, <3>3, <3>4 DEF JoinedTo, UnitedIn
    <3> QED
      BY <2>0, <3>5 DEF y
  <2>5. CASE ~ Resolved(ts[i])
    <3>1. y = x
      BY <2>5 DEF Resolved
    <3>2. \A j \in 1 .. i : Resolved(ts[j]) => x.root[ts[j].from_stop] = x.root[ts[j].to_stop]
      BY <2>0, <2>2, <2>5
    <3>3. x \in JoinedTo(ts, i)
      BY <2>3, <3>2 DEF JoinedTo
    <3> QED
      BY <2>0, <3>1, <3>3
  <2> QED
    BY <2>4, <2>5
<1> HIDE DEF op, S, base, Good
<1>8. step \in [1 .. n -> [S -> S]]
  BY <1>4
<1>9. \A i \in 1 .. n, x \in S : step[i][x] = op(x, ts[i])
  OBVIOUS
<1> HIDE DEF step, n
<1>10. PICK f : f \in Folds(n, S, base, step)
  BY <1>1, <1>5, <1>8, FoldExists
<1>11. \A t \in SUBSET (1 .. n) : t # {} => Max(t) \in 1 .. n
  BY <1>1, MaxInUpTo
<1>12. f = eq(f)
  BY <1>9, <1>10, <1>11 DEF Folds
<1>13. F = eq(F)
  BY <1>12
<1> HIDE DEF F
<1>14. IsFold(F, n, S, base, step)
  BY <1>9, <1>11, <1>13 DEF IsFold
<1>15. \A i \in 1 .. n : \A x \in S : x \in Good[i - 1] => step[i][x] \in Good[i]
  BY <1>7, <1>9
<1>16. F[1 .. n] \in Good[n]
  BY <1>1, <1>5, <1>6, <1>8, <1>14, <1>15, FoldKeeps
<1>17. n \in 0 .. n
  BY <1>1
<1> QED
  BY <1>2, <1>16, <1>17 DEF Good, n

-----------------------------------------------------------------------------
(* What is reached over links is the least set around from which no link   *)
(* leads: as many rounds are made as there are stops, and a round that     *)
(* adds nothing is the last that could.                                    *)
Nearer(links, S) == S \cup UNION {l \in links : l \cap S # {}}
KeptIn(links, S) == \A l \in links : l \cap S # {} => l \subseteq S

LEMMA WithinExists ==
  ASSUME NEW links, \A l \in links : l \subseteq Stop, NEW from \in Stop
  PROVE  \E w \in [0 .. NumStops -> SUBSET Stop] :
           /\ w[0] = {from} /\ \A n \in 1 .. NumStops : w[n] = Nearer(links, w[n - 1])
           /\ Reached(links, from) = w[NumStops]
<1> DEFINE N == NumStops
           S == SUBSET Stop
           base == {from}
           step == [i \in 1 .. N |-> [x \in S |-> Nearer(links, x)]]
           eq(f) == [n \in 0 .. N |-> IF n = 0 THEN {from}
                                      ELSE f[n - 1] \cup UNION {l \in links : l \cap f[n - 1] # {}}]
           W == CHOOSE f : f = eq(f)
<1>1. N \in Nat
  BY Sizes
<1>2. \A x \in S : Nearer(links, x) \in S
  BY DEF Nearer
<1>3. Reached(links, from) = W[N]
  BY DEF Reached
<1> HIDE DEF N, S
<1>4. step \in [1 .. N -> [S -> S]] /\ \A i \in 1 .. N, x \in S : step[i][x] = Nearer(links, x)
  BY <1>2
<1>5. base \in S
  BY DEF S
<1> HIDE DEF step, base
<1>6. Iterations(N, S, base, step) # {}
  BY ONLY <1>1, <1>4, <1>5, RunExists
<1>7. PICK g : g \in Iterations(N, S, base, step)
  BY <1>6
<1>8. g \in [0 .. N -> S] /\ g[0] = base /\ \A i \in 1 .. N : g[i] = step[i][g[i - 1]]
  BY <1>7 DEF Iterations
<1>9. g = eq(g)
  <2>1. ASSUME NEW n \in 0 .. N
        PROVE  g[n] = IF n = 0 THEN {from}
                      ELSE g[n - 1] \cup UNION {l \in links : l \cap g[n - 1] # {}}
    <3>1. CASE n = 0
      BY <1>8, <3>1 DEF base
    <3>2. CASE n # 0
      <4>1. n \in 1 .. N /\ n - 1 \in 0 .. N
        BY <1>1, <3>2
      <4>2. g[n] = Nearer(links, g[n - 1])
        BY <1>4, <1>8, <4>1
      <4> QED
        BY <3>2, <4>2 DEF Nearer
    <3> QED
      BY <3>1, <3>2
  <2>2. g = [n \in 0 .. N |-> g[n]]
    BY <1>8
  <2> QED
    BY <2>1, <2>2
<1>10. W = eq(W)
  <2>1. \E f : f = eq(f)
    BY <1>9, Zenon
  <2> HIDE DEF eq
  <2> QED
    BY ONLY <2>1, Zenon
<1> HIDE DEF W
<1>11. W[0] = {from} /\ \A n \in 1 .. N : W[n] = Nearer(links, W[n - 1])
  <2>1. 0 \in 0 .. N /\ \A n \in 1 .. N : n \in 0 .. N /\ n # 0
    BY <1>1
  <2> QED
    BY <1>10, <2>1 DEF Nearer
<1>12. W \in [0 .. N -> S]
  <2> DEFINE Fine == {n \in 0 .. N : W[n] \in S}
  <2>1. 0 \in Fine
    <3>1. 0 \in 0 .. N
      BY <1>1
    <3>2. W[0] \in S
      BY <1>5, <1>11 DEF base
    <3> QED
      BY <3>1, <3>2
  <2>2. ASSUME NEW n \in 0 .. N - 1, n \in Fine  PROVE  n + 1 \in Fine
    <3>1. n + 1 \in 1 .. N /\ (n + 1) - 1 = n
      BY <1>1
    <3> QED
      BY <1>2, <1>11, <2>2, <3>1
  <2> HIDE DEF Fine
  <2>3. 0 .. N \subseteq Fine
    BY ONLY <1>1, <2>1, <2>2, UpTo
  <2>4. \A n \in 0 .. N : W[n] \in S
    BY <2>3 DEF Fine
  <2>5. W = [n \in 0 .. N |-> W[n]]
    BY <1>10
  <2> QED
    BY <2>4, <2>5
<1> QED
  BY <1>3, <1>11, <1>12 DEF N, S

LEMMA ReachedFacts ==
  ASSUME NEW links, \A l \in links : l \subseteq Stop, NEW from \in Stop
  PROVE  /\ Reached(links, from) \in SUBSET Stop /\ from \in Reached(links, from)
         /\ KeptIn(links, Reached(links, from))
         /\ \A S : from \in S /\ KeptIn(links, S) => Reached(links, from) \subseteq S
<1> DEFINE N == NumStops
<1>0. N \in Nat
  BY Sizes
<1>1. PICK w \in [0 .. N -> SUBSET Stop] :
        /\ w[0] = {from} /\ \A n \in 1 .. N : w[n] = Nearer(links, w[n - 1])
        /\ Reached(links, from) = w[N]
  BY WithinExists
<1>2. IsFiniteSet(Stop) /\ Cardinality(Stop) = N
  <2>1. IsFiniteSet(0 .. N - 1)
        /\ Cardinality(0 .. N - 1) = IF 0 > N - 1 THEN 0 ELSE (N - 1) - 0 + 1
    BY <1>0, FS_Interval
  <2> QED
    BY <1>0, <2>1 DEF Stop
<1>3. \A n \in 0 .. N : w[n] \subseteq Stop /\ IsFiniteSet(w[n]) /\ Cardinality(w[n]) \in Nat
  <2>1. \A n \in 0 .. N : w[n] \in SUBSET Stop
    BY <1>1
  <2> QED
    BY <1>2, <2>1, FS_Subset, FS_CardinalityType
<1> HIDE DEF N
<1> DEFINE Fine == {n \in 0 .. N : /\ from \in w[n]
                                   /\ Nearer(links, w[n]) = w[n] \/ Cardinality(w[n]) >= n + 1}
<1>4. 0 \in Fine
  <2>1. Cardinality(w[0]) = 1 /\ from \in w[0]
    BY <1>1, FS_Singleton
  <2>2. 0 \in 0 .. N /\ 1 >= 0 + 1
    BY <1>0
  <2> QED
    BY <2>1, <2>2
<1>5. ASSUME NEW n \in 0 .. N - 1, n \in Fine  PROVE  n + 1 \in Fine
  <2>1. n + 1 \in 1 .. N /\ (n + 1) - 1 = n /\ n \in 0 .. N /\ n + 1 \in 0 .. N
    BY <1>0
  <2>2. w[n + 1] = Nearer(links, w[n])
    BY <1>1, <2>1
  <2>3. w[n] \subseteq w[n + 1] /\ from \in w[n + 1]
    BY <1>5, <2>2 DEF Nearer
  <2>4. CASE Nearer(links, w[n]) = w[n]
    BY <2>1, <2>2, <2>3, <2>4
  <2>5. CASE Nearer(links, w[n]) # w[n] /\ Cardinality(w[n]) >= n + 1
    <3>1. Cardinality(w[n]) <= Cardinality(w[n + 1]) /\ Cardinality(w[n]) # Cardinality(w[n + 1])
      BY <1>3, <2>1, <2>2, <2>3, <2>5, FS_Subset
    <3>2. Cardinality(w[n]) \in Nat /\ Cardinality(w[n + 1]) \in Nat
      BY <1>3, <2>1
    <3>3. Cardinality(w[n + 1]) >= (n + 1) + 1
      BY <2>5, <3>1, <3>2
    <3> QED
      BY <2>1, <2>3, <3>3
  <2> QED
    BY <1>5, <2>4, <2>5
<1> HIDE DEF Fine
<1>6. 0 .. N \subseteq Fine
  BY ONLY <1>0, <1>4, <1>5, UpTo
<1>7. N \in Fine /\ N \in 0 .. N
  BY <1>0, <1>6
<1>8. Nearer(links, w[N]) = w[N] /\ from \in w[N]
  <2>1. Cardinality(w[N]) <= N /\ Cardinality(w[N]) \in Nat
    BY <1>2, <1>3, <1>7, FS_Subset
  <2>2. ~ (Cardinality(w[N]) >= N + 1)
    BY <1>0, <2>1
  <2> QED
    BY <1>7, <2>2 DEF Fine
<1>9. KeptIn(links, w[N])
  BY <1>8 DEF Nearer, KeptIn
<1>10. ASSUME NEW S, from \in S, KeptIn(links, S)  PROVE  w[N] \subseteq S
  <2> DEFINE Inside == {n \in 0 .. N : w[n] \subseteq S}
  <2>1. 0 \in Inside
    BY <1>0, <1>1, <1>10
  <2>2. ASSUME NEW n \in 0 .. N - 1, n \in Inside  PROVE  n + 1 \in Inside
    <3>1. n + 1 \in 1 .. N /\ (n + 1) - 1 = n /\ n + 1 \in 0 .. N
      BY <1>0
    <3>2. w[n + 1] = Nearer(links, w[n])
      BY <1>1, <3>1
    <3>3. \A l \in links : l \cap w[n] # {} => l \subseteq S
      BY <1>10, <2>2 DEF KeptIn
    <3>4. w[n + 1] \subseteq S
      BY <2>2, <3>2, <3>3 DEF Nearer
    <3> QED
      BY <3>1, <3>4
  <2> HIDE DEF Inside
  <2>3. 0 .. N \subseteq Inside
    BY ONLY <1>0, <2>1, <2>2, UpTo
  <2> QED
    BY <1>7, <2>3 DEF Inside
<1> QED
  BY <1>1, <1>3, <1>7, <1>8, <1>9, <1>10

-----------------------------------------------------------------------------
(* Graph and topology of one feed, before the weights are touched.         *)
LEMMA DescribedFacts ==
  ASSUME StudyInv, Described
  PROVE  /\ WellFormed(feed)
         /\ \E o \in Objectives : \A u \in Stop :
              graph.edges[u] = edges_of(feed, o, u) /\ graph.transfers[u] = transfers_of(feed, u)
         /\ BaseGraph(graph)
         /\ LET station == Merged(feed.transfers).root
                segments == CountedSegments(feed)
            IN  /\ station_graph.station_of = station
                /\ station_graph.segments = Cardinality(segments)
                /\ station_graph.platforms_served = Cardinality(Ends(segments))
                /\ station_graph.stations = {station[p] : p \in Ends(segments)}
                /\ station_graph.links
                     = {Between(s, station) :
                          s \in {x \in segments : station[x[1].stop] # station[x[2].stop]}}
<1>1. surface = None /\ station_graph # None /\ NumStops # 0 /\ feed.stop_times # {}
  BY DEF Described, Idle
<1>2. ~ Applied
  BY <1>1 DEF StudyInv, Applied
<1>3. Built /\ graph # NotBuilt /\ station_graph = compute_topology(feed)
  BY <1>1 DEF StudyInv
<1>4. WellFormed(feed)
  BY FeedIsWellFormed DEF StudyInv
<1>5. BaseGraph(graph)
  BY <1>2, <1>3 DEF StudyInv
<1>6. PICK o \in Objectives : graph = build_with_transfers(feed, o)
  BY <1>5 DEF BaseGraph
<1>7. \A u \in Stop :
        graph.edges[u] = edges_of(feed, o, u) /\ graph.transfers[u] = transfers_of(feed, u)
  BY <1>1, <1>6 DEF build_with_transfers
<1>8. LET station == Merged(feed.transfers).root
          segments == CountedSegments(feed)
      IN  /\ station_graph.station_of = station
          /\ station_graph.segments = Cardinality(segments)
          /\ station_graph.platforms_served = Cardinality(Ends(segments))
          /\ station_graph.stations = {station[p] : p \in Ends(segments)}
          /\ station_graph.links
               = {Between(s, station) :
                    s \in {x \in segments : station[x[1].stop] # station[x[2].stop]}}
  BY <1>1, <1>3 DEF compute_topology
<1> QED
  BY <1>4, <1>5, <1>7, <1>8

LEMMA StationsOfStudy == StudyInv => StationsAreComponents
<1> SUFFICES ASSUME StudyInv, Described  PROVE  StationsAreComponents
  BY DEF StationsAreComponents
<1> DEFINE walks == UNION {{{u, t.destination} : t \in Range(graph.transfers[u])} : u \in Stop}
           ts == feed.transfers
           n == Len(ts)
           d == Merged(ts)
           station == station_graph.station_of
<1>1. WellFormed(feed) /\ station = d.root
      /\ \A u \in Stop : graph.transfers[u] = transfers_of(feed, u)
  BY DescribedFacts
<1>2. ts \in Seq(TransferRecords) /\ n \in Nat /\ DOMAIN ts = 1 .. n
  BY <1>1 DEF WellFormed
<1>3. d \in JoinedTo(ts, n)
  BY <1>2, MergedFacts
<1>4. d \in Forests /\ d.root \in [Stop -> Stop] /\ \A p \in Stop : d.root[d.root[p]] = d.root[p]
  BY <1>3 DEF JoinedTo, Forests
<1>5. \A u \in Stop : Range(graph.transfers[u]) = WalksFrom(feed, u)
  BY <1>1, TransfersOfFacts
<1>6. ASSUME NEW l
      PROVE  l \in walks <=>
               \E j \in 1 .. n : /\ ts[j].from_stop \in Stop /\ ts[j].to_stop # Unresolved
                                 /\ ts[j].to_stop # ts[j].from_stop
                                 /\ l = {ts[j].from_stop, ts[j].to_stop}
  <2>1. l \in walks <=> \E u \in Stop : \E t \in WalksFrom(feed, u) : l = {u, t.destination}
    BY <1>5
  <2>2. \A u \in Stop :
          (\E t \in WalksFrom(feed, u) : l = {u, t.destination})
            <=> \E j \in KeptFrom(feed, u) : l = {u, ts[j].to_stop}
    <3>1. \A j : WalkOf(ts[j]).destination = ts[j].to_stop
      BY DEF WalkOf
    <3> HIDE DEF walks
    <3>2. \A u \in Stop : \A t : t \in WalksFrom(feed, u) <=>
            \E j \in KeptFrom(feed, u) : t = WalkOf(ts[j])
      BY DEF WalksFrom
    <3> HIDE DEF ts
    <3> QED
      BY <3>1, <3>2
  <2>3. \A u \in Stop : \A j : j \in KeptFrom(feed, u) <=>
          j \in 1 .. n /\ ts[j].from_stop = u /\ ts[j].to_stop # Unresolved /\ ts[j].to_stop # u
    BY <1>2 DEF KeptFrom
  <2> HIDE DEF walks, ts, n
  <2> QED
    BY <2>1, <2>2, <2>3
<1>7. \A j \in 1 .. n : Resolved(ts[j]) => ts[j].from_stop \in Stop /\ ts[j].to_stop \in Stop
  <2> SUFFICES ASSUME NEW j \in 1 .. n, Resolved(ts[j])
               PROVE  ts[j].from_stop \in Stop /\ ts[j].to_stop \in Stop
    OBVIOUS
  <2>1. ts[j] \in TransferRecords
    BY <1>2
  <2>2. ts[j].from_stop \in 0 .. NumStops /\ ts[j].to_stop \in 0 .. NumStops
    BY <2>1 DEF TransferRecords
  <2> QED
    BY <2>2, Sizes DEF Resolved, Unresolved, Stop
<1>8. Unresolved \notin Stop
  BY Sizes DEF Unresolved, Stop
<1> HIDE DEF walks, ts, n, d, station
<1>9. \A l \in walks : \E j \in 1 .. n :
        /\ Resolved(ts[j]) /\ l = {ts[j].from_stop, ts[j].to_stop}
        /\ ts[j].from_stop \in Stop /\ ts[j].to_stop \in Stop
  BY <1>6, <1>7, <1>8 DEF Resolved
<1>10. \A l \in walks : l \subseteq Stop
  BY <1>9
<1>11. ASSUME NEW u \in Stop
       PROVE  {v \in Stop : station[v] = station[u]} = Reached(walks, u)
  <2> DEFINE S == {v \in Stop : station[v] = station[u]}
             R == Reached(walks, u)
  <2>1. /\ R \in SUBSET Stop /\ u \in R /\ KeptIn(walks, R)
        /\ u \in S /\ KeptIn(walks, S) => R \subseteq S
    BY <1>10, ReachedFacts
  <2>2. KeptIn(walks, S)
    <3> SUFFICES ASSUME NEW l \in walks, l \cap S # {}  PROVE  l \subseteq S
      BY DEF KeptIn
    <3>1. PICK j \in 1 .. n : /\ Resolved(ts[j]) /\ l = {ts[j].from_stop, ts[j].to_stop}
                              /\ ts[j].from_stop \in Stop /\ ts[j].to_stop \in Stop
      BY <1>9
    <3>2. station[ts[j].from_stop] = station[ts[j].to_stop]
      BY <1>1, <1>3, <3>1 DEF JoinedTo
    <3> QED
      BY <3>1, <3>2
  <2>3. StayedIn(ts, n, R)
    <3> SUFFICES ASSUME NEW j \in 1 .. n, Resolved(ts[j])
                 PROVE  ts[j].from_stop \in R <=> ts[j].to_stop \in R
      BY DEF StayedIn
    <3>1. CASE ts[j].from_stop = ts[j].to_stop
      BY <3>1
    <3>2. CASE ts[j].from_stop # ts[j].to_stop
      <4>1. {ts[j].from_stop, ts[j].to_stop} \in walks
        BY <1>6, <1>7, <3>2 DEF Resolved
      <4> QED
        BY <2>1, <4>1 DEF KeptIn
    <3> QED
      BY <3>1, <3>2
  <2>4. KeepsTo(d, R)
    BY <1>3, <2>1, <2>3 DEF JoinedTo
  <2>5. S \subseteq R
    BY <1>1, <2>1, <2>4 DEF KeepsTo
  <2> QED
    BY <2>1, <2>2, <2>5
<1>12. \A u \in Stop : station[station[u]] = station[u]
  BY <1>1, <1>4
<1> QED
  BY <1>11, <1>12 DEF StationsAreComponents, walks, station

(* A station is what the graph's walks join, and is named by one of its    *)
(* stops, in whatever order and by whatever rank the roots are hung        *)
(* (StationsAreComponents).                                                *)
THEOREM StationsHold == StudySpec => []StationsAreComponents
BY StudyInvAlways, StationsOfStudy, PTL

-----------------------------------------------------------------------------
(* A sum over a finite set of the sizes of disjoint sets.                  *)
IsSum(sum, S, g) ==
  sum = [t \in SUBSET S |-> IF t = {} THEN 0
                            ELSE sum[t \ {CHOOSE y \in t : TRUE}] + g[CHOOSE y \in t : TRUE]]

LEMMA SumOfSizes ==
  ASSUME NEW S, IsFiniteSet(S), NEW F, NEW g,
         \A x \in S : IsFiniteSet(F[x]) /\ g[x] = Cardinality(F[x]),
         \A x, y \in S : x # y => F[x] \cap F[y] = {},
         NEW sum, IsSum(sum, S, g)
  PROVE  sum[S] = Cardinality(UNION {F[x] : x \in S})
<1> DEFINE Of(t) == UNION {F[x] : x \in t}
           n == Cardinality(S)
           Fine == {k \in 0 .. n : \A t \in SUBSET S :
                      Cardinality(t) = k => sum[t] = Cardinality(Of(t))}
<1>1. n \in Nat
  BY FS_CardinalityType
<1>2. \A t \in SUBSET S : IsFiniteSet(t) /\ Cardinality(t) \in Nat /\ IsFiniteSet(Of(t))
  <2> SUFFICES ASSUME NEW t \in SUBSET S
               PROVE  IsFiniteSet(t) /\ Cardinality(t) \in Nat /\ IsFiniteSet(Of(t))
    OBVIOUS
  <2>1. IsFiniteSet(t)
    BY FS_Subset
  <2>2. \A x \in t : IsFiniteSet(F[x])
    OBVIOUS
  <2>3. IsFiniteSet(UNION {F[x] : x \in t})
    BY ONLY <2>1, <2>2, UnionIsFinite
  <2> QED
    BY <2>1, <2>3, FS_CardinalityType
<1> HIDE DEF n
<1>3. 0 \in Fine
  <2>1. ASSUME NEW t \in SUBSET S, Cardinality(t) = 0  PROVE  sum[t] = Cardinality(Of(t))
    <3>1. t = {}
      BY <1>2, <2>1, FS_EmptySet
    <3>2. Of(t) = {} /\ sum[t] = 0
      BY <3>1 DEF IsSum
    <3> QED
      BY <3>2, FS_EmptySet
  <2>2. 0 \in 0 .. n
    BY <1>1
  <2> HIDE DEF Of
  <2> QED
    BY <2>1, <2>2
<1>4. ASSUME NEW k \in 0 .. n - 1, k \in Fine  PROVE  k + 1 \in Fine
  <2>1. ASSUME NEW t \in SUBSET S, Cardinality(t) = k + 1  PROVE  sum[t] = Cardinality(Of(t))
    <3> DEFINE y == CHOOSE x \in t : TRUE
               r == t \ {y}
    <3>1. t # {}
      <4>1. Cardinality({}) = 0
        BY FS_EmptySet
      <4>2. k + 1 # 0
        BY <1>1
      <4> QED
        BY ONLY <2>1, <4>1, <4>2
    <3>2. y \in t /\ sum[t] = sum[r] + g[y] /\ r \in SUBSET S /\ y \in S
      BY <3>1 DEF IsSum
    <3> HIDE DEF y
    <3>3. Cardinality(r) = k
      <4>1. IsFiniteSet(t)
        BY <1>2
      <4>2. Cardinality(t \ {y}) = IF y \in t THEN Cardinality(t) - 1 ELSE Cardinality(t)
        BY ONLY <4>1, FS_RemoveElement
      <4>3. k \in Int
        OBVIOUS
      <4> QED
        BY ONLY <2>1, <3>2, <4>2, <4>3 DEF r
    <3>4. sum[r] = Cardinality(Of(r))
      BY <1>4, <3>2, <3>3
    <3>5. Of(t) = Of(r) \cup F[y] /\ Of(r) \cap F[y] = {}
      BY <3>2
    <3>6. IsFiniteSet(Of(r)) /\ IsFiniteSet(F[y]) /\ g[y] = Cardinality(F[y])
      BY <1>2, <3>2
    <3> HIDE DEF Of, r
    <3>7. Cardinality(Of(r) \cup F[y]) = Cardinality(Of(r)) + Cardinality(F[y])
      <4>1. Cardinality(Of(r) \cup F[y])
              = Cardinality(Of(r)) + Cardinality(F[y]) - Cardinality(Of(r) \cap F[y])
        BY <3>6, FS_Union
      <4>2. Cardinality(Of(r) \cap F[y]) = 0
        BY <3>5, FS_EmptySet
      <4>3. Cardinality(Of(r)) \in Nat /\ Cardinality(F[y]) \in Nat
        BY <3>6, FS_CardinalityType
      <4> QED
        BY <4>1, <4>2, <4>3
    <3> QED
      BY <3>2, <3>4, <3>5, <3>6, <3>7
  <2>2. k + 1 \in 0 .. n
    BY <1>1
  <2> HIDE DEF Of
  <2> QED
    BY <2>1, <2>2
<1> HIDE DEF Fine
<1>5. 0 .. n \subseteq Fine
  BY ONLY <1>1, <1>3, <1>4, UpTo
<1>6. n \in Fine /\ S \in SUBSET S
  BY <1>1, <1>5
<1> QED
  BY <1>6 DEF Fine, n

(* There is such a sum.                                                    *)
LEMMA SumExists ==
  ASSUME NEW S, IsFiniteSet(S), NEW F, NEW g,
         \A x \in S : IsFiniteSet(F[x]) /\ g[x] = Cardinality(F[x]),
         \A x, y \in S : x # y => F[x] \cap F[y] = {}
  PROVE  \E sum : IsSum(sum, S, g)
<1> DEFINE Of(t) == UNION {F[x] : x \in t}
           sum == [t \in SUBSET S |-> Cardinality(Of(t))]
<1>1. ASSUME NEW t \in SUBSET S
      PROVE  sum[t] = IF t = {} THEN 0
                      ELSE sum[t \ {CHOOSE y \in t : TRUE}] + g[CHOOSE y \in t : TRUE]
  <2>1. CASE t = {}
    <3>1. Of(t) = {}
      BY <2>1
    <3> HIDE DEF Of
    <3> QED
      BY <2>1, <3>1, FS_EmptySet
  <2>2. CASE t # {}
    <3> DEFINE y == CHOOSE x \in t : TRUE
               r == t \ {y}
    <3>1. y \in t /\ r \in SUBSET S /\ y \in S
      BY <2>2
    <3> HIDE DEF y
    <3>2. IsFiniteSet(r)
      BY <3>1, FS_Subset
    <3>3. \A x \in r : IsFiniteSet(F[x])
      BY <3>1
    <3>4. IsFiniteSet(UNION {F[x] : x \in r})
      BY ONLY <3>2, <3>3, UnionIsFinite
    <3>5. Of(t) = Of(r) \cup F[y] /\ Of(r) \cap F[y] = {}
      BY <3>1
    <3>6. IsFiniteSet(Of(r)) /\ IsFiniteSet(F[y]) /\ g[y] = Cardinality(F[y])
      BY <3>1, <3>4
    <3>8. sum[t] = Cardinality(Of(t)) /\ sum[r] = Cardinality(Of(r))
      BY <3>1
    <3> HIDE DEF Of, r, sum
    <3>7. Cardinality(Of(r) \cup F[y]) = Cardinality(Of(r)) + Cardinality(F[y])
      <4>1. Cardinality(Of(r) \cup F[y])
              = Cardinality(Of(r)) + Cardinality(F[y]) - Cardinality(Of(r) \cap F[y])
        BY <3>6, FS_Union
      <4>2. Cardinality(Of(r) \cap F[y]) = 0
        BY <3>5, FS_EmptySet
      <4>3. Cardinality(Of(r)) \in Nat /\ Cardinality(F[y]) \in Nat
        BY <3>6, FS_CardinalityType
      <4> QED
        BY <4>1, <4>2, <4>3
    <3>9. sum[t] = sum[r] + g[y]
      BY <3>5, <3>6, <3>7, <3>8
    <3> QED
      BY <2>2, <3>9 DEF r, y
  <2> QED
    BY <2>1, <2>2
<1>2. sum = [t \in SUBSET S |-> sum[t]]
  OBVIOUS
<1> HIDE DEF sum
<1>3. IsSum(sum, S, g)
  BY <1>1, <1>2 DEF IsSum
<1> QED
  BY <1>3

-----------------------------------------------------------------------------
(* What compute_topology counts, and what the graph has of it.             *)
LEMMA CountedIsAdmitted ==
  ASSUME NEW f, WellFormed(f)
  PROVE  /\ CountedSegments(f) = {s \in Segments(f) : EdgeAdmitted(s[1], s[2])}
         /\ \A s : s \in CountedSegments(f) <=> \E u \in Stop : s \in SegmentsFrom(f, u)
         /\ \A u \in Stop : \A s \in SegmentsFrom(f, u) : s[1].stop = u
<1>1. \A a, b : SegmentCounted(a, b) <=> EdgeAdmitted(a, b)
  BY DEF SegmentCounted, EdgeAdmitted
<1>2. ASSUME NEW t \in Trips(f), NEW s
      PROVE  LET rs == TripRecords(f, t)
             IN  s \in {<< rs[k], rs[k + 1] >> :
                          k \in {i \in 1 .. Len(rs) - 1 : SegmentCounted(rs[i], rs[i + 1])}}
                   <=> /\ s \in {<< rs[k], rs[k + 1] >> : k \in 1 .. Len(rs) - 1}
                       /\ EdgeAdmitted(s[1], s[2])
  <2> DEFINE rs == TripRecords(f, t)
             n == Len(rs) - 1
             pair(k) == << rs[k], rs[k + 1] >>
  <2>1. \A k \in 1 .. n : pair(k)[1] = rs[k] /\ pair(k)[2] = rs[k + 1]
    OBVIOUS
  <2> HIDE DEF rs, n, pair
  <2>2. s \in {pair(k) : k \in {i \in 1 .. n : SegmentCounted(rs[i], rs[i + 1])}}
          <=> s \in {pair(k) : k \in 1 .. n} /\ EdgeAdmitted(s[1], s[2])
    BY <1>1, <2>1
  <2> QED
    BY <2>2 DEF rs, n, pair
<1>3. \A s : s \in CountedSegments(f) <=> s \in Segments(f) /\ EdgeAdmitted(s[1], s[2])
  <2> DEFINE C(t) == LET rs == TripRecords(f, t)
                     IN  {<< rs[k], rs[k + 1] >> :
                            k \in {i \in 1 .. Len(rs) - 1 : SegmentCounted(rs[i], rs[i + 1])}}
             A(t) == LET rs == TripRecords(f, t)
                     IN  {<< rs[k], rs[k + 1] >> : k \in 1 .. Len(rs) - 1}
  <2>1. CountedSegments(f) = UNION {C(t) : t \in Trips(f)}
        /\ Segments(f) = UNION {A(t) : t \in Trips(f)}
    BY DEF CountedSegments, Segments
  <2>2. \A t \in Trips(f) : \A s : s \in C(t) <=> s \in A(t) /\ EdgeAdmitted(s[1], s[2])
    BY <1>2
  <2> HIDE DEF C, A
  <2> QED
    BY <2>1, <2>2
<1>4. \A s \in Segments(f) : EdgeAdmitted(s[1], s[2]) => s[1].stop \in Stop
  <2> SUFFICES ASSUME NEW s \in Segments(f), EdgeAdmitted(s[1], s[2])  PROVE  s[1].stop \in Stop
    OBVIOUS
  <2>1. s[1] \in StopTimeRecords /\ s[1].stop # Unresolved
    BY SegmentsFacts DEF EdgeAdmitted
  <2> QED
    BY <2>1, RecordTypes
<1> QED
  BY <1>3, <1>4 DEF SegmentsFrom

LEMMA EdgesOfGraph ==
  ASSUME NEW f, WellFormed(f), NEW o, NEW u \in Stop
  PROVE  /\ \A e : e \in Range(edges_of(f, o, u)) <=> \E s \in SegmentsFrom(f, u) : e = EdgeOf(o, s)
         /\ edges_of(f, o, u) # << >> <=> SegmentsFrom(f, u) # {}
<1> DEFINE es == edges_of(f, o, u)
           n == Cardinality(SegmentsFrom(f, u))
<1>1. /\ DOMAIN es = 1 .. n
      /\ \A i \in 1 .. n : \E s \in SegmentsFrom(f, u) : es[i] = EdgeOf(o, s)
      /\ \A s \in SegmentsFrom(f, u) : \E i \in 1 .. n : es[i] = EdgeOf(o, s)
  BY EdgesInOrder
<1>2. es = [i \in DOMAIN es |-> es[i]]
  BY DEF edges_of
<1> HIDE DEF es, n
<1>3. \A e : e \in Range(es) <=> \E s \in SegmentsFrom(f, u) : e = EdgeOf(o, s)
  BY <1>1 DEF Range
<1>4. es # << >> <=> 1 .. n # {}
  <2>1. DOMAIN << >> = {}
    OBVIOUS
  <2>2. DOMAIN es = {} => es = << >>
    BY <1>2
  <2> QED
    BY <1>1, <2>1, <2>2
<1>5. 1 .. n # {} <=> SegmentsFrom(f, u) # {}
  BY <1>1
<1> QED
  BY <1>3, <1>4, <1>5 DEF es

LEMMA TopologyOfStudy == StudyInv => TopologyDescribesGraph
<1> SUFFICES ASSUME StudyInv, Described  PROVE  TopologyDescribesGraph
  BY DEF TopologyDescribesGraph
<1> DEFINE f == feed
           station == station_graph.station_of
           From(u) == SegmentsFrom(f, u)
           A == CountedSegments(f)
           ends == Ends(A)
           rides == {ue \in UNION {{u} \X Range(graph.edges[u]) : u \in Stop} :
                       station[ue[1]] # station[ue[2].destination]}
           served == UNION {{u} \cup {e.destination : e \in Range(graph.edges[u])} :
                              u \in {x \in Stop : graph.edges[x] # << >>}}
           links == {Between(s, station) : s \in {x \in A : station[x[1].stop] # station[x[2].stop]}}
           total == FoldSet(LAMBDA u, n : n + Len(graph.edges[u]), 0, Stop)
<1>1. /\ WellFormed(f)
      /\ station_graph.segments = Cardinality(A) /\ station_graph.platforms_served = Cardinality(ends)
      /\ station_graph.stations = {station[p] : p \in ends} /\ station_graph.links = links
  BY DescribedFacts
<1>2. PICK o \in Objectives : \A u \in Stop : graph.edges[u] = edges_of(f, o, u)
  BY DescribedFacts
<1>3. \A u \in Stop : /\ IsFiniteSet(From(u)) /\ Len(graph.edges[u]) = Cardinality(From(u))
                      /\ \A e : e \in Range(graph.edges[u]) <=> \E s \in From(u) : e = EdgeOf(o, s)
                      /\ graph.edges[u] # << >> <=> From(u) # {}
  <2> SUFFICES ASSUME NEW u \in Stop
               PROVE  /\ IsFiniteSet(From(u)) /\ Len(graph.edges[u]) = Cardinality(From(u))
                      /\ \A e : e \in Range(graph.edges[u]) <=> \E s \in From(u) : e = EdgeOf(o, s)
                      /\ graph.edges[u] # << >> <=> From(u) # {}
    OBVIOUS
  <2>1. /\ IsFiniteSet(From(u)) /\ Len(edges_of(f, o, u)) = Cardinality(From(u))
    BY <1>1, EdgesInOrder
  <2> QED
    BY <1>1, <1>2, <2>1, EdgesOfGraph
<1>4. \A s : s \in A <=> \E u \in Stop : s \in From(u)
  BY <1>1, CountedIsAdmitted
<1>5. \A u \in Stop : \A s \in From(u) : s[1].stop = u
  BY DEF SegmentsFrom
<1>6. \A s : EdgeOf(o, s).destination = s[2].stop
  BY DEF EdgeOf
<1>7. total = Cardinality(A)
  <2> DEFINE F == [u \in Stop |-> From(u)]
             g == [u \in Stop |-> Len(graph.edges[u])]
             eq(s) == [t \in SUBSET Stop |->
                         IF t = {} THEN 0
                         ELSE s[t \ {CHOOSE y \in t : TRUE}] + Len(graph.edges[CHOOSE y \in t : TRUE])]
             sum == CHOOSE s : s = eq(s)
  <2>1. total = sum[Stop]
    BY DEF FoldSet, MapThenFoldSet
  <2>2. IsFiniteSet(Stop)
    BY FS_Interval, Sizes DEF Stop
  <2>3. \A u \in Stop : IsFiniteSet(F[u]) /\ g[u] = Cardinality(F[u])
    BY <1>3
  <2>4. \A u, v \in Stop : u # v => F[u] \cap F[v] = {}
    BY <1>5
  <2>5. \A s : s = eq(s) <=> IsSum(s, Stop, g)
    <3> SUFFICES ASSUME NEW s  PROVE  s = eq(s) <=> IsSum(s, Stop, g)
      OBVIOUS
    <3>1. \A t \in SUBSET Stop : t # {} =>
            Len(graph.edges[CHOOSE y \in t : TRUE]) = g[CHOOSE y \in t : TRUE]
      OBVIOUS
    <3> HIDE DEF g
    <3> QED
      BY <3>1 DEF IsSum
  <2>6. A = UNION {F[u] : u \in Stop}
    BY <1>4
  <2> HIDE DEF F, g, eq, From, A
  <2>7. \E s : IsSum(s, Stop, g)
    BY <2>2, <2>3, <2>4, SumExists
  <2>8. IsSum(sum, Stop, g)
    BY <2>5, <2>7
  <2> HIDE DEF sum
  <2>9. sum[Stop] = Cardinality(UNION {F[u] : u \in Stop})
    BY <2>2, <2>3, <2>4, <2>8, SumOfSizes
  <2> QED
    BY <2>1, <2>6, <2>9
<1> HIDE DEF A, From, total
<1>8. served = ends
  <2>1. \A x : x \in ends <=> \E s \in A : x = s[1].stop \/ x = s[2].stop
    BY DEF Ends
  <2>2. \A x : x \in served <=>
          \E u \in Stop : graph.edges[u] # << >>
                          /\ (x = u \/ \E e \in Range(graph.edges[u]) : x = e.destination)
    OBVIOUS
  <2> HIDE DEF served, ends
  <2>3. ASSUME NEW x, x \in ends  PROVE  x \in served
    <3>1. PICK s \in A : x = s[1].stop \/ x = s[2].stop
      BY <2>1, <2>3
    <3>2. PICK u \in Stop : s \in From(u)
      BY <1>4
    <3>3. graph.edges[u] # << >> /\ s[1].stop = u /\ EdgeOf(o, s) \in Range(graph.edges[u])
      BY <1>3, <1>5, <3>2
    <3> QED
      BY <1>6, <2>2, <3>1, <3>3
  <2>4. ASSUME NEW x, x \in served  PROVE  x \in ends
    <3>1. PICK u \in Stop : graph.edges[u] # << >>
                            /\ (x = u \/ \E e \in Range(graph.edges[u]) : x = e.destination)
      BY <2>2, <2>4
    <3>2. CASE x = u
      <4>1. PICK s \in From(u) : TRUE
        BY <1>3, <3>1
      <4> QED
        BY <1>4, <1>5, <2>1, <3>2, <4>1
    <3>3. CASE \E e \in Range(graph.edges[u]) : x = e.destination
      <4>0. PICK e \in Range(graph.edges[u]) : x = e.destination
        BY <3>3
      <4>1. PICK s \in From(u) : e = EdgeOf(o, s)
        BY <1>3
      <4> QED
        BY <1>4, <1>6, <2>1, <4>0, <4>1
    <3> QED
      BY <3>1, <3>2, <3>3
  <2> QED
    BY <2>3, <2>4
<1>9. links = {{station[ue[1]], station[ue[2].destination]} : ue \in rides}
  <2> DEFINE pairs == UNION {{u} \X Range(graph.edges[u]) : u \in Stop}
             R == {{station[ue[1]], station[ue[2].destination]} : ue \in rides}
  <2>1. \A l : l \in links <=> \E s \in A : /\ station[s[1].stop] # station[s[2].stop]
                                            /\ l = {station[s[1].stop], station[s[2].stop]}
    BY DEF Between
  <2>2. ASSUME NEW l, l \in links  PROVE  l \in R
    <3>1. PICK s \in A : /\ station[s[1].stop] # station[s[2].stop]
                         /\ l = {station[s[1].stop], station[s[2].stop]}
      BY <2>1, <2>2
    <3>2. PICK u \in Stop : s \in From(u)
      BY <1>4
    <3>3. s[1].stop = u /\ EdgeOf(o, s) \in Range(graph.edges[u])
          /\ EdgeOf(o, s).destination = s[2].stop
      BY <1>3, <1>5, <1>6, <3>2
    <3> DEFINE ue == << u, EdgeOf(o, s) >>
    <3>4. ue \in pairs /\ ue[1] = u /\ ue[2] = EdgeOf(o, s)
      BY <3>3
    <3> HIDE DEF ue
    <3>5. ue \in rides
      BY <3>1, <3>3, <3>4
    <3>6. l = {station[ue[1]], station[ue[2].destination]}
      BY <3>1, <3>3, <3>4
    <3> QED
      BY <3>5, <3>6
  <2>3. ASSUME NEW l, l \in R  PROVE  l \in links
    <3>1. PICK ue \in rides : l = {station[ue[1]], station[ue[2].destination]}
      BY <2>3
    <3>2. PICK u \in Stop : ue \in {u} \X Range(graph.edges[u])
      OBVIOUS
    <3>3. ue[1] = u /\ ue[2] \in Range(graph.edges[u])
          /\ station[ue[1]] # station[ue[2].destination]
      BY <3>2
    <3>4. PICK s \in From(u) : ue[2] = EdgeOf(o, s)
      BY <1>3, <3>3
    <3>5. s \in A /\ s[1].stop = u /\ s[2].stop = ue[2].destination
      BY <1>4, <1>5, <1>6, <3>4
    <3> QED
      BY <2>1, <3>1, <3>3, <3>5
  <2> QED
    BY <2>2, <2>3
<1> HIDE DEF served, rides, links, ends
<1>10. /\ station_graph.segments = total /\ station_graph.platforms_served = Cardinality(served)
       /\ station_graph.stations = {station[p] : p \in served}
       /\ station_graph.links = {{station[ue[1]], station[ue[2].destination]} : ue \in rides}
  BY <1>1, <1>7, <1>8, <1>9
<1> QED
  BY <1>10 DEF TopologyDescribesGraph, total, served, rides

(* The topology is that of the graph the router was given: the same        *)
(* segments counted, the same platforms served, and their stations and     *)
(* links (TopologyDescribesGraph).                                         *)
THEOREM TopologyHolds == StudySpec => []TopologyDescribesGraph
BY StudyInvAlways, TopologyOfStudy, PTL
-----------------------------------------------------------------------------
(* A finite set folded, one chosen element after the other.                *)
SetFolds(S, D, base, step) ==
  {f \in [SUBSET S -> D] :
     \A t \in SUBSET S : f[t] = IF t = {} THEN base
                                ELSE step[CHOOSE y \in t : TRUE][f[t \ {CHOOSE y \in t : TRUE}]]}
IsSetFold(fold, S, D, base, step) ==
  /\ fold[{}] = base
  /\ \A t \in SUBSET S : t # {} =>
       \E y \in t : fold[t \ {y}] \in D => fold[t] = step[y][fold[t \ {y}]]

LEMMA SetFoldExists ==
  ASSUME NEW S, IsFiniteSet(S), NEW D, NEW base \in D, NEW step \in [S -> [D -> D]]
  PROVE  SetFolds(S, D, base, step) # {}
<1> DEFINE n == Cardinality(S)
           val(f, t) == IF t = {} THEN base
                        ELSE step[CHOOSE y \in t : TRUE][f[t \ {CHOOSE y \in t : TRUE}]]
           Fine == {k \in 0 .. n : \E f \in [SUBSET S -> D] :
                      \A t \in SUBSET S : Cardinality(t) <= k => f[t] = val(f, t)}
<1>1. n \in Nat
  BY FS_CardinalityType
<1>2. \A t \in SUBSET S : IsFiniteSet(t) /\ Cardinality(t) \in Nat /\ Cardinality(t) <= n
  BY FS_Subset, FS_CardinalityType
<1>3. \A t \in SUBSET S : t # {} =>
        /\ (CHOOSE y \in t : TRUE) \in S /\ t \ {CHOOSE y \in t : TRUE} \in SUBSET S
        /\ Cardinality(t \ {CHOOSE y \in t : TRUE}) = Cardinality(t) - 1
  <2> SUFFICES ASSUME NEW t \in SUBSET S, t # {}
               PROVE  /\ (CHOOSE y \in t : TRUE) \in S /\ t \ {CHOOSE y \in t : TRUE} \in SUBSET S
                      /\ Cardinality(t \ {CHOOSE y \in t : TRUE}) = Cardinality(t) - 1
    OBVIOUS
  <2>1. (CHOOSE y \in t : TRUE) \in t
    OBVIOUS
  <2> QED
    BY <1>2, <2>1, FS_RemoveElement
<1>4. \A f \in [SUBSET S -> D] : \A t \in SUBSET S : val(f, t) \in D
  <2> SUFFICES ASSUME NEW f \in [SUBSET S -> D], NEW t \in SUBSET S  PROVE  val(f, t) \in D
    OBVIOUS
  <2>1. CASE t = {}
    BY <2>1
  <2>2. CASE t # {}
    <3> DEFINE y == CHOOSE x \in t : TRUE
    <3>1. y \in S /\ t \ {y} \in SUBSET S
      BY <1>3, <2>2
    <3> HIDE DEF y
    <3>2. step[y][f[t \ {y}]] \in D
      BY <3>1
    <3>3. val(f, t) = step[y][f[t \ {y}]]
      BY <2>2 DEF y
    <3> QED
      BY <3>2, <3>3
  <2> QED
    BY <2>1, <2>2
<1> HIDE DEF n
<1>5. 0 \in Fine
  <2> DEFINE f == [t \in SUBSET S |-> base]
  <2>1. \A t \in SUBSET S : Cardinality(t) <= 0 => t = {}
    BY <1>2, FS_EmptySet
  <2>2. \A t \in SUBSET S : Cardinality(t) <= 0 => f[t] = val(f, t)
    BY <2>1
  <2>3. f \in [SUBSET S -> D]
    OBVIOUS
  <2>4. 0 \in 0 .. n
    BY <1>1
  <2> HIDE DEF f, val
  <2> QED
    BY <2>2, <2>3, <2>4
<1>6. ASSUME NEW k \in 0 .. n - 1, k \in Fine  PROVE  k + 1 \in Fine
  <2>1. PICK f \in [SUBSET S -> D] :
          \A t \in SUBSET S : Cardinality(t) <= k => f[t] = val(f, t)
    BY <1>6
  <2> DEFINE g == [t \in SUBSET S |-> IF Cardinality(t) <= k THEN f[t] ELSE val(f, t)]
  <2>2. g \in [SUBSET S -> D]
    BY <1>4
  <2>3. k \in Nat
    BY <1>1
  <2>4. ASSUME NEW t \in SUBSET S, Cardinality(t) <= k + 1  PROVE  g[t] = val(g, t)
    <3>1. val(g, t) = val(f, t)
      <4>1. CASE t = {}
        BY <4>1
      <4>2. CASE t # {}
        <5> DEFINE y == CHOOSE x \in t : TRUE
        <5>1. t \ {y} \in SUBSET S /\ Cardinality(t \ {y}) = Cardinality(t) - 1
              /\ Cardinality(t) \in Nat
          BY <1>2, <1>3, <4>2
        <5>2. Cardinality(t \ {y}) <= k
          BY <2>3, <2>4, <5>1
        <5>3. g[t \ {y}] = f[t \ {y}]
          BY <5>1, <5>2
        <5> HIDE DEF g
        <5> QED
          BY <4>2, <5>3
      <4> QED
        BY <4>1, <4>2
    <3>2. g[t] = val(f, t)
      BY <2>1
    <3> QED
      BY <3>1, <3>2
  <2>5. k + 1 \in 0 .. n
    BY <1>1
  <2> HIDE DEF g, val
  <2> QED
    BY <2>2, <2>4, <2>5
<1> HIDE DEF Fine
<1>7. 0 .. n \subseteq Fine
  BY ONLY <1>1, <1>5, <1>6, UpTo
<1>8. n \in Fine
  BY <1>1, <1>7
<1>9. PICK f \in [SUBSET S -> D] :
        \A t \in SUBSET S : Cardinality(t) <= n => f[t] = val(f, t)
  BY <1>8 DEF Fine
<1>10. \A t \in SUBSET S : f[t] = val(f, t)
  BY <1>2, <1>9
<1> QED
  BY <1>10 DEF SetFolds

LEMMA SetFoldKeeps ==
  ASSUME NEW S, IsFiniteSet(S), NEW D, NEW base, NEW step, NEW fold,
         IsSetFold(fold, S, D, base, step),
         NEW Good \in [SUBSET S -> SUBSET D], base \in Good[{}],
         \A t \in SUBSET S : \A y \in t : \A x \in D :
           x \in Good[t \ {y}] => step[y][x] \in Good[t]
  PROVE  fold[S] \in Good[S]
<1> DEFINE n == Cardinality(S)
           Fine == {k \in 0 .. n : \A t \in SUBSET S :
                      Cardinality(t) = k => fold[t] \in Good[t]}
<1>1. n \in Nat
  BY FS_CardinalityType
<1>2. \A t \in SUBSET S : IsFiniteSet(t) /\ Cardinality(t) \in Nat
  BY FS_Subset, FS_CardinalityType
<1> HIDE DEF n
<1>3. 0 \in Fine
  <2>1. ASSUME NEW t \in SUBSET S, Cardinality(t) = 0  PROVE  fold[t] \in Good[t]
    <3>1. t = {}
      BY <1>2, <2>1, FS_EmptySet
    <3>2. fold[t] = base
      BY <3>1 DEF IsSetFold
    <3> QED
      BY <3>1, <3>2
  <2> QED
    BY <1>1, <2>1
<1>4. ASSUME NEW k \in 0 .. n - 1, k \in Fine  PROVE  k + 1 \in Fine
  <2>1. ASSUME NEW t \in SUBSET S, Cardinality(t) = k + 1  PROVE  fold[t] \in Good[t]
    <3>1. t # {}
      <4>1. k + 1 # 0
        BY <1>1
      <4> QED
        BY <2>1, <4>1, FS_EmptySet
    <3>2. PICK y \in t : fold[t \ {y}] \in D => fold[t] = step[y][fold[t \ {y}]]
      BY <3>1 DEF IsSetFold
    <3> DEFINE r == t \ {y}
    <3>3. Cardinality(r) = k
      <4>1. IsFiniteSet(t)
        BY <1>2
      <4>2. Cardinality(t \ {y}) = IF y \in t THEN Cardinality(t) - 1 ELSE Cardinality(t)
        BY ONLY <4>1, FS_RemoveElement
      <4>3. k \in Int
        OBVIOUS
      <4> QED
        BY ONLY <2>1, <3>2, <4>2, <4>3 DEF r
    <3>4. fold[r] \in Good[r] /\ Good[r] \in SUBSET D
      BY <1>4, <3>2, <3>3
    <3> QED
      BY <3>2, <3>4
  <2>2. k + 1 \in 0 .. n
    BY <1>1
  <2> QED
    BY <2>1, <2>2
<1> HIDE DEF Fine
<1>5. 0 .. n \subseteq Fine
  BY ONLY <1>1, <1>3, <1>4, UpTo
<1>6. n \in Fine /\ S \in SUBSET S
  BY <1>1, <1>5
<1> QED
  BY <1>6 DEF Fine, n

-----------------------------------------------------------------------------
(* One root for what links join, and for nothing else.                     *)
Joins(d, links) ==
  /\ d \in Forests
  /\ \A u, v \in Stop : d.root[v] = d.root[u] <=> v \in Reached(links, u)

LEMMA ReachedGrows ==
  ASSUME NEW links, \A l \in links : l \subseteq Stop, NEW less \in SUBSET links,
         NEW u \in Stop
  PROVE  Reached(less, u) \subseteq Reached(links, u)
<1>1. /\ u \in Reached(links, u) /\ KeptIn(links, Reached(links, u))
  BY ReachedFacts
<1>2. KeptIn(less, Reached(links, u))
  BY <1>1 DEF KeptIn
<1> QED
  BY <1>1, <1>2, ReachedFacts

LEMMA JoinsNothing == Joins(DisjointSet, {})
<1> DEFINE d == DisjointSet
<1>1. d \in Forests /\ \A u \in Stop : d.root[u] = u
  BY DEF DisjointSet, Forests
<1>2. \A u \in Stop : Reached({}, u) = {u}
  <2> SUFFICES ASSUME NEW u \in Stop  PROVE  Reached({}, u) = {u}
    OBVIOUS
  <2>1. u \in Reached({}, u)
    BY ReachedFacts
  <2>2. KeptIn({}, {u})
    BY DEF KeptIn
  <2>3. Reached({}, u) \subseteq {u}
    BY <2>2, ReachedFacts
  <2> QED
    BY <2>1, <2>3
<1> HIDE DEF d
<1> QED
  BY <1>1, <1>2 DEF Joins, d

LEMMA JoinsUnite ==
  ASSUME NEW links, \A l \in links : l \subseteq Stop /\ \E p, q \in Stop : l = {p, q},
         NEW a \in Stop, NEW b \in Stop, NEW d, Joins(d, links), NEW e, UnitedIn(d, a, b, e)
  PROVE  Joins(e, links \cup {{a, b}})
<1> DEFINE more == links \cup {{a, b}}
<1>1. \A l \in more : l \subseteq Stop
  OBVIOUS
<1>2. d \in Forests /\ e \in Forests /\ d.root \in [Stop -> Stop] /\ e.root \in [Stop -> Stop]
      /\ \A p \in Stop : d.root[d.root[p]] = d.root[p]
  BY DEF Joins, UnitedIn, Forests
<1>3. \A u, v \in Stop : d.root[v] = d.root[u] <=> v \in Reached(links, u)
  BY DEF Joins
<1>4. ASSUME NEW u \in Stop
      PROVE  \A v \in Stop : e.root[v] = e.root[u] <=> v \in Reached(more, u)
  <2> DEFINE R == Reached(more, u)
             S == {v \in Stop : e.root[v] = e.root[u]}
  <2>1. R \in SUBSET Stop /\ u \in R /\ KeptIn(more, R)
        /\ (u \in S /\ KeptIn(more, S) => R \subseteq S)
    BY <1>1, ReachedFacts
  <2>2. ASSUME NEW l \in links, NEW p \in l, NEW q \in l  PROVE  d.root[p] = d.root[q]
    <3>1. p \in Reached(links, p) /\ KeptIn(links, Reached(links, p)) /\ p \in Stop /\ q \in Stop
      BY <2>2, ReachedFacts
    <3>2. q \in Reached(links, p)
      BY <2>2, <3>1 DEF KeptIn
    <3> QED
      BY <1>3, <3>1, <3>2
  <2>3. KeptIn(more, S)
    <3>1. ASSUME NEW l \in more, NEW p \in l, NEW q \in l  PROVE  e.root[p] = e.root[q]
      <4>1. CASE l \in links
        BY <2>2, <4>1 DEF UnitedIn
      <4>2. CASE l = {a, b}
        BY <3>1, <4>2 DEF UnitedIn
      <4> QED
        BY <4>1, <4>2
    <3>2. \A l \in more : \A q \in l : q \in Stop
      BY <1>1
    <3> QED
      BY <3>1, <3>2 DEF KeptIn
  <2>4. R \subseteq S
    BY <2>1, <2>3
  <2>5. KeepsTo(d, R)
    <3> SUFFICES ASSUME NEW p \in Stop  PROVE  p \in R <=> d.root[p] \in R
      BY DEF KeepsTo
    <3>1. KeptIn(links, R)
      BY <2>1 DEF KeptIn
    <3>2. d.root[p] \in Stop /\ d.root[d.root[p]] = d.root[p]
      BY <1>2
    <3>3. d.root[p] \in Reached(links, p) /\ p \in Reached(links, d.root[p])
      BY <1>3, <3>2
    <3>4. \A x \in Stop : x \in R => Reached(links, x) \subseteq R
      BY <3>1, ReachedFacts
    <3> QED
      BY <3>2, <3>3, <3>4
  <2>6. KeepsTo(e, R)
    <3>1. a \in R <=> b \in R
      <4>1. {a, b} \in more /\ a \in {a, b} /\ b \in {a, b}
        OBVIOUS
      <4> HIDE DEF R, more
      <4> QED
        BY <2>1, <4>1 DEF KeptIn
    <3> QED
      BY <2>1, <2>5, <3>1 DEF UnitedIn
  <2>7. S \subseteq R
    BY <2>1, <2>6 DEF KeepsTo
  <2> QED
    BY <2>4, <2>7
<1> QED
  BY <1>2, <1>4 DEF Joins

-----------------------------------------------------------------------------
(* As many links as stations less roots make a forest that joins what all  *)
(* the links join; of a forest it leaves nothing out.                      *)
LinksOf(S, links) ==
  \A l \in links : \E p, q \in Stop : p \in S /\ q \in S /\ p # q /\ l = {p, q}
Roots(d, S) == {d.root[s] : s \in S}
Spanning(S, d, links) ==
  {tree \in SUBSET links :
     /\ Joins(d, tree) /\ IsForest(tree)
     /\ Cardinality(tree) + Cardinality(Roots(d, S)) = Cardinality(S)
     /\ IsForest(links) => tree = links}
LinksJoined(S, links) ==
  {d \in Forests : /\ Joins(d, links) /\ \A s \in S : d.root[s] \in S
                   /\ Spanning(S, d, links) # {}}

LEMMA ForestGrows ==
  ASSUME NEW S \in SUBSET Stop, NEW tree, LinksOf(S, tree), IsForest(tree),
         NEW d, Joins(d, tree),
         NEW a \in Stop, NEW b \in Stop, a # b, d.root[a] # d.root[b]
  PROVE  IsForest(tree \cup {{a, b}})
<1> DEFINE y == {a, b}
           more == tree \cup {y}
<1>1. \A l \in tree : l \subseteq Stop
  BY DEF LinksOf
<1>2. \A u, v \in Stop : d.root[v] = d.root[u] <=> v \in Reached(tree, u)
  BY DEF Joins
<1>3. SUFFICES ASSUME NEW l \in more, NEW p \in l, NEW q \in l, p # q,
                      q \in Reached(more \ {l}, p)
               PROVE  FALSE
  BY DEF IsForest
<1>4. p \in Stop /\ q \in Stop
  BY <1>1
<1>5. y \notin tree
  <2>1. SUFFICES ASSUME y \in tree  PROVE  FALSE
    OBVIOUS
  <2>2. a \in Reached(tree, a) /\ KeptIn(tree, Reached(tree, a))
    BY <1>1, ReachedFacts
  <2>3. b \in Reached(tree, a)
    BY <2>1, <2>2 DEF KeptIn
  <2> QED
    BY <1>2, <2>3
<1>6. CASE l = y
  <2>1. more \ {l} = tree
    BY <1>5, <1>6
  <2>2. d.root[q] = d.root[p]
    BY <1>2, <1>3, <1>4, <2>1
  <2> QED
    BY <1>3, <1>6, <2>2
<1>7. CASE l # y
  <2> DEFINE rest == tree \ {l}
             A == Reached(rest, p)
             FromA == {x \in Reached(rest, b) : a \in A}
             FromB == {x \in Reached(rest, a) : b \in A}
             W == A \cup FromA \cup FromB
  <2>1. l \in tree /\ more \ {l} = rest \cup {y} /\ rest \in SUBSET tree
    BY <1>3, <1>7
  <2>2. \A m \in rest : m \subseteq Stop
    BY <1>1
  <2>3. \A u \in Stop : u \in Reached(rest, u) /\ KeptIn(rest, Reached(rest, u))
    BY <2>2, ReachedFacts
  <2>4. \A u \in Stop : Reached(rest, u) \subseteq Reached(tree, u)
    BY <1>1, <2>1, ReachedGrows
  <2>5. q \notin A
    BY <1>3, <2>1 DEF IsForest
  <2>6. KeptIn(rest \cup {y}, W)
    <3>1. KeptIn(rest, A) /\ KeptIn(rest, Reached(rest, a)) /\ KeptIn(rest, Reached(rest, b))
          /\ a \in Reached(rest, a) /\ b \in Reached(rest, b)
      BY <1>4, <2>3
    <3> HIDE DEF rest, A
    <3>2. KeptIn(rest, FromA) /\ KeptIn(rest, FromB)
      BY <3>1 DEF KeptIn
    <3>3. a \in W <=> b \in W
      BY <3>1
    <3> HIDE DEF FromA, FromB
    <3>4. KeptIn(rest, W)
      BY <3>1, <3>2 DEF KeptIn
    <3> HIDE DEF W
    <3> QED
      BY <3>3, <3>4 DEF KeptIn
  <2>7. \A m \in rest \cup {y} : m \subseteq Stop
    BY <2>2
  <2>8. p \in W
    BY <1>4, <2>3
  <2>9. q \in W
    <3> HIDE DEF W
    <3>1. Reached(rest \cup {y}, p) \subseteq W
      BY <1>4, <2>6, <2>7, <2>8, ReachedFacts
    <3> QED
      BY <1>3, <2>1, <3>1
  <2>10. q \in Reached(tree, p)
    <3>1. p \in Reached(tree, p) /\ KeptIn(tree, Reached(tree, p))
      BY <1>1, <1>4, ReachedFacts
    <3> QED
      BY <1>3, <2>1, <3>1 DEF KeptIn
  <2>11. d.root[q] = d.root[p]
    BY <1>2, <1>4, <2>10
  <2>12. \/ a \in A /\ q \in Reached(rest, b)
         \/ b \in A /\ q \in Reached(rest, a)
    BY <2>5, <2>9
  <2>13. A \subseteq Reached(tree, p) /\ Reached(rest, b) \subseteq Reached(tree, b)
         /\ Reached(rest, a) \subseteq Reached(tree, a)
    BY <1>4, <2>4
  <2> HIDE DEF rest, A
  <2>14. \/ d.root[a] = d.root[p] /\ d.root[q] = d.root[b]
         \/ d.root[b] = d.root[p] /\ d.root[q] = d.root[a]
    BY <1>2, <1>4, <2>12, <2>13
  <2> QED
    BY <2>11, <2>14
<1> QED
  BY <1>6, <1>7

LEMMA PartOfForest ==
  ASSUME NEW links, \A l \in links : l \subseteq Stop, NEW less \in SUBSET links, IsForest(links)
  PROVE  IsForest(less)
<1> SUFFICES ASSUME NEW l \in less, NEW a \in l, NEW b \in l, a # b
             PROVE  b \notin Reached(less \ {l}, a)
  BY DEF IsForest
<1>1. b \notin Reached(links \ {l}, a)
  BY DEF IsForest
<1>2. Reached(less \ {l}, a) \subseteq Reached(links \ {l}, a)
  BY ReachedGrows
<1> QED
  BY <1>1, <1>2

LEMMA OneRootLess ==
  ASSUME NEW S \in SUBSET Stop, IsFiniteSet(S), NEW d \in Forests, \A s \in S : d.root[s] \in S,
         NEW a \in S, NEW b \in S, d.root[a] # d.root[b]
  PROVE  /\ \A s \in S : unite(d, a, b).root[s] \in S
         /\ Cardinality(Roots(unite(d, a, b), S)) + 1 = Cardinality(Roots(d, S))
<1> DEFINE ra == d.root[a]
           rb == d.root[b]
           over == IF d.rank[ra] < d.rank[rb] THEN rb ELSE ra
           under == IF over = ra THEN rb ELSE ra
           e == unite(d, a, b)
           root == [p \in Stop |-> IF d.root[p] = under THEN over ELSE d.root[p]]
<1>1. d.root \in [Stop -> Stop] /\ \A p \in Stop : d.root[d.root[p]] = d.root[p]
  BY DEF Forests
<1>2. e.root = root
  BY DEF unite
<1>3. ra \in S /\ rb \in S /\ d.root[ra] = ra /\ d.root[rb] = rb
  BY <1>1
<1>4. over \in S /\ under \in S /\ over # under /\ d.root[over] = over /\ d.root[under] = under
  BY <1>3
<1> HIDE DEF over, under, e
<1>5. \A s \in S : e.root[s] = IF d.root[s] = under THEN over ELSE d.root[s]
  BY <1>2
<1>6. Roots(e, S) = Roots(d, S) \ {under}
  BY <1>4, <1>5 DEF Roots
<1>7. under \in Roots(d, S)
  BY <1>4 DEF Roots
<1>8. IsFiniteSet(Roots(d, S))
  <2>1. Roots(d, S) \in SUBSET S
    BY DEF Roots
  <2> QED
    BY <2>1, FS_Subset
<1>9. Cardinality(Roots(e, S)) = Cardinality(Roots(d, S)) - 1 /\ Cardinality(Roots(d, S)) \in Nat
  BY <1>6, <1>7, <1>8, FS_RemoveElement, FS_CardinalityType
<1> QED
  BY <1>4, <1>5, <1>9 DEF e

LEMMA LinkUnited ==
  ASSUME NEW S \in SUBSET Stop, IsFiniteSet(S), NEW t, IsFiniteSet(t), LinksOf(S, t),
         NEW y \in t, NEW a \in S, NEW b \in S, a # b, y = {a, b},
         NEW d, d \in LinksJoined(S, t \ {y})
  PROVE  unite(d, a, b) \in LinksJoined(S, t)
<1> DEFINE r == t \ {y}
           e == unite(d, a, b)
<1>1. /\ t = r \cup {y} /\ LinksOf(S, r)
      /\ \A l \in t : l \subseteq Stop /\ \E p, q \in Stop : l = {p, q}
  <2>1. t = r \cup {y} /\ LinksOf(S, r)
    BY DEF LinksOf
  <2>2. \A l \in t : \E p, q \in Stop : l = {p, q}
    BY DEF LinksOf
  <2> QED
    BY <2>1, <2>2
<1>2. d \in Forests /\ Joins(d, r) /\ \A s \in S : d.root[s] \in S
  BY DEF LinksJoined
<1>3. PICK tree \in Spanning(S, d, r) : TRUE
  BY DEF LinksJoined
<1>4. /\ tree \in SUBSET r /\ Joins(d, tree) /\ IsForest(tree)
      /\ Cardinality(tree) + Cardinality(Roots(d, S)) = Cardinality(S)
      /\ IsForest(r) => tree = r
  BY <1>3 DEF Spanning
<1>5. UnitedIn(d, a, b, e)
  BY <1>2, UniteFacts
<1>6. e \in Forests /\ Joins(e, t)
  <2>1. \A l \in r : l \subseteq Stop /\ \E p, q \in Stop : l = {p, q}
    BY <1>1
  <2>2. Joins(e, r \cup {{a, b}})
    BY <1>2, <1>5, <2>1, JoinsUnite
  <2> QED
    BY <1>1, <2>2 DEF Joins
<1>7. CASE d.root[a] = d.root[b]
  <2>1. e = d
    BY <1>7 DEF unite
  <2>2. ~ IsForest(t)
    <3>1. b \in Reached(r, a)
      BY <1>2, <1>7 DEF Joins
    <3> QED
      BY <3>1 DEF IsForest
  <2>3. tree \in Spanning(S, e, t)
    BY <1>4, <2>1, <2>2 DEF Spanning
  <2> QED
    BY <1>2, <1>6, <2>1, <2>3 DEF LinksJoined
<1>8. CASE d.root[a] # d.root[b]
  <2> DEFINE more == tree \cup {y}
  <2>1. /\ \A s \in S : e.root[s] \in S
        /\ Cardinality(Roots(e, S)) + 1 = Cardinality(Roots(d, S))
    BY <1>2, <1>8, OneRootLess
  <2>2. LinksOf(S, tree)
    BY <1>1, <1>4 DEF LinksOf
  <2>3. IsForest(more)
    BY <1>4, <1>8, <2>2, ForestGrows
  <2>4. Joins(e, more)
    <3>1. \A l \in tree : l \subseteq Stop /\ \E p, q \in Stop : l = {p, q}
      BY <1>1, <1>4
    <3> QED
      BY <1>4, <1>5, <3>1, JoinsUnite
  <2>5. Cardinality(more) = Cardinality(tree) + 1 /\ Cardinality(tree) \in Nat
    <3>1. IsFiniteSet(tree) /\ y \notin tree
      BY <1>4, FS_Subset
    <3> QED
      BY <3>1, FS_AddElement, FS_CardinalityType
  <2>6. Cardinality(Roots(e, S)) \in Nat /\ Cardinality(Roots(d, S)) \in Nat
    <3>1. Roots(e, S) \in SUBSET S /\ Roots(d, S) \in SUBSET S
      BY <1>2, <2>1 DEF Roots
    <3> QED
      BY <3>1, FS_Subset, FS_CardinalityType
  <2>7. Cardinality(more) + Cardinality(Roots(e, S)) = Cardinality(S)
    BY <1>4, <2>1, <2>5, <2>6
  <2>8. IsForest(t) => more = t
    <3>1. IsForest(t) => IsForest(r)
      BY <1>1, PartOfForest
    <3> QED
      BY <1>1, <1>4, <3>1
  <2>9. more \in Spanning(S, e, t)
    BY <1>1, <1>4, <2>3, <2>4, <2>7, <2>8 DEF Spanning
  <2> QED
    BY <1>6, <2>1, <2>9 DEF LinksJoined
<1> QED
  BY <1>7, <1>8

(* The components compute_topology counts.                                 *)
LinkMerged(links) == FoldSet(LAMBDA l, d : unite(d, Min(l), Max(l)), DisjointSet, links)

LEMMA EndsOfLink ==
  ASSUME NEW a \in Nat, NEW b \in Nat, a # b
  PROVE  /\ Min({a, b}) \in {a, b} /\ Max({a, b}) \in {a, b}
         /\ Min({a, b}) # Max({a, b}) /\ {Min({a, b}), Max({a, b})} = {a, b}
<1> DEFINE S == {a, b}
<1>1. \E x \in S : \A y \in S : x <= y
  OBVIOUS
<1>2. \E x \in S : \A y \in S : x >= y
  OBVIOUS
<1>3. Min(S) \in S /\ \A y \in S : Min(S) <= y
  BY <1>1 DEF Min
<1>4. Max(S) \in S /\ \A y \in S : Max(S) >= y
  BY <1>2 DEF Max
<1> QED
  BY <1>3, <1>4

LEMMA LinkMergedFacts ==
  ASSUME NEW S \in SUBSET Stop, NEW links, IsFiniteSet(links), LinksOf(S, links)
  PROVE  LinkMerged(links) \in LinksJoined(S, links)
<1> DEFINE D == Forests
           base == DisjointSet
           op(l, d) == unite(d, Min(l), Max(l))
           step == [l \in links |-> [d \in D |-> op(l, d)]]
           Good == [t \in SUBSET links |-> LinksJoined(S, t)]
           eq(f) == [t \in SUBSET links |->
                       IF t = {} THEN base
                       ELSE op(CHOOSE x \in t : TRUE, f[t \ {CHOOSE x \in t : TRUE}])]
           F == CHOOSE f : f = eq(f)
<1>1. LinkMerged(links) = F[links]
  BY DEF LinkMerged, FoldSet, MapThenFoldSet
<1>2. Stop \subseteq Nat /\ IsFiniteSet(Stop) /\ IsFiniteSet(S)
  <2>1. IsFiniteSet(Stop)
    BY FS_Interval, Sizes DEF Stop
  <2>2. Stop \subseteq Nat
    BY Sizes DEF Stop
  <2>3. IsFiniteSet(S)
    BY ONLY <2>1, S \in SUBSET Stop, FS_Subset
  <2> QED
    BY <2>1, <2>2, <2>3
<1>3. ASSUME NEW l \in links
      PROVE  Min(l) \in S /\ Max(l) \in S /\ Min(l) # Max(l) /\ l = {Min(l), Max(l)}
  <2>1. PICK p \in Stop, q \in Stop : p \in S /\ q \in S /\ p # q /\ l = {p, q}
    BY DEF LinksOf
  <2> QED
    BY <1>2, <2>1, EndsOfLink
<1>4. base \in D
  BY DEF DisjointSet, Forests
<1>5. ASSUME NEW l \in links, NEW d \in D  PROVE  op(l, d) \in D
  <2>1. UnitedIn(d, Min(l), Max(l), unite(d, Min(l), Max(l)))
    BY <1>3, UniteFacts
  <2> QED
    BY <2>1 DEF UnitedIn
<1>6. base \in Good[{}]
  <2>1. Joins(base, {})
    BY JoinsNothing
  <2>2. IsForest({})
    BY DEF IsForest
  <2>3. \A s \in S : base.root[s] = s
    BY DEF DisjointSet
  <2>4. Roots(base, S) = S
    BY <2>3 DEF Roots
  <2>5. Cardinality({}) + Cardinality(Roots(base, S)) = Cardinality(S)
    BY <1>2, <2>4, FS_EmptySet, FS_CardinalityType
  <2>6. {} \in Spanning(S, base, {})
    BY <2>1, <2>2, <2>5 DEF Spanning
  <2>7. base \in LinksJoined(S, {})
    BY <1>4, <2>1, <2>3, <2>6 DEF LinksJoined
  <2> QED
    BY <2>7
<1>7. ASSUME NEW t \in SUBSET links, NEW y \in t, NEW x \in D, x \in Good[t \ {y}]
      PROVE  op(y, x) \in Good[t]
  <2>1. IsFiniteSet(t) /\ LinksOf(S, t)
    BY FS_Subset DEF LinksOf
  <2>2. x \in LinksJoined(S, t \ {y})
    BY <1>7
  <2>3. unite(x, Min(y), Max(y)) \in LinksJoined(S, t)
    BY <1>2, <1>3, <2>1, <2>2, LinkUnited
  <2> QED
    BY <2>3
<1>8. Good \in [SUBSET links -> SUBSET D]
  BY DEF LinksJoined
<1> HIDE DEF op, D, base, Good
<1>9. step \in [links -> [D -> D]]
  BY <1>5
<1>10. \A l \in links : \A d \in D : step[l][d] = op(l, d)
  OBVIOUS
<1> HIDE DEF step
<1>11. PICK f : f \in SetFolds(links, D, base, step)
  BY <1>4, <1>9, SetFoldExists
<1>12. f = eq(f)
  <2>1. f = [t \in SUBSET links |-> f[t]] /\ \A t \in SUBSET links : f[t] \in D
    BY <1>11 DEF SetFolds
  <2>2. \A t \in SUBSET links : f[t] = IF t = {} THEN base
          ELSE op(CHOOSE x \in t : TRUE, f[t \ {CHOOSE x \in t : TRUE}])
    <3> SUFFICES ASSUME NEW t \in SUBSET links
                 PROVE  f[t] = IF t = {} THEN base
                               ELSE op(CHOOSE x \in t : TRUE, f[t \ {CHOOSE x \in t : TRUE}])
      OBVIOUS
    <3>1. f[t] = IF t = {} THEN base
                 ELSE step[CHOOSE y \in t : TRUE][f[t \ {CHOOSE y \in t : TRUE}]]
      BY <1>11 DEF SetFolds
    <3>2. t # {} => (CHOOSE y \in t : TRUE) \in links
      OBVIOUS
    <3>3. f[t \ {CHOOSE y \in t : TRUE}] \in D
      BY <2>1
    <3> QED
      BY <1>10, <3>1, <3>2, <3>3
  <2> QED
    BY <2>1, <2>2
<1>13. F = eq(F)
  BY <1>12
<1> HIDE DEF F
<1>14. IsSetFold(F, links, D, base, step)
  <2>1. F[{}] = base
    BY <1>13
  <2>2. ASSUME NEW t \in SUBSET links, t # {}
        PROVE  \E y \in t : F[t \ {y}] \in D => F[t] = step[y][F[t \ {y}]]
    <3> DEFINE y == CHOOSE x \in t : TRUE
    <3>1. y \in t /\ F[t] = op(y, F[t \ {y}])
      BY <1>13, <2>2
    <3> HIDE DEF y
    <3> QED
      BY <1>10, <3>1
  <2> QED
    BY <2>1, <2>2 DEF IsSetFold
<1>15. \A t \in SUBSET links : \A y \in t : \A x \in D :
         x \in Good[t \ {y}] => step[y][x] \in Good[t]
  BY <1>7, <1>10
<1>16. F[links] \in Good[links]
  BY <1>6, <1>8, <1>14, <1>15, SetFoldKeeps
<1> QED
  BY <1>1, <1>16 DEF Good

LEMMA MoreLinksFewerRoots ==
  ASSUME NEW S \in SUBSET Stop, IsFiniteSet(S), NEW links, LinksOf(S, links),
         NEW less \in SUBSET links,
         NEW d, d \in LinksJoined(S, links), NEW e, e \in LinksJoined(S, less)
  PROVE  Cardinality(Roots(d, S)) <= Cardinality(Roots(e, S))
<1> DEFINE A == Roots(e, S)
           B == Roots(d, S)
           h == [r \in A |-> d.root[r]]
<1>1. /\ Joins(d, links) /\ Joins(e, less) /\ \A s \in S : e.root[s] \in S
      /\ e.root \in [Stop -> Stop] /\ \A p \in Stop : e.root[e.root[p]] = e.root[p]
  BY DEF LinksJoined, Forests
<1>2. A \in SUBSET S
  BY <1>1 DEF Roots
<1>3. \A l \in links : l \subseteq Stop
  BY DEF LinksOf
<1>4. \A s \in S : d.root[e.root[s]] = d.root[s]
  <2> SUFFICES ASSUME NEW s \in S  PROVE  d.root[e.root[s]] = d.root[s]
    OBVIOUS
  <2>1. e.root[s] \in Stop /\ s \in Stop /\ e.root[e.root[s]] = e.root[s]
    BY <1>1
  <2>2. e.root[s] \in Reached(less, s)
    BY <1>1, <2>1 DEF Joins
  <2>3. Reached(less, s) \subseteq Reached(links, s)
    BY <1>3, <2>1, ReachedGrows
  <2> QED
    BY <1>1, <2>1, <2>2, <2>3 DEF Joins
<1>5. h \in Surjection(A, B)
  <2>1. \A r \in A : h[r] \in B
    BY <1>2 DEF Roots
  <2>2. \A b \in B : \E r \in A : h[r] = b
    BY <1>4 DEF Roots
  <2> HIDE DEF A, B
  <2> QED
    BY <2>1, <2>2 DEF Surjection
<1>6. IsFiniteSet(A)
  BY <1>2, FS_Subset
<1> QED
  BY <1>5, <1>6, FS_Surjection

(* What the cyclomatic number says of the links.                           *)
CountsCycles(n, links) ==
  /\ n \in Nat
  /\ \E cut \in kSubset(n, links) : IsForest(links \ cut)
  /\ \A l \in links : IsForest(links \ {l}) => n <= 1
  /\ n = 0 <=> IsForest(links)

LEMMA CyclesCounted ==
  ASSUME NEW S \in SUBSET Stop, NEW links, IsFiniteSet(links), LinksOf(S, links),
         NEW n, n = Cardinality(links) - Cardinality(S) + Cardinality(Roots(LinkMerged(links), S))
  PROVE  CountsCycles(n, links)
<1> DEFINE d == LinkMerged(links)
<1>1. IsFiniteSet(S) /\ Cardinality(S) \in Nat /\ Cardinality(links) \in Nat
  <2>1. IsFiniteSet(Stop)
    BY FS_Interval, Sizes DEF Stop
  <2>2. IsFiniteSet(S)
    BY <2>1, FS_Subset
  <2> QED
    BY <2>2, FS_CardinalityType
<1>2. d \in LinksJoined(S, links)
  BY LinkMergedFacts
<1> HIDE DEF d
<1>3. PICK tree \in Spanning(S, d, links) : TRUE
  BY <1>2 DEF LinksJoined
<1>4. /\ tree \in SUBSET links /\ IsForest(tree)
      /\ Cardinality(tree) + Cardinality(Roots(d, S)) = Cardinality(S)
      /\ IsForest(links) => tree = links
  BY <1>3 DEF Spanning
<1>5. Cardinality(Roots(d, S)) \in Nat
  <2>1. Roots(d, S) \in SUBSET S
    BY <1>2 DEF Roots, LinksJoined
  <2> QED
    BY <1>1, <2>1, FS_Subset, FS_CardinalityType
<1> DEFINE cut == links \ tree
<1>6. IsFiniteSet(cut) /\ IsFiniteSet(tree) /\ Cardinality(cut) \in Nat /\ Cardinality(tree) \in Nat
  BY <1>4, FS_Subset, FS_CardinalityType
<1>7. Cardinality(links) = Cardinality(tree) + Cardinality(cut)
  <2>1. tree \cup cut = links /\ tree \cap cut = {}
    BY <1>4
  <2>2. Cardinality(tree \cup cut)
          = Cardinality(tree) + Cardinality(cut) - Cardinality(tree \cap cut)
    BY <1>6, FS_Union
  <2>3. Cardinality(tree \cap cut) = 0
    BY <2>1, FS_EmptySet
  <2> HIDE DEF cut
  <2>4. Cardinality(links) = Cardinality(tree) + Cardinality(cut) - 0
    BY <2>1, <2>2, <2>3
  <2> QED
    BY <1>6, <2>4
<1>8. n = Cardinality(cut)
  BY <1>1, <1>4, <1>5, <1>6, <1>7 DEF d
<1>9. links \ cut = tree
  BY <1>4
<1>10. \E c \in kSubset(n, links) : IsForest(links \ c)
  <2>1. cut \in kSubset(n, links)
    BY <1>8 DEF kSubset
  <2> QED
    BY <1>4, <1>9, <2>1
<1>11. ASSUME NEW l \in links, IsForest(links \ {l})  PROVE  n <= 1
  <2> DEFINE less == links \ {l}
             e == LinkMerged(less)
  <2>1. IsFiniteSet(less) /\ LinksOf(S, less) /\ less \in SUBSET links
        /\ Cardinality(less) = Cardinality(links) - 1
    BY FS_RemoveElement DEF LinksOf
  <2>2. e \in LinksJoined(S, less)
    BY <2>1, LinkMergedFacts
  <2> HIDE DEF e
  <2>3. Cardinality(Roots(d, S)) <= Cardinality(Roots(e, S))
    BY <1>1, <1>2, <2>1, <2>2, MoreLinksFewerRoots
  <2>4. Spanning(S, e, less) # {}
    BY <2>2 DEF LinksJoined
  <2>5. Cardinality(less) + Cardinality(Roots(e, S)) = Cardinality(S)
    BY <1>11, <2>4 DEF Spanning
  <2>6. Cardinality(Roots(e, S)) \in Nat
    <3>1. Roots(e, S) \in SUBSET S
      BY <2>2 DEF Roots, LinksJoined
    <3> QED
      BY <1>1, <3>1, FS_Subset, FS_CardinalityType
  <2> HIDE DEF less
  <2> QED
    BY <1>1, <1>5, <2>1, <2>3, <2>5, <2>6 DEF d
<1>12. n = 0 <=> IsForest(links)
  <2>1. n = 0 => IsForest(links)
    <3>1. n = 0 => cut = {}
      BY <1>6, <1>8, FS_EmptySet
    <3> QED
      BY <1>4, <1>9, <3>1
  <2>2. IsForest(links) => n = 0
    <3>1. IsForest(links) => cut = {}
      BY <1>4
    <3> QED
      BY <1>8, <3>1, FS_EmptySet
  <2> QED
    BY <2>1, <2>2
<1> QED
  BY <1>6, <1>8, <1>10, <1>11, <1>12 DEF CountsCycles

LEMMA CyclesOfStudy == StudyInv => CyclomaticCountsCycles
<1> SUFFICES ASSUME StudyInv, Described  PROVE  CyclomaticCountsCycles
  BY DEF CyclomaticCountsCycles
<1> DEFINE A == CountedSegments(feed)
           station == Merged(feed.transfers).root
           S == {station[p] : p \in Ends(A)}
           rides == {s \in A : station[s[1].stop] # station[s[2].stop]}
           links == {Between(s, station) : s \in rides}
<1>1. WellFormed(feed) /\ station_graph.stations = S /\ station_graph.links = links
  BY DescribedFacts
<1>2. station_graph.cyclomatic
        = Cardinality(links) - Cardinality(S) + Cardinality(ComponentRoots(links, S))
  <2>1. NumStops # 0 /\ feed.stop_times # {} /\ station_graph # None
    BY DEF Described, Idle
  <2>2. station_graph = compute_topology(feed)
    BY <2>1 DEF StudyInv
  <2> QED
    BY <2>1, <2>2 DEF compute_topology
<1>3. ComponentRoots(links, S) = Roots(LinkMerged(links), S)
  BY DEF ComponentRoots, Roots, LinkMerged
<1>4. station \in [Stop -> Stop]
  <2>1. feed.transfers \in Seq(TransferRecords)
    BY <1>1 DEF WellFormed
  <2>2. Merged(feed.transfers) \in Forests
    BY <2>1, MergedFacts DEF JoinedTo
  <2> QED
    BY <2>2 DEF Forests
<1>5. \A s \in A : s[1].stop \in Stop /\ s[2].stop \in Stop
  <2> SUFFICES ASSUME NEW s \in A  PROVE  s[1].stop \in Stop /\ s[2].stop \in Stop
    OBVIOUS
  <2>1. s \in Segments(feed) /\ EdgeAdmitted(s[1], s[2])
    BY <1>1, CountedIsAdmitted
  <2>2. s[1] \in StopTimeRecords /\ s[2] \in StopTimeRecords
        /\ s[1].stop # Unresolved /\ s[2].stop # Unresolved
    BY <1>1, <2>1, SegmentsFacts DEF EdgeAdmitted
  <2> QED
    BY <2>2, RecordTypes
<1>6. IsFiniteSet(links)
  <2>1. IsFiniteSet(A)
    <3>1. A \in SUBSET Segments(feed) /\ IsFiniteSet(Segments(feed))
      BY <1>1, CountedIsAdmitted, SegmentsFacts
    <3> QED
      BY <3>1, FS_Subset
  <2>2. IsFiniteSet(rides)
    BY <2>1, FS_Subset
  <2> HIDE DEF rides
  <2> DEFINE F == [s \in rides |-> {Between(s, station)}]
  <2>3. \A s \in rides : IsFiniteSet(F[s])
    BY FS_Singleton
  <2>4. links = UNION {F[s] : s \in rides}
    OBVIOUS
  <2> HIDE DEF F, links
  <2> QED
    BY <2>2, <2>3, <2>4, UnionIsFinite
<1>7. S \in SUBSET Stop /\ LinksOf(S, links)
  <2>1. \A s \in A : station[s[1].stop] \in S /\ station[s[2].stop] \in S
    BY DEF Ends
  <2>2. \A x \in S : x \in Stop
    BY <1>4, <1>5 DEF Ends
  <2>3. \A l \in links : \E s \in A : /\ station[s[1].stop] # station[s[2].stop]
                                      /\ l = {station[s[1].stop], station[s[2].stop]}
    BY DEF Between
  <2> HIDE DEF S, links, A, station
  <2> QED
    BY <2>1, <2>2, <2>3 DEF LinksOf
<1> HIDE DEF A, station, S, rides, links
<1> DEFINE n == station_graph.cyclomatic
<1>8. n = Cardinality(links) - Cardinality(S) + Cardinality(Roots(LinkMerged(links), S))
  BY <1>2, <1>3
<1> HIDE DEF n
<1>9. CountsCycles(n, links)
  BY <1>6, <1>7, <1>8, CyclesCounted
<1> QED
  BY <1>1, <1>9 DEF CyclomaticCountsCycles, CountsCycles, n, links, rides, S, A, station

(* L - S + C over the served stations is never negative, is 0 of a forest  *)
(* only, and otherwise the number of links whose loss leaves a forest      *)
(* (CyclomaticCountsCycles).                                               *)
THEOREM CyclesHold == StudySpec => []CyclomaticCountsCycles
BY StudyInvAlways, CyclesOfStudy, PTL

=============================================================================
