---------------------------- MODULE ParetoDijkstra ----------------------------
(***************************************************************************)
(* ParetoDijkstra::run (src/routing.cpp): the multi-label-correcting       *)
(* search, one pop or one relaxation per step.  Frontiers are sequences of *)
(* labels (Dominance), departures are chosen by Lookahead, and of the      *)
(* arena only used_count matters here: allocate() throws exactly when it   *)
(* equals Capacity, which ArenaAllocator shows (ThrowsOnlyWhenFull).       *)
(* The build is the default one, Release, where assert() is compiled out.  *)
(***************************************************************************)
EXTENDS Lookahead, Dominance, SequencesExt

CONSTANTS
  NumNodes,    \* graph_.num_nodes
  Graphs,      \* the graphs explored
  Configs,     \* the lookahead configurations explored
  Departures,  \* the departure times of the queries explored
  Capacity,    \* of the arena
  MaxRuns      \* bound: queries asked of one router

Node == 0 .. NumNodes - 1
NoNode == NumNodes                       \* UINT32_MAX, no predecessor

Edge == [destination : Node, departure_time : Nat, travel_time : Nat \ {0},
         secondary_weight : Nat, penalty : Nat]
TransferEdge == [destination : Node, travel_time : Nat \ {0}]

ASSUME NodeAssumption == NumNodes \in Nat \ {0}
ASSUME CapacityAssumption == Capacity \in Nat \ {0}
ASSUME DeparturesAssumption == Departures \subseteq Nat
ASSUME ConfigsAssumption ==
  \A c \in Configs : c.k_departures \in Nat /\ c.W_max_seconds \in Nat
                       /\ c.lambda \in Nat
(* GraphBuilder gives every ride and every walk at least one second.       *)
ASSUME GraphsAssumption ==
  \A g \in Graphs, n \in Node :
    /\ g.edges[n] \in Seq(Edge)
    /\ g.transfers[n] \in Seq(TransferEdge)
(* It never sets a penalty, and gives rides no weight when transfers are   *)
(* what is counted.                                                        *)
ASSUME CostsAssumption ==
  \A g \in Graphs, n \in Node : \A i \in DOMAIN g.edges[n] :
    /\ g.edges[n][i].penalty = 0
    /\ g.second_objective = "TransferCount" => g.edges[n][i].secondary_weight = 0

VARIABLES
  graph, config,
  pareto,      \* out.pareto_sets: the frontier of each node
  pq,          \* pq_: the heap, a bag of label values, kept across runs
  used_count,  \* of the arena
  phase,       \* "idle", "popping" or "relaxing"
  current,     \* the label being expanded, at first the source label
  dests,       \* dest_scratch_: boardable destinations still to be relaxed
  walks,       \* the walk labels of current still to be relaxed
  runs, outcome,
  source,      \* history: the source label of this run
  fresh,       \* history: the heap was empty when this run began
  expanded     \* history: the labels this run has expanded

inputs == << graph, config, runs, source, fresh >>
vars == << inputs, pareto, pq, used_count, phase, current, dests, walks,
           outcome, expanded >>

Label(n, t, c, p) ==
  [node |-> n, arrival_time |-> t, secondary_cost |-> c, predecessor |-> p]

LabelType == [node : Node, arrival_time : Nat, secondary_cost : Nat,
              predecessor : Node \cup {NoNode}]

TypeOK ==
  /\ pareto \in [Node -> Seq(LabelType)]
  /\ \A n \in Node : \A i \in DOMAIN pareto[n] : pareto[n][i].node = n
  /\ IsABag(pq) /\ BagToSet(pq) \subseteq LabelType
  /\ used_count \in 0 .. Capacity
  /\ phase \in {"idle", "popping", "relaxing"}
  /\ current \in LabelType /\ source \in LabelType
  /\ dests \subseteq Node
  /\ walks \in Seq(LabelType)
  /\ expanded \subseteq LabelType
  /\ fresh \in BOOLEAN

-----------------------------------------------------------------------------
(* The departure a label would take to v, a position in the range of its   *)
(* node, and the destinations that have one.                               *)
Selected(l, v) ==
  select_optimal_departure(graph, config, l.arrival_time, l.node, v)

Boardable(l) ==
  LET es == graph.edges[l.node]
  IN  {v \in {es[i].destination : i \in DOMAIN es} : Selected(l, v) # NoDeparture}

(* Mutant: the boarding stop is left out of the label. *)
RideFromNowhere(l, v) ==
  LET e == graph.edges[l.node][Selected(l, v)]
  IN  Label(v, ArrivalOf(e), l.secondary_cost + e.secondary_weight + e.penalty, v)
Ride(l, v) ==
  LET e == graph.edges[l.node][Selected(l, v)]
  IN  Label(v, ArrivalOf(e), l.secondary_cost + e.secondary_weight + e.penalty,
            l.node)

TransferCost == IF graph.second_objective = "TransferCount" THEN 1 ELSE 0

Walks(l) ==
  [i \in DOMAIN graph.transfers[l.node] |->
     LET w == graph.transfers[l.node][i]
     IN  Label(w.destination, l.arrival_time + w.travel_time,
               l.secondary_cost + TransferCost, l.node)]

Extensions(l) == {Ride(l, v) : v \in Boardable(l)} \cup Range(Walks(l))

(* The lazy-deletion filter.  (Mutants: not strict, so the source label    *)
(* deletes itself; strict in both; the scalar test of single-objective     *)
(* Dijkstra.)                                                              *)
StaleIfEqual(l) == \E s \in Range(pareto[l.node]) : WeaklyDominates(s, l)
StaleIfWorseInBoth(l) ==
  \E s \in Range(pareto[l.node]) : /\ s.arrival_time < l.arrival_time
                                   /\ s.secondary_cost < l.secondary_cost
StaleIfLater(l) ==
  \E s \in Range(pareto[l.node]) : s.arrival_time < l.arrival_time
Stale(l) == \E s \in Range(pareto[l.node]) : StrictlyDominates(s, l)

(* top() of the min-heap; which of several least labels is left open.      *)
Precedes(a, b) ==
  \/ a.arrival_time < b.arrival_time
  \/ a.arrival_time = b.arrival_time /\ a.secondary_cost <= b.secondary_cost
(* Mutant: the heap is ordered by cost first. *)
CostFirst == {l \in BagToSet(pq) :
                \A m \in BagToSet(pq) : l.secondary_cost <= m.secondary_cost}
Top == {l \in BagToSet(pq) : \A m \in BagToSet(pq) : Precedes(l, m)}

-----------------------------------------------------------------------------
Init ==
  /\ graph \in Graphs
  /\ config \in Configs
  /\ pareto = [n \in Node |-> << >>]
  /\ pq = EmptyBag
  /\ used_count = 0
  /\ phase = "idle"
  /\ current = Label(0, 0, 0, NoNode)
  /\ source = current
  /\ fresh = TRUE
  /\ dests = {}
  /\ walks = << >>
  /\ runs = 0
  /\ outcome = "none"
  /\ expanded = {}

Seeded(s) == [n \in Node |-> IF n = s.node THEN << s >> ELSE << >>]

(* run() up to the loop: arena reset, frontiers wiped, source label in.    *)
(* pq_ is taken as it is found.                                            *)
StartRun(src, dep) ==
  /\ phase = "idle"
  /\ runs < MaxRuns
  /\ LET s == Label(src, dep, 0, NoNode)
     IN  /\ pareto' = Seeded(s)
         /\ pq' = pq (+) SetToBag({s})
         /\ current' = s
         /\ source' = s
  /\ fresh' = (pq = EmptyBag)
  /\ used_count' = 1
  /\ phase' = "popping"
  /\ runs' = runs + 1
  /\ outcome' = "none"
  /\ expanded' = {}
  /\ UNCHANGED << graph, config, dests, walks >>

(* Mutant: the label stays in the heap. *)
NotPopped(l) == pq' = pq
Popped(l) == pq' = pq (-) SetToBag({l})

PopStale ==
  /\ phase = "popping"
  /\ \E l \in Top : Stale(l) /\ Popped(l)
  /\ UNCHANGED << inputs, pareto, used_count, phase, current, dests, walks,
                  outcome, expanded >>

PopExpand ==
  /\ phase = "popping"
  /\ \E l \in Top : /\ ~ Stale(l)
                    /\ Popped(l)
                    /\ current' = l
                    /\ dests' = Boardable(l)
                    /\ walks' = Walks(l)
                    /\ expanded' = expanded \cup {l}
  /\ phase' = "relaxing"
  /\ UNCHANGED << inputs, pareto, used_count, outcome >>

(* insert_and_dominate of one candidate: it is pushed if it was kept. *)
Pushed(ls, new) == IF Rejected(ls, new) THEN pq ELSE pq (+) SetToBag({new})

(* Mutant: pruned labels are not given back. *)
PrunedLeak(ls, new) == used_count + IF Rejected(ls, new) THEN 0 ELSE 1
UsedAfter(ls, new) == used_count + Len(AfterInsert(ls, new)) - Len(ls)

Offered(new) ==
  LET ls == pareto[new.node]
  IN  /\ used_count < Capacity
      /\ pareto' = [pareto EXCEPT ![new.node] = AfterInsert(ls, new)]
      /\ pq' = Pushed(ls, new)
      /\ used_count' = UsedAfter(ls, new)

(* Services first, by destination index, then walks. *)
RelaxRide ==
  /\ phase = "relaxing"
  /\ \E v \in dests : /\ \A w \in dests : v <= w
                      /\ Offered(Ride(current, v))
                      /\ dests' = dests \ {v}
  /\ UNCHANGED << inputs, phase, current, walks, outcome, expanded >>

RelaxWalk ==
  /\ phase = "relaxing"
  /\ dests = {} /\ walks # << >>
  /\ Offered(Head(walks))
  /\ walks' = Tail(walks)
  /\ UNCHANGED << inputs, phase, current, dests, outcome, expanded >>

(* std::bad_alloc leaves run() at once, the heap as it is. *)
RelaxThrows ==
  /\ phase = "relaxing"
  /\ dests # {} \/ walks # << >>
  /\ used_count = Capacity
  /\ phase' = "idle"
  /\ outcome' = "bad_alloc"
  /\ dests' = {}
  /\ walks' = << >>
  /\ UNCHANGED << inputs, pareto, pq, used_count, current, expanded >>

EndExpansion ==
  /\ phase = "relaxing"
  /\ dests = {} /\ walks = << >>
  /\ phase' = "popping"
  /\ UNCHANGED << inputs, pareto, pq, used_count, current, dests, walks,
                  outcome, expanded >>

Finish ==
  /\ phase = "popping"
  /\ pq = EmptyBag
  /\ phase' = "idle"
  /\ outcome' = "done"
  /\ UNCHANGED << inputs, pareto, pq, used_count, current, dests, walks,
                  expanded >>

Search ==
  \/ PopStale \/ PopExpand
  \/ RelaxRide \/ RelaxWalk \/ RelaxThrows
  \/ EndExpansion \/ Finish

Next == (\E s \in Node, d \in Departures : StartRun(s, d)) \/ Search

(* run() is a loop on one thread: once entered it keeps taking steps.      *)
Fairness == WF_vars(Search)

Spec == Init /\ [][Next]_vars /\ Fairness

-----------------------------------------------------------------------------
(* The properties of a single query are about one that began with an empty *)
(* heap, while it runs or once it has drained its heap.                    *)
Frontier(n) == Range(pareto[n])
AllLabels == UNION {Frontier(n) : n \in Node}
Answering == fresh /\ (phase # "idle" \/ outcome = "done")
Answered == fresh /\ phase = "idle" /\ outcome = "done"

(* Every frontier is sorted by arrival with strictly falling cost, in      *)
(* every run.                                                              *)
FrontiersSorted == \A n \in Node : SortedFrontier(pareto[n])

(* used_count is the number of frontier labels: rejected and pruned labels *)
(* go back to the arena at once, in every run and after a bad_alloc.       *)
ArenaBalanced == used_count = Cardinality(AllLabels)

(* The settling argument: a label that has been expanded is never evicted  *)
(* or superseded later, so nothing was relaxed from a label that is not in *)
(* the answer.                                                             *)
SettledIsFinal == Answering => expanded \subseteq AllLabels

(* Lazy deletion never drops a label that is still in a frontier: it is    *)
(* expanded, or a copy waits in the heap; at the end all are expanded.     *)
NothingForgotten ==
  Answering => AllLabels \ expanded \subseteq BagToSet(pq)

(* Labels are expanded in order of arrival, each at most once.             *)
SettledInOrder ==
  [][Answering /\ phase = "popping" /\ phase' = "relaxing"
       => /\ current.arrival_time <= current'.arrival_time
          /\ current' \notin expanded]_vars

(* The predecessor field names a node whose frontier holds an expanded     *)
(* label that this label extends: a journey can be traced back.            *)
PredecessorExplains ==
  Answering =>
    \A l \in AllLabels :
      l = source \/ \E p \in expanded : p.node = l.predecessor
                                      /\ l \in Extensions(p)

(* The answer is closed under relaxation, whatever the departure policy:   *)
(* each frontier is the non-dominated part of the source label and the     *)
(* extensions of the frontiers themselves.                                 *)
PointsOf(S, n) ==
  {[arrival_time |-> l.arrival_time, secondary_cost |-> l.secondary_cost] :
     l \in {m \in S : m.node = n}}
OfferedLabels == {source} \cup UNION {Extensions(l) : l \in AllLabels}
FixpointReached ==
  Answered => \A n \in Node :
    PointsOf(AllLabels, n) = Minimal(PointsOf(OfferedLabels, n))

(* run() ends: it drains the heap or throws.                               *)
RunEnds == phase # "idle" ~> phase = "idle"

-----------------------------------------------------------------------------
(* Journeys, by definition: any catchable departure, or a walk.            *)
AllBoardings(l) ==
  LET es == graph.edges[l.node]
  IN  {Label(es[i].destination, ArrivalOf(es[i]),
             l.secondary_cost + es[i].secondary_weight + es[i].penalty, l.node) :
         i \in {j \in DOMAIN es : es[j].departure_time >= l.arrival_time}}
      \cup Range(Walks(l))

(* Every label reached in at most n legs, by a one-leg extension operator. *)
Within(Extend(_), n) ==
  LET reach[k \in 0 .. n] ==
        IF k = 0 THEN {source}
        ELSE reach[k - 1] \cup UNION {Extend(l) : l \in reach[k - 1]}
  IN  reach[n]

(* No budget and no window cuts off a departure.                           *)
Untruncated ==
  \A u \in Node :
    /\ Len(graph.edges[u]) <= config.k_departures
    /\ \A i \in DOMAIN graph.edges[u] :
         graph.edges[u][i].departure_time <= config.W_max_seconds

(* When the lookahead cannot truncate and the second objective counts      *)
(* transfers, the answer is the exact frontier over all journeys (of at    *)
(* most |V| legs: a longer one repeats a node and is dominated).           *)
ExactFrontier ==
  (Answered /\ Untruncated /\ graph.second_objective = "TransferCount") =>
    LET all == Within(AllBoardings, Cardinality(Node))
    IN  \A n \in Node : PointsOf(AllLabels, n) = Minimal(PointsOf(all, n))

(* routing.hpp, class comment: pq_ is always empty at the end of run(),    *)
(* which the assertion at its start relies on.                             *)
HeapEmptyBetweenRuns == phase = "idle" => pq = EmptyBag

(* docs/write-up.tex: with a constant travel time per link, FIFO and       *)
(* consistency under extension hold, so pruning a dominated label loses no *)
(* destination that some sequence of selected departures reaches.          *)
NothingHidden ==
  (Answered /\ \A u \in Node : ConstantTravel(graph, u)) =>
    \A l \in Within(Extensions, Cardinality(Node)) :
      Frontier(l.node) # {}

(* routing.hpp, scope note: the frontier is the set of non-dominated       *)
(* trade-offs across route choices, each link boarding the departure       *)
(* selected at a fixed lambda.  Pruning loses none of them when travel     *)
(* times are constant per link, the lookahead cannot truncate and the      *)
(* selection looks at the second objective; with lambda = 0 and crowds it  *)
(* does not, and an earlier label takes a fuller train than the later one  *)
(* it pruned would have.                                                   *)
SelectionSeesCost == config.lambda > 0 \/ graph.second_objective = "TransferCount"
RouteFrontier ==
  (/\ Answered /\ Untruncated /\ SelectionSeesCost
   /\ \A u \in Node : ConstantTravel(graph, u)) =>
    LET all == Within(Extensions, Cardinality(Node))
    IN  \A n \in Node : PointsOf(AllLabels, n) = Minimal(PointsOf(all, n))
=============================================================================
