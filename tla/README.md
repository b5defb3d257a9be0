# Verification of the Namma Metro router

TLA+ modules, TLC runs and TLAPS proofs for the C++ code under `include/` and
`src/` of this repository: a transit router that answers "earliest arrival
against a second cost" queries on a timetable, a second engine (RAPTOR) that
checks it, and the analyses built on both. `PROJECT.json` lists the components,
the hazards, the runs with the properties they check, a plausible bug for each
property that the run must notice, the theorems, and for every definition the
source lines it models.

## 1. Inventory

| Component | State | Operations | Talks to |
|---|---|---|---|
| `ArenaAllocator` (`include/arena_allocator.hpp`) | bump pointer, intrusive free list, live count | `allocate`, `deallocate`, `reset` | called by the search for every label |
| `ParetoLabelSet` (`include/routing.hpp`, `src/routing.cpp`) | sorted vector of pointers into the arena | `insert_and_dominate`, `clear`, `unsafe_clear_after_arena_reset` | frees rejected and pruned labels to the arena |
| Bounded-Wait Lookahead (`select_optimal_departure`) | none | choose the departure of one link at one time | reads `CSRGraph`, called by the search per destination |
| `ParetoDijkstra` | arena, heap `pq_` (both kept across queries), frontiers (the caller's) | `run` | all of the above |
| `CSRGraph`, `GraphBuilder` | immutable graph | `build`, `build_with_transfers` | `GTFSParser` output in, graph out |
| `GTFSParser` | tables read so far, stop index, `ParseStats` | `load_*`, `interpolate_stop_times` | files in, records out |
| `RaptorBuilder` | immutable timetable: routes, trips, closed footpaths | `build`, `transfers_are_transitively_closed` | the same records as `GraphBuilder` |
| `Raptor` | round layers `tau`, marks, route queue, kept across queries | `run`, `frontier_size` | second engine over the same feed |
| Risk search (`risk.cpp`) | labels with their arrival laws, a frontier per node, a stack | `risk_search`, `journey_of`, `enumerate_journeys`, `separating_leg` | networks of periodic legs, its own generator |
| Topology (`topology.cpp`) | results only | `compute_topology` | stop times and transfers in, station graph out |
| Accessibility (`accessibility.cpp`) | results only | `compute_accessibility` | `Raptor` layers in |
| Interchange (`interchange.cpp`) | results only | candidates, rebuild and measure, rank | `RaptorBuilder`, Accessibility, Topology |
| `CrowdModel` (`crowd_model.cpp`) | load per stop and hour | `load_hourly_ridership_csv`, `apply_hourly_crowd` | writes `secondary_weight` of a graph |
| Benchmark, `tools/`, `scripts/` | - | drivers | everything |

What makes each component correct:

- **Arena**: a slot is held by one client or free once; `bad_alloc` only when
  all are held; fresh memory only when nothing can be recycled.
- **Label set**: after any calls a frontier is exactly the non-dominated part
  of the labels offered to it, sorted; the arena holds those labels only.
- **Lookahead**: an answer can be boarded; waiting does no harm; FIFO holds
  where the timetable allows it.
- **Search**: labels settle in order and for good; none is forgotten; the
  answer is closed under relaxation, explained by predecessors and, under
  stated conditions, exact; the arena stays balanced; each run ends.
- **Builders**: both make the same network out of one feed; routes of the
  timetable never overtake; its footpaths are the shortest walks.
- **RAPTOR**: layer k is the earliest arrival by at most k trips; the answer
  agrees with the graph; a query leaves no trace in the next.
- **Parser**: whatever was read fits together, rows are accounted for,
  interpolation fills, keeps and orders.
- **Risk search**: what is discarded stays dominated by something kept; every
  label, discarded or not, can be replayed; the answer is that of the
  enumeration where the order is safe.
- **Topology**: it describes the graph the router sees; stations are the
  components of the walks; L - S + C counts cycles.
- **Accessibility, Interchange**: an added walk makes nothing harder to reach;
  the number a candidate is ranked by is true of the network it proposes.
- **CrowdModel**: the steepest fall reported is the steepest there is, and
  interpolated weights keep the FIFO bound.

The program is single-threaded: nothing is interleaved. What is hard in it is

- long sequences of legal calls over shared, recycled memory;
- state that outlives a query: arena, heap, RAPTOR's marks and queue;
- copies in the heap that have become stale when they are popped;
- exceptions that leave a query or a load half-way;
- ties and boundaries: equal times and costs, a train leaving right now, the
  k-th candidate, the last round, a ride of no time;
- pruning, whose soundness depends on properties of the timetable, and in the
  risk search on the order chosen, on independence and on the leg bound;
- admission rules that three components repeat in three forms;
- results computed from a network that is then changed: an added footpath, new
  weights.

`PROJECT.json` lists the places under "hazards", including those no property
covers and why.

## 2. Modules

```
ArenaAllocator ---- ParetoLabelSet ------ (refines) --> ParetoFrontier
Dominance --------/        |                                 |
   |   \___________________|_________________________________/
   |
ParetoDijkstra ---- Lookahead ---- LookaheadFIFO

Feed ---- GraphBuilder ----\
  | \                       NetworkBuild ------------\
  |  \--- RaptorBuilder ---/                          \
  |            \                                       FeedStudy
  |---- Topology ----\                                /
  |---- ReferenceArrivals ---- Accessibility          /
  |                   \-- Interchange ---------------/
  \---- CrowdModel ---------------------------------/

Timetable ---- RaptorBuilder, ReferenceArrivals, Raptor
NetworkBuild, Raptor ---- RaptorGate
Interpolation ---- GTFSParser
ArrivalLaw ---- RiskSearch ---- RiskOracle
          \---- RiskInstances
```

| Module | Models | How |
|---|---|---|
| `ArenaAllocator` | the arena | a record with the three members; each member function an operator on it, so that a client can make several calls in one step; a state machine makes every legal sequence of calls |
| `Dominance` | dominance and `insert_and_dominate` on a sequence of labels | the lower bound, the test of both neighbours, the pruning loop; `Minimal` is the reference definition |
| `ParetoFrontier` | *abstract*: a set of points per node | keeps the non-dominated of what was offered |
| `ParetoLabelSet` | the label sets of several nodes over one arena | frontiers are sequences of slots read through the arena's memory; refines `ParetoFrontier` |
| `Lookahead` | `select_optimal_departure`, `CSRGraph` as the query reads it | a search window, a budget of k candidates, the composite, the tie break |
| `LookaheadFIFO` | the question asked again as the clock advances | the setting of the FIFO discussion in `routing.hpp` section 3 and `tests/test_fifo_violation.cpp` |
| `ParetoDijkstra` | `run` | one pop or one relaxation per step; heap as a bag; of the arena only the live count; `bad_alloc` is a step that leaves everything as it is; the router is asked several times |
| `Feed` | what the parser hands to both builders | stop times and transfers, `Unresolved` for a stop the index does not know |
| `GraphBuilder` | `build_with_transfers` | admission, clamping, order of edges, walks |
| `Timetable` | `RaptorTimetable` | what a timetable is, which of its walks exist, when its footpaths are closed; shared by the builder, the engine and the reference |
| `RaptorBuilder` | `RaptorBuilder::build`, the closure check | runs, patterns, bins, footpath searches with their guard |
| `NetworkBuild` | the load step of the tools | both builders on one feed |
| `Raptor` | `Raptor::run`, `frontier_size` | a step per round begun, route scanned, stop walked from, round ended; scratch kept across queries |
| `RaptorGate` | the gate of `tools/raptor_bench.cpp` | both structures built from one feed, the objective of the graph chosen as `main` does, then RAPTOR's answers against earliest arrivals on the graph |
| `ReferenceArrivals` | *reference*: earliest arrivals on a timetable by at most k trips, and on a graph | by definition, not by the algorithm of either engine |
| `Topology` | `compute_topology` | a function of the feed: union by rank, counted segments, links, components, degrees, lines, headways |
| `Accessibility` | `compute_accessibility` | counts over `AtMost`, which is what `LayersExact` promises of RAPTOR |
| `Interchange` | `interchange.cpp` | candidate pairs, the timetable built anew around one footpath, means as sums, the ranking |
| `CrowdModel` | `crowd_model.cpp` | rows counted into sums per stop and hour, sampled at each departure, rounded as the code rounds |
| `FeedStudy` | the order of calls in `tools/crowd_study.cpp` and `tools/interchange_search.cpp` | one feed, built, described, and then either reweighted or searched for interchanges |
| `ArrivalLaw` | arrival laws, legs, the five orders, `separating_leg` | a law is its sequence `by_scenario`; sorting and tail sums are operators |
| `RiskSearch` | `risk_search` | a step per label popped and per extension offered; evicted labels keep their index |
| `RiskOracle` | `enumerate_journeys`, `journey_of`, `measure_rule` | the oracle shares no pruning with the search; `Independent` says what the generator means by independent delays |
| `RiskInstances` | `make_random_instance`, the witness networks | what the generator draws is an argument |
| `Interpolation` | `interpolate_stop_times` | sort (tied rows in any order), fill between timepoints by distance, copy at the ends |
| `GTFSParser` | the loaders as every caller orders them, and what `main_bench.cpp` does next | a row has a form (what its text allows); a verdict moves counters, keeps it, drops it or throws |
| `MC...` | - | inputs for TLC |
| `Lemmas`, `..._proofs` | - | lemmas and theorems |

The variables carry the names of the C++ members, the actions those of the
functions or of the part of the function they stand for. Variables marked
"history" in a declaration exist for the properties only.

### Abstractions

- `float` composites and their rounding: lambda is a natural number. Distances
  between stops are an input, fractions of them are exact.
- `uint32_t` sums do not wrap: times are seconds of one service day and a leg
  costs at most 1000, so it would take millions of legs.
- `UINT32_MAX` stays a sentinel, a constant later than any time.
- Which of several equal labels a heap returns, and the order `std::sort` gives
  to tied rows, is left open.
- Text of a row: its form. Printed counters, timing, argument errors that change
  nothing, the FIFO check of Debug builds: left out.
- The build is the default one: Release, `assert` compiled out, arena on.

## 3. Runs

All inputs named here are enumerated in full, not sampled.

| Run | Question | Bounds, and why they are enough |
|---|---|---|
| `search_parts` | Do label sets over a shared arena keep exactly the non-dominated labels, and the arena every slot? Is waiting harmless, and when is a link FIFO? | label sets: 2 nodes, 3 slots, times {1,2}, costs {0,1,2}: a frontier of two, a label that prunes two neighbours, exhaustion while the other frontier holds slots, recycled and fresh slots side by side, ties in both components; lookahead: every timetable of at most 3 trains (overtaking, equal departures, other destinations between them), both objectives, windows and budgets that truncate and that do not. The two share no state, so `PartsSpec` moves one while the other stands at its start; the theorems are about `SetSpec` and `ClockSpec` |
| `dijkstra` | Does the label-correcting search do what its comments say? | 3 nodes, every graph of at most 4 of 9 trains and 1 of 3 walks (two ways to one node, overtaking, a train back), 8 configurations per objective, and one per objective whose budget and window truncate nothing. `ExactFrontier` (under `TransferCount`, all journeys) and `RouteFrontier` (constant travel time per link, all sequences of selected departures) speak of the latter |
| `dijkstra_arena` | Do arena and loop survive a router used twice that runs out of slots? | capacity 3, two queries: `bad_alloc` in the first, in the second, in both, before and after a prune |
| `dijkstra_heap` (violated) | Is the heap empty between runs? | as above |
| `dijkstra_hidden` (violated) | Does constant travel time make pruning safe? | window and budget 2 |
| `network` | Do graph, timetable, topology, crowd weights and interchange sweep of one feed agree? | 12 trips with every irregularity the code looks at and 9 walks, up to 3 of them together, or up to 5 walks with one trip; 5 stops and a component guard of 4, so that a chain of walks is longer than a search may be; three ridership files (a peak across midnight, an alias, nothing readable), a scale at and one above the FIFO bound; the sweep on feeds of two or three trips that meet only where a footpath is added, change budgets 0 and 2 |
| `raptor_gate` | Is every layer exact, does RAPTOR agree with the graph, does a query leave traces? | 4 stops, up to 3 of 8 trips, 4 trips and walks together; 2 rounds, one less than the chain of three trips needs, so the cap is hit; 2 queries; 460,000 states |
| `risk` | Is what the five orders discard covered, replayable, and harmless where the theory says so? | generated networks of 3 layers with 3 draws and of 4 layers with 2, with no disruption, one of half a headway and one of a whole headway; the three witness networks; a network with a cycle and a detour, its legs in both orders; leg bounds 2 (binds) and 4 (does not); 90,000 states |
| `risk_limit` (violated) | Is statewise pruning always safe? | leg bound 2 |
| `gtfs` | Does what was read fit together, also after an error, and what does interpolation do? | one file at a time takes every form (missing, 0 to 3 rows, each good, too short, badly timed, unreadable, orphaned, repeated); four rows of one or two trips take every combination of full, half and missing times |
| `gtfs_fallback` (violated) | Does a failed load fall back to the synthetic graph? | the same with 2 rows |
| `gtfs_post` (violated) | Is a trip with a timepoint always fully filled? | the same with 2 rows |

Every property of a passing run comes with a changed definition that breaks it
("mutants" in `PROJECT.json`); the changed definitions stand next to the
originals and are marked "Mutant" in their comments.

A few properties need a word:

- `ImplementsFrontier` maps the label sets to `ParetoFrontier` by reading the
  slots. A `bad_alloc` or a rejected label is a stutter or an offer that
  changes nothing; a bulk reset forgets all.
- `EngineAgrees` compares RAPTOR with the earliest arrivals computed on the
  graph, not with a run of the search: that its unrestricted search ends in
  them is what `ExactFrontier` shows. An answer is never too early; that it is
  the earliest is claimed below the round cap and over closed footpaths only,
  because over others one walk after a ride may not be enough ("RAPTOR arrivals
  may be upper bounds", as the bench says). It leaves out a feed without a usable
  trip, for which `RaptorBuilder::build` returns before it makes footpaths
  while `GraphBuilder` keeps the walks.
- `ClosedMeansShortest` is the promise behind the warning of the builder: when
  the guard `kMaxComponentDegree` cuts a footpath search short, the check at
  load time notices every distance that is too long. The guard counts pops of
  the queue, stale ones included, so it may stop before that many stops were
  seen; `ClosureEstablished` says below which feed size it never does.
- `ReachMatchesGraph` compares the count an interchange is ranked by with
  earliest arrivals on a graph built of the feed with the footpath. It is stated
  where the change budget allows for all trips: a graph counts no changes.
- `InterpolationKeepsFIFO` is about rounded samples. Of a load that falls by at
  most one unit a second the rounded values fall by at most one unit a second
  too, because times are whole seconds; that the hours wrap at midnight, where
  the last sample of a day meets the first of the same profile, is part of it.
- `ExactWhereSupported` compares frontiers with the enumeration at every node
  and every confidence level. It excludes searches in which the leg bound
  stopped a survivor (`LimitBinds`): there the answer may be wrong, see below.
  For orders weaker than statewise it needs what `risk.hpp` asks for:
  independent delays and a zero `unsupported_prunings`. Independence is the
  assumption `DelaysAreIndependent`, which TLC evaluates on every instance of
  the run that the generator calls independent: no disruption shift (or whole
  headways of it), and whatever the delays of the legs upstream of a node, the
  delays of a leg out of it keep their frequencies.
- `SeparatingLegReverses` takes all pairs of laws that met at a node of some
  search: the counterexample the code constructs does reverse their means.
- `BlanksExplained` says which blanks interpolation may leave. The branch
  is taken on the arrival, so a timepoint whose departure is blank keeps the
  sentinel, blanks at that end of the trip copy it as their departure, and in a
  gap behind it both times become the sentinel. Nothing else stays blank: a trip
  whose timepoints have both times is filled whole. The `@post` of
  `interpolate_stop_times` claims that of every trip with a timepoint, which
  run `gtfs_post` refutes, see below.
- `TimesInOrder` holds under conditions the model makes visible. A blank row at
  the end of a trip copies arrival and departure of its neighbour, so where the
  neighbour has a dwell the copy arrives before the neighbour departs, and the
  builders drop that connection.
- No search of footpaths is cut short in the feeds `ReachMatchesGraph` and
  `AddedWalkNeverHurts` are checked on (at most three walks, a guard of 4). What
  happens when an added walk makes a component that large rests on
  `ClosedMeansShortest`, whose bounds reach it and which is proved.

### Fairness

`ParetoDijkstra` assumes weak fairness of `Search`, the disjunction of all
steps inside `run`: `run` is a loop of one thread without a wait, so once it is
entered its next statement is executed. Starting a run is not fair: nobody has
to ask. `RunEnds` says that the loop ends, which rests on rides and walks of at
least one second (the builders' clamp) and on dominance. The other modules
assume nothing and claim no liveness: their loops are bounded.

Deadlock checking is off: each run holds a part that really stops, a clock at
its horizon, a bounded number of queries, a load that is done.

### Disagreements found

1. `dijkstra_heap` (code). `allocate` throws out of `run` and leaves `pq_` as it
   is. The next `run` on that router begins with labels of the last query: the
   assertion that the heap is empty is compiled out of Release builds, and the
   comment there says the heap is always empty. All properties of a query are
   therefore stated for runs that began with an empty heap.
2. `dijkstra_hidden` (document). `docs/write-up.tex:319-322` says of FIFO and
   consistency under extension that "on the feeds measured here both hold,
   because per-link travel time is constant by construction, but neither holds
   in general". The run grants the reason, and consistency fails all the same:
   what is refuted is the "because", not the measurement. The window W_max breaks
   it: an earlier label, whose window ends before the only onward train leaves,
   prunes the later label that could have caught it, and the stop gets no answer.
   Without truncation `RouteFrontier` holds, except for lambda = 0 under
   `CrowdExposure`: the selection then looks at times only, and an earlier label
   takes a fuller train than the later one it pruned would have waited for. So
   `RouteFrontier` is stated for `SelectionSeesCost`, and the scope note
   (`routing.hpp:21-26`) needs the same proviso.
3. `gtfs_fallback` (document). After a load that throws once stop times were
   kept, `main` prints that it runs with the synthetic graph and then builds one
   of the rows read so far, not interpolated and without transfers.
4. `gtfs_post` (document). `gtfs_parser.hpp:258-259` says that a trip with at
   least one defined timepoint is always fully filled, its `@post` (265-267)
   that no row of such a trip keeps a sentinel. A row with an arrival and a blank
   departure is never filled, and blanks behind it take its sentinel, even where
   another timepoint of the trip has both times. Both builders then drop what
   would depart or arrive at these times.
5. `risk_limit` (document). `risk.hpp` calls statewise dominance always safe and
   says that a leg bound makes search and enumeration range over the same
   journeys. Dominance does not look at the legs used: a label of two legs that
   is earlier in every scenario evicts one of one leg, is then stopped by the
   bound, and the node behind gets no label at all, although the enumeration
   reaches it.

Smaller ones, of wording only: `crowd_model.cpp:194-195` says means are taken
over the (station, date) days seen, the code divides by the dates of the whole
file; `rows_unmatched` also counts rows whose numbers do not parse, and rows with
an hour outside the day are not counted at all.

## 4. Proofs

TLC checks the instances above; the theorems hold for every value of the
constants that satisfies the named assumptions.

| Module | Theorems | Assumptions |
|---|---|---|
| `Lemmas` | of insertion: `InsertFrontier`, `InsertKeepsMinimal`; of the selection: `SelectionIsCatchable`; and what the other modules share: folds, least elements, maxima, counting up to a bound | none: for every sorted sequence of labels with natural times and costs; for every range of departures in natural numbers |
| `SearchParts_proofs` | of the arena: `TypeOK`, `CheckInvariant`, `EachSlotOnce`, `ThrowsOnlyWhenFull`, `BumpIsHighWater`; of the label sets over it: `LiveSlotsAreLabels`, the last three again, and `ImplementsFrontier`; of the lookahead: `ClockTypeOK` and `SelectionStable`, `FIFOWithoutOvertaking` | `CapacityAssumption`: at least one slot; `PointsAreNatural`; `HorizonAssumption`, `ConfigsAssumption`, `GraphsAssumption`: edges sorted by departure, as `GraphBuilder` leaves them |
| `ParetoDijkstra_proofs` | `TypeOK`, `FrontiersSorted`, `ArenaBalanced`, `SettledIsFinal`, `NothingForgotten`, `PredecessorExplains`, `SettledInOrder`, `FixpointReached`, `ExactFrontier`, `RouteFrontier` | `NodeAssumption`, `CapacityAssumption`, `DeparturesAssumption`, `ConfigsAssumption`, `GraphsAssumption`: rides and walks take at least a second; `CostsAssumption`: no penalties, and no ride weights when transfers are counted |
| `Raptor_proofs` | `ScratchClean`, `MarksAreImprovements`, `LayersExact`; of the gate the same three again and `EngineAgrees` | `SizeAssumption`, `DeparturesAssumption`; for any timetables, `TimetablesAssumption`: what every built timetable is (`WellBuilt`); for the gate, those of `NetworkBuild_proofs` instead; for `LayersExact` also closed footpaths |
| `NetworkBuild_proofs` | `SameNetwork`, `TripsNeverOvertake`, `ClosureEstablished`, `ClosedMeansShortest`, and `TimetableIsWellBuilt`: what is built is what `Raptor_proofs` assumes | `SizesAssumption`; `FeedsAssumption`: a feed is a finite set of stop times, one per trip and `stop_sequence`, and a sequence of transfers (`WellFormed`); `WalksAssumption`: no chain of footpaths comes near the sentinel |
| `FeedStudy_proofs` | the four of `NetworkBuild_proofs` again, in a study that reweights and rebuilds (`StudyNetworkHolds`); `TopologyDescribesGraph`, `StationsAreComponents`, `CyclomaticCountsCycles`; `SteepestFallIsAdjacent`, `InterpolationKeepsFIFO` | those of `NetworkBuild_proofs`; `HoursAssumption`: whole hours of an even number of seconds; `RidershipAssumption`: a file is a sequence of rows, whatever integers stand in them; `CrowdConfigsAssumption`: the scale is a natural number |
| `RiskSearch_proofs` | of arrival laws: `StatewiseIsStochastic`, `DominanceIsTransitive`; of the search: `TypeOK`, `FrontiersHoldSurvivors`, `PrunedIsCovered`, `LabelsExplained`, `SafeOrdersSupported`, `JourneysReplay`, `SeparatingLegReverses`, `ExactWhereSupported` | the laws: any positive number of scenarios; the search: `InstancesAreValid` (what `validate_network` accepts), `RulesAreOrders`, `LegBoundsAreNatural`; for the part of `ExactWhereSupported` about independent delays `DelaysAreIndependent` |
| `GTFSParser_proofs` | `LoadInvariant`; `ReferencesHold`, `IndexNamesStop`, `RowsAccounted`; `BlanksExplained`, `TimesInOrder` | `SentinelAssumption`; `DirectoriesAssumption`: a file is missing or a sequence of rows of its columns; `DistancesAssumption`: a distance for each two stops of `stops.txt` |

The induction theorems of the library take an operator as argument, which the
provers cannot instantiate. Where a definition is recursive, the proofs argue
with the least natural number at which it would fail (`LeastNatural`), and with
sets and functions in place of operators: a fold, for instance, is one end of a
run of intermediate values (`FoldRuns`), and `FoldKeeps` carries a set of values
along that run.

**Arena.** `ArenaInv` is `TypeOK` with `Accounts`: the held slots and the free
list partition the slots below the bump pointer. `CheckInvariant` alone (the
code's self-test) is not inductive: it counts, and a slot twice on the list
would count as well as two.

**Label sets.** `SetInv` joins the two: the slots of all frontiers are exactly
the live slots, each in one frontier at one place, every frontier read through
the memory is sorted and without dominated labels. An insertion touches the new
slot and the returned ones only, so the other frontiers read as before; by
`InsertKeepsMinimal` the frontier of the node becomes what `ParetoFrontier`
says: hence `ImplementsFrontier`, step by step.

**Insertion.** `LowerBoundFirst` and `PruneEndFirst` say what the two searches
return; a frontier is the concatenation of a kept part, the new label and a
kept part (`InsertedParts`). From there `RejectedIffDominated`: testing the two
neighbours is testing all, because costs fall along the frontier; and
`InsertKeepsMinimal`: pruning a contiguous block is removing all that is
dominated.

**Lookahead.** The answer given is the answer for the clock (`AnswerInv`); the
action properties follow from comparing two sets of examined candidates: a
later question examines, of the trains that have not left, all that the earlier
one did (`StaysExamined`), and what it adds comes after them.

**Search.** In two layers.

- `Shaped` = `Typed` (types and sorted frontiers), `PendingOK` (what is left of
  an expansion are extensions of the current label) and `ArenaOK` (the count is
  that of the labels). It holds in every state, also after `bad_alloc` and in
  runs that began with a foreign heap. `FrontiersSorted` is in it because
  insertion is right on sorted frontiers only.
- `AnswerInv` adds `QueryOK` for a run that began with an empty heap:
  `InTimeOrder` (nothing in the heap is earlier than the current label, nothing
  expanded later), `HeapOK` (a label waits once, is not yet expanded, and is in
  its frontier or strictly beaten), `ClosedSoFar` (each extension of an
  expanded label is covered by a frontier or still pending) and `Explained`.
  Neither `SettledIsFinal` nor `NothingForgotten` is inductive: that nothing
  evicts an expanded label needs `InTimeOrder`, because rides take time a new
  label arrives later than the current one; that what lazy deletion lets through
  is in its frontier needs `HeapOK`; `FixpointReached` needs `ClosedSoFar`
  and, for the converse, `Explained`.

`ExactFrontier` and `RouteFrontier` compare the frontiers with all journeys of
any number of legs. Covered means: at the node of the journey there is a label
no later and no dearer. A set of journeys is covered leg by leg (`LegsCovered`):
if the journey without its last leg is covered by a label x, then x was expanded
(`ClosedSoFar`, with an empty heap), and x's own extension over that link is no
worse than the journey's. That last step is where the two differ. Under
`TransferCount` all rides of a link cost the same, so the train arriving first
is as good as any, and it is selected because the window and the budget truncate
nothing. With constant travel times the selected composite does not get better
by arriving later, which needs the composite to count the cost
(`SelectionSeesCost`). Nothing dominated is in a frontier and everything in it
is a journey (`Explained`), hence equality with `Minimal`.

Apart from these two, the theorems about the search say nothing about `select_optimal_departure`
beyond that its answer can be boarded (`SelectionIsCatchable`), so they hold for
any departure policy with that property.

**RAPTOR.** In two layers.

- `Scratch` holds for every timetable: between queries the buffers are empty;
  during a round the list names each marked stop once, and a stop is marked
  exactly when this round improved it; a queued route is queued once, at a
  position of one of its marked stops, and none of its marked stops comes
  earlier. `ScratchClean` and `MarksAreImprovements` follow. `earliest_trip` is
  a bisection (`Halved`, bounded by the number of trips), and `EarliestTrip`
  shows that on a column that is sorted it finds the first trip not yet gone.
- `ExactInv` needs closed footpaths: every finished layer is what the reference
  `AtMost` says. During the scans a layer is never below what k trips achieve,
  and every ride that would improve it still waits in the queue at or after the
  queue's position, or has been taken already. A ride from a stop that is *not*
  marked need not be tried: it was available a round earlier
  (`UnmarkedAddsNothing`). During the walks a layer is between the exact one and
  the one without walks, and a walk not yet taken starts at a stop still in the
  list. One walk after the rides is enough because a closed footpath is no
  longer than any chain (`OneWalkIsEnough`); this is the step at which an open
  network fails. A round that improves nothing leaves the next exact layer equal
  to this one, which justifies the early end, and the last layer stands for all
  later ones unless the cap was hit.

Trips of one pattern do not overtake each other: that is part of `WellBuilt`, is
what the column for the bisection rests on, and `TimetableIsWellBuilt` proves it
of the builder. That the builder's footpaths are closed where it says so is
`ClosureEstablished` and `ClosedMeansShortest`.

**The gate.** `EngineAgrees` relates three computations: RAPTOR's rounds on the
timetable, both builders, and the earliest arrivals on the graph, which are
`NumStops` relaxations of all edges and walks at once. What they meet in is
`Permitted`: the arrivals, one per stop, that the query and every edge and walk
of the graph allow to be *at most* what they are, a lower bound of any journey.
The relaxations reach the greatest of them (`EarliestIsGreatest`): it is
permitted, a stop it reaches is the source or one step away from a stop reached
sooner (`GreatestIsAttained`; a step takes at least a second), so a stop with n
stops sooner is right after n relaxations. `GateInv` has three parts:

- `Gated`: `Scratch`, and graph and timetable are those of the feed;
- `Sound`: no layer is below any permitted arrivals. A ride of the timetable is
  a chain of edges (`ConnectionIsEdge`, from `SameNetwork`) and a footpath at
  least a shortest walk (the half of `ClosedMeansShortest` that
  needs no closure), so no step of RAPTOR leaves what is permitted. This needs no closed
  footpaths and gives the first half of `EngineAgrees`;
- over closed footpaths `ExactInv`, and `Ended`: a query that stops below its
  cap stops because a round changed nothing. Its last layer is then itself
  permitted (`EndedIsPermitted`): an edge is a connection of some trip, to be
  boarded in one round more, and a walk is no shorter than a footpath. Being
  permitted and above all that is permitted, it is the greatest.

`GateRounds` repeats the theorems about `Raptor` for the timetables that are
built, with nothing assumed of timetables.

**Builders.** Nothing that is built changes afterwards (`BuiltFromFeed`), so what
is proved is what the two builders compute, in three parts.

- *Connections.* `CutOK` is the invariant of the fold that cuts a trip: the runs
  closed so far and the open one together have the admitted segments of the
  records read so far, and no others; an inner stop is one the trip is still at
  on arrival. The graph has an edge for each of these segments
  by the same rule, clamped in the same way. No run is lost afterwards: sorting
  places every element of a finite set exactly once if the order is strict and
  total (`OrderTakesAll`), which patterns, runs of one pattern, trips and edges
  are shown to be; every bin in `Placed` keeps its trips; flattening keeps every
  route. Hence `SameNetwork`.
- *Bins.* A run goes into the first bin whose last trip it does not overtake.
  Only neighbours are compared, so the invariant of a bin is about all pairs:
  "no later at every stop" is transitive along a bin. Hence `TripsNeverOvertake`.
- *Footpaths.* A search is a run of pops. A potential is a function on stops that
  no walk raises by more than its time. Whether a search is cut short or not, no
  finite distance is less than the rise of a potential from the source
  (`Searching`). As long as it is not cut short, the stops expanded so far
  (`Done`) have all their walks relaxed, no waiting stop is nearer than one of
  them, and the pops made and the stops waiting are together at most one more
  than the walks out of `Done` (`Complete`): each pop after the first is paid
  for by a walk. With fewer walks than the guard allows no search is cut; its
  distances are then a potential themselves, so a footpath is no longer than any
  two that meet, which is what the check tests: `ClosureEstablished`.
  For `ClosedMeansShortest` nothing is known of any single search. Each footpath
  is at least a shortest walk, because shortest distances are a potential, and
  each direct walk has a footpath no longer than itself, because the first pop
  relaxes it. A set of footpaths that the check accepts therefore contains, by
  induction along Floyd and Warshall's recurrence, one no longer than each
  shortest walk (`ClosedReachesThrough`).

`WellFormed` is what the parser leaves: `IndexNamesStop` and `ReferencesHold` are
proved of it, and a second row for the same place in a trip would leave the
order of `std::sort` open. `WalksAssumption` is about data, not code:
`transfers.txt` has minutes, so that even thousands of stops in a chain stay far
below 2^32 seconds. The builder computes distances in 64 bits and never stores
one at or above the sentinel, but a pair of footpaths whose sum passes it has no
third one, and the check would refuse that network.

**Arrival laws.** Each place of the ascending order is taken by exactly one
scenario (`PlacesTaken`, by counting), so `sorted` returns a law. If a is no later
than b in any scenario but later at some place i, then all i scenarios of b at
or below that place, and one more of a, would lie below place i of a: hence
`StatewiseIsStochastic`. Tail sums are a recursion; that it has a solution, and
integers for values, is shown by the least index at which it would fail. With
that, all five orders compare integers and are transitive.

**Risk search.** `TypeOK` says that every index names a label and that the label
being expanded has a leg to spare. `LabelsAreKept` (a step changes at most the
flags of labels) carries the rest. `PrunedIsCovered` is not inductive by itself:
when a newcomer evicts the label that covered others, it must dominate these too
(`DominanceIsTransitive`, on laws, hence `TypeOK`) and must be at their node
(`FrontiersHoldSurvivors`). `SafeOrdersSupported` rests on
`StatewiseIsStochastic`. The theorem holds for all five orders: even the unsafe
ones lose nothing at the node itself, only after the next connection, which is
what the next three are about.

- *Replay.* The recursion of `journey_of` has a solution because a parent comes
  before its child (`ReplayExists`, label by label); each leg of it leaves where
  the last one ended (`Explained`). Hence `JourneysReplay`.
- *Separation.* If a does not dominate b, there is a first place i where
  `sorted` of a is later. The leg departs at b's time there and again only after
  every arrival of either law, so riding it is a monotone map to two times, and a
  monotone map commutes with sorting (`MonotoneSorts`): a has fewer scenarios on
  the first departure than b. Total arrivals are then in strict order
  (`TotalsCompare`), which is `SeparatingLegReverses`.
- *Exactness.* Two more invariants are needed, both inductive.
  `EveryLegRidden`: of a label not pruned, below the leg bound and no longer on
  the stack, every leg has been offered, or is still to be. `CoveredBySupport`:
  while `unsupported_prunings` is zero, what was discarded is dominated
  *stochastically* by something in the frontier, whichever rule discarded it. In
  a finished search take the journeys of the enumeration layer by layer
  (`SurvivorsCover`): if a survivor is at least as good as a journey, it was
  ridden along the journey's next leg, riding keeps the order, and what became of
  the new label, kept or discarded, is covered. What that needs of an order is
  that it be a preorder, cover what is discarded, and be kept by legs
  (`KeptByLegs`). Riding is monotone in each scenario, so the statewise order is
  kept on any network. The stochastic order is kept under independence
  (`StochasticIsKept`): the law of a journey depends only on the delays upstream
  of its end (`JourneysAreDetermined`), a set of scenarios so determined meets
  each delay of the next leg in proportion (`ProductHolds`, class by class), and
  the number of scenarios in time after the leg is the sum over its delays of
  such products. Where survivors cover all journeys stochastically, the least
  tail totals agree (`CoverIsExact`). With order None nothing is discarded and
  the leg bound stops search and enumeration alike (`UnprunedCovers`).

**Parser.** `LoadInv` is `TypeOK`, `ReferencesHold`, `IndexInv` (the index is of
the stops read, which are read once) and `CountInv` (`RowsAccounted`, and more
exactly while nothing has failed). A loader reads its file up to the row that throws;
what it keeps is a fold over the rows (`KeptFacts`), and each row before that
one moves exactly one counter (`PlacesFacts`). A row kept names rows that were
there when it was read, and no table ever loses a row. The invariant speaks of
the rows that are there, not of the calls that have been made, so it also holds
of a load that broke off anywhere.

Of the filling, the way along a trip is a recursion again (`WayExists`) and only
grows; so do the shares of the seconds between two timepoints (`ShareFacts`), up
to all of them. A blank lies between the times of the timepoints around it
(`BlankFacts`), and of two rows of a trip either a timepoint stands between them
or both share the same two: hence `TimesInOrder`, for any distances, with
divisions cut down to whole seconds. Tied rows may come in any order, and what is said
of a trip is about the set of its rows (`SameRows`).

**The study of a feed.** `StudyInv` has one conjunct per result kept: each is the
value the code computes from the feed, or is not yet there, and the graph is
the one built except for the weights. What then remains is what those
computations return.

- *Network.* None of the four promises of the builders is about weights, so
  `apply_hourly_crowd` keeps them: `StudyNetworkHolds`.
- *Stations.* While the walks are united one by one, each stop has a root that is
  its own root, and two stops share a root exactly when the walks read so far
  join them (`MergedFacts`): hanging one root under another joins two classes and
  touches no third. `Reached` counts to the number of stops; a set that
  grows at every count up to there would be too large, so it stops growing
  (`WithinExists`, `ReachedFacts`) and is the least set closed under the walks.
  Hence `StationsAreComponents`.
- *Topology.* The rows of `stop_times` in order are those of the trips, one after
  the other; two neighbours are counted by the rule by which the builder admits an
  edge. `CountedIsAdmitted` takes the two to the same set of segments and
  `EdgesOfGraph` to the edges; the segments of different trips and stops are
  disjoint, so their numbers add up to those of the edges (`SumOfSizes`). Hence
  `TopologyDescribesGraph`.
- *Cycles.* Links are folded into classes one by one. The invariant keeps a set of
  links beside the classes (`Spanning`): those that joined two roots when their
  turn came. It has no cycle (`ForestGrows`), its links and the roots left are
  together the stations served (`OneRootLess`), and if no cycle is among all
  links it holds all of them. So L - S + C is the number of links left out: they
  can be cut to leave a forest, there are none exactly if there was no cycle, and
  where one link suffices its absence costs at most one root
  (`MoreLinksFewerRoots`). Hence `CyclomaticCountsCycles`, in whatever order the
  links come.
- *Steepest fall.* Slopes are compared by cross products, so no division is
  needed. The fall from one departure to a later one is the sum of the falls in
  between (`FallsAddUp`), and if each is at most the slope r then so is their sum
  (`SlopesAdd`): the steepest is among the neighbours of one link, whatever other
  departures stand between. Hence `SteepestFallIsAdjacent`.
- *Interpolation.* On the half hours of one profile a load is linear and falls by
  no more than the peak in an hour (`SampleOnLine`, `LineFalls`); a step of a second
  from the last of a piece to the first of the next, across midnight too, is on both
  (`NextSecond`, `WholeTurns`), so over any time the sample falls by at most the
  peak times that time over an hour (`SampleFallsOver`). Scaled by at most an hour's
  seconds over the peak and rounded, the weight falls by at most the time itself,
  because that is a whole number (`WeightFalls`). Hence `InterpolationKeepsFIFO`.

**Only model-checked**: `RunEnds` (liveness under fairness) and two properties
of `FeedStudy`, `AddedWalkNeverHurts` and `ReachMatchesGraph`, which add up arrivals of a timetable and of the one rebuilt
around a footpath, layer by layer. TLC checks them on every feed of the run.

## 5. Not modelled

- Benchmark harness, Python scripts, and of the command-line tools all but the
  load step of `main`, the RAPTOR gate and the order of calls of the two
  studies: measuring, printing, file handling.
- Of the risk search: variance and conditional value at risk as numbers (the
  tail sums they are computed from are modelled), and the searches on one number
  per label that the probe tool compares with.
- How ridership columns and names are found in the text of a file, the drawing
  of maps, the cross-feed tables.
- `NAMMA_BASELINE_HEAP_ALLOC`, calendar loaders and `check_frequencies` (no state
  is kept), `GraphBuilder`'s argument errors and its Debug-only FIFO check.

## 6. Plan

Done, in this order: arena; label sets and their abstract specification;
lookahead; search; builders; RAPTOR and the gate; parser; risk search and its
oracle; topology, accessibility, interchange and crowd model, composed in the
study of one feed.

What could follow, by weight:

1. **A pipeline**: `GTFSParser` to `GraphBuilder` to `ParetoDijkstra`, for
   properties that cross the stages (what interpolation leaves, the builders
   cut; the rows of a broken load are still a sound graph).
2. **Proofs** about the sweep for interchanges: that an added footpath lowers no
   count, and that the count is that of the graph.
3. **The searches on one number per label** beside `RiskSearch`, on the same
   instances.
4. **No wrap-around** of `uint32_t` sums under a bound on legs and leg cost.
