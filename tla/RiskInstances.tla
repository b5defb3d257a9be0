---------------------------- MODULE RiskInstances ----------------------------
(***************************************************************************)
(* The networks src/src/risk.cpp is asked about: the instances of          *)
(* make_random_instance, whose scenarios are the product of one coordinate *)
(* per layer and, with a disruption, one that shifts every leg; and the    *)
(* witnesses that a weaker order loses the best journey.  What the         *)
(* generator draws at random is an argument here.                          *)
(***************************************************************************)
EXTENDS ArrivalLaw, SequencesExt

Network(num_nodes, num_scenarios, legs) ==
  [num_nodes |-> num_nodes, num_scenarios |-> num_scenarios, legs |-> legs]

(* independent: each leg's delay is a function of coordinates the journeys *)
(* that reach it have not used, and no leg is shifted.                     *)
Instance(net, independent) ==
  [network |-> net, source |-> 0, departure_time_s |-> 0, independent |-> independent]

coordinate(w, layer, support) == ((w - 1) \div support ^ layer) % support

(* Where the legs of the generator run: to the next node out_degree times, *)
(* then a skip service while there is a node after the next.               *)
RandomEnds(num_nodes, out_degree) ==
  FlattenSeq([v \in 1 .. num_nodes - 1 |->
    [d \in 1 .. out_degree |-> << v - 1, v >>]
      \o IF v + 1 < num_nodes THEN << << v - 1, v + 1 >> >> ELSE << >>])

(* draws[i] is [offset, ride, atoms] of the i-th leg.  A disruption of     *)
(* whole headways leaves every timetable where it was.                     *)
make_random_instance(cfg, draws) ==
  LET layers == cfg.num_nodes - 1
      support == cfg.delay_support
      undisrupted == support ^ layers
      scenarios == undisrupted * (IF cfg.disruption_s = 0 THEN 1 ELSE 2)
      ends == RandomEnds(cfg.num_nodes, cfg.out_degree)
      delay(i) == [w \in 1 .. scenarios |->
                     draws[i].atoms[coordinate(w, ends[i][1], support) + 1]]
      shift == IF cfg.disruption_s = 0 THEN << >>
               ELSE [w \in 1 .. scenarios |-> IF w <= undisrupted THEN 0 ELSE cfg.disruption_s]
      leg(i) == StochasticLeg(ends[i][1], ends[i][2], cfg.headway_s, draws[i].offset,
                              draws[i].ride, shift, delay(i))
  IN  Instance(Network(cfg.num_nodes, scenarios, [i \in 1 .. Len(ends) |-> leg(i)]),
               cfg.disruption_s % cfg.headway_s = 0)

-----------------------------------------------------------------------------
(* The witnesses: two ways to an interchange and one connection out of it. *)
approach(from, to, ride, delay) == StochasticLeg(from, to, 1800, 0, ride, << >>, delay)
connection(from, to, offset, ride, shift) ==
  StochasticLeg(from, to, 1800, offset, ride, shift, << >>)

scalar_pruning_witness ==
  Network(3, 4, << approach(0, 1, 5000, << 0, 0, 0, 1500 >>),
                   approach(0, 1, 5000, << 0, 0, 950, 1000 >>),
                   connection(1, 2, 6000, 600, << >>) >>)

tail_average_pruning_witness ==
  Network(3, 3, << approach(0, 1, 600, << 0, 540, 600 >>),
                   approach(0, 1, 600, << 0, 300, 840 >>),
                   connection(1, 2, 960, 240, << >>) >>)

correlated_delay_witness ==
  Network(3, 3, << approach(0, 1, 1500, << 0, 0, 400 >>),
                   approach(0, 1, 1500, << 500, 0, 0 >>),
                   connection(1, 2, 1550, 300, << 600, 0, 0 >>) >>)

Witnesses ==
  {Instance(scalar_pruning_witness, TRUE), Instance(tail_average_pruning_witness, TRUE),
   Instance(correlated_delay_witness, FALSE)}
=============================================================================
