------------------------------ MODULE RiskOracle ------------------------------
(***************************************************************************)
(* The oracle of src/src/risk.cpp, enumerate_journeys, and the comparison  *)
(* of a search with it (measure_rule).  The oracle shares no pruning with  *)
(* the search.                                                             *)
(***************************************************************************)
EXTENDS RiskSearch, Functions

(* "A leg's delay is a function of the coordinate of the node it departs   *)
(* from", and what reaches that node one of strictly earlier coordinates:  *)
(* the delays a journey may have met on its way to a node say nothing of   *)
(* the delay of a leg out of it.  Outcomes are the sets of scenarios that  *)
(* some legs' delays cannot tell apart; Upstream is the least set of legs  *)
(* that holds those into u and those into where one of them starts.        *)
delay_of(net, f, w) == at_or_zero(net.legs[f].delay_s, w)
Outcomes(net, F) ==
  {{x \in 1 .. net.num_scenarios : \A f \in F : delay_of(net, f, x) = delay_of(net, f, w)} :
     w \in 1 .. net.num_scenarios}
LeadsTo(net, f, u, U) == net.legs[f].to = u \/ \E g \in U : net.legs[g].from = net.legs[f].to
Upstream(net, u) ==
  LET Legs == 1 .. Len(net.legs)
      closed == {U \in SUBSET Legs : \A f \in Legs : LeadsTo(net, f, u, U) => f \in U}
  IN  {f \in Legs : \A U \in closed : f \in U}
Independent(net) ==
  \A e \in 1 .. Len(net.legs) :
    LET leg == net.legs[e]
    IN  /\ \A w \in 1 .. net.num_scenarios : at_or_zero(leg.shift_s, w) % leg.headway_s = 0
        /\ \A C \in Outcomes(net, Upstream(net, leg.from)) : \A D \in Outcomes(net, {e}) :
             Cardinality(C \cap D) * net.num_scenarios = Cardinality(C) * Cardinality(D)
ASSUME DelaysAreIndependent == \A x \in Instances : x.independent => Independent(x.network)

Ridden(journey, i) ==
  [legs |-> Append(journey.legs, i), end_node |-> network.legs[i].to,
   law |-> extend(journey.law, network.legs[i])]

(* Every journey of at most max_legs legs, layer by layer, revisits        *)
(* included.                                                               *)
enumerate_journeys ==
  LET start == [legs |-> << >>, end_node |-> instance.source, law |-> StartLabel.law]
      layer[d \in 0 .. max_legs] ==
        IF d = 0 THEN {start}
        ELSE UNION {{Ridden(j, i) : i \in legs_from(network, j.end_node)} :
                      j \in layer[d - 1]}
  IN  UNION {layer[d] : d \in 0 .. max_legs}

Unreachable == << >>
BestOf(laws, tail_count) ==
  IF laws = {} THEN Unreachable
  ELSE << Min({tail_totals(law)[tail_count] : law \in laws}) >>

found(node, tail_count) == BestOf({labels[i].law : i \in frontier[node]}, tail_count)
truth(journeys, node, tail_count) ==
  BestOf({j.law : j \in {x \in journeys : x.end_node = node}}, tail_count)

(* RuleMeasurement::exact at every node and every confidence level.        *)
exact ==
  LET journeys == enumerate_journeys
  IN  \A u \in Node : \A m \in 1 .. network.num_scenarios :
        found(u, m) = truth(journeys, u, m)

(* RiskSearchResult::journey_of, as the journey the oracle would hold.     *)
journey_of ==
  LET replay[i \in 1 .. Len(labels)] ==
        IF labels[i].via_leg = 0
        THEN [legs |-> << >>, end_node |-> instance.source, law |-> StartLabel.law]
        ELSE Ridden(replay[labels[i].parent], labels[i].via_leg)
  IN  replay

-----------------------------------------------------------------------------
(* "a pruned label's index stays valid for any child it already produced   *)
(* and the witnesses can print the path that was thrown away": at every    *)
(* moment, and for evicted labels as for survivors, the legs journey_of    *)
(* names lead from the source to the label's node with the label's law, on *)
(* a journey the oracle would count within the bound.                      *)
JourneysReplay ==
  \A i \in 1 .. Len(labels) :
    LET j == journey_of[i]
    IN  /\ j.end_node = labels[i].node /\ j.law = labels[i].law
        /\ Len(j.legs) = labels[i].legs_used /\ Len(j.legs) <= max_legs
        /\ \A k \in 1 .. Len(j.legs) :
             network.legs[j.legs[k]].from =
               IF k = 1 THEN instance.source ELSE network.legs[j.legs[k - 1]].to

(* A surviving label with somewhere to go that the leg bound has stopped.  *)
LimitBinds ==
  \E u \in Node : \E i \in frontier[u] :
    labels[i].legs_used = max_legs /\ legs_from(network, u) # {}

(* One search answers every confidence level, at every node, exactly as    *)
(* the enumeration does: with no pruning; and, where the leg bound stopped *)
(* no survivor, with statewise pruning on any network, and under           *)
(* independence with any rule all of whose prunings were stochastic        *)
(* dominance (DominanceOrder; RiskSearchResult::unsupported_prunings).     *)
ExactWhereSupported ==
  (Finished /\ \/ rule.order = "None"
               \/ /\ ~ LimitBinds
                  /\ \/ rule.order = "Statewise"
                     \/ instance.independent /\ unsupported_prunings = 0)
    => exact

(* No weaker order is safe: of any two laws that met at a node, a leg      *)
(* exists that makes a worse on average than b, unless a stochastically    *)
(* dominates b ("nullopt exactly when dominates_stochastically(a, b)").    *)
LawsAt(u) == {l.law : l \in {x \in Range(labels) : x.node = u}}
SeparatingLegReverses ==
  Finished =>
    \A u \in Node : \A a, b \in LawsAt(u) :
      LET leg == separating_leg(a, b)
      IN  IF dominates_stochastically(a, b) THEN leg = NoLeg
          ELSE total(extend(a, leg)) > total(extend(b, leg))

(* "Statewise: No later in every scenario.  Always safe."                  *)
StatewiseAlwaysSafe == (Finished /\ rule.order = "Statewise") => exact
=============================================================================
