------------------------------ MODULE RiskSearch ------------------------------
(***************************************************************************)
(* risk_search of src/src/risk.cpp: a label-correcting search over arrival *)
(* laws.  A label popped from the stack is extended along every leg out of *)
(* its node; each extension is offered to the frontier of the leg's end,   *)
(* rejected if a law held there dominates it and otherwise inserted, and   *)
(* what it dominates is evicted.  One step pops a label or offers one      *)
(* extension.  Labels and legs are numbered from 1; 0 is kNoLabel, kNoLeg. *)
(***************************************************************************)
EXTENDS ArrivalLaw

CONSTANTS
  Instances,   \* [network, source, departure_time_s, independent]
  Rules,       \* pruning rules [order, tail_count]
  LegBounds    \* values of RiskSearchConfig::max_legs

(* What risk_search refuses is no argument of it.                          *)
validate_network(net) ==
  /\ net.num_nodes \in Nat \ {0} /\ net.num_scenarios \in Nat \ {0}
  /\ LET PerScenario == {<< >>} \cup [1 .. net.num_scenarios -> Int]
         End == 0 .. net.num_nodes - 1
     IN  net.legs \in Seq([from : End, to : End, headway_s : Nat \ {0}, offset_s : Int,
                           ride_s : Nat, min_transfer_s : Nat,
                           shift_s : PerScenario, delay_s : PerScenario])
ASSUME InstancesAreValid ==
  \A x \in Instances :
    /\ validate_network(x.network) /\ x.departure_time_s \in Int
    /\ x.source \in 0 .. x.network.num_nodes - 1
    /\ \A r \in Rules : r.order = "Scalar" => r.tail_count \in 1 .. x.network.num_scenarios
ASSUME RulesAreOrders ==
  \A r \in Rules :
    r.order \in {"None", "Statewise", "FirstOrderStochastic", "AllTailAverages", "Scalar"}
ASSUME LegBoundsAreNatural == LegBounds \subseteq Nat

VARIABLES
  instance, rule, max_legs,   \* the arguments
  labels,                     \* every label ever created, in creation order
  frontier,                   \* node -> surviving labels
  work,                       \* the stack of labels to expand
  expanding, todo,            \* the label being expanded, its legs still to ride
  unsupported_prunings

arguments == << instance, rule, max_legs >>
vars == << arguments, labels, frontier, work, expanding, todo, unsupported_prunings >>

network == instance.network
Node == 0 .. network.num_nodes - 1

legs_from(net, u) == {i \in 1 .. Len(net.legs) : net.legs[i].from = u}

RiskLabel(node, legs_used, law, parent, via_leg) ==
  [node |-> node, legs_used |-> legs_used, law |-> law,
   parent |-> parent, via_leg |-> via_leg, pruned |-> FALSE]

StartLabel ==
  RiskLabel(instance.source, 0,
            certain(network.num_scenarios, instance.departure_time_s), 0, 0)

Init ==
  /\ instance \in Instances /\ rule \in Rules /\ max_legs \in LegBounds
  /\ labels = << StartLabel >>
  /\ frontier = [u \in Node |-> IF u = instance.source THEN {1} ELSE {}]
  /\ work = << 1 >>
  /\ expanding = 0 /\ todo = {}
  /\ unsupported_prunings = 0

Expandable(l) == ~ l.pruned /\ l.legs_used < max_legs

Top == work[Len(work)]
Popped == SubSeq(work, 1, Len(work) - 1)

(* A label evicted after it was queued, or at the leg bound.               *)
PopSkip ==
  /\ todo = {} /\ work # << >>
  /\ ~ Expandable(labels[Top])
  /\ work' = Popped
  /\ UNCHANGED << arguments, labels, frontier, expanding, todo, unsupported_prunings >>

PopExpand ==
  /\ todo = {} /\ work # << >>
  /\ Expandable(labels[Top])
  /\ work' = Popped
  /\ expanding' = Top
  /\ todo' = legs_from(network, labels[Top].node)
  /\ UNCHANGED << arguments, labels, frontier, unsupported_prunings >>

(* The label made of the expanded one along a leg.                         *)
Candidate(i) ==
  LET leg == network.legs[i]
      from == labels[expanding]
  IN  RiskLabel(leg.to, from.legs_used + 1, extend(from.law, leg), expanding, i)

(* What the frontier of c's node holds against c, and what it drops for c. *)
(* (Mutant: a better newcomer is rejected.)                                *)
NoBetter(c) == {h \in frontier[c.node] : dominates(c.law, labels[h].law, rule)}
Dominators(c) == {h \in frontier[c.node] : dominates(labels[h].law, c.law, rule)}
Dominated(c) == {h \in frontier[c.node] : dominates(c.law, labels[h].law, rule)}

Supported(a, b) == dominates_stochastically(a.law, b.law)

(* Legs are ridden, and frontiers searched, in ascending order: only the   *)
(* first dominator is asked whether the proof covers the pruning.          *)
OfferRejected ==
  /\ todo # {} /\ todo' = todo \ {Min(todo)}
  /\ LET c == Candidate(Min(todo))
     IN  /\ Dominators(c) # {}
         /\ labels' = Append(labels, [c EXCEPT !.pruned = TRUE])
         /\ unsupported_prunings' = unsupported_prunings
              + IF Supported(labels[Min(Dominators(c))], c) THEN 0 ELSE 1
  /\ UNCHANGED << arguments, frontier, work, expanding >>

(* Evicted labels stay where they are.  (Mutant: they are overwritten.)    *)
Overwritten(evicted, c) == [i \in 1 .. Len(labels) |-> IF i \in evicted THEN c ELSE labels[i]]
Evicted(evicted, c) ==
  [i \in 1 .. Len(labels) |->
     IF i \in evicted THEN [labels[i] EXCEPT !.pruned = TRUE] ELSE labels[i]]

OfferInserted ==
  /\ todo # {} /\ todo' = todo \ {Min(todo)}
  /\ LET c == Candidate(Min(todo))
         evicted == Dominated(c)
         new == Len(labels) + 1
     IN  /\ Dominators(c) = {}
         /\ labels' = Append(Evicted(evicted, c), c)
         /\ frontier' = [frontier EXCEPT ![c.node] = (@ \ evicted) \cup {new}]
         /\ work' = Append(work, new)
         /\ unsupported_prunings' = unsupported_prunings
              + Cardinality({h \in evicted : ~ Supported(c, labels[h])})
  /\ UNCHANGED << arguments, expanding >>

Next == PopSkip \/ PopExpand \/ OfferRejected \/ OfferInserted
Spec == Init /\ [][Next]_vars

Finished == work = << >> /\ todo = {}

-----------------------------------------------------------------------------
(* "a pruned label's index stays valid for any child it already produced"  *)
(* (RiskLabel): each label but the start is the extension, along one leg,  *)
(* of an earlier label that is one leg shorter, whether or not that parent *)
(* has been evicted since, and no label is longer than the leg bound.      *)
Explained(i) ==
  LET l == labels[i]
  IN  \/ i = 1 /\ [l EXCEPT !.pruned = FALSE] = StartLabel
      \/ /\ l.parent \in 1 .. i - 1 /\ l.via_leg \in 1 .. Len(network.legs)
         /\ LET leg == network.legs[l.via_leg]
                parent == labels[l.parent]
            IN  /\ leg.from = parent.node /\ leg.to = l.node
                /\ l.legs_used = parent.legs_used + 1 /\ l.legs_used <= max_legs
                /\ l.law = extend(parent.law, leg)
LabelsExplained == \A i \in 1 .. Len(labels) : Explained(i)

(* The flag a label carries and the frontiers say the same: "Dominated     *)
(* after insertion, or dominated on arrival" is what no frontier holds.    *)
FrontiersHoldSurvivors ==
  \A u \in Node :
    frontier[u] = {i \in 1 .. Len(labels) : labels[i].node = u /\ ~ labels[i].pruned}

(* Discarding is covered to the end: whoever discarded a label may itself  *)
(* be discarded later, yet the frontier always holds one that dominates    *)
(* the first ("rejected if anything there already dominates it, otherwise  *)
(* inserted and everything it dominates is evicted").                      *)
PrunedIsCovered ==
  \A i \in 1 .. Len(labels) :
    labels[i].pruned =>
      \E h \in frontier[labels[i].node] : dominates(labels[h].law, labels[i].law, rule)

(* unsupported_prunings is zero "for None, Statewise and                   *)
(* FirstOrderStochastic by construction": nothing these orders discard is  *)
(* beyond the proof, because the first two imply the third.                *)
SafeOrdersSupported ==
  rule.order \in {"None", "Statewise", "FirstOrderStochastic"} => unsupported_prunings = 0
=============================================================================
