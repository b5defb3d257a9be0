----------------------------- MODULE MCRiskSearch -----------------------------
(***************************************************************************)
(* Generated networks of three and four layers over a small pool of draws, *)
(* the witnesses of the code, and two networks with a cycle.               *)
(***************************************************************************)
EXTENDS RiskOracle, RiskInstances

CONSTANTS Disruptions, NumDraws

Draw(offset, ride, atoms) == [offset |-> offset, ride |-> ride, atoms |-> atoms]
DrawPool ==
  << Draw(0, 2, << 0, 3 >>), Draw(3, 2, << 0, 5 >>), Draw(1, 3, << 4, 1 >>), Draw(5, 2, << 0, 0 >>) >>

Cfg(num_nodes, out_degree, disruption) ==
  [num_nodes |-> num_nodes, out_degree |-> out_degree, delay_support |-> 2,
   headway_s |-> 6, disruption_s |-> disruption]
Generated(cfg, pool) ==
  {make_random_instance(cfg, draws) :
     draws \in [1 .. Len(RandomEnds(cfg.num_nodes, cfg.out_degree)) -> pool]}

(* 0 to 1 directly and, sooner, by way of 2; on from 1 to 3, back to 0.    *)
(* The two ways are tried in either order.                                 *)
Detour(ways) ==
  Network(4, 2, ways \o << StochasticLeg(2, 1, 2, 1, 1, << >>, << 0, 3 >>),
                           StochasticLeg(1, 3, 4, 3, 1, << 2, 0 >>, << >>),
                           StochasticLeg(1, 0, 5, 0, 1, << >>, << >>) >>)
Ways == << approach(0, 1, 9, << 0, 0 >>), approach(0, 2, 1, << 0, 0 >>) >>

MCInstances ==
  UNION {Generated(Cfg(3, 2, s), Range(SubSeq(DrawPool, 1, NumDraws)))
           \cup Generated(Cfg(4, 1, s), Range(SubSeq(DrawPool, 2, 3))) : s \in Disruptions}
    \cup Witnesses \cup {Instance(Detour(w), FALSE) : w \in {Ways, Reverse(Ways)}}
Rule(order, tail_count) == [order |-> order, tail_count |-> tail_count]
MCRules ==
  {Rule(order, 1) : order \in {"None", "Statewise", "FirstOrderStochastic", "AllTailAverages"}}
    \cup {Rule("Scalar", 2)}
=============================================================================
