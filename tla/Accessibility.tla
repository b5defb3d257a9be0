----------------------------- MODULE Accessibility -----------------------------
(***************************************************************************)
(* compute_accessibility (src/accessibility.cpp): how many destinations    *)
(* each origin reaches within each time, by at most so many changes.  A    *)
(* query of Raptor is taken as what its layers promise (LayersExact of     *)
(* module Raptor).  Counts are summed over the departures sampled, which   *)
(* are the same for every origin: the code divides by their number.        *)
(***************************************************************************)
EXTENDS ReferenceArrivals

(* A configuration is [thresholds_s, departures, max_changes], the first   *)
(* two sequences.  A budget of c changes is layer c + 1.                   *)
Elapsed(tt, config, origin) ==
  [d \in DOMAIN config.departures |->
     LET dep == config.departures[d]
         tau == AtMost(tt, config.max_changes + 1, origin, dep)
     IN  [c \in 0 .. config.max_changes |->
            [v \in Stop |-> IF tau[c + 1][v] = UINT32_MAX THEN UINT32_MAX
                            ELSE tau[c + 1][v] - dep]]]

AllStops(destinations) == IF destinations = {} THEN Stop ELSE destinations

Counts(elapsed, config, origin, dests) ==
  [c \in 0 .. config.max_changes, t \in DOMAIN config.thresholds_s |->
     FoldSet(LAMBDA d, n : n + Cardinality({v \in dests \ {origin} :
                                /\ elapsed[d][c][v] # UINT32_MAX
                                /\ elapsed[d][c][v] <= config.thresholds_s[t]}),
             0, DOMAIN config.departures)]

compute_accessibility(tt, origins, config, destinations) ==
  LET dests == AllStops(destinations)
  IN  [o \in origins |->
         LET elapsed == Elapsed(tt, config, o)
         IN  [counts |-> Counts(elapsed, config, o, dests),
              departures_with_service |->
                Cardinality({d \in DOMAIN config.departures :
                               \E c \in 0 .. config.max_changes : \E v \in dests \ {o} :
                                 elapsed[d][c][v] # UINT32_MAX})]]
=============================================================================
