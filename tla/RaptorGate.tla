------------------------------ MODULE RaptorGate ------------------------------
(***************************************************************************)
(* The gate of tools/raptor_bench.cpp: the timetable and the graph of one  *)
(* feed, RAPTOR asked on the one, and its answers held against the         *)
(* earliest arrivals on the other.  The engine's side of the gate is the   *)
(* fixpoint its unrestricted search ends in (ParetoDijkstra,               *)
(* ExactFrontier).                                                         *)
(***************************************************************************)
EXTENDS NetworkBuild, Raptor

gateVars == << vars, buildVars >>

(* Both structures are built before the first query, and raptor refers to  *)
(* the timetable.                                                          *)
gate_objective(f) ==
  IF f.transfers # << >> THEN "TransferCount" ELSE "CrowdExposure"
GateInit ==
  /\ feed \in Feeds
  /\ graph = build_with_transfers(feed, gate_objective(feed))
  /\ timetable = build(feed)
  /\ tt = timetable /\ Fresh
GateNext == Next /\ UNCHANGED buildVars
GateSpec == GateInit /\ [][GateNext]_gateVars

Answered == phase = "idle" /\ asked # << >>

(* An answer of RAPTOR is never earlier than the graph allows; one that    *)
(* did not hit its cap, over footpaths the check made at load time         *)
(* accepts, is that of the graph ("RAPTOR arrivals may be upper bounds",   *)
(* and "Under those settings the two algorithms solve an identical         *)
(* problem", raptor_bench.cpp).  A feed without a usable run is apart: its *)
(* timetable has no footpath, its graph keeps the walks.                   *)
EngineAgrees ==
  (Answered /\ tt.routes # << >>) =>
    LET earliest == EarliestArrivals(graph, Last(asked)[1], Last(asked)[2])
    IN  \A p \in Stop :
          /\ best(p) >= earliest[p]
          /\ ~ hit_round_cap /\ transfers_are_transitively_closed(tt)
               => best(p) = earliest[p]
=============================================================================
