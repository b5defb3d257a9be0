----------------------------- MODULE MCSearchParts -----------------------------
(***************************************************************************)
(* The two parts of the search side by side: label sets over one arena,    *)
(* and the lookahead over every timetable of at most MaxDepartures trains  *)
(* out of one stop, to the target or elsewhere, in the order GraphBuilder  *)
(* gives them.                                                             *)
(***************************************************************************)
EXTENDS ParetoLabelSet, LookaheadFIFO

CONSTANTS MaxDepartures, Times, Rides, Weights, Budgets, Windows, Lambdas

(* GraphBuilder's order: departure, then destination, then travel time.    *)
Earlier(a, b) ==
  \/ a.departure_time < b.departure_time
  \/ /\ a.departure_time = b.departure_time
     /\ \/ a.destination < b.destination
        \/ a.destination = b.destination /\ a.travel_time <= b.travel_time

Trains ==
  [destination : {1}, departure_time : Times, travel_time : Rides,
   secondary_weight : Weights, penalty : {0}]
    \cup
  [destination : {2}, departure_time : Times, travel_time : {1},
   secondary_weight : {0}, penalty : {0}]

Sorted(es) == \A i \in 1 .. Len(es) - 1 : Earlier(es[i], es[i + 1])

Timetables ==
  {es \in UNION {[1 .. n -> Trains] : n \in 0 .. MaxDepartures} : Sorted(es)}

MCDestinations == 0 .. 2
MCGraphs ==
  {[edges |-> (0 :> es), second_objective |-> o] :
     es \in Timetables, o \in {"CrowdExposure", "TransferCount"}}
MCConfigs ==
  [k_departures : Budgets, W_max_seconds : Windows, lambda : Lambdas]

(* The parts share no state, so each moves while the other one stands at   *)
(* its start, the label sets beside one of the timetables.                 *)
OneTimetable == CHOOSE input \in Graphs \X Configs : TRUE

PartsInit == SetInit /\ ClockInit
PartsNext ==
  \/ /\ clock = 0 /\ << graph, config >> = OneTimetable
     /\ SetNext /\ UNCHANGED clockVars
  \/ SetInit /\ ClockNext /\ UNCHANGED setVars
PartsSpec == PartsInit /\ [][PartsNext]_<< setVars, clockVars >>
================================================================================
