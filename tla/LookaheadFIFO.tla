---------------------------- MODULE LookaheadFIFO ----------------------------
(***************************************************************************)
(* A passenger stands at Origin wanting to ride to Target, and asks        *)
(* select_optimal_departure again and again as the clock advances: the     *)
(* setting of the FIFO discussion of include/routing.hpp section 3 and of  *)
(* tests/test_fifo_violation.cpp.                                          *)
(***************************************************************************)
EXTENDS Lookahead

CONSTANTS
  Destinations,
  Graphs,     \* the timetables explored
  Configs,    \* the lookahead configurations explored
  Origin, Target,
  Horizon     \* bound: the last instant of a question

Edge == [destination : Destinations, departure_time : Nat, travel_time : Nat,
         secondary_weight : Nat, penalty : Nat]

ASSUME HorizonAssumption == Horizon \in Nat
ASSUME ConfigsAssumption ==
  \A c \in Configs : c.k_departures \in Nat /\ c.W_max_seconds \in Nat
                       /\ c.lambda \in Nat
ASSUME GraphsAssumption ==
  \A g \in Graphs : /\ g.edges[Origin] \in Seq(Edge)
                    /\ SortedByDeparture(g.edges[Origin])

VARIABLES
  graph, config,
  clock,      \* the time of the last question
  boarded     \* its answer, a position in the range of Origin

clockVars == << graph, config, clock, boarded >>

(* The inputs stay what ClockInit chose; the proofs use it, TLC has no need to. *)
InputsOK == graph \in Graphs /\ config \in Configs

ClockTypeOK ==
  /\ clock \in 0 .. Horizon
  /\ boarded \in {NoDeparture} \cup DOMAIN graph.edges[Origin]

Answer(t) == select_optimal_departure(graph, config, t, Origin, Target)

ClockInit ==
  /\ graph \in Graphs
  /\ config \in Configs
  /\ clock = 0
  /\ boarded = Answer(0)

Ask(t) ==
  /\ clock < t
  /\ clock' = t
  /\ boarded' = Answer(t)
  /\ UNCHANGED << graph, config >>

ClockNext == \E t \in 0 .. Horizon : Ask(t)

ClockSpec == ClockInit /\ [][ClockNext]_clockVars

-----------------------------------------------------------------------------
BothBoarded == boarded # NoDeparture /\ boarded' # NoDeparture

Train(p) == graph.edges[Origin][p]
Arrival(p) == ArrivalOf(Train(p))

(* Waiting does no harm while the selected train has not left: asking      *)
(* again before it departs still finds one, of no greater composite, and   *)
(* the selection never moves back to an earlier departure.  README.md      *)
(* relies on the last part ("the chosen departure cannot move backwards"). *)
SelectionStable ==
  [][boarded # NoDeparture =>
       /\ clock' <= Train(boarded).departure_time =>
            /\ boarded' # NoDeparture
            /\ Composite(graph, config, Train(boarded'))
                 <= Composite(graph, config, Train(boarded))
       /\ boarded' # NoDeparture => boarded <= boarded']_clockVars

(* A link none of whose departures is overtaken (constant travel time is   *)
(* the case of the feeds) is FIFO while a departure is found, whatever the *)
(* objective, the budget and the window: asking later never arrives sooner.*)
FIFOWithoutOvertaking ==
  [][BothBoarded /\ NoOvertaking(graph, Origin, Target)
       => Arrival(boarded) <= Arrival(boarded')]_clockVars
=============================================================================
