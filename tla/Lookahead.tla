------------------------------ MODULE Lookahead ------------------------------
(***************************************************************************)
(* Bounded-wait departure selection (select_optimal_departure in           *)
(* src/routing.cpp) over the query-time part of CSRGraph.                  *)
(*                                                                         *)
(* A graph is a record                                                     *)
(*   edges            : for each node, the sequence of its timetabled      *)
(*                      departures, sorted by departure_time               *)
(*   transfers        : for each node, the sequence of its walks           *)
(*   second_objective : "CrowdExposure" or "TransferCount"                 *)
(* and a config a record with fields k_departures, W_max_seconds, lambda.  *)
(* lambda is a natural number: the rounding of float is not modelled.      *)
(***************************************************************************)
EXTENDS Naturals, Sequences, FiniteSets

SortedByDeparture(es) ==
  \A i, j \in DOMAIN es : i <= j => es[i].departure_time <= es[j].departure_time

ArrivalMinimising(g, c) == c.lambda = 0 \/ g.second_objective = "TransferCount"

Composite(g, c, e) ==
  IF ArrivalMinimising(g, c)
  THEN e.departure_time + e.travel_time + e.penalty
  ELSE e.travel_time + c.lambda * e.secondary_weight + e.penalty

(* The boardable departures u -> v of the window, as positions in the      *)
(* range of u.  (Mutants: the train leaving right now is missed; the first *)
(* train found is skipped unless it leaves right now.)                     *)
StrictlyAfter(g, c, t, u, v) ==
  {i \in DOMAIN g.edges[u] :
     /\ g.edges[u][i].destination = v
     /\ t < g.edges[u][i].departure_time
     /\ g.edges[u][i].departure_time <= t + c.W_max_seconds}
FirstSkipped(g, c, t, u, v) ==
  {i \in DOMAIN g.edges[u] :
     /\ g.edges[u][i].destination = v
     /\ t <= g.edges[u][i].departure_time
     /\ g.edges[u][i].departure_time <= t + c.W_max_seconds
     /\ \/ g.edges[u][i].departure_time = t
        \/ \E j \in 1 .. i - 1 : /\ g.edges[u][j].destination = v
                                 /\ t <= g.edges[u][j].departure_time}
Candidates(g, c, t, u, v) ==
  {i \in DOMAIN g.edges[u] :
     /\ g.edges[u][i].destination = v
     /\ t <= g.edges[u][i].departure_time
     /\ g.edges[u][i].departure_time <= t + c.W_max_seconds}

(* The first k candidates; the budget is tested after a candidate has been *)
(* evaluated, so k = 0 evaluates one.                                      *)
Examined(g, c, t, u, v) ==
  {i \in Candidates(g, c, t, u, v) :
     LET before == {j \in Candidates(g, c, t, u, v) : j < i}
     IN  before = {} \/ Cardinality(before) < c.k_departures}

(* i is the first examined departure of least composite.                   *)
Boards(g, c, t, u, v, i) ==
  /\ i \in Examined(g, c, t, u, v)
  /\ \A j \in Examined(g, c, t, u, v) :
       LET ci == Composite(g, c, g.edges[u][i])
           cj == Composite(g, c, g.edges[u][j])
       IN  ci < cj \/ (ci = cj /\ i <= j)

(* The position selected, 0 for std::nullopt.                              *)
NoDeparture == 0
select_optimal_departure(g, c, t, u, v) ==
  IF Examined(g, c, t, u, v) = {}
  THEN NoDeparture
  ELSE CHOOSE i \in DOMAIN g.edges[u] : Boards(g, c, t, u, v, i)

ArrivalOf(e) == e.departure_time + e.travel_time

(* No departure of the link u -> v is overtaken by a later one.  Constant  *)
(* per-link travel times are the special case the feeds have.              *)
NoOvertaking(g, u, v) ==
  \A i, j \in DOMAIN g.edges[u] :
    (/\ g.edges[u][i].destination = v
     /\ g.edges[u][j].destination = v
     /\ i <= j)
      => ArrivalOf(g.edges[u][i]) <= ArrivalOf(g.edges[u][j])

ConstantTravel(g, u) ==
  \A i, j \in DOMAIN g.edges[u] :
    g.edges[u][i].destination = g.edges[u][j].destination
      => g.edges[u][i].travel_time = g.edges[u][j].travel_time
=============================================================================
