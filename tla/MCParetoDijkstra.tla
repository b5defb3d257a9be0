-------------------------- MODULE MCParetoDijkstra --------------------------
(***************************************************************************)
(* Every graph over a pool of departures and walks on three nodes: two     *)
(* ways from 0 to 2, an overtaken train, a train back, walks both ways.    *)
(***************************************************************************)
EXTENDS ParetoDijkstra

CONSTANTS Objectives, Budgets, Windows, Lambdas, Wide, MaxEdges, MaxWalks

Train(u, v, dep, ride, weight) ==
  << u, [destination |-> v, departure_time |-> dep, travel_time |-> ride,
         secondary_weight |-> weight, penalty |-> 0] >>

Pool ==
  { Train(0, 1, 0, 1, 2), Train(0, 1, 1, 3, 0), Train(0, 1, 2, 1, 0),
    Train(0, 2, 0, 4, 1), Train(1, 2, 1, 2, 3), Train(1, 2, 4, 2, 0),
    Train(1, 2, 3, 4, 1), Train(2, 1, 4, 1, 0), Train(1, 0, 2, 1, 0) }

WalkPool ==
  { << 0, [destination |-> 1, travel_time |-> 2] >>,
    << 1, [destination |-> 2, travel_time |-> 3] >>,
    << 2, [destination |-> 1, travel_time |-> 1] >> }

Earlier(a, b) ==
  \/ a.departure_time < b.departure_time
  \/ /\ a.departure_time = b.departure_time
     /\ \/ a.destination < b.destination
        \/ a.destination = b.destination /\ a.travel_time <= b.travel_time

OutOf(S, u) == {p[2] : p \in {q \in S : q[1] = u}}

Weighed(e, objective) ==
  IF objective = "TransferCount" THEN [e EXCEPT !.secondary_weight = 0] ELSE e

Graph(trains, paths, o) ==
  [edges |-> [u \in Node |->
                SetToSortSeq({Weighed(e, o) : e \in OutOf(trains, u)}, Earlier)],
   transfers |-> [u \in Node |->
                SetToSortSeq(OutOf(paths, u),
                             LAMBDA a, b : a.destination < b.destination)],
   second_objective |-> o]

MCGraphs ==
  {Graph(t, w, o) : t \in UNION {kSubset(k, Pool) : k \in 1 .. MaxEdges},
                    w \in UNION {kSubset(k, WalkPool) : k \in 0 .. MaxWalks},
                    o \in Objectives}
MCConfigs ==
  [k_departures : Budgets, W_max_seconds : Windows, lambda : Lambdas] \cup Wide
MCWide == {[k_departures |-> 9, W_max_seconds |-> 99, lambda |-> 1]}
=============================================================================
