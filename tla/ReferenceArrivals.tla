-------------------------- MODULE ReferenceArrivals --------------------------
(***************************************************************************)
(* Earliest arrivals by definition: over a timetable by at most so many    *)
(* trips, with every trip tried at every stop, and over a graph by any     *)
(* number of rides and walks.  A timetable is what RaptorBuilder builds, a *)
(* graph what GraphBuilder builds.                                         *)
(***************************************************************************)
EXTENDS Timetable

LeastTime(S) == Min(S \cup {UINT32_MAX})
OnlyAt(s, t) == [p \in Stop |-> IF p = s THEN t ELSE UINT32_MAX]

AfterWalk(tt, at) ==
  [v \in Stop |->
     LeastTime({at[v]} \cup UNION {{at[u] + w.travel_time :
                  w \in {x \in Range(tt.transfers[u]) : x.destination = v}} : u \in Stop})]

AfterRide(tt, at) ==
  LET rides(v) ==
        UNION {UNION {{trip[b].arrival :
                         b \in {i \in DOMAIN trip :
                                 /\ route.stops[i] = v
                                 /\ \E a \in 1 .. i - 1 :
                                      /\ at[route.stops[a]] # UINT32_MAX
                                      /\ at[route.stops[a]] <= trip[a].departure}} :
                         trip \in Range(route.trips)} : route \in Range(tt.routes)}
  IN  [v \in Stop |-> LeastTime({at[v]} \cup rides(v))]

(* AtMost(tt, n, s, t)[j]: the earliest arrivals, leaving s at t, by at    *)
(* most j trips, j = 0 .. n, a walk allowed before, between and after.     *)
AtMost(tt, n, s, t) ==
  LET layer[j \in 0 .. n] ==
        IF j = 0 THEN AfterWalk(tt, OnlyAt(s, t))
        ELSE AfterWalk(tt, AfterRide(tt, layer[j - 1]))
  IN  layer

(* On a graph a best path has no stop twice, so NumStops relaxations of    *)
(* every edge and walk are enough.                                         *)
Relaxation(g, at) ==
  [v \in Stop |->
     LeastTime({at[v]} \cup
       (UNION {{e.departure_time + e.travel_time :
                  e \in {x \in Range(g.edges[u]) :
                           /\ x.destination = v /\ at[u] # UINT32_MAX
                           /\ at[u] <= x.departure_time}} : u \in Stop}) \cup
       (UNION {{at[u] + w.travel_time :
                  w \in {x \in Range(g.transfers[u]) : x.destination = v}} : u \in Stop}))]

EarliestArrivals(g, s, t) ==
  LET after[n \in 0 .. NumStops] ==
        IF n = 0 THEN OnlyAt(s, t) ELSE Relaxation(g, after[n - 1])
  IN  after[NumStops]
=============================================================================
