----------------------------- MODULE RaptorBuilder -----------------------------
(***************************************************************************)
(* RaptorBuilder::build (src/raptor.cpp): trips cut into runs, runs of one *)
(* stop pattern split until none overtakes another, footpaths closed.      *)
(* The counters that are only printed are left out.                        *)
(***************************************************************************)
EXTENDS Timetable

CONSTANT kMaxComponentDegree   \* nodes taken from one footpath search at most

-----------------------------------------------------------------------------
(* Stage (a).  The segment test of the run cutter, which must be that of   *)
(* GraphBuilder.                                                           *)
SegmentAdmitted(from, to) ==
  /\ from.stop # Unresolved /\ to.stop # Unresolved
  /\ from.pickup_type # 1 /\ to.drop_off_type # 1
  /\ from.departure_time # UINT32_MAX /\ to.arrival_time # UINT32_MAX
  /\ to.arrival_time >= from.departure_time

Max2(a, b) == IF a > b THEN a ELSE b
NoRun == [stops |-> << >>, times |-> << >>]
IsOpen(c) == c.run.stops # << >>
Close(c) == [run |-> NoRun,
             runs |-> IF IsOpen(c) THEN Append(c.runs, c.run) ELSE c.runs]

Opened(c, from) ==
  IF IsOpen(c) THEN c
  ELSE [c EXCEPT !.run = [stops |-> << from.stop >>,
                          times |-> << [arrival |-> from.departure_time,
                                        departure |-> from.departure_time] >>]]

(* One segment: the run is extended, and closed where the trip cannot be   *)
(* ridden through.                                                         *)
Extended(c, from, to) ==
  IF ~ SegmentAdmitted(from, to) THEN Close(c)
  ELSE LET arr == Max2(to.arrival_time, from.departure_time + 1)
           through == to.departure_time # UINT32_MAX /\ to.departure_time >= arr
           o == Opened(c, from)
           longer == [o EXCEPT !.run =
                        [stops |-> Append(o.run.stops, to.stop),
                         times |-> Append(o.run.times,
                                          [arrival |-> arr,
                                           departure |-> IF through THEN to.departure_time
                                                         ELSE arr])]]
       IN  IF through THEN longer ELSE Close(longer)

RunsOf(rs) ==
  LET cut[k \in 0 .. Len(rs) - 1] ==
        IF k = 0 THEN [run |-> NoRun, runs |-> << >>]
        ELSE Extended(cut[k - 1], rs[k], rs[k + 1])
  IN  Close(cut[Len(rs) - 1]).runs

(* Every run with the trip and the place in it that it comes from, which   *)
(* only order equal ones.                                                  *)
Runs(f) ==
  UNION {LET runs == RunsOf(TripRecords(f, t))
         IN  {[trip_id |-> t, nth |-> k, run |-> runs[k]] : k \in DOMAIN runs} :
           t \in Trips(f)}

-----------------------------------------------------------------------------
(* Stages (b) and (c).                                                     *)
SortsBefore(a, b) ==
  LET ta == a.run.times
      tb == b.run.times
  IN  \/ \E s \in DOMAIN ta :
           /\ \A r \in 1 .. s - 1 : ta[r] = tb[r]
           /\ \/ ta[s].departure < tb[s].departure
              \/ ta[s].departure = tb[s].departure /\ ta[s].arrival < tb[s].arrival
      \/ ta = tb /\ a.trip_id < b.trip_id
      \/ ta = tb /\ a.trip_id = b.trip_id /\ a.nth < b.nth

(* Greedy first fit.  (Mutant: overtaking is looked for at the first stop  *)
(* only.)                                                                  *)
FitsAtFirstStop(bins, times) ==
  {b \in DOMAIN bins : Last(bins[b])[1].departure <= times[1].departure}
Fits(bins, times) == {b \in DOMAIN bins : no_later_than(Last(bins[b]), times)}
Placed(bins, times) ==
  IF Fits(bins, times) = {} THEN Append(bins, << times >>)
  ELSE [bins EXCEPT ![Min(Fits(bins, times))] = Append(@, times)]

RoutesOf(pattern, runs) ==
  LET members == Sorted({m \in runs : m.run.stops = pattern}, SortsBefore)
      bins == FoldLeft(LAMBDA bs, m : Placed(bs, m.run.times), << >>, members)
  IN  [b \in DOMAIN bins |-> [stops |-> pattern, trips |-> bins[b]]]

(* Patterns are taken in lexicographic order.                              *)
PatternBefore(p, q) ==
  \/ IsStrictPrefix(p, q)
  \/ \E i \in DOMAIN p \cap DOMAIN q :
       p[i] < q[i] /\ SubSeq(p, 1, i - 1) = SubSeq(q, 1, i - 1)

Routes(runs) ==
  FlattenSeq([i \in 1 .. Cardinality({m.run.stops : m \in runs}) |->
                RoutesOf(Sorted({m.run.stops : m \in runs}, PatternBefore)[i], runs)])

-----------------------------------------------------------------------------
(* Footpaths.  The walks out of u, in the order of the feed.               *)
Walkable(f, u) ==
  LET kept == {i \in DOMAIN f.transfers : /\ f.transfers[i].from_stop = u
                                           /\ f.transfers[i].to_stop # Unresolved
                                           /\ f.transfers[i].to_stop # u}
      sorted == Sorted(kept, <)
  IN  [i \in DOMAIN sorted |->
         LET t == f.transfers[sorted[i]]
         IN  [destination |-> t.to_stop,
              travel_time |-> IF t.min_transfer_time = 0 THEN 1 ELSE t.min_transfer_time]]

(* One pop of the shortest-walk search: the first of the nearest leaves    *)
(* the queue, the last of the queue takes its place, its walks are relaxed.*)
(* A stop may be in the queue more than once.  (Mutant: the distance first *)
(* found is kept.)                                                         *)
FirstFound(c, d, w) ==
  IF c.dist[w.destination] = UINT32_MAX
  THEN [c EXCEPT !.dist[w.destination] = d + w.travel_time,
                 !.queue = Append(@, w.destination)]
  ELSE c
Relaxed(c, d, w) ==
  IF d + w.travel_time < c.dist[w.destination]
  THEN [c EXCEPT !.dist[w.destination] = d + w.travel_time,
                 !.queue = Append(@, w.destination)]
  ELSE c

Popped(f, c) ==
  LET at == CHOOSE i \in DOMAIN c.queue :
              \A j \in DOMAIN c.queue :
                \/ c.dist[c.queue[i]] < c.dist[c.queue[j]]
                \/ c.dist[c.queue[i]] = c.dist[c.queue[j]] /\ i <= j
      u == c.queue[at]
      left == [c EXCEPT !.queue = Front([c.queue EXCEPT ![at] = Last(c.queue)]),
                        !.settled = @ + 1]
  IN  IF left.settled > kMaxComponentDegree THEN [left EXCEPT !.queue = << >>]
      ELSE FoldLeft(LAMBDA x, w : Relaxed(x, c.dist[u], w), left, Walkable(f, u))

(* The search pops until the queue is empty, kMaxComponentDegree + 1 times  *)
(* at most.                                                                *)
Searched(f, s) ==
  LET begun == [dist |-> [v \in Stop |-> IF v = s THEN 0 ELSE UINT32_MAX],
                queue |-> << s >>, settled |-> 0]
      popped[n \in 0 .. kMaxComponentDegree + 1] ==
        IF n = 0 THEN begun
        ELSE LET c == popped[n - 1] IN IF c.queue = << >> THEN c ELSE Popped(f, c)
  IN  popped[kMaxComponentDegree + 1].dist

(* The footpaths of s: every stop the search touched, with its distance.   *)
(* (Mutant: the walks of the feed as they are.)                            *)
NotClosed(f, s) == Walkable(f, s)
Footpaths(f, s) ==
  LET dist == Searched(f, s)
      touched == Sorted({v \in Stop \ {s} : dist[v] # UINT32_MAX}, <)
  IN  [i \in DOMAIN touched |-> [destination |-> touched[i],
                                 travel_time |-> dist[touched[i]]]]

(* Without a usable run there is no timetable and no footpath.             *)
build(f) ==
  LET runs == Runs(f)
  IN  [routes |-> Routes(runs),
       transfers |-> [s \in Stop |-> IF runs = {} THEN << >> ELSE Footpaths(f, s)]]
=============================================================================
