-------------------------------- MODULE Raptor --------------------------------
(***************************************************************************)
(* Raptor::run (src/raptor.cpp): round k gives the earliest arrivals by at *)
(* most k trips.  One step per route scanned and per stop walked from; the *)
(* scratch buffers live from query to query.                               *)
(***************************************************************************)
EXTENDS ReferenceArrivals

CONSTANTS
  Timetables,   \* the timetables
  Departures,   \* the departure times asked for
  max_rounds,   \* the round cap
  MaxQueries    \* bound: queries of one Raptor object

ASSUME SizeAssumption == NumStops \in Nat /\ max_rounds \in Nat \ {0}
(* No time is the sentinel.                                                *)
ASSUME DeparturesAssumption ==
  UINT32_MAX \in Nat /\ Departures \subseteq 0 .. UINT32_MAX - 1
ASSUME TimetablesAssumption == \A t \in Timetables : WellBuilt(t)

VARIABLES
  tt,            \* tt_
  tau,           \* out.tau: [0 .. max_rounds -> [Stop -> time]]
  rounds,        \* out.rounds
  hit_round_cap, \* out.hit_round_cap
  k,             \* the round
  marked,        \* the stops whose byte in marked_ is set
  marked_list,   \* marked_list_
  queue_pos,     \* queue_pos_: [Route -> first position or NOT_QUEUED]
  queue_list,    \* queue_list_
  walkers,       \* the part of marked_list left to walk from
  phase,         \* "idle", "round", "scan" or "walk"
  asked          \* the queries so far, each << source_stop, departure_time >>

vars == << tt, tau, rounds, hit_round_cap, k, marked, marked_list, queue_pos,
           queue_list, walkers, phase, asked >>

RAPTOR_UNREACHED == UINT32_MAX
Route == DOMAIN tt.routes
NOT_QUEUED == 0   \* positions are counted from 1
Unreached == [p \in Stop |-> RAPTOR_UNREACHED]
NothingQueued == [r \in Route |-> NOT_QUEUED]

-----------------------------------------------------------------------------
(* A layer being improved: its arrivals, the bytes and the list of marks.  *)
(* (Mutant: the list is appended to without looking at the byte.)          *)
MarkedTwice(c, p, arr) ==
  IF arr < c.cur[p]
  THEN [c EXCEPT !.cur[p] = arr, !.marked = @ \cup {p}, !.list = Append(@, p)]
  ELSE c
Improved(c, p, arr) ==
  IF arr < c.cur[p]
  THEN [c EXCEPT !.cur[p] = arr, !.marked = @ \cup {p},
                 !.list = IF p \in c.marked THEN @ ELSE Append(@, p)]
  ELSE c

(* Every footpath out of p, from the time base.                            *)
Walked(c, p, base) ==
  FoldLeft(LAMBDA x, t : Improved(x, t.destination, base + t.travel_time),
           c, tt.transfers[p])

(* The first trip leaving position pos at t or later, by bisection; one    *)
(* past the last trip if there is none.  Each pass of the loop takes at    *)
(* least one trip out of lo .. hi - 1, so one per trip is enough.          *)
(* (Mutant: a trip leaving right at t is missed.)                          *)
HalvedPastDeparture(r, pos, t, b) ==
  LET mid == b.lo + (b.hi - b.lo) \div 2
  IN  IF b.lo >= b.hi THEN b
      ELSE IF tt.routes[r].trips[mid][pos].departure <= t THEN [b EXCEPT !.lo = mid + 1]
      ELSE [b EXCEPT !.hi = mid]
Halved(r, pos, t, b) ==
  LET mid == b.lo + (b.hi - b.lo) \div 2
  IN  IF b.lo >= b.hi THEN b
      ELSE IF tt.routes[r].trips[mid][pos].departure < t THEN [b EXCEPT !.lo = mid + 1]
      ELSE [b EXCEPT !.hi = mid]

earliest_trip(r, pos, t) ==
  FoldLeft(LAMBDA b, trip : Halved(r, pos, t, b),
           [lo |-> 1, hi |-> Len(tt.routes[r].trips) + 1], tt.routes[r].trips).lo

(* One position of a route scan: alight from the trip ridden, then board   *)
(* an earlier one that the round before reached.  c.trip is one past the   *)
(* last trip while on no vehicle.                                          *)
Alighted(c, r, pos) ==
  IF c.trip > Len(tt.routes[r].trips) THEN c
  ELSE [c EXCEPT !.layer = Improved(@, tt.routes[r].stops[pos],
                                    tt.routes[r].trips[c.trip][pos].arrival)]

(* (Mutant: the layer being written decides what can be boarded.)          *)
BoardedFromCur(c, prev, r, pos) ==
  LET trips == tt.routes[r].trips
      ready == c.layer.cur[tt.routes[r].stops[pos]]
      et == earliest_trip(r, pos, ready)
  IN  IF ready # RAPTOR_UNREACHED /\ et < c.trip THEN [c EXCEPT !.trip = et] ELSE c
Boarded(c, prev, r, pos) ==
  LET trips == tt.routes[r].trips
      ready == prev[tt.routes[r].stops[pos]]
      et == earliest_trip(r, pos, ready)
  IN  IF /\ ready # RAPTOR_UNREACHED
         /\ c.trip > Len(trips) \/ ready <= trips[c.trip][pos].departure
         /\ et < c.trip
      THEN [c EXCEPT !.trip = et]
      ELSE c

Scanned(c, prev, r, start) ==
  FoldLeft(LAMBDA x, pos : Boarded(Alighted(x, r, pos), prev, r, pos),
           [layer |-> c, trip |-> Len(tt.routes[r].trips) + 1],
           [i \in 1 .. Len(tt.routes[r].stops) - start + 1 |-> start + i - 1]).layer

-----------------------------------------------------------------------------
Layer == [cur |-> tau[k], marked |-> marked, list |-> marked_list]

Fresh ==
  /\ tau = [j \in 0 .. max_rounds |-> Unreached]
  /\ rounds = 0 /\ hit_round_cap = FALSE /\ k = 0
  /\ marked = {} /\ marked_list = << >>
  /\ queue_pos = NothingQueued /\ queue_list = << >> /\ walkers = << >>
  /\ phase = "idle" /\ asked = << >>

Init == tt \in Timetables /\ Fresh

(* The start of a query: the source and the footpaths out of it.           *)
StartQuery ==
  /\ phase = "idle" /\ Len(asked) < MaxQueries
  /\ \E s \in Stop, t \in Departures :
       LET c == Walked([cur |-> [Unreached EXCEPT ![s] = t],
                        marked |-> marked \cup {s}, list |-> << s >>], s, t)
       IN  /\ tau' = [j \in 0 .. max_rounds |-> IF j = 0 THEN c.cur ELSE Unreached]
           /\ marked' = c.marked /\ marked_list' = c.list
           /\ asked' = Append(asked, << s, t >>)
  /\ rounds' = 0 /\ hit_round_cap' = FALSE
  /\ k' = 1 /\ phase' = "round"
  /\ UNCHANGED << tt, queue_pos, queue_list, walkers >>

(* A round begins: the routes of the marked stops are queued, each from    *)
(* its first marked position, and the marks are cleared.                   *)
QueuedAt(q, r, pos) ==
  IF q.pos[r] = NOT_QUEUED THEN [pos |-> [q.pos EXCEPT ![r] = pos], list |-> Append(q.list, r)]
  ELSE [q EXCEPT !.pos[r] = IF pos < @ THEN pos ELSE @]

(* The slice of stop_routes of a stop is sorted by route and position.     *)
QueuedOn(q, p, r) ==
  FoldLeftDomain(LAMBDA x, i : IF tt.routes[r].stops[i] = p THEN QueuedAt(x, r, i) ELSE x,
                 q, tt.routes[r].stops)
QueuedFrom(q, p) == FoldLeftDomain(LAMBDA x, r : QueuedOn(x, p, r), q, tt.routes)

BeginRound ==
  /\ phase = "round"
  /\ tau' = [tau EXCEPT ![k] = tau[k - 1]]
  /\ LET q == FoldLeft(QueuedFrom, [pos |-> queue_pos, list |-> << >>], marked_list)
     IN  queue_pos' = q.pos /\ queue_list' = q.list
  /\ marked' = marked \ Range(marked_list) /\ marked_list' = << >>
  /\ phase' = "scan"
  /\ UNCHANGED << tt, rounds, hit_round_cap, k, walkers, asked >>

(* The next queued route is scanned once, front to back.                   *)
ScanRoute ==
  /\ phase = "scan" /\ queue_list # << >>
  /\ LET r == Head(queue_list)
         c == Scanned(Layer, tau[k - 1], r, queue_pos[r])
     IN  /\ tau' = [tau EXCEPT ![k] = c.cur]
         /\ marked' = c.marked /\ marked_list' = c.list
         /\ queue_pos' = [queue_pos EXCEPT ![r] = NOT_QUEUED]
  /\ queue_list' = Tail(queue_list)
  /\ UNCHANGED << tt, rounds, hit_round_cap, k, walkers, phase, asked >>

(* The stops the scans improved are walked from, once each.                *)
BeginWalks ==
  /\ phase = "scan" /\ queue_list = << >>
  /\ walkers' = marked_list /\ phase' = "walk"
  /\ UNCHANGED << tt, tau, rounds, hit_round_cap, k, marked, marked_list,
                  queue_pos, queue_list, asked >>

WalkFrom ==
  /\ phase = "walk" /\ walkers # << >>
  /\ LET p == Head(walkers)
         c == Walked(Layer, p, tau[k][p])
     IN  tau' = [tau EXCEPT ![k] = c.cur] /\ marked' = c.marked /\ marked_list' = c.list
  /\ walkers' = Tail(walkers)
  /\ UNCHANGED << tt, rounds, hit_round_cap, k, queue_pos, queue_list, phase, asked >>

(* A round that marked nothing is the last; so is the one at the cap.      *)
(* (Mutant: the marks are left.)                                           *)
RoundsLeft == k < max_rounds
AtCap == k = max_rounds
MarksLeft == marked
MarksCleared == marked \ Range(marked_list)

EndQuery ==
  /\ marked' = MarksCleared /\ marked_list' = << >> /\ phase' = "idle" /\ k' = 0

EndRound ==
  /\ phase = "walk" /\ walkers = << >>
  /\ \/ /\ marked_list = << >>
        /\ EndQuery
        /\ UNCHANGED << rounds, hit_round_cap >>
     \/ /\ marked_list # << >> /\ ~ RoundsLeft
        /\ rounds' = k /\ hit_round_cap' = AtCap
        /\ EndQuery
     \/ /\ marked_list # << >> /\ RoundsLeft
        /\ rounds' = k /\ k' = k + 1 /\ phase' = "round"
        /\ UNCHANGED << hit_round_cap, marked, marked_list >>
  /\ UNCHANGED << tt, tau, queue_pos, queue_list, walkers, asked >>

Search == BeginRound \/ ScanRoute \/ BeginWalks \/ WalkFrom \/ EndRound
Next == StartQuery \/ Search

Spec == Init /\ [][Next]_vars

-----------------------------------------------------------------------------
(* RaptorResult.                                                           *)
best(p) == tau[rounds][p]

(* The rounds up to rounds at which the arrival strictly improves.  A walk *)
(* counts, as round 0.                                                     *)
frontier_size(p) ==
  Cardinality({j \in 0 .. rounds : /\ tau[j][p] # RAPTOR_UNREACHED
                                   /\ j > 0 => tau[j][p] # tau[j - 1][p]})

-----------------------------------------------------------------------------
(* A finished layer is exact, and one being written is never too early: a  *)
(* round chains no two trips, a route is entered at its first mark, and a  *)
(* stop not marked has nothing to add (raptor.hpp, "tau(k, p) is the       *)
(* earliest arrival at stop p using AT MOST k trips").  At the end         *)
(* frontier_size is the number of trade-offs between arrival time and      *)
(* trips: of pairs that no pair with fewer trips matches.                  *)
LayersExact ==
  asked # << >> =>
    LET exact == AtMost(tt, max_rounds, Last(asked)[1], Last(asked)[2])
        finished == IF phase = "idle" THEN rounds ELSE k - 1
    IN  /\ \A j \in 0 .. finished : tau[j] = exact[j]
        /\ phase \in {"scan", "walk"} => \A p \in Stop : tau[k][p] >= exact[k][p]
        /\ phase = "idle" =>
             \A p \in Stop :
               frontier_size(p) = Cardinality({j \in 0 .. rounds :
                                     /\ exact[j][p] # UINT32_MAX
                                     /\ \A i \in 0 .. j - 1 : exact[i][p] > exact[j][p]})

(* The marks are the stops whose arrival the last layer improved, each in  *)
(* the list once: what the next round would not scan cannot matter.        *)
MarksAreImprovements ==
  LET last == IF phase = "round" THEN k - 1 ELSE k
      before == IF last = 0 THEN Unreached ELSE tau[last - 1]
  IN  phase # "idle" =>
        /\ marked = {p \in Stop : tau[last][p] < before[p]}
        /\ Range(marked_list) = marked
        /\ Len(marked_list) = Cardinality(marked)

(* Between queries the scratch is as the constructor left it (the comment  *)
(* of run, "marked_ is left all-zero by the previous run").                *)
ScratchClean ==
  phase = "idle" => /\ marked = {} /\ marked_list = << >>
                    /\ queue_pos = NothingQueued /\ queue_list = << >>
=============================================================================
