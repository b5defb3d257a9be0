------------------------------ MODULE GTFSParser ------------------------------
(***************************************************************************)
(* The load protocol of GTFSParser (src/gtfs_parser.cpp) as main and the   *)
(* tools run it: the loaders in order inside one try, then the choice of   *)
(* the graph in main_bench.cpp, which goes on with whatever was read.      *)
(*                                                                         *)
(* A file is Missing or a sequence of rows.  A row's form says what its    *)
(* text allows: "good"; "short", too few columns or a column whose error   *)
(* is caught before the foreign keys are looked at; "badtime", caught      *)
(* after them; "unreadable", a number whose error is not caught.           *)
(* The loaders of the calendar files and check_frequencies keep no state.  *)
(***************************************************************************)
EXTENDS Interpolation

CONSTANTS Directories, Missing

(* The columns looked at, a time of UINT32_MAX being a blank one.          *)
Forms == {"good", "short", "badtime", "unreadable"}
Columns ==
  [agency     |-> [form : Forms, agency_id : Nat],
   stops      |-> [form : Forms, stop_id : Nat],
   routes     |-> [form : Forms, route_id : Nat, agency_id : Nat],
   trips      |-> [form : Forms, trip_id : Nat, route_id : Nat],
   stop_times |-> [form : Forms, trip_id : Nat, stop_sequence : Nat, stop_id : Nat,
                   arrival_time : 0 .. UINT32_MAX, departure_time : 0 .. UINT32_MAX],
   transfers  |-> [form : Forms, from_stop_id : Nat, to_stop_id : Nat]]
ASSUME SentinelAssumption == UINT32_MAX \in Nat
ASSUME DirectoriesAssumption ==
  \A d \in Directories : \A table \in DOMAIN Columns :
    d[table] = Missing \/ d[table] \in Seq(Columns[table])
ASSUME DistancesAssumption ==
  \A d \in Directories : d.stops # Missing =>
    \A a, b \in Range(d.stops) : haversine_m[a.stop_id, b.stop_id] \in Nat

VARIABLES files, at, failed, agencies, stops, routes, trips, stop_times, transfers,
          stop_index_map, stats, graph
vars == << files, at, failed, agencies, stops, routes, trips, stop_times, transfers,
           stop_index_map, stats, graph >>

(* The calls of main, in order, and its next step.                         *)
Calls == << "load_agency", "load_stops", "load_routes", "load_trips", "load_stop_times",
            "load_transfers", "interpolate_stop_times", "choose_graph", "done" >>

valid_stop_ids == {s.stop_id : s \in Range(stops)}
valid_route_ids == {r.route_id : r \in Range(routes)}
valid_trip_ids == {t.trip_id : t \in Range(trips)}
valid_agency_ids == {a.agency_id : a \in Range(agencies)}

-----------------------------------------------------------------------------
(* What becomes of a row: a counter of ParseStats, or "thrown".            *)
Parsed(row) == CASE row.form = "good" -> "rows_accepted"
                 [] row.form = "unreadable" -> "thrown"
                 [] OTHER -> "rows_dropped_fmt"

AgencyVerdict(row) == Parsed(row)
StopVerdict(row) == Parsed(row)
RouteVerdict(row) ==
  IF row.form # "short" /\ agencies # << >> /\ row.agency_id \notin valid_agency_ids
  THEN "rows_dropped_fk" ELSE Parsed(row)
TripVerdict(row) ==
  IF row.form # "short" /\ row.route_id \notin valid_route_ids
  THEN "rows_dropped_fk" ELSE Parsed(row)
(* (Mutant: the stop is not looked up.) *)
TripLookedUp(row) ==
  IF row.form # "short" /\ row.trip_id \notin valid_trip_ids
  THEN "rows_dropped_fk" ELSE Parsed(row)
StopTimeVerdict(row) ==
  IF row.form # "short" /\ (row.trip_id \notin valid_trip_ids \/ row.stop_id \notin valid_stop_ids)
  THEN "rows_dropped_fk" ELSE Parsed(row)
TransferVerdict(row) ==
  IF row.form = "good" /\ row.from_stop_id # row.to_stop_id
       /\ {row.from_stop_id, row.to_stop_id} \subseteq valid_stop_ids
  THEN "rows_accepted" ELSE "dropped"

Verdict(table, row) == CASE table = "agency" -> AgencyVerdict(row)
                         [] table = "stops" -> StopVerdict(row)
                         [] table = "routes" -> RouteVerdict(row)
                         [] table = "trips" -> TripVerdict(row)
                         [] table = "stop_times" -> StopTimeVerdict(row)
                         [] table = "transfers" -> TransferVerdict(row)

(* The rows of a file up to the one that throws, and the accepted ones,    *)
(* one push_back each.                                                     *)
Throws(table) == \E row \in Range(files[table]) : Verdict(table, row) = "thrown"
Rows(table) ==
  LET file == files[table]
      bad == {i \in DOMAIN file : Verdict(table, file[i]) = "thrown"}
  IN  IF bad = {} THEN file ELSE SubSeq(file, 1, Min(bad))
Kept(table) ==
  IF files[table] = Missing THEN << >>
  ELSE FoldLeft(LAMBDA kept, row :
                  IF Verdict(table, row) = "rows_accepted" THEN Append(kept, row) ELSE kept,
                << >>, Rows(table))

(* The counters of ParseStats that a row moves.  (Mutant: a row counts as  *)
(* accepted before its last column is read.)                               *)
CountedEarly(verdict) ==
  {"rows_read", IF verdict = "thrown" THEN "rows_accepted" ELSE verdict}
Counters(verdict) == {"rows_read", verdict}
Counted(table) ==
  [c \in DOMAIN stats |->
     stats[c] + Cardinality({i \in DOMAIN Rows(table) :
                               c \in Counters(Verdict(table, Rows(table)[i]))})]

(* An exception ends the try block, also one of a file that is not there.  *)
Call(name) == Calls[at] = name /\ UNCHANGED files
Proceeds(thrown) ==
  /\ failed' = thrown
  /\ at' = IF thrown THEN SelectInSeq(Calls, LAMBDA c : c = "choose_graph") ELSE at + 1

Reads(table) ==
  IF files[table] = Missing THEN Proceeds(TRUE) /\ UNCHANGED stats
  ELSE Proceeds(Throws(table)) /\ stats' = Counted(table)

-----------------------------------------------------------------------------
Init ==
  /\ files \in Directories
  /\ at = 1 /\ failed = FALSE
  /\ agencies = << >> /\ stops = << >> /\ routes = << >> /\ trips = << >>
  /\ stop_times = << >> /\ transfers = << >>
  /\ stop_index_map = << >>
  /\ stats = [rows_read |-> 0, rows_accepted |-> 0, rows_dropped_fk |-> 0,
              rows_dropped_fmt |-> 0, times_interpolated |-> 0]
  /\ graph = "none"

load_agency ==
  /\ Call("load_agency") /\ Reads("agency")
  /\ agencies' = agencies \o Kept("agency")
  /\ UNCHANGED << stops, routes, trips, stop_times, transfers, stop_index_map, graph >>

(* A stop's index is its place among the accepted rows; a stop_id that     *)
(* comes again takes the later place.  (Mutant: dropped rows count too.)   *)
PlaceInFile(id) == Max({i \in DOMAIN files.stops : files.stops[i].stop_id = id}) - 1
DenseIndex(id) ==
  LET read == Kept("stops")
  IN  Max({i \in DOMAIN read : read[i].stop_id = id}) - 1

load_stops ==
  /\ Call("load_stops") /\ Reads("stops")
  /\ stops' = stops \o Kept("stops")
  /\ stop_index_map' = [id \in valid_stop_ids' |-> DenseIndex(id)]
  /\ UNCHANGED << agencies, routes, trips, stop_times, transfers, graph >>

load_routes ==
  /\ Call("load_routes") /\ Reads("routes")
  /\ routes' = routes \o Kept("routes")
  /\ UNCHANGED << agencies, stops, trips, stop_times, transfers, stop_index_map, graph >>

load_trips ==
  /\ Call("load_trips") /\ Reads("trips")
  /\ trips' = trips \o Kept("trips")
  /\ UNCHANGED << agencies, stops, routes, stop_times, transfers, stop_index_map, graph >>

load_stop_times ==
  /\ Call("load_stop_times") /\ Reads("stop_times")
  /\ stop_times' = stop_times \o Kept("stop_times")
  /\ UNCHANGED << agencies, stops, routes, trips, transfers, stop_index_map, graph >>

(* An absent transfers.txt is no error, and its rows are not counted.      *)
load_transfers ==
  /\ Call("load_transfers") /\ Proceeds(FALSE)
  /\ transfers' = transfers \o Kept("transfers")
  /\ UNCHANGED << agencies, stops, routes, trips, stop_times, stop_index_map, stats, graph >>

interpolate_stop_times ==
  /\ Call("interpolate_stop_times") /\ Proceeds(FALSE)
  /\ \E p \in Orders(stop_times) :
       LET sorted == [i \in DOMAIN stop_times |-> stop_times[p[i]]]
       IN  /\ stop_times' = Interpolated(sorted)
           /\ stats' = [stats EXCEPT !.times_interpolated = @ + Interpolations(sorted)]
  /\ UNCHANGED << agencies, stops, routes, trips, transfers, stop_index_map, graph >>

(* main's second step: the graph of what was read, named by its second     *)
(* objective, or the synthetic one.                                        *)
choose_graph ==
  /\ Call("choose_graph")
  /\ graph' = CASE stop_times = << >> -> "synthetic"
                [] stop_times # << >> /\ transfers # << >> -> "TransferCount"
                [] OTHER -> "CrowdExposure"
  /\ at' = at + 1
  /\ UNCHANGED << failed, agencies, stops, routes, trips, stop_times, transfers,
                  stop_index_map, stats >>

Next ==
  \/ load_agency \/ load_stops \/ load_routes \/ load_trips
  \/ load_stop_times \/ load_transfers \/ interpolate_stop_times \/ choose_graph
Spec == Init /\ [][Next]_vars

-----------------------------------------------------------------------------
(* Whatever was read, also by a load that broke off: every row kept names  *)
(* rows that are kept, and every stop it names has an index, the place of  *)
(* a row of that stop among the num_stops nodes the builders are told of   *)
(* ("drop malformed records ... before they poison downstream state").     *)
ReferencesHold ==
  /\ \A t \in Range(trips) : t.route_id \in valid_route_ids
  /\ \A r \in Range(stop_times) : /\ r.trip_id \in valid_trip_ids
                                  /\ r.stop_id \in DOMAIN stop_index_map
  /\ \A w \in Range(transfers) :
       {w.from_stop_id, w.to_stop_id} \subseteq DOMAIN stop_index_map

IndexNamesStop ==
  \A id \in DOMAIN stop_index_map :
    LET n == stop_index_map[id] IN n < Len(stops) /\ stops[n + 1].stop_id = id

(* ParseStats account for every row: a row that throws, and no other, is   *)
(* read and neither accepted nor dropped.                                  *)
RowsAccounted ==
  LET settled == stats.rows_accepted + stats.rows_dropped_fk + stats.rows_dropped_fmt
  IN  /\ stats.rows_accepted = Len(agencies) + Len(stops) + Len(routes) + Len(trips)
                                + Len(stop_times)
      /\ settled <= stats.rows_read
      /\ stats.rows_read <= settled + (IF failed THEN 1 ELSE 0)

(* What the filling leaves blank.  A time of a trip with a timepoint stays *)
(* blank only because of a timepoint without a departure: an arrival inside*)
(* a gap behind one, a departure behind one or, at the start, before the   *)
(* first.  (So a trip whose timepoints have both times is filled whole.)   *)
(* Rows with an arrival, the stops of all, and trips without a timepoint   *)
(* stay as they are.                                                       *)
ArrivalKnown(r) == r.arrival_time # UINT32_MAX
BothKnown(r) == ArrivalKnown(r) /\ r.departure_time # UINT32_MAX
Full(rows) == \A r \in rows : BothKnown(r)
TripIds(rows) == {r.trip_id : r \in Range(rows)}
OfTrip(rows, t) == {r \in Range(rows) : r.trip_id = t}
Timepoints(rows, t) == {r \in OfTrip(rows, t) : ArrivalKnown(r)}
Visits(rows, t) == {<< r.stop_sequence, r.stop_id >> : r \in OfTrip(rows, t)}
Undeparted(known) == {q \in known : q.departure_time = UINT32_MAX}
LastBefore(known, q, r) ==
  /\ q.stop_sequence <= r.stop_sequence
  /\ \A z \in known : z.stop_sequence <= q.stop_sequence \/ r.stop_sequence <= z.stop_sequence
FirstAfter(known, q, r) ==
  /\ r.stop_sequence <= q.stop_sequence
  /\ \A z \in known : q.stop_sequence <= z.stop_sequence
BlankExplained(known, r) ==
  /\ r.arrival_time = UINT32_MAX =>
       /\ \E q \in Undeparted(known) : LastBefore(known, q, r)
       /\ \E z \in known : r.stop_sequence <= z.stop_sequence
  /\ r.departure_time = UINT32_MAX =>
       \E q \in Undeparted(known) : LastBefore(known, q, r) \/ FirstAfter(known, q, r)
BlanksExplained ==
  [][interpolate_stop_times =>
       \A t \in TripIds(stop_times) :
         LET own == OfTrip(stop_times, t)
             known == Timepoints(stop_times, t)
             then == OfTrip(stop_times', t)
         IN  /\ known # {} => \A r \in then : BlankExplained(known, r)
             /\ (IF known = {} THEN own ELSE known) \subseteq then
             /\ Visits(stop_times, t) = Visits(stop_times', t)]_vars

(* A trip with times at both ends, as GTFS demands, whose timepoints are   *)
(* in order is in order when it is filled: no vehicle leaves before it     *)
(* arrives or arrives before it left a stop before, which both builders    *)
(* would cut out.  (A blank end copies both times of its neighbour: with a *)
(* dwell there it leaves after the next arrival.)                          *)
InOrder(rows) ==
  \A r \in rows : r.arrival_time <= r.departure_time
RunsForward(rows) ==
  \A a, b \in rows : a.stop_sequence < b.stop_sequence => a.departure_time <= b.arrival_time
OnceEach(rows, t) ==
  \A i, j \in DOMAIN rows :
    rows[i].trip_id = t /\ rows[j].trip_id = t /\ rows[i].stop_sequence = rows[j].stop_sequence
      => i = j
EndsIn(rows, known) ==
  \A r \in rows : \E a, b \in known :
    a.stop_sequence <= r.stop_sequence /\ r.stop_sequence <= b.stop_sequence
TimesInOrder ==
  [][interpolate_stop_times =>
       \A t \in TripIds(stop_times) :
         LET own == OfTrip(stop_times, t)
             known == Timepoints(stop_times, t)
             then == OfTrip(stop_times', t)
         IN  (/\ Full(known) /\ InOrder(known) /\ RunsForward(known)
              /\ OnceEach(stop_times, t) /\ EndsIn(own, known))
               => InOrder(then) /\ RunsForward(then)]_vars

(* "@post Every StopTimeRecord belonging to a trip with >= 1 defined       *)
(* timepoint has non-sentinel arrival_time and departure_time" (gtfs_      *)
(* parser.hpp), a timepoint being a row with both times.                   *)
TimedTripsFilled ==
  (Calls[at] = "choose_graph" /\ ~ failed) =>
     \A t \in TripIds(stop_times) :
       LET rows == OfTrip(stop_times, t)
       IN  (\E r \in rows : BothKnown(r)) => Full(rows)

(* "GTFS load failed: ... Running with synthetic graph for demonstration"  *)
(* (main_bench.cpp).                                                       *)
FailedLoadFallsBack == (failed /\ graph # "none") => graph = "synthetic"
=============================================================================
