---------------------------- MODULE MCGTFSParser ----------------------------
(***************************************************************************)
(* Directories that differ from a sound feed in the files about one thing: *)
(* the tables, or the times of at most MaxRows stop times.                 *)
(***************************************************************************)
EXTENDS GTFSParser

CONSTANTS MaxRows, Clock

Agency(form, id) == [form |-> form, agency_id |-> id]
StopRow(form, id) == [form |-> form, stop_id |-> id]
RouteRow(form, id, agency) == [form |-> form, route_id |-> id, agency_id |-> agency]
TripRow(form, id, route) == [form |-> form, trip_id |-> id, route_id |-> route]
StopTime(form, trip, seq, stop, arr, dep) ==
  [form |-> form, trip_id |-> trip, stop_sequence |-> seq, stop_id |-> stop,
   arrival_time |-> arr, departure_time |-> dep]
Walk(form, from, to) == [form |-> form, from_stop_id |-> from, to_stop_id |-> to]

Sound ==
  [agency |-> << Agency("good", 1) >>,
   stops |-> << StopRow("good", 1), StopRow("good", 2), StopRow("good", 3) >>,
   routes |-> << RouteRow("good", 1, 1) >>,
   trips |-> << TripRow("good", 1, 1), TripRow("good", 2, 1) >>,
   stop_times |-> << StopTime("good", 1, 1, 1, 1, 2), StopTime("good", 1, 2, 2, 3, 3) >>,
   transfers |-> << Walk("good", 1, 3) >>]

UpTo(n, S) == UNION {[1 .. k -> S] : k \in 0 .. n}

(* Stops 1 to 3 are known to stops.txt, each in some form, once or twice.  *)
Agencies == {Missing} \cup UpTo(1, {Agency("good", 1), Agency("short", 1)})
StopFiles == {Missing} \cup UpTo(3, [form : {"good", "short", "unreadable"}, stop_id : {1, 2}])
RouteFiles == {Missing} \cup UpTo(1, [form : {"good", "short"}, route_id : {1}, agency_id : {1, 9}])
TripFiles ==
  {Missing} \cup UpTo(2, [form : {"good", "short", "unreadable"}, trip_id : {1}, route_id : {1, 9}])
TimeRows ==
  {StopTime(form, trip, 1, stop, 1, 1) :
     form \in {"good", "short", "badtime", "unreadable"}, trip \in {1, 9}, stop \in {1, 2, 9}}
TransferFiles == {Missing} \cup UpTo(1, [form : {"good", "badtime"}, from_stop_id : {1}, to_stop_id : {1, 2, 9}])

(* Timepoints in full, without a departure, or blank, for one trip whose   *)
(* rows are out of order in the file, for two, one of which uses a         *)
(* stop_sequence twice, or for one that stays where it is.                 *)
Times == {<< UINT32_MAX, UINT32_MAX >>, << UINT32_MAX, 1 >>, << 1, UINT32_MAX >>}
           \cup {<< a, a + 1 >> : a \in Clock}
OneTrip == << << 1, 3, 3 >>, << 1, 1, 1 >>, << 1, 2, 2 >>, << 1, 4, 1 >> >>
TwoTrips == << << 2, 2, 1 >>, << 1, 2, 3 >>, << 2, 1, 2 >>, << 2, 2, 2 >> >>
OneStop == [i \in 1 .. 4 |-> << 1, i, 1 >>]
Timetabled(places) ==
  {[i \in DOMAIN ts |->
      StopTime("good", places[i][1], places[i][2], places[i][3], ts[i][1], ts[i][2])] :
     ts \in UpTo(MaxRows, Times)}

MCDirectories ==
  {[Sound EXCEPT !.agency = a, !.routes = r, !.trips = t] :
     a \in Agencies, r \in RouteFiles, t \in TripFiles}
  \cup {[Sound EXCEPT !.stops = s, !.transfers = w] : s \in StopFiles, w \in TransferFiles}
  \cup {[Sound EXCEPT !.stops = s, !.stop_times = r] :
          s \in {Sound.stops, << StopRow("good", 2) >>}, r \in UpTo(2, TimeRows)}
  \cup {[Sound EXCEPT !.stop_times = r] : r \in Timetabled(OneTrip) \cup Timetabled(TwoTrips)
                                           \cup Timetabled(OneStop) \cup {Missing}}

(* Three stops on a line.                                                  *)
MCHaversine ==
  LET metre == << 0, 3, 4 >>
  IN  [p \in (1 .. 3) \X (1 .. 3) |->
         IF metre[p[1]] < metre[p[2]] THEN metre[p[2]] - metre[p[1]]
         ELSE metre[p[1]] - metre[p[2]]]
=============================================================================
