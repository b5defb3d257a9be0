----------------------------- MODULE GraphBuilder -----------------------------
(***************************************************************************)
(* GraphBuilder::build_with_transfers (src/graph_builder.cpp) for an index *)
(* map that covers 0 .. NumStops-1: the time-dependent graph of a feed.    *)
(***************************************************************************)
EXTENDS Feed

CONSTANT synthetic_crowd_weight   \* [departure time -> 0 .. 1000]

(* One edge per consecutive pair of a trip, unless a guard drops it.       *)
(* (Mutant: passengers may be set down where drop_off_type forbids it.)    *)
EdgeAdmittedAnywhere(from, to) ==
  /\ from.pickup_type # 1
  /\ from.departure_time # UINT32_MAX /\ to.arrival_time # UINT32_MAX
  /\ from.stop # Unresolved /\ to.stop # Unresolved
  /\ to.arrival_time >= from.departure_time
EdgeAdmitted(from, to) ==
  /\ from.pickup_type # 1
  /\ to.drop_off_type # 1
  /\ from.departure_time # UINT32_MAX /\ to.arrival_time # UINT32_MAX
  /\ from.stop # Unresolved /\ to.stop # Unresolved
  /\ to.arrival_time >= from.departure_time

Segments(f) ==
  UNION {LET rs == TripRecords(f, t)
         IN  {<< rs[k], rs[k + 1] >> : k \in 1 .. Len(rs) - 1} : t \in Trips(f)}

AtLeastOneSecond(raw) == IF raw = 0 THEN 1 ELSE raw

EdgeOf(objective, s) ==
  [destination |-> s[2].stop,
   departure_time |-> s[1].departure_time,
   travel_time |-> AtLeastOneSecond(s[2].arrival_time - s[1].departure_time),
   secondary_weight |-> IF objective = "TransferCount" THEN 0
                        ELSE synthetic_crowd_weight[s[1].departure_time],
   penalty |-> 0]

EdgeBefore(a, b) ==
  \/ a.departure_time < b.departure_time
  \/ /\ a.departure_time = b.departure_time
     /\ \/ a.destination < b.destination
        \/ a.destination = b.destination /\ a.travel_time < b.travel_time

edges_of(f, objective, u) ==
  LET out == {s \in Segments(f) : EdgeAdmitted(s[1], s[2]) /\ s[1].stop = u}
      before(a, b) ==
        LET ea == EdgeOf(objective, a)
            eb == EdgeOf(objective, b)
        IN  IF ea # eb THEN EdgeBefore(ea, eb)
            ELSE \/ a[1].trip_id < b[1].trip_id
                 \/ a[1].trip_id = b[1].trip_id /\ a[1].stop_sequence < b[1].stop_sequence
      sorted == Sorted(out, before)
  IN  [i \in DOMAIN sorted |-> EdgeOf(objective, sorted[i])]

(* Unresolved ends and self-loops are dropped, zero times clamped; of two   *)
(* records of one pair std::sort may leave either first, here the earlier.  *)
TransferAdmitted(t) ==
  t.from_stop # Unresolved /\ t.to_stop # Unresolved /\ t.from_stop # t.to_stop

transfers_of(f, u) ==
  LET kept == {i \in DOMAIN f.transfers : TransferAdmitted(f.transfers[i])
                                          /\ f.transfers[i].from_stop = u}
      before(i, j) ==
        IF f.transfers[i].to_stop = f.transfers[j].to_stop THEN i < j
        ELSE f.transfers[i].to_stop < f.transfers[j].to_stop
      sorted == Sorted(kept, before)
  IN  [i \in DOMAIN sorted |->
         LET t == f.transfers[sorted[i]]
         IN  [destination |-> t.to_stop,
              travel_time |-> AtLeastOneSecond(t.min_transfer_time)]]

(* Without stop times the graph is left empty, transfers and all.          *)
build_with_transfers(f, objective) ==
  [edges |-> [u \in Stop |-> edges_of(f, objective, u)],
   transfers |-> [u \in Stop |-> IF f.stop_times = {} THEN << >>
                                 ELSE transfers_of(f, u)],
   second_objective |-> objective]
=============================================================================
