-------------------------------- MODULE MCFeed --------------------------------
(***************************************************************************)
(* Feeds made of a few trips of a pool and a few transfers of another.     *)
(***************************************************************************)
EXTENDS Feed

CONSTANTS MaxTrips, MaxRecords   \* at most so many trips, and trips and walks

Row(stop, arr, dep) == StopTimeRecord(0, 0, stop, arr, dep, 0, 0)
NoPickup(r) == [r EXCEPT !.pickup_type = 1]
NoDropOff(r) == [r EXCEPT !.drop_off_type = 1]

Rows(pool, t) ==
  {[pool[t][i] EXCEPT !.trip_id = t, !.stop_sequence = i] : i \in DOMAIN pool[t]}

(* Few trips with many transfers, and many trips with few.                 *)
FeedsOf(pool, transfers, max_trips, max_records) ==
  UNION {{[stop_times |-> UNION {Rows(pool, t) : t \in ts},
           transfers |-> SelectSeq(transfers, LAMBDA w : w \in ws)] :
            ts \in kSubset(n, DOMAIN pool),
            ws \in UNION {kSubset(m, Range(transfers)) : m \in 0 .. max_records - n}} :
           n \in 0 .. max_trips}
=============================================================================
