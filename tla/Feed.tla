--------------------------------- MODULE Feed ---------------------------------
(***************************************************************************)
(* What GTFSParser hands to the two builders: stop times and transfers.    *)
(* A feed is a record                                                      *)
(*   stop_times : a set of StopTimeRecord, its stop_sequence unique within *)
(*                the trip                                                 *)
(*   transfers  : a sequence of TransferRecord                             *)
(* A stop_id is written as the node that stop_index_map gives it, or as    *)
(* Unresolved when the map does not have it.                               *)
(***************************************************************************)
EXTENDS SequencesExt

CONSTANTS
  NumStops,    \* num_stops, the size of the index
  UINT32_MAX   \* the sentinel of a missing time, later than any time

Stop == 0 .. NumStops - 1
Unresolved == NumStops

StopTimeRecord(trip, seq, stop, arr, dep, pickup, drop_off) ==
  [trip_id |-> trip, stop_sequence |-> seq, stop |-> stop,
   arrival_time |-> arr, departure_time |-> dep,
   pickup_type |-> pickup, drop_off_type |-> drop_off]

TransferRecord(from, to, time) ==
  [from_stop |-> from, to_stop |-> to, min_transfer_time |-> time]

Trips(f) == {r.trip_id : r \in f.stop_times}

(* What the parser keeps of a row, and what it leaves the builders.        *)
StopTimeRecords ==
  [trip_id : Nat, stop_sequence : Nat, stop : 0 .. NumStops,
   arrival_time : 0 .. UINT32_MAX, departure_time : 0 .. UINT32_MAX,
   pickup_type : Nat, drop_off_type : Nat]
TransferRecords ==
  [from_stop : 0 .. NumStops, to_stop : 0 .. NumStops, min_transfer_time : Nat]
WellFormed(f) ==
  /\ f.stop_times \in SUBSET StopTimeRecords /\ IsFiniteSet(f.stop_times)
  /\ \A a, b \in f.stop_times :
       a.trip_id = b.trip_id /\ a.stop_sequence = b.stop_sequence => a = b
  /\ f.transfers \in Seq(TransferRecords)

(* The elements of S in the order Before, a strict total order on S.       *)
InOrderOf(S, before) ==
  [i \in 1 .. Cardinality(S) |->
     CHOOSE x \in S : Cardinality({y \in S : << y, x >> \in before}) = i - 1]
Sorted(S, Before(_, _)) == InOrderOf(S, {p \in S \X S : Before(p[1], p[2])})

(* The records of a trip by stop_sequence. *)
TripRecords(f, t) ==
  Sorted({r \in f.stop_times : r.trip_id = t},
         LAMBDA a, b : a.stop_sequence < b.stop_sequence)
=============================================================================
