---------------------------- MODULE Interpolation ----------------------------
(***************************************************************************)
(* GTFSParser::interpolate_stop_times (src/gtfs_parser.cpp): the blank     *)
(* times of a trip, filled in proportion to the way covered.  The double   *)
(* fractions of the code are exact rationals here, cut to whole seconds as *)
(* the code cuts them.                                                     *)
(***************************************************************************)
EXTENDS SequencesExt

CONSTANTS
  UINT32_MAX,    \* the sentinel of a blank time, later than any time
  haversine_m    \* [<<stop_id, stop_id>> -> Nat]

(* The branch is taken on the arrival alone.                               *)
Timed(r) == r.arrival_time # UINT32_MAX

At(r, arrival, departure) ==
  [r EXCEPT !.arrival_time = arrival, !.departure_time = departure]

(* cum_dist: the way along the rows from p to k.                           *)
Way(rows, p, k) ==
  LET cum_dist[m \in p .. k] ==
        IF m = p THEN 0
        ELSE cum_dist[m - 1] + haversine_m[rows[m - 1].stop_id, rows[m].stop_id]
  IN  cum_dist[k]

(* How far into the dt seconds between the timepoints p and n row k comes. *)
(* (Mutant: the last leg instead of the way from p.)                       *)
LegShare(rows, p, n, k, dt) ==
  IF Way(rows, p, n) > 0 THEN (Way(rows, k - 1, k) * dt) \div Way(rows, p, n)
  ELSE ((k - p) * dt) \div (n - p)
Share(rows, p, n, k, dt) ==
  IF Way(rows, p, n) > 0 THEN (Way(rows, p, k) * dt) \div Way(rows, p, n)
  ELSE ((k - p) * dt) \div (n - p)

Between(rows, p, n, k) ==
  LET t_prev == rows[p].departure_time
      t_next == rows[n].arrival_time
  IN  IF t_next > t_prev THEN t_prev + Share(rows, p, n, k, t_next - t_prev) ELSE t_prev

(* The timepoints of row k's trip before and after it, the rows of a trip  *)
(* being in one piece.                                                     *)
SameTrip(rows, i, k) == rows[i].trip_id = rows[k].trip_id
Earlier(rows, k) == {i \in 1 .. k - 1 : SameTrip(rows, i, k) /\ Timed(rows[i])}
Later(rows, k) == {i \in k + 1 .. Len(rows) : SameTrip(rows, i, k) /\ Timed(rows[i])}

(* A leading blank takes the first timepoint's times, a trailing one the   *)
(* last's; a trip without a timepoint is left alone.  (Mutant: trailing    *)
(* blanks are left.)                                                       *)
TrailingLeft(rows, k) ==
  LET earlier == Earlier(rows, k)
      later == Later(rows, k)
  IN  IF Timed(rows[k]) \/ later = {} THEN rows[k]
      ELSE IF earlier = {} THEN At(rows[k], rows[Min(later)].arrival_time,
                                            rows[Min(later)].departure_time)
      ELSE LET t == Between(rows, Max(earlier), Min(later), k) IN At(rows[k], t, t)
Filled(rows, k) ==
  LET earlier == Earlier(rows, k)
      later == Later(rows, k)
  IN  IF Timed(rows[k]) THEN rows[k]
      ELSE CASE earlier = {} /\ later = {} -> rows[k]
             [] earlier = {} /\ later # {} -> At(rows[k], rows[Min(later)].arrival_time,
                                                          rows[Min(later)].departure_time)
             [] earlier # {} /\ later = {} -> At(rows[k], rows[Max(earlier)].arrival_time,
                                                          rows[Max(earlier)].departure_time)
             [] OTHER -> LET t == Between(rows, Max(earlier), Min(later), k)
                         IN  At(rows[k], t, t)

Interpolated(rows) == [k \in DOMAIN rows |-> Filled(rows, k)]

(* times_interpolated: the blanks of the trips that have a timepoint.      *)
Interpolations(rows) ==
  Cardinality({k \in DOMAIN rows :
                 ~ Timed(rows[k]) /\ Earlier(rows, k) \cup Later(rows, k) # {}})

(* std::sort by trip and stop_sequence; equal rows come in any order.      *)
Precedes(a, b) ==
  \/ a.trip_id < b.trip_id
  \/ a.trip_id = b.trip_id /\ a.stop_sequence <= b.stop_sequence
Orders(rows) ==
  {p \in Bijection(DOMAIN rows, DOMAIN rows) :
     \A i \in 1 .. Len(rows) - 1 : Precedes(rows[p[i]], rows[p[i + 1]])}
=============================================================================
