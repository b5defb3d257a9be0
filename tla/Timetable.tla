------------------------------ MODULE Timetable ------------------------------
(***************************************************************************)
(* RaptorTimetable (include/raptor.hpp), what RaptorBuilder builds and     *)
(* Raptor searches: a record                                               *)
(*   routes    : a sequence of [stops, trips], trips a sequence of         *)
(*               sequences of [arrival, departure], one per stop           *)
(*   transfers : for each stop a sequence of [destination, travel_time]    *)
(* It stands for the flat arrays of the struct and their offsets.          *)
(***************************************************************************)
EXTENDS Feed

StopTime == [arrival : Nat, departure : Nat]
TransferEdge == [destination : Stop, travel_time : Nat]

(* Pointwise "no later than" over a whole trip.                            *)
no_later_than(a, b) ==
  \A i \in DOMAIN a : a[i].arrival <= b[i].arrival /\ a[i].departure <= b[i].departure

(* The @post of RaptorBuilder::build: as many times as stops in each trip, *)
(* and no trip of a route overtakes a later one.                           *)
WellBuilt(tt) ==
  /\ tt.routes \in Seq([stops : Seq(Stop), trips : Seq(Seq(StopTime))])
  /\ \A r \in DOMAIN tt.routes :
       LET trips == tt.routes[r].trips
       IN  /\ \A m \in DOMAIN trips : Len(trips[m]) = Len(tt.routes[r].stops)
           /\ \A a, b \in DOMAIN trips : a < b => no_later_than(trips[a], trips[b])
  /\ tt.transfers \in [Stop -> Seq(TransferEdge)]

(* The check the tools make when they load a feed.  (Mutant: only walks    *)
(* that exist are compared.)                                               *)
ClosedWhereLinked(tt) ==
  \A p \in Stop : \A a \in Range(tt.transfers[p]) :
    \A b \in Range(tt.transfers[a.destination]) :
      \A c \in Range(tt.transfers[p]) :
        c.destination = b.destination => c.travel_time <= a.travel_time + b.travel_time
transfers_are_transitively_closed(tt) ==
  \A p \in Stop : \A a \in Range(tt.transfers[p]) :
    \A b \in Range(tt.transfers[a.destination]) :
      b.destination # p =>
        \E c \in Range(tt.transfers[p]) : /\ c.destination = b.destination
                                          /\ c.travel_time <= a.travel_time + b.travel_time
=============================================================================
