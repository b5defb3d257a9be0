----------------------------- MODULE MCFeedStudy -----------------------------
(***************************************************************************)
(* The pool has overtaking trips, missing times, stops the index does not  *)
(* know, restricted boarding, rides of no time, trips that leave a stop    *)
(* before they reach it and one that ends past midnight; its walks make a  *)
(* chain longer than the guard.  A day has three hours of four seconds.    *)
(***************************************************************************)
EXTENDS FeedStudy, MCFeed

CONSTANT MaxWalks

TripPool ==
  << << Row(0, 0, 0), Row(1, 2, 2), Row(2, 4, 4) >>,          \* plain
     << Row(0, 1, 1), Row(1, 2, 2), Row(2, 3, 3) >>,          \* overtakes it
     << Row(0, 1, 1), Row(1, 3, 3), Row(2, 5, 5) >>,          \* follows it
     << Row(0, 2, 2), Row(1, 2, 2), Row(2, 3, 3) >>,          \* no time, leaves too soon
     << Row(0, 1, 1), Row(1, 3, 2), Row(2, 4, 4) >>,          \* leaves before it arrives
     << Row(0, 0, 0), Row(1, 1, UINT32_MAX), Row(2, 3, 3) >>, \* one time missing
     << Row(0, 0, 0), NoPickup(Row(1, 1, 1)), Row(2, 2, 2) >>,
     << Row(0, 3, 3), NoDropOff(Row(1, 4, 4)), Row(2, 5, 5) >>,
     << Row(0, 0, 0), Row(Unresolved, 1, 1), Row(2, 2, 2) >>,
     << Row(2, 3, 3), Row(1, 2, 2), Row(0, 4, 4) >>,          \* goes back in time
     << Row(2, 0, 0), Row(0, 1, 1), Row(2, 2, 2), Row(1, 3, 4) >>,
     << Row(3, 4, 4), Row(2, 6, 6), Row(0, 11, 11), Row(1, 13, 13), Row(3, 14, 14) >> >>

TransferPool ==
  << TransferRecord(0, 1, 3), TransferRecord(1, 2, 1), TransferRecord(0, 2, 5),
    TransferRecord(2, 0, 0), TransferRecord(0, 1, 2), TransferRecord(1, 1, 1),
    TransferRecord(2, Unresolved, 1), TransferRecord(2, 3, 1), TransferRecord(3, 4, 1) >>

MCWeights == [t \in 0 .. 13 |-> t % 3]
MCRouteOfTrip == [t \in 1 .. 11 |-> t % 4]   \* the twelfth is not in trips.txt

-----------------------------------------------------------------------------
MCRidershipName == << "a", "b", "c", "b" >> @@ (0 :> "d")
MCAliases == "alias" :> "d"
MCRidershipFiles ==
  { << RidershipRow(1, "d", 0, 1), RidershipRow(1, "d", 2, 9), RidershipRow(2, "a", 1, 7) >>,
    << RidershipRow(1, "d", 0, 6), RidershipRow(1, "alias", 0, 4), RidershipRow(2, "b", 1, 2) >>,
    << RidershipRow(1, "nowhere", 0, 6), RidershipRow(1, "d", 3, 6), RidershipRow(1, "d", 0, -1),
       RidershipRow(1, "a", 1, Unreadable) >> }
MCCrowdFeeds == FeedsOf(TripPool, << >>, MaxTrips, MaxTrips)
MCCrowdConfigs == [scale : {4, 9}, interpolate : BOOLEAN]

-----------------------------------------------------------------------------
Position == << 60, 30, 90, 200 >> @@ (0 :> 0)
MCHaversine ==
  [uv \in Stop \X Stop |-> LET d == Position[uv[1]] - Position[uv[2]] IN IF d < 0 THEN - d ELSE d]
MCStopName == << "a", "b", "c", "b" >> @@ (0 :> "b")

(* Trips that meet only where a footpath is added, at once or too late.    *)
SearchPool ==
  SubSeq(TripPool, 1, 1) \o SubSeq(TripPool, 8, 8) \o SubSeq(TripPool, 10, 12)
    \o << << Row(0, 1, 1), Row(1, 2, 2) >>,
          << Row(3, 4, 4), Row(4, 5, 5) >>,
          << Row(3, 2, 2), Row(2, 4, 4), Row(4, 5, 5) >>,
          << Row(2, 4, 4), Row(4, 5, 5), Row(0, 7, 7) >> >>
MCSearchedFeeds ==
  {f \in FeedsOf(SearchPool, << TransferPool[2], TransferPool[3], TransferPool[8] >>, 2, 3) :
     Trips(f) # {} /\ Len(f.transfers) <= 1}
MCSearchConfigs ==
  {[max_walk_m |-> 90, walk_speed |-> 20, min_walk_time_s |-> 1, threshold_index |-> 1,
    accessibility |-> [thresholds_s |-> << 5 >>, departures |-> << 0, 1 >>, max_changes |-> c]] :
     c \in {0, 2}}

(* Footpaths do not depend on the trips: one is enough for many walks.     *)
MCFeeds ==
  FeedsOf(TripPool, TransferPool, MaxTrips, MaxRecords)
    \cup FeedsOf(SubSeq(TripPool, 1, 1), TransferPool, 1, MaxWalks + 1)
    \cup MCSearchedFeeds
=============================================================================
