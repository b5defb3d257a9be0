----------------------------- MODULE MCRaptorGate -----------------------------
(***************************************************************************)
(* Four stops: a chain of three trips against slower through trips, two    *)
(* trips that overtake, a loop, and walks that shorten the feed's own.     *)
(***************************************************************************)
EXTENDS RaptorGate, MCFeed

TripPool ==
  << << Row(0, 0, 0), Row(1, 1, 1) >>,
     << Row(1, 1, 1), Row(2, 2, 2) >>,
     << Row(2, 2, 2), Row(3, 3, 3) >>,
     << Row(0, 0, 0), Row(1, 2, 3), Row(3, 6, 6) >>,
     << Row(0, 1, 1), Row(1, 3, 3), Row(3, 5, 5) >>,    \* overtakes the one before
     << Row(3, 1, 1), Row(0, 2, 2), Row(2, 3, 3), Row(0, 4, 4), Row(1, 5, 5) >>,
     << Row(0, 0, 0), Row(2, 1, UINT32_MAX), Row(3, 2, 2) >>,
     << Row(2, 3, 3), Row(1, 2, 2) >> >>                \* no usable run

TransferPool ==
  << TransferRecord(0, 1, 4), TransferRecord(0, 2, 1), TransferRecord(2, 1, 2),
     TransferRecord(1, 3, 0) >>

MCFeeds == FeedsOf(TripPool, TransferPool, MaxTrips, MaxRecords)
MCTimetables == {build(f) : f \in Feeds}
MCWeights == [t \in 0 .. 10 |-> 0]
=============================================================================
