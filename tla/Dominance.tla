------------------------------ MODULE Dominance ------------------------------
(***************************************************************************)
(* Bi-criteria dominance, and the sorted-vector insertion of               *)
(* ParetoLabelSet::insert_and_dominate (src/routing.cpp) as operators on a *)
(* sequence of labels: records with at least the fields arrival_time and   *)
(* secondary_cost.                                                         *)
(***************************************************************************)
EXTENDS Naturals, Sequences, FiniteSets, FiniteSetsExt

WeaklyDominates(p, q) ==
  /\ p.arrival_time <= q.arrival_time
  /\ p.secondary_cost <= q.secondary_cost

(* The test of the lazy-deletion filter.                                   *)
StrictlyDominates(p, q) ==
  /\ WeaklyDominates(p, q)
  /\ \/ p.arrival_time < q.arrival_time
     \/ p.secondary_cost < q.secondary_cost

(* The reference definition: the non-dominated members of a set of points. *)
Minimal(S) == {p \in S : ~ \E q \in S : StrictlyDominates(q, p)}

-----------------------------------------------------------------------------
(* STEP 1: std::lower_bound, the first position not before new. *)
LowerBound(ls, new) ==
  Min({j \in 1 .. Len(ls) + 1 :
         j <= Len(ls) => ls[j].arrival_time >= new.arrival_time})

(* STEP 2: the left neighbour. *)
RejectedByLeft(ls, new) ==
  LET it == LowerBound(ls, new)
  IN  it > 1 /\ WeaklyDominates(ls[it - 1], new)

(* STEP 2b: the label lower_bound landed on.  (Mutant: ties are let in.) *)
TieLetIn(ls, new) ==
  LET it == LowerBound(ls, new)
  IN  /\ it <= Len(ls)
      /\ ls[it].arrival_time = new.arrival_time
      /\ ls[it].secondary_cost < new.secondary_cost
RejectedBySameTime(ls, new) ==
  LET it == LowerBound(ls, new)
  IN  /\ it <= Len(ls)
      /\ ls[it].arrival_time = new.arrival_time
      /\ ls[it].secondary_cost <= new.secondary_cost

Rejected(ls, new) == RejectedByLeft(ls, new) \/ RejectedBySameTime(ls, new)

(* STEP 3: one past the run of labels that new dominates.  (Mutant: only   *)
(* the label landed on is looked at.)                                      *)
PrunesOne(ls, new) ==
  LET it == LowerBound(ls, new)
  IN  IF it <= Len(ls) /\ ls[it].secondary_cost >= new.secondary_cost
      THEN it + 1 ELSE it
PruneEnd(ls, new) ==
  Min({j \in LowerBound(ls, new) .. Len(ls) + 1 :
         j <= Len(ls) => ls[j].secondary_cost < new.secondary_cost})

(* erase [it, prune_end), insert new there. *)
Inserted(ls, new) ==
  SubSeq(ls, 1, LowerBound(ls, new) - 1) \o << new >>
    \o SubSeq(ls, PruneEnd(ls, new), Len(ls))

(* The frontier after the call, whatever it returned. *)
AfterInsert(ls, new) == IF Rejected(ls, new) THEN ls ELSE Inserted(ls, new)

(* Invariants 1 and 2 of ParetoLabelSet: sorted by arrival, cost falling.  *)
SortedFrontier(ls) ==
  \A i, j \in DOMAIN ls :
    i < j => /\ ls[i].arrival_time < ls[j].arrival_time
             /\ ls[i].secondary_cost > ls[j].secondary_cost
=============================================================================
