------------------------------ MODULE ArrivalLaw ------------------------------
(***************************************************************************)
(* Arrival laws of src/src/risk.cpp: the arrival time at a node under each *)
(* of finitely many equally likely scenarios, the periodic legs that       *)
(* extend them, and the five orders that decide which of two laws may be   *)
(* discarded.  A law is the sequence by_scenario; sorted_ and tail_suffix_ *)
(* are the operators sorted and tail_totals.                               *)
(***************************************************************************)
EXTENDS Integers, Sequences, FiniteSets, FiniteSetsExt

certain(num_scenarios, t) == [w \in 1 .. num_scenarios |-> t]

(* Each arrival with its place in the ascending order, ties in the order   *)
(* of the scenarios.                                                       *)
Placed(law) ==
  {<< Cardinality({x \in DOMAIN law : law[x] < law[w] \/ (law[x] = law[w] /\ x <= w)}),
      law[w] >> : w \in DOMAIN law}
sorted(law) ==
  LET placed == Placed(law)
  IN  [i \in 1 .. Len(law) |-> (CHOOSE p \in placed : p[1] = i)[2]]

(* tail_totals(law)[m] is the sum of the m latest arrivals, m = 0 .. size. *)
tail_totals(law) ==
  LET s == sorted(law)
      n == Len(law)
      suffix[m \in 0 .. n] == IF m = 0 THEN 0 ELSE suffix[m - 1] + s[n - m + 1]
  IN  suffix
total(law) == tail_totals(law)[Len(law)]

-----------------------------------------------------------------------------
(* A leg departs at offset_s + k * headway_s for every integer k, all of   *)
(* its departures shifted together in each scenario.                       *)
StochasticLeg(from, to, headway, offset, ride, shift, delay) ==
  [from |-> from, to |-> to, headway_s |-> headway, offset_s |-> offset,
   ride_s |-> ride, min_transfer_s |-> 0, shift_s |-> shift, delay_s |-> delay]

ceil_div(a, b) == IF a >= 0 THEN (a + b - 1) \div b ELSE - ((- a) \div b)

at_or_zero(v, w) == IF v = << >> THEN 0 ELSE v[w]

extend_one(arrival, leg, w) ==
  LET shift == at_or_zero(leg.shift_s, w)
      ready == arrival + leg.min_transfer_s
      k == ceil_div(ready - shift - leg.offset_s, leg.headway_s)
  IN  leg.offset_s + k * leg.headway_s + shift + leg.ride_s + at_or_zero(leg.delay_s, w)

extend(law, leg) == [w \in 1 .. Len(law) |-> extend_one(law[w], leg, w)]

-----------------------------------------------------------------------------
dominates_statewise(a, b) == \A w \in 1 .. Len(a) : a[w] <= b[w]

(* The i-th smallest arrival is the quantile at i / size.  (Mutant: only   *)
(* the best and the worst case are compared.)                              *)
dominates_at_the_ends(a, b) ==
  LET sa == sorted(a)
      sb == sorted(b)
  IN  sa[1] <= sb[1] /\ sa[Len(a)] <= sb[Len(b)]
dominates_stochastically(a, b) == dominates_statewise(sorted(a), sorted(b))

dominates_in_all_tail_averages(a, b) ==
  LET ta == tail_totals(a)
      tb == tail_totals(b)
  IN  \A m \in 1 .. Len(a) : ta[m] <= tb[m]

dominates_scalar(a, b, tail_count) ==
  LET ta == tail_totals(a)
      tb == tail_totals(b)
  IN  ta[Len(a)] <= tb[Len(b)] /\ ta[tail_count] <= tb[tail_count]

dominates(a, b, rule) ==
  CASE rule.order = "None" -> FALSE
    [] rule.order = "Statewise" -> dominates_statewise(a, b)
    [] rule.order = "FirstOrderStochastic" -> dominates_stochastically(a, b)
    [] rule.order = "AllTailAverages" -> dominates_in_all_tail_averages(a, b)
    [] rule.order = "Scalar" -> dominates_scalar(a, b, rule.tail_count)

-----------------------------------------------------------------------------
(* A leg under which a becomes worse than b on average, for an a that does *)
(* not stochastically dominate b; NoLeg when a does.                       *)
(* The headway brings every arrival to the departure at the threshold or   *)
(* to the next one.  (Mutant: it is a second short.)                       *)
NoLeg == << >>

headway_short(theta, lo, hi) == Max({hi - theta, theta - lo, 1})
headway_around(theta, lo, hi) == Max({hi - theta + 1, theta - lo + 1, 1})

separating_leg(a, b) ==
  LET sa == sorted(a)
      sb == sorted(b)
      n == Len(a)
      later == {i \in 1 .. n : sa[i] > sb[i]}
      theta == sb[Min(later)]
      headway == headway_around(theta, Min({sa[1], sb[1]}), Max({sa[n], sb[n]}))
  IN  IF later = {} THEN NoLeg
      ELSE StochasticLeg(0, 0, headway, theta, 0, << >>, << >>)
=============================================================================
