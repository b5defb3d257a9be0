--------------------------- MODULE RiskSearch_proofs ---------------------------
(***************************************************************************)
(* For every network, rule and leg bound: labels keep what explains them,  *)
(* frontiers hold exactly the survivors, and a frontier always holds a     *)
(* label that dominates whatever was discarded at its node; from there,    *)
(* the labels' journeys replay, the separating legs separate, and a search *)
(* that the theorems of risk.cpp support agrees with the enumeration.      *)
(***************************************************************************)
EXTENDS RiskOracle, Lemmas, FiniteSetTheorems

-----------------------------------------------------------------------------
(* Sorting an arrival law and summing its tail, for laws of any number of  *)
(* scenarios, and from there what the five orders are to each other.       *)

(* The scenarios at or before w in the ascending order.                    *)
Below(law, n, w) == {x \in 1 .. n : law[x] < law[w] \/ (law[x] = law[w] /\ x <= w)}

LEMMA BelowCardinality ==
  ASSUME NEW n \in Nat \ {0}, NEW law \in [1 .. n -> Int], NEW w \in 1 .. n
  PROVE  /\ IsFiniteSet(Below(law, n, w))
         /\ Cardinality(Below(law, n, w)) \in 1 .. n
<1>1. IsFiniteSet(1 .. n) /\ Cardinality(1 .. n) = n
  BY FS_Interval
<1>2. Below(law, n, w) \subseteq 1 .. n
  BY DEF Below
<1>3. /\ IsFiniteSet(Below(law, n, w))
      /\ Cardinality(Below(law, n, w)) <= n
  BY <1>1, <1>2, FS_Subset
<1>4. w \in Below(law, n, w)
  BY DEF Below
<1>5. Cardinality(Below(law, n, w)) # 0
  BY <1>3, <1>4, FS_EmptySet
<1> QED
  BY <1>3, <1>5, FS_CardinalityType

(* An earlier scenario has a lower place.                                  *)
LEMMA BelowIsStrict ==
  ASSUME NEW n \in Nat \ {0}, NEW law \in [1 .. n -> Int],
         NEW w \in 1 .. n, NEW v \in 1 .. n,
         law[w] < law[v] \/ (law[w] = law[v] /\ w < v)
  PROVE  Cardinality(Below(law, n, w)) < Cardinality(Below(law, n, v))
<1>1. Below(law, n, w) \subseteq Below(law, n, v)
  BY DEF Below
<1>2. v \in Below(law, n, v) /\ v \notin Below(law, n, w)
  BY DEF Below
<1>3. /\ IsFiniteSet(Below(law, n, v))
      /\ Cardinality(Below(law, n, v)) \in Int /\ Cardinality(Below(law, n, w)) \in Int
  BY BelowCardinality
<1>4. Below(law, n, w) # Below(law, n, v)
  BY <1>2
<1>5. /\ Cardinality(Below(law, n, w)) <= Cardinality(Below(law, n, v))
      /\ Cardinality(Below(law, n, w)) # Cardinality(Below(law, n, v))
  BY <1>1, <1>3, <1>4, FS_Subset
<1> QED
  BY <1>3, <1>5

(* Every place is taken, by one scenario.                                  *)
LEMMA PlacesTaken ==
  ASSUME NEW n \in Nat \ {0}, NEW law \in [1 .. n -> Int], NEW i \in 1 .. n
  PROVE  \E w \in 1 .. n : Cardinality(Below(law, n, w)) = i
<1> DEFINE place == [w \in 1 .. n |-> Cardinality(Below(law, n, w))]
           taken == {place[w] : w \in 1 .. n}
<1>1. IsFiniteSet(1 .. n) /\ Cardinality(1 .. n) = n
  BY FS_Interval
<1>2. place \in [1 .. n -> 1 .. n]
  BY BelowCardinality
<1>3. \A w, v \in 1 .. n : place[w] = place[v] => w = v
  <2> SUFFICES ASSUME NEW w \in 1 .. n, NEW v \in 1 .. n, w # v
               PROVE  place[w] # place[v]
    OBVIOUS
  <2>1. \/ law[w] < law[v] \/ (law[w] = law[v] /\ w < v)
        \/ law[v] < law[w] \/ (law[v] = law[w] /\ v < w)
    OBVIOUS
  <2>2. place[w] < place[v] \/ place[v] < place[w]
    BY <2>1, BelowIsStrict
  <2> QED
    BY <1>2, <2>2
<1>4. taken \subseteq 1 .. n
  BY <1>2
<1>5. place \in Bijection(1 .. n, taken)
  BY <1>2, <1>3, <1>4 DEF Bijection, Injection, Surjection, IsInjective
<1>6. IsFiniteSet(taken) /\ Cardinality(taken) = n
  BY <1>1, <1>5, FS_Bijection DEF ExistsBijection
<1>7. taken = 1 .. n
  BY <1>1, <1>4, <1>6, FS_Subset
<1> QED
  BY <1>7

LEMMA PlacedIsBelow ==
  ASSUME NEW n \in Nat \ {0}, NEW law \in [1 .. n -> Int]
  PROVE  /\ Len(law) = n /\ DOMAIN law = 1 .. n
         /\ Placed(law) = {<< Cardinality(Below(law, n, w)), law[w] >> : w \in 1 .. n}
<1>1. Len(law) = n /\ DOMAIN law = 1 .. n
  OBVIOUS
<1> QED
  BY <1>1 DEF Placed, Below

(* What sorted(law) holds in place i.                                      *)
LEMMA SortedHolds ==
  ASSUME NEW n \in Nat \ {0}, NEW law \in [1 .. n -> Int], NEW i \in 1 .. n
  PROVE  \E w \in 1 .. n : Cardinality(Below(law, n, w)) = i /\ sorted(law)[i] = law[w]
<1> DEFINE pair == CHOOSE p \in Placed(law) : p[1] = i
<1>1. PICK v \in 1 .. n : Cardinality(Below(law, n, v)) = i
  BY PlacesTaken
<1>2. << i, law[v] >> \in Placed(law)
  BY <1>1, PlacedIsBelow
<1>3. \E p \in Placed(law) : p[1] = i
  BY <1>2
<1>4. pair \in Placed(law) /\ pair[1] = i
  BY <1>3
<1>5. sorted(law)[i] = pair[2]
  BY PlacedIsBelow DEF sorted
<1> HIDE DEF pair
<1>6. PICK w \in 1 .. n : pair = << Cardinality(Below(law, n, w)), law[w] >>
  BY <1>4, PlacedIsBelow
<1>7. Cardinality(Below(law, n, w)) = i /\ sorted(law)[i] = law[w]
  BY <1>4, <1>5, <1>6
<1> QED
  BY <1>7

(* Sorting a law gives a law of as many scenarios.                         *)
LEMMA SortedIsLaw ==
  ASSUME NEW n \in Nat \ {0}, NEW law \in [1 .. n -> Int]
  PROVE  sorted(law) \in [1 .. n -> Int]
<1>1. ASSUME NEW i \in 1 .. n  PROVE  sorted(law)[i] \in Int
  <2>1. PICK w \in 1 .. n : sorted(law)[i] = law[w]
    BY SortedHolds
  <2> QED
    BY <2>1
<1>2. sorted(law) = [i \in 1 .. n |-> sorted(law)[i]]
  BY PlacedIsBelow DEF sorted
<1> QED
  BY <1>1, <1>2

(* A law no later in any scenario is no later in any place: fewer than i   *)
(* scenarios of b would lie below a place i of a that were later.          *)
THEOREM StatewiseIsStochastic ==
  ASSUME NEW n \in Nat \ {0}, NEW a \in [1 .. n -> Int], NEW b \in [1 .. n -> Int],
         dominates_statewise(a, b)
  PROVE  dominates_stochastically(a, b)
<1>1. \A x \in 1 .. n : a[x] <= b[x]
  BY PlacedIsBelow DEF dominates_statewise
<1>2. ASSUME NEW i \in 1 .. n  PROVE  sorted(a)[i] <= sorted(b)[i]
  <2>1. PICK v \in 1 .. n : Cardinality(Below(a, n, v)) = i /\ sorted(a)[i] = a[v]
    BY SortedHolds
  <2>2. PICK w \in 1 .. n : Cardinality(Below(b, n, w)) = i /\ sorted(b)[i] = b[w]
    BY SortedHolds
  <2>3. SUFFICES ASSUME b[w] < a[v]  PROVE  FALSE
    BY <2>1, <2>2
  <2>4. ASSUME NEW x \in Below(b, n, w)  PROVE  x \in 1 .. n /\ a[x] < a[v]
    <3>1. x \in 1 .. n /\ b[x] <= b[w]
      BY DEF Below
    <3> QED
      BY <1>1, <2>3, <3>1
  <2>5. Below(b, n, w) \subseteq Below(a, n, v)
    BY <2>4 DEF Below
  <2>6. v \in Below(a, n, v) /\ v \notin Below(b, n, w)
    BY <2>4 DEF Below
  <2>7. IsFiniteSet(Below(a, n, v)) /\ Below(a, n, v) # Below(b, n, w)
    BY <2>6, BelowCardinality
  <2> QED
    BY <2>1, <2>2, <2>5, <2>7, FS_Subset
<1>3. Len(sorted(a)) = n
  BY SortedIsLaw, PlacedIsBelow
<1> QED
  BY <1>2, <1>3 DEF dominates_stochastically, dominates_statewise

(* The sums a recursion over 0 .. n adds up are integers: no k is the      *)
(* least for which they are not.                                           *)
Sums(s, n, k) ==
  {f \in [0 .. k -> Int] : \A m \in 0 .. k : f[m] = IF m = 0 THEN 0 ELSE f[m - 1] + s[n - m + 1]}

LEMMA SumsExist ==
  ASSUME NEW n \in Nat \ {0}, NEW s \in [1 .. n -> Int], NEW k \in 0 .. n
  PROVE  Sums(s, n, k) # {}
<1> DEFINE none == {j \in 0 .. n : Sums(s, n, j) = {}}
<1>1. SUFFICES ASSUME none # {}  PROVE  FALSE
  OBVIOUS
<1> none \in SUBSET Nat
  OBVIOUS
<1> HIDE DEF none
<1>2. PICK j \in none : \A l \in none : j <= l
  BY <1>1, LeastNatural
<1>3. j \in 0 .. n /\ Sums(s, n, j) = {}
  BY <1>2 DEF none
<1>4. CASE j = 0
  <2>1. [m \in 0 .. 0 |-> 0] \in Sums(s, n, 0)
    BY DEF Sums
  <2> QED
    BY <1>3, <1>4, <2>1
<1>5. CASE j # 0
  <2>1. j - 1 \in 0 .. n /\ j - 1 \notin none
    BY <1>2, <1>3, <1>5
  <2>2. PICK f : f \in Sums(s, n, j - 1)
    BY <2>1 DEF none
  <2> DEFINE g == [m \in 0 .. j |-> IF m = j THEN f[j - 1] + s[n - j + 1] ELSE f[m]]
  <2>3. /\ f \in [0 .. j - 1 -> Int]
        /\ \A m \in 0 .. j - 1 : f[m] = IF m = 0 THEN 0 ELSE f[m - 1] + s[n - m + 1]
    BY <2>2 DEF Sums
  <2>4. f[j - 1] \in Int /\ s[n - j + 1] \in Int
    BY <1>3, <1>5, <2>3
  <2>5. g \in [0 .. j -> Int]
    BY <1>3, <2>3, <2>4
  <2>6. ASSUME NEW m \in 0 .. j  PROVE  g[m] = IF m = 0 THEN 0 ELSE g[m - 1] + s[n - m + 1]
    <3>1. CASE m = j
      <4>1. g[m] = f[j - 1] + s[n - j + 1] /\ g[j - 1] = f[j - 1]
        BY <1>3, <1>5, <3>1
      <4> QED
        BY <1>3, <1>5, <3>1, <4>1
    <3>2. CASE m # j /\ m # 0
      <4>1. m \in 0 .. j - 1 /\ m - 1 \in 0 .. j /\ m - 1 # j
        BY <1>3, <3>2
      <4>2. g[m] = f[m] /\ g[m - 1] = f[m - 1]
        BY <3>2, <4>1
      <4> QED
        BY <2>3, <3>2, <4>1, <4>2
    <3>3. CASE m = 0
      <4>1. g[0] = f[0] /\ f[0] = 0
        BY <1>3, <1>5, <2>3, <3>3
      <4> QED
        BY <3>3, <4>1
    <3> QED
      BY <3>1, <3>2, <3>3
  <2>7. g \in Sums(s, n, j)
    BY <2>5, <2>6 DEF Sums
  <2> QED
    BY <1>3, <2>7
<1> QED
  BY <1>3, <1>4, <1>5

(* tail_totals(law) is such a sum: were it not of integers, there would be *)
(* a first place that is not.                                              *)
LEMMA TailTotalsAreIntegers ==
  ASSUME NEW n \in Nat \ {0}, NEW law \in [1 .. n -> Int]
  PROVE  \A m \in 0 .. n : tail_totals(law)[m] \in Int
<1> DEFINE s == sorted(law)
           add(f) == [m \in 0 .. n |-> IF m = 0 THEN 0 ELSE f[m - 1] + s[n - m + 1]]
           t == tail_totals(law)
           bad == {m \in 0 .. n : t[m] \notin Int}
<1>1. s \in [1 .. n -> Int]
  BY SortedIsLaw
<1>2. PICK f : f \in Sums(s, n, n)
  BY <1>1, SumsExist
<1>3. f = add(f)
  BY <1>2 DEF Sums
<1>4. t = CHOOSE g : g = add(g)
  BY PlacedIsBelow DEF tail_totals
<1>5. t = add(t)
  BY <1>3, <1>4
<1> HIDE DEF t, s
<1>6. \A m \in 0 .. n : t[m] = IF m = 0 THEN 0 ELSE t[m - 1] + s[n - m + 1]
  BY <1>5
<1>7. SUFFICES ASSUME bad # {}  PROVE  FALSE
  BY DEF t
<1> bad \in SUBSET Nat
  OBVIOUS
<1> HIDE DEF bad
<1>8. PICK m \in bad : \A l \in bad : m <= l
  BY <1>7, LeastNatural
<1>9. m \in 0 .. n /\ t[m] \notin Int
  BY <1>8 DEF bad
<1>10. m # 0 /\ m - 1 \in 0 .. n /\ m - 1 \notin bad
  BY <1>6, <1>8, <1>9
<1>11. t[m - 1] \in Int /\ s[n - m + 1] \in Int
  BY <1>1, <1>9, <1>10 DEF bad
<1> QED
  BY <1>6, <1>9, <1>10, <1>11

(* The departure that is caught, and when it arrives.                      *)
LEMMA RideIsInteger ==
  ASSUME NEW ready \in Int, NEW shift \in Int, NEW offset \in Int, NEW headway \in Nat \ {0},
         NEW ride \in Int, NEW delay \in Int
  PROVE  offset + ceil_div(ready - shift - offset, headway) * headway + shift + ride + delay \in Int
<1> DEFINE behind == ready - shift - offset
           k == ceil_div(behind, headway)
<1>1. behind \in Int
  OBVIOUS
<1>2. ASSUME NEW x \in Int  PROVE  ceil_div(x, headway) \in Int
  BY DEF ceil_div
<1> HIDE DEF behind
<1>3. k \in Int
  BY <1>1, <1>2
<1> HIDE DEF k
<1>4. offset + k * headway + shift + ride + delay \in Int
  BY <1>3
<1> QED
  BY <1>4 DEF k, behind

(* Riding a leg from a law gives a law.                                    *)
LEMMA ExtendIsLaw ==
  ASSUME NEW n \in Nat \ {0}, NEW law \in [1 .. n -> Int], NEW leg,
         leg.headway_s \in Nat \ {0}, leg.offset_s \in Int, leg.ride_s \in Nat,
         leg.min_transfer_s \in Nat,
         leg.shift_s \in {<< >>} \cup [1 .. n -> Int],
         leg.delay_s \in {<< >>} \cup [1 .. n -> Int]
  PROVE  extend(law, leg) \in [1 .. n -> Int]
<1>1. ASSUME NEW w \in 1 .. n  PROVE  extend_one(law[w], leg, w) \in Int
  <2>1. at_or_zero(leg.shift_s, w) \in Int /\ at_or_zero(leg.delay_s, w) \in Int
    BY SMTT(30) DEF at_or_zero
  <2>2. law[w] \in Int
    OBVIOUS
  <2>3. leg.min_transfer_s \in Int /\ leg.ride_s \in Int
    OBVIOUS
  <2>4. law[w] + leg.min_transfer_s \in Int
    BY <2>2, <2>3, SMTT(30)
  <2> DEFINE shift == at_or_zero(leg.shift_s, w)
             delay == at_or_zero(leg.delay_s, w)
             ready == law[w] + leg.min_transfer_s
  <2>5. extend_one(law[w], leg, w) =
          leg.offset_s + ceil_div(ready - shift - leg.offset_s, leg.headway_s) * leg.headway_s
            + shift + leg.ride_s + delay
    BY DEF extend_one
  <2>6. shift \in Int /\ delay \in Int /\ ready \in Int
    BY <2>1, <2>4
  <2> HIDE DEF shift, delay, ready
  <2>7. leg.offset_s + ceil_div(ready - shift - leg.offset_s, leg.headway_s) * leg.headway_s
          + shift + leg.ride_s + delay \in Int
    BY <2>3, <2>6, RideIsInteger
  <2> QED
    BY <2>5, <2>7
<1> QED
  BY <1>1, PlacedIsBelow DEF extend

-----------------------------------------------------------------------------
(* Each rule of a set of rules is transitive.                              *)
THEOREM DominanceIsTransitive ==
  ASSUME NEW n \in Nat \ {0}, NEW a \in [1 .. n -> Int], NEW b \in [1 .. n -> Int],
         NEW c \in [1 .. n -> Int], NEW rules, NEW r \in rules,
         r.order \in {"None", "Statewise", "FirstOrderStochastic", "AllTailAverages", "Scalar"},
         r.order = "Scalar" => r.tail_count \in 1 .. n,
         dominates(a, b, r), dominates(b, c, r)
  PROVE  dominates(a, c, r)
<1>1. /\ Len(a) = n /\ Len(b) = n /\ Len(c) = n
      /\ Len(sorted(a)) = n /\ Len(sorted(b)) = n /\ Len(sorted(c)) = n
  BY SortedIsLaw, PlacedIsBelow
<1>2. /\ sorted(a) \in [1 .. n -> Int] /\ sorted(b) \in [1 .. n -> Int]
      /\ sorted(c) \in [1 .. n -> Int]
  BY SortedIsLaw
<1>3. \A m \in 1 .. n :
        tail_totals(a)[m] \in Int /\ tail_totals(b)[m] \in Int /\ tail_totals(c)[m] \in Int
  BY TailTotalsAreIntegers, SMTT(30)
<1>4. r.order # "None"
  BY DEF dominates
<1>5. CASE r.order = "Statewise"
  BY <1>1, <1>5 DEF dominates, dominates_statewise
<1>6. CASE r.order = "FirstOrderStochastic"
  BY <1>1, <1>2, <1>6 DEF dominates, dominates_stochastically, dominates_statewise
<1>7. CASE r.order = "AllTailAverages"
  <2>1. dominates_in_all_tail_averages(a, b) /\ dominates_in_all_tail_averages(b, c)
    BY <1>7 DEF dominates
  <2>2. \A m \in 1 .. n :
          tail_totals(a)[m] <= tail_totals(b)[m] /\ tail_totals(b)[m] <= tail_totals(c)[m]
    BY <1>1, <2>1 DEF dominates_in_all_tail_averages
  <2>3. ASSUME NEW m \in 1 .. n  PROVE  tail_totals(a)[m] <= tail_totals(c)[m]
    BY <1>3, <2>2
  <2>4. dominates_in_all_tail_averages(a, c)
    BY <1>1, <2>3 DEF dominates_in_all_tail_averages
  <2> QED
    BY <1>7, <2>4 DEF dominates
<1>8. CASE r.order = "Scalar"
  <2>1. dominates_scalar(a, b, r.tail_count) /\ dominates_scalar(b, c, r.tail_count)
    BY <1>8 DEF dominates
  <2>2. n \in 1 .. n /\ r.tail_count \in 1 .. n
    BY <1>8
  <2>3. \A m \in {n, r.tail_count} :
          tail_totals(a)[m] <= tail_totals(b)[m] /\ tail_totals(b)[m] <= tail_totals(c)[m]
    BY <1>1, <2>1 DEF dominates_scalar
  <2>4. ASSUME NEW m \in {n, r.tail_count}  PROVE  tail_totals(a)[m] <= tail_totals(c)[m]
    <3>1. m \in 1 .. n
      BY <2>2
    <3>2. /\ tail_totals(a)[m] \in Int /\ tail_totals(b)[m] \in Int
          /\ tail_totals(c)[m] \in Int
      BY <1>3, <3>1
    <3> QED
      BY <2>3, <3>2
  <2>5. dominates_scalar(a, c, r.tail_count)
    BY <1>1, <2>4 DEF dominates_scalar
  <2> QED
    BY <1>8, <2>5 DEF dominates
<1> QED
  BY <1>4, <1>5, <1>6, <1>7, <1>8

-----------------------------------------------------------------------------
(* The search.                                                             *)

Law == [1 .. network.num_scenarios -> Int]
LabelType ==
  [node : Node, legs_used : Nat, law : Law, parent : Nat, via_leg : Nat, pruned : BOOLEAN]

(* The arguments are legal, every index names a label, and the label being *)
(* expanded has a leg to spare and is where the legs still to ride start.  *)
ArgumentsOK == instance \in Instances /\ rule \in Rules /\ max_legs \in LegBounds
LabelsOK == labels \in Seq(LabelType) /\ labels # << >>
FrontierOK == frontier \in [Node -> SUBSET (1 .. Len(labels))]
ExpandingOK ==
  /\ todo \subseteq 1 .. Len(network.legs)
  /\ todo # {} =>
       /\ expanding \in 1 .. Len(labels)
       /\ labels[expanding].legs_used < max_legs
       /\ \A i \in todo : network.legs[i].from = labels[expanding].node
TypeOK ==
  /\ ArgumentsOK /\ LabelsOK /\ FrontierOK /\ ExpandingOK
  /\ work \in Seq(1 .. Len(labels))
  /\ unsupported_prunings \in Nat

-----------------------------------------------------------------------------
(* What the arguments are, from the assumptions on the constants.          *)
LEMMA NetworkIsValid ==
  ASSUME ArgumentsOK
  PROVE  /\ network.num_scenarios \in Nat \ {0} /\ network.num_nodes \in Nat \ {0}
         /\ max_legs \in Nat
         /\ instance.source \in Node /\ instance.departure_time_s \in Int
         /\ Len(network.legs) \in Nat
         /\ rule.order \in {"None", "Statewise", "FirstOrderStochastic", "AllTailAverages", "Scalar"}
         /\ rule.order = "Scalar" => rule.tail_count \in 1 .. network.num_scenarios
<1>1. validate_network(network) /\ instance.departure_time_s \in Int
  BY InstancesAreValid DEF ArgumentsOK, network
<1>2. network.num_scenarios \in Nat \ {0} /\ network.num_nodes \in Nat \ {0}
  BY <1>1 DEF validate_network
<1>3. instance.source \in Node
  BY InstancesAreValid DEF ArgumentsOK, network, Node
<1>4. rule.order = "Scalar" => rule.tail_count \in 1 .. network.num_scenarios
  BY InstancesAreValid DEF ArgumentsOK, network
<1>5. Len(network.legs) \in Nat
  BY <1>1 DEF validate_network
<1>6. /\ rule.order \in {"None", "Statewise", "FirstOrderStochastic", "AllTailAverages", "Scalar"}
      /\ max_legs \in Nat
  BY RulesAreOrders, LegBoundsAreNatural DEF ArgumentsOK
<1> QED
  BY <1>1, <1>3, <1>4, <1>5, <1>6, <1>2

(* A leg runs between nodes and makes laws of laws.                        *)
LEMMA LegIsValid ==
  ASSUME ArgumentsOK, NEW i \in 1 .. Len(network.legs)
  PROVE  /\ network.legs[i].from \in Node /\ network.legs[i].to \in Node
         /\ \A law \in Law : extend(law, network.legs[i]) \in Law
<1> DEFINE n == network.num_scenarios
           leg == network.legs[i]
           PerScenario == {<< >>} \cup [1 .. n -> Int]
           LegType == [from : Node, to : Node, headway_s : Nat \ {0}, offset_s : Int,
                       ride_s : Nat, min_transfer_s : Nat,
                       shift_s : PerScenario, delay_s : PerScenario]
<1>1. network.legs \in Seq(LegType)
  BY InstancesAreValid DEF ArgumentsOK, network, validate_network, Node
<1> HIDE DEF LegType
<1>2. leg \in LegType
  BY <1>1
<1> HIDE DEF leg
<1>3. /\ leg.headway_s \in Nat \ {0} /\ leg.offset_s \in Int /\ leg.ride_s \in Nat
      /\ leg.min_transfer_s \in Nat /\ leg.shift_s \in PerScenario /\ leg.delay_s \in PerScenario
      /\ leg.from \in Node /\ leg.to \in Node
  BY <1>2 DEF LegType
<1>4. n \in Nat \ {0}
  BY NetworkIsValid
<1>5. \A law \in Law : extend(law, leg) \in Law
  BY <1>3, <1>4, ExtendIsLaw DEF Law
<1> QED
  BY <1>3, <1>5 DEF leg

(* The label made along a leg still to ride.                               *)
LEMMA CandidateIsLabel ==
  ASSUME TypeOK, NEW i \in todo
  PROVE  /\ Candidate(i) \in LabelType
         /\ Candidate(i).node \in Node /\ Candidate(i).law \in Law
         /\ ~ Candidate(i).pruned
         /\ Candidate(i).parent = expanding /\ Candidate(i).via_leg = i
         /\ Candidate(i).node = network.legs[i].to
         /\ Candidate(i).legs_used = labels[expanding].legs_used + 1
         /\ Candidate(i).law = extend(labels[expanding].law, network.legs[i])
<1>1. /\ i \in 1 .. Len(network.legs) /\ expanding \in 1 .. Len(labels)
      /\ labels[expanding] \in LabelType
  BY DEF TypeOK, ExpandingOK, LabelsOK
<1>2. labels[expanding].law \in Law /\ labels[expanding].legs_used \in Nat
  BY <1>1 DEF LabelType
<1>3. network.legs[i].to \in Node /\ extend(labels[expanding].law, network.legs[i]) \in Law
  BY <1>1, <1>2, LegIsValid DEF TypeOK
<1>4. Len(network.legs) \in Nat
  BY NetworkIsValid DEF TypeOK
<1>5. expanding \in Nat /\ i \in Nat
  BY <1>1, <1>4 DEF TypeOK, LabelsOK
<1> QED
  BY <1>2, <1>3, <1>5 DEF Candidate, RiskLabel, LabelType

(* The first leg still to ride.                                            *)
LEMMA FirstLeg ==
  ASSUME TypeOK, todo # {}
  PROVE  Min(todo) \in todo
<1>1. todo \in SUBSET Nat
  BY NetworkIsValid DEF TypeOK, ExpandingOK
<1> QED
  BY <1>1, MinIsLeast

-----------------------------------------------------------------------------
(* What the frontier holds against a candidate, and what it drops for it.  *)
LEMMA HeldAreLabels ==
  ASSUME TypeOK, NEW u \in Node
  PROVE  frontier[u] \subseteq 1 .. Len(labels) /\ frontier[u] \subseteq Nat
BY DEF TypeOK, FrontierOK, LabelsOK

(* An insertion changes no label but for the flags of the evicted ones,    *)
(* and adds the candidate at the end.                                      *)
LEMMA InsertedLabels ==
  ASSUME TypeOK, NEW c \in LabelType, NEW gone \in SUBSET (1 .. Len(labels)),
         labels' = Append(Evicted(gone, c), c)
  PROVE  /\ labels' \in Seq(LabelType) /\ labels' # << >>
         /\ Len(labels') = Len(labels) + 1 /\ Len(labels) \in Nat
         /\ labels'[Len(labels) + 1] = c
         /\ \A i \in gone : labels'[i] = [labels[i] EXCEPT !.pruned = TRUE]
         /\ \A i \in (1 .. Len(labels)) \ gone : labels'[i] = labels[i]
<1> DEFINE n == Len(labels)
<1>1. n \in Nat /\ \A i \in 1 .. n : labels[i] \in LabelType
  BY DEF TypeOK, LabelsOK
<1>2. \A l \in LabelType : [l EXCEPT !.pruned = TRUE] \in LabelType
  BY DEF LabelType
<1>3. Evicted(gone, c) \in [1 .. n -> LabelType]
  BY <1>1, <1>2 DEF Evicted
<1>4. Evicted(gone, c) \in Seq(LabelType) /\ Len(Evicted(gone, c)) = n
  BY <1>1, <1>3
<1>5. /\ Len(labels') = n + 1 /\ labels'[n + 1] = c /\ labels' \in Seq(LabelType)
      /\ \A i \in 1 .. n : labels'[i] = Evicted(gone, c)[i]
  BY <1>1, <1>4
<1> QED
  BY <1>1, <1>5 DEF Evicted

(* A rejection adds the candidate, flagged.                                *)
LEMMA RejectedLabels ==
  ASSUME TypeOK, NEW c \in LabelType,
         labels' = Append(labels, [c EXCEPT !.pruned = TRUE])
  PROVE  /\ labels' \in Seq(LabelType) /\ labels' # << >>
         /\ Len(labels') = Len(labels) + 1 /\ Len(labels) \in Nat
         /\ labels'[Len(labels) + 1] = [c EXCEPT !.pruned = TRUE]
         /\ \A i \in 1 .. Len(labels) : labels'[i] = labels[i]
<1>1. [c EXCEPT !.pruned = TRUE] \in LabelType
  BY DEF LabelType
<1> QED
  BY <1>1, SMTT(30) DEF TypeOK, LabelsOK

-----------------------------------------------------------------------------
(* Every index the search keeps names a label, and every law is one.       *)
LEMMA TypeInit ==
  Init => TypeOK
<1> SUFFICES ASSUME Init  PROVE  TypeOK
  OBVIOUS
<1>1. ArgumentsOK
  BY DEF Init, ArgumentsOK
<1>2. instance.source \in Node /\ certain(network.num_scenarios, instance.departure_time_s) \in Law
  BY <1>1, NetworkIsValid DEF certain, Law
<1>3. StartLabel \in LabelType
  BY <1>2 DEF StartLabel, RiskLabel, LabelType
<1>4. labels = << StartLabel >> /\ Len(labels) = 1
  BY DEF Init
<1>5. LabelsOK
  BY <1>3, <1>4 DEF LabelsOK
<1>6. FrontierOK
  BY <1>4 DEF Init, FrontierOK
<1>7. work \in Seq(1 .. Len(labels)) /\ unsupported_prunings \in Nat /\ ExpandingOK
  BY <1>4 DEF Init, ExpandingOK
<1> QED
  BY <1>1, <1>5, <1>6, <1>7 DEF TypeOK

LEMMA TypePopSkip ==
  TypeOK /\ PopSkip => TypeOK'
<1> SUFFICES ASSUME TypeOK, PopSkip  PROVE  TypeOK'
  OBVIOUS
<1>1. work' \in Seq(1 .. Len(labels'))
  BY DEF TypeOK, LabelsOK, PopSkip, Popped
<1> QED
  BY <1>1 DEF TypeOK, ArgumentsOK, LabelsOK, FrontierOK, ExpandingOK, PopSkip, arguments,
              network, Node, LabelType, Law

LEMMA TypePopExpand ==
  TypeOK /\ PopExpand => TypeOK'
<1> SUFFICES ASSUME TypeOK, PopExpand  PROVE  TypeOK'
  OBVIOUS
<1>1. work' \in Seq(1 .. Len(labels')) /\ Top \in 1 .. Len(labels)
  BY DEF TypeOK, LabelsOK, PopExpand, Popped, Top
<1>2. ExpandingOK'
  BY <1>1 DEF ExpandingOK, PopExpand, Expandable, legs_from, arguments, network
<1> QED
  BY <1>1, <1>2 DEF TypeOK, ArgumentsOK, LabelsOK, FrontierOK, PopExpand, arguments,
                    network, Node, LabelType, Law

(* Whichever way the offer ends, the legs still to ride stay legal.        *)
LEMMA ExpandingKept ==
  ASSUME TypeOK, todo # {}, todo' = todo \ {Min(todo)},
         UNCHANGED << arguments, expanding >>,
         Len(labels') = Len(labels) + 1,
         \A i \in 1 .. Len(labels) :
           labels'[i].legs_used = labels[i].legs_used /\ labels'[i].node = labels[i].node
  PROVE  ExpandingOK'
<1>1. Len(labels) \in Nat
  BY DEF TypeOK, LabelsOK
<1>2. /\ expanding \in 1 .. Len(labels) /\ labels[expanding].legs_used < max_legs
      /\ todo \subseteq 1 .. Len(network.legs)
      /\ \A i \in todo : network.legs[i].from = labels[expanding].node
  BY DEF TypeOK, ExpandingOK
<1>3. /\ expanding' = expanding /\ max_legs' = max_legs /\ network' = network
      /\ todo' \subseteq todo
  BY DEF arguments, network
<1>4. /\ expanding' \in 1 .. Len(labels')
      /\ labels'[expanding'].legs_used < max_legs'
      /\ labels'[expanding'].node = labels[expanding].node
  BY <1>1, <1>2, <1>3
<1> QED
  BY <1>2, <1>3, <1>4 DEF ExpandingOK

LEMMA TypeOfferRejected ==
  TypeOK /\ OfferRejected => TypeOK'
<1> SUFFICES ASSUME TypeOK, OfferRejected  PROVE  TypeOK'
  OBVIOUS
<1> DEFINE c == Candidate(Min(todo))
<1>1. c \in LabelType
  BY FirstLeg, CandidateIsLabel DEF OfferRejected
<1>2. /\ labels' \in Seq(LabelType) /\ labels' # << >>
      /\ Len(labels') = Len(labels) + 1 /\ Len(labels) \in Nat
      /\ \A i \in 1 .. Len(labels) : labels'[i] = labels[i]
  BY <1>1, RejectedLabels DEF OfferRejected
<1>3. ExpandingOK'
  BY <1>2, ExpandingKept DEF OfferRejected
<1>4. FrontierOK' /\ work' \in Seq(1 .. Len(labels'))
  BY <1>2 DEF TypeOK, FrontierOK, OfferRejected, arguments, Node, network
<1>5. unsupported_prunings' \in Nat
  BY DEF TypeOK, OfferRejected
<1>6. LabelsOK' /\ ArgumentsOK'
  BY <1>2 DEF TypeOK, ArgumentsOK, LabelsOK, LabelType, OfferRejected, arguments, network, Node, Law
<1> QED
  BY <1>3, <1>4, <1>5, <1>6 DEF TypeOK

LEMMA TypeOfferInserted ==
  TypeOK /\ OfferInserted => TypeOK'
<1> SUFFICES ASSUME TypeOK, OfferInserted  PROVE  TypeOK'
  OBVIOUS
<1> DEFINE c == Candidate(Min(todo))
           gone == Dominated(c)
           new == Len(labels) + 1
           unsupported == {h \in gone : ~ Supported(c, labels[h])}
<1>1. c \in LabelType /\ c.node \in Node
  BY FirstLeg, CandidateIsLabel DEF OfferInserted
<1>2. gone \in SUBSET (1 .. Len(labels))
  BY <1>1, HeldAreLabels DEF Dominated
<1>3. labels' = Append(Evicted(gone, c), c)
  BY DEF OfferInserted
<1>4. /\ labels' \in Seq(LabelType) /\ labels' # << >>
      /\ Len(labels') = new /\ Len(labels) \in Nat
      /\ \A i \in gone : labels'[i] = [labels[i] EXCEPT !.pruned = TRUE]
      /\ \A i \in (1 .. Len(labels)) \ gone : labels'[i] = labels[i]
  BY <1>1, <1>2, <1>3, InsertedLabels
<1>5. \A i \in 1 .. Len(labels) :
        labels'[i].legs_used = labels[i].legs_used /\ labels'[i].node = labels[i].node
  <2> SUFFICES ASSUME NEW i \in 1 .. Len(labels)
               PROVE  labels'[i].legs_used = labels[i].legs_used /\ labels'[i].node = labels[i].node
    OBVIOUS
  <2>1. labels[i] \in LabelType
    BY DEF TypeOK, LabelsOK
  <2>2. labels'[i] = labels[i] \/ labels'[i] = [labels[i] EXCEPT !.pruned = TRUE]
    BY <1>4
  <2> QED
    BY <2>1, <2>2 DEF LabelType
<1>6. ExpandingOK'
  BY <1>4, <1>5, ExpandingKept DEF OfferInserted
<1>7. FrontierOK'
  <2>1. frontier' = [frontier EXCEPT ![c.node] = (@ \ gone) \cup {new}]
    BY DEF OfferInserted
  <2>2. frontier \in [Node -> SUBSET (1 .. new)] /\ new \in 1 .. new
    BY <1>4 DEF TypeOK, FrontierOK
  <2>3. frontier' \in [Node -> SUBSET (1 .. new)]
    BY <2>1, <2>2
  <2> QED
    BY <1>4, <2>3 DEF FrontierOK, OfferInserted, arguments, Node, network
<1>8. work' \in Seq(1 .. Len(labels'))
  <2>1. work \in Seq(1 .. new) /\ new \in 1 .. new
    BY <1>4 DEF TypeOK
  <2> QED
    BY <1>4, <2>1 DEF OfferInserted
<1>9. unsupported_prunings' \in Nat
  <2>1. IsFiniteSet(1 .. Len(labels))
    BY <1>4, FS_Interval
  <2>2. unsupported \subseteq 1 .. Len(labels)
    BY <1>2
  <2> HIDE DEF unsupported
  <2>4. Cardinality(unsupported) \in Nat
    BY <2>1, <2>2, FS_Subset, FS_CardinalityType
  <2>3. unsupported_prunings' = unsupported_prunings + Cardinality(unsupported)
    BY DEF OfferInserted, unsupported
  <2> QED
    BY <2>3, <2>4 DEF TypeOK
<1>10. LabelsOK' /\ ArgumentsOK'
  BY <1>4 DEF TypeOK, ArgumentsOK, LabelsOK, LabelType, OfferInserted, arguments, network, Node, Law
<1> QED
  BY <1>6, <1>7, <1>8, <1>9, <1>10 DEF TypeOK

LEMMA TypeNext ==
  TypeOK /\ [Next]_vars => TypeOK'
<1> SUFFICES ASSUME TypeOK, [Next]_vars  PROVE  TypeOK'
  OBVIOUS
<1>1. CASE UNCHANGED vars
  BY <1>1 DEF TypeOK, ArgumentsOK, LabelsOK, FrontierOK, ExpandingOK, LabelType, Law,
              vars, arguments, network, Node
<1> QED
  BY <1>1, TypePopSkip, TypePopExpand, TypeOfferRejected, TypeOfferInserted DEF Next

(* Type correctness of risk_search, for every network, rule and leg bound. *)
THEOREM RiskTypeCorrect == Spec => []TypeOK
<1> QED
  BY TypeInit, TypeNext, PTL DEF Spec

-----------------------------------------------------------------------------
(* What a step does to the labels there already were: at most the flag of  *)
(* those the candidate's frontier held is set.                             *)
LEMMA LabelsAreKept ==
  ASSUME TypeOK, [Next]_vars
  PROVE  /\ Len(labels) \in Nat /\ Len(labels') >= Len(labels) /\ Len(labels') \in Nat
         /\ \A i \in 1 .. Len(labels) :
              /\ labels[i] \in LabelType
              /\ labels'[i].node = labels[i].node /\ labels'[i].legs_used = labels[i].legs_used
              /\ labels'[i].law = labels[i].law /\ labels'[i].parent = labels[i].parent
              /\ labels'[i].via_leg = labels[i].via_leg
              /\ [labels'[i] EXCEPT !.pruned = FALSE] = [labels[i] EXCEPT !.pruned = FALSE]
<1> DEFINE c == Candidate(Min(todo))
           gone == Dominated(c)
<1>1. Len(labels) \in Nat /\ \A i \in 1 .. Len(labels) : labels[i] \in LabelType
  BY DEF TypeOK, LabelsOK
<1>2. CASE OfferRejected
  <2>1. c \in LabelType
    BY <1>2, FirstLeg, CandidateIsLabel DEF OfferRejected
  <2>2. /\ Len(labels') = Len(labels) + 1
        /\ \A i \in 1 .. Len(labels) : labels'[i] = labels[i]
    BY <1>2, <2>1, RejectedLabels DEF OfferRejected
  <2>3. Len(labels') >= Len(labels) /\ Len(labels') \in Nat
    BY <1>1, <2>2
  <2>4. ASSUME NEW i \in 1 .. Len(labels)  PROVE  labels'[i] = labels[i]
    BY <2>2
  <2> QED
    BY <1>1, <2>3, <2>4
<1>3. CASE OfferInserted
  <2>1. c \in LabelType /\ c.node \in Node
    BY <1>3, FirstLeg, CandidateIsLabel DEF OfferInserted
  <2>2. gone \in SUBSET (1 .. Len(labels))
    BY <2>1, HeldAreLabels DEF Dominated
  <2>3. labels' = Append(Evicted(gone, c), c)
    BY <1>3 DEF OfferInserted
  <2>4. /\ Len(labels') = Len(labels) + 1
        /\ \A i \in gone : labels'[i] = [labels[i] EXCEPT !.pruned = TRUE]
        /\ \A i \in (1 .. Len(labels)) \ gone : labels'[i] = labels[i]
    BY <2>1, <2>2, <2>3, InsertedLabels
  <2>5. ASSUME NEW i \in 1 .. Len(labels)
        PROVE  labels'[i] = labels[i] \/ labels'[i] = [labels[i] EXCEPT !.pruned = TRUE]
    BY <2>4
  <2> HIDE DEF c, gone
  <2>6. ASSUME NEW i \in 1 .. Len(labels)
        PROVE  /\ labels'[i].node = labels[i].node /\ labels'[i].legs_used = labels[i].legs_used
               /\ labels'[i].law = labels[i].law /\ labels'[i].parent = labels[i].parent
               /\ labels'[i].via_leg = labels[i].via_leg
               /\ [labels'[i] EXCEPT !.pruned = FALSE] = [labels[i] EXCEPT !.pruned = FALSE]
    <3>1. labels[i] \in LabelType
      BY <1>1
    <3> QED
      BY <2>5, <3>1 DEF LabelType
  <2>7. Len(labels') = Len(labels) + 1
    BY <2>4 DEF c, gone
  <2> QED
    BY <1>1, <2>6, <2>7
<1>4. CASE UNCHANGED labels
  BY <1>1, <1>4
<1> QED
  BY <1>2, <1>3, <1>4 DEF Next, PopSkip, PopExpand, vars

(* What a step does to the frontiers and the flags.                        *)
LEMMA RejectedIsDominated ==
  ASSUME TypeOK, OfferRejected
  PROVE  LET c == Candidate(Min(todo))
         IN  /\ c.node \in Node /\ c.law \in Law
             /\ frontier' = frontier /\ network' = network /\ rule' = rule
             /\ Len(labels') = Len(labels) + 1 /\ Len(labels) \in Nat
             /\ \A i \in 1 .. Len(labels) : labels'[i] = labels[i]
             /\ labels'[Len(labels) + 1].node = c.node
             /\ labels'[Len(labels) + 1].law = c.law
             /\ labels'[Len(labels) + 1].pruned
             /\ \E h \in frontier[c.node] : dominates(labels[h].law, c.law, rule)
<1> DEFINE c == Candidate(Min(todo))
<1>1. c \in LabelType /\ c.node \in Node /\ c.law \in Law
  BY FirstLeg, CandidateIsLabel DEF OfferRejected
<1>2. /\ Len(labels') = Len(labels) + 1 /\ Len(labels) \in Nat
      /\ labels'[Len(labels) + 1] = [c EXCEPT !.pruned = TRUE]
      /\ \A i \in 1 .. Len(labels) : labels'[i] = labels[i]
  BY <1>1, RejectedLabels DEF OfferRejected
<1>3. frontier' = frontier /\ network' = network /\ rule' = rule
  BY DEF OfferRejected, arguments, network
<1>4. \E h \in frontier[c.node] : dominates(labels[h].law, c.law, rule)
  BY DEF OfferRejected, Dominators
<1> HIDE DEF c
<1>5. LET new == [c EXCEPT !.pruned = TRUE]
      IN  new.node = c.node /\ new.law = c.law /\ new.pruned
  BY <1>1 DEF LabelType
<1> QED
  BY <1>1, <1>2, <1>3, <1>4, <1>5 DEF c

LEMMA InsertedDominates ==
  ASSUME TypeOK, OfferInserted
  PROVE  LET c == Candidate(Min(todo))
             gone == Dominated(c)
             new == Len(labels) + 1
         IN  /\ c.node \in Node /\ c.law \in Law /\ ~ c.pruned
             /\ frontier' = [frontier EXCEPT ![c.node] = (@ \ gone) \cup {new}]
             /\ network' = network /\ rule' = rule
             /\ Len(labels') = new /\ Len(labels) \in Nat
             /\ labels'[new] = c
             /\ gone \subseteq frontier[c.node] /\ gone \subseteq 1 .. Len(labels)
             /\ \A i \in gone : labels'[i].pruned /\ dominates(c.law, labels[i].law, rule)
             /\ \A i \in (1 .. Len(labels)) \ gone : labels'[i] = labels[i]
<1> DEFINE c == Candidate(Min(todo))
           gone == Dominated(c)
           new == Len(labels) + 1
<1>1. c \in LabelType /\ c.node \in Node /\ c.law \in Law /\ ~ c.pruned
  BY FirstLeg, CandidateIsLabel DEF OfferInserted
<1>2. gone \subseteq frontier[c.node] /\ gone \in SUBSET (1 .. Len(labels))
  BY <1>1, HeldAreLabels DEF Dominated
<1>3. labels' = Append(Evicted(gone, c), c)
  BY DEF OfferInserted
<1>4. /\ Len(labels') = new /\ Len(labels) \in Nat /\ labels'[new] = c
      /\ \A i \in gone : labels'[i] = [labels[i] EXCEPT !.pruned = TRUE]
      /\ \A i \in (1 .. Len(labels)) \ gone : labels'[i] = labels[i]
  BY <1>1, <1>2, <1>3, InsertedLabels
<1>5. /\ frontier' = [frontier EXCEPT ![c.node] = (@ \ gone) \cup {new}]
      /\ network' = network /\ rule' = rule
  BY DEF OfferInserted, arguments, network
<1>6. \A i \in gone : dominates(c.law, labels[i].law, rule)
  BY DEF Dominated
<1> HIDE DEF c, gone, new
<1>7. ASSUME NEW i \in gone  PROVE  labels'[i].pruned
  <2>1. labels[i] \in LabelType
    BY <1>2 DEF TypeOK, LabelsOK
  <2> QED
    BY <1>4, <2>1 DEF LabelType
<1> QED
  BY <1>1, <1>2, <1>4, <1>5, <1>6, <1>7 DEF c, gone, new

-----------------------------------------------------------------------------
(* FrontiersHoldSurvivors.  A candidate's own frontier alone changes, and  *)
(* loses exactly those whose flag is set.                                  *)
LEMMA SurvivorsInit ==
  Init => FrontiersHoldSurvivors
<1> SUFFICES ASSUME Init  PROVE  FrontiersHoldSurvivors
  OBVIOUS
<1>1. labels = << StartLabel >> /\ Len(labels) = 1
  BY DEF Init
<1>2. labels[1].node = instance.source /\ ~ labels[1].pruned
  BY <1>1 DEF StartLabel, RiskLabel
<1>3. \A u \in Node : frontier[u] = IF u = instance.source THEN {1} ELSE {}
  BY DEF Init
<1> QED
  BY <1>1, <1>2, <1>3 DEF FrontiersHoldSurvivors

LEMMA SurvivorsNext ==
  TypeOK /\ FrontiersHoldSurvivors /\ [Next]_vars => FrontiersHoldSurvivors'
<1> SUFFICES ASSUME TypeOK, FrontiersHoldSurvivors, [Next]_vars,
                    NEW u \in Node'
             PROVE  frontier'[u] =
                      {i \in 1 .. Len(labels') : labels'[i].node = u /\ ~ labels'[i].pruned}
  BY DEF FrontiersHoldSurvivors
<1> DEFINE c == Candidate(Min(todo))
           new == Len(labels) + 1
<1>1. CASE OfferRejected
  <2>1. u \in Node /\ frontier'[u] = frontier[u]
    BY <1>1, RejectedIsDominated DEF Node
  <2>2. frontier[u] = {i \in 1 .. Len(labels) : labels[i].node = u /\ ~ labels[i].pruned}
    BY <2>1 DEF FrontiersHoldSurvivors
  <2>3. /\ Len(labels') = new /\ Len(labels) \in Nat /\ labels'[new].pruned
        /\ \A i \in 1 .. Len(labels) : labels'[i] = labels[i]
    BY <1>1, RejectedIsDominated
  <2> QED
    BY <2>1, <2>2, <2>3
<1>2. CASE OfferInserted
  <2> DEFINE gone == Dominated(c)
  <2>1. u \in Node
    BY <1>2, InsertedDominates DEF Node
  <2>2. frontier[u] = {i \in 1 .. Len(labels) : labels[i].node = u /\ ~ labels[i].pruned}
    BY <2>1 DEF FrontiersHoldSurvivors
  <2>3. /\ c.node \in Node /\ ~ c.pruned
        /\ frontier' = [frontier EXCEPT ![c.node] = (@ \ gone) \cup {new}]
        /\ Len(labels') = new /\ Len(labels) \in Nat /\ labels'[new] = c
        /\ gone \subseteq frontier[c.node] /\ gone \subseteq 1 .. Len(labels)
        /\ \A i \in gone : labels'[i].pruned
        /\ \A i \in (1 .. Len(labels)) \ gone : labels'[i] = labels[i]
    BY <1>2, InsertedDominates
  <2>4. frontier[c.node] = {i \in 1 .. Len(labels) : labels[i].node = c.node /\ ~ labels[i].pruned}
    BY <2>3 DEF FrontiersHoldSurvivors
  <2>5. frontier'[u] = IF u = c.node THEN (frontier[u] \ gone) \cup {new} ELSE frontier[u]
    BY <2>1, <2>3 DEF TypeOK, FrontierOK
  <2> HIDE DEF c, gone
  <2>6. ASSUME NEW i \in 1 .. Len(labels)
        PROVE  i \in frontier'[u] <=> labels'[i].node = u /\ ~ labels'[i].pruned
    <3>1. i # new
      BY <2>3
    <3>2. CASE i \in gone
      BY <2>2, <2>3, <2>4, <2>5, <3>1, <3>2
    <3>3. CASE i \notin gone
      BY <2>2, <2>3, <2>5, <3>1, <3>3
    <3> QED
      BY <3>2, <3>3
  <2>7. new \in frontier'[u] <=> labels'[new].node = u /\ ~ labels'[new].pruned
    BY <2>2, <2>3, <2>5
  <2>8. frontier'[u] \subseteq 1 .. new
    BY <2>2, <2>3, <2>5
  <2>9. \A i \in 1 .. new : i \in 1 .. Len(labels) \/ i = new
    BY <2>3
  <2> QED
    BY <2>3, <2>6, <2>7, <2>8, <2>9
<1>3. CASE UNCHANGED << labels, frontier, arguments >>
  BY <1>3 DEF FrontiersHoldSurvivors, Node, network, arguments
<1> QED
  BY <1>1, <1>2, <1>3 DEF Next, PopSkip, PopExpand, vars

(* The frontiers hold the labels no flag is set on, at their nodes.        *)
THEOREM RiskFrontiersHoldSurvivors == Spec => []FrontiersHoldSurvivors
<1> QED
  BY TypeInit, TypeNext, SurvivorsInit, SurvivorsNext, PTL DEF Spec

-----------------------------------------------------------------------------
(* PrunedIsCovered.  What a newcomer evicts, the newcomer covers, and with *)
(* it all that the evicted labels covered: that step is transitivity.      *)
LEMMA CoveredInit ==
  Init => PrunedIsCovered
<1> SUFFICES ASSUME Init  PROVE  PrunedIsCovered
  OBVIOUS
<1>1. labels = << StartLabel >> /\ Len(labels) = 1
  BY DEF Init
<1>2. ~ labels[1].pruned
  BY <1>1 DEF StartLabel, RiskLabel
<1> QED
  BY <1>1, <1>2 DEF PrunedIsCovered

LEMMA RuleIsTransitive ==
  ASSUME ArgumentsOK, NEW a \in Law, NEW b \in Law, NEW d \in Law,
         dominates(a, b, rule), dominates(b, d, rule)
  PROVE  dominates(a, d, rule)
<1> DEFINE n == network.num_scenarios
<1>1. n \in Nat \ {0}
  BY NetworkIsValid
<1>2. rule.order = "Scalar" => rule.tail_count \in 1 .. n
  BY NetworkIsValid
<1>3. rule.order \in {"None", "Statewise", "FirstOrderStochastic", "AllTailAverages", "Scalar"}
  BY NetworkIsValid
<1>4. a \in [1 .. n -> Int] /\ b \in [1 .. n -> Int] /\ d \in [1 .. n -> Int]
  BY DEF Law
<1> HIDE DEF n
<1>5. rule \in Rules
  BY DEF ArgumentsOK
<1> QED
  BY <1>1, <1>2, <1>3, <1>4, <1>5, DominanceIsTransitive

LEMMA CoveredNext ==
  TypeOK /\ FrontiersHoldSurvivors /\ PrunedIsCovered /\ [Next]_vars => PrunedIsCovered'
<1> SUFFICES ASSUME TypeOK, FrontiersHoldSurvivors, PrunedIsCovered, [Next]_vars,
                    NEW i \in 1 .. Len(labels'), labels'[i].pruned
             PROVE  \E h \in frontier'[labels'[i].node] :
                      dominates(labels'[h].law, labels'[i].law, rule')
  BY DEF PrunedIsCovered
<1> DEFINE c == Candidate(Min(todo))
           new == Len(labels) + 1
<1>1. /\ Len(labels) \in Nat
      /\ \A j \in 1 .. Len(labels) :
           /\ labels[j].node \in Node /\ labels[j].law \in Law
           /\ labels'[j].node = labels[j].node /\ labels'[j].law = labels[j].law
  BY LabelsAreKept DEF LabelType
<1>2. \A u \in Node : \A h \in frontier[u] : h \in 1 .. Len(labels) /\ labels[h].node = u
  BY DEF FrontiersHoldSurvivors
<1>3. CASE OfferRejected
  <2>1. /\ frontier' = frontier /\ rule' = rule /\ Len(labels') = new /\ c.node \in Node
        /\ \A j \in 1 .. Len(labels) : labels'[j] = labels[j]
        /\ labels'[new].node = c.node /\ labels'[new].law = c.law
        /\ \E h \in frontier[c.node] : dominates(labels[h].law, c.law, rule)
    BY <1>3, RejectedIsDominated
  <2> HIDE DEF c
  <2>2. CASE i = new
    BY <1>2, <2>1, <2>2
  <2>3. CASE i # new
    <3>1. i \in 1 .. Len(labels) /\ labels[i].pruned
      BY <1>1, <2>1, <2>3
    <3>2. PICK h \in frontier[labels[i].node] : dominates(labels[h].law, labels[i].law, rule)
      BY <3>1 DEF PrunedIsCovered
    <3> QED
      BY <1>1, <1>2, <2>1, <3>1, <3>2
  <2> QED
    BY <2>2, <2>3
<1>4. CASE OfferInserted
  <2> DEFINE gone == Dominated(c)
  <2>1. /\ c.node \in Node /\ c.law \in Law /\ ~ c.pruned /\ rule' = rule
        /\ frontier' = [frontier EXCEPT ![c.node] = (@ \ gone) \cup {new}]
        /\ Len(labels') = new /\ labels'[new] = c
        /\ gone \subseteq frontier[c.node]
        /\ \A j \in gone : dominates(c.law, labels[j].law, rule)
        /\ \A j \in (1 .. Len(labels)) \ gone : labels'[j] = labels[j]
    BY <1>4, InsertedDominates
  <2> HIDE DEF c, gone
  <2>2. /\ new \in frontier'[c.node]
        /\ \A u \in Node : \A h \in frontier[u] \ gone : h \in frontier'[u]
    BY <2>1 DEF TypeOK, FrontierOK
  <2>3. i \in 1 .. Len(labels)
    BY <1>1, <2>1
  <2>4. CASE i \in gone
    <3>1. labels[i].node = c.node
      BY <1>2, <2>1, <2>4
    <3> QED
      BY <1>1, <2>1, <2>2, <2>3, <2>4, <3>1
  <2>5. CASE i \notin gone
    <3>1. labels[i].pruned
      BY <2>1, <2>3, <2>5
    <3>2. PICK h \in frontier[labels[i].node] : dominates(labels[h].law, labels[i].law, rule)
      BY <2>3, <3>1 DEF PrunedIsCovered
    <3>3. h \in 1 .. Len(labels) /\ labels[h].node = labels[i].node
      BY <1>1, <1>2, <2>3, <3>2
    <3>4. CASE h \notin gone
      BY <1>1, <2>1, <2>2, <2>3, <3>2, <3>3, <3>4
    <3>5. CASE h \in gone
      <4>1. labels[i].node = c.node /\ dominates(c.law, labels[h].law, rule)
        BY <1>2, <2>1, <3>3, <3>5
      <4>2. /\ labels[h].law \in Law /\ labels[i].law \in Law
        BY <1>1, <2>3, <3>3
      <4>3. dominates(c.law, labels[i].law, rule)
        BY <2>1, <3>2, <4>1, <4>2, RuleIsTransitive DEF TypeOK
      <4> QED
        BY <1>1, <2>1, <2>2, <2>3, <4>1, <4>3
    <3> QED
      BY <3>4, <3>5
  <2> QED
    BY <2>4, <2>5
<1>5. CASE UNCHANGED << labels, frontier, rule >>
  BY <1>5 DEF PrunedIsCovered
<1> QED
  BY <1>3, <1>4, <1>5 DEF Next, PopSkip, PopExpand, vars, arguments

(* Discarding is covered to the end, under every one of the five orders.   *)
THEOREM RiskPrunedIsCovered == Spec => []PrunedIsCovered
<1> QED
  BY TypeInit, TypeNext, SurvivorsInit, SurvivorsNext, CoveredInit, CoveredNext, PTL DEF Spec

-----------------------------------------------------------------------------
(* LabelsExplained.  A label never loses what explains it, because neither *)
(* it nor its parent changes but for the flag.                             *)
LEMMA ExplainedInit ==
  Init => LabelsExplained
<1> SUFFICES ASSUME Init  PROVE  LabelsExplained
  OBVIOUS
<1>1. labels = << StartLabel >> /\ Len(labels) = 1
  BY DEF Init
<1>2. StartLabel \in LabelType /\ StartLabel.pruned = FALSE
  BY <1>1, TypeInit DEF TypeOK, LabelsOK, StartLabel, RiskLabel
<1>3. [StartLabel EXCEPT !.pruned = FALSE] = StartLabel
  BY <1>2 DEF LabelType
<1> QED
  BY <1>1, <1>3 DEF LabelsExplained, Explained

(* The arguments of a search never change.                                 *)
LEMMA ArgumentsAreKept ==
  ASSUME [Next]_vars
  PROVE  /\ instance' = instance /\ rule' = rule /\ max_legs' = max_legs
         /\ network' = network /\ StartLabel' = StartLabel
<1>1. instance' = instance /\ rule' = rule /\ max_legs' = max_legs
  BY DEF Next, PopSkip, PopExpand, OfferRejected, OfferInserted, vars, arguments
<1> QED
  BY <1>1 DEF network, StartLabel, RiskLabel, certain

(* An offer adds one label, the candidate but for its flag.                *)
LEMMA OfferAdds ==
  ASSUME TypeOK, OfferRejected \/ OfferInserted
  PROVE  LET c == Candidate(Min(todo))
             l == labels'[Len(labels) + 1]
         IN  /\ Len(labels') = Len(labels) + 1
             /\ l.node = c.node /\ l.legs_used = c.legs_used /\ l.law = c.law
             /\ l.parent = c.parent /\ l.via_leg = c.via_leg
<1> DEFINE c == Candidate(Min(todo))
<1>1. c \in LabelType
  BY FirstLeg, CandidateIsLabel DEF OfferRejected, OfferInserted
<1>2. CASE OfferRejected
  <2>1. Len(labels') = Len(labels) + 1 /\ labels'[Len(labels) + 1] = [c EXCEPT !.pruned = TRUE]
    BY <1>1, <1>2, RejectedLabels DEF OfferRejected
  <2> HIDE DEF c
  <2> QED
    BY <1>1, <2>1 DEF LabelType, c
<1>3. CASE OfferInserted
  BY <1>3, InsertedDominates
<1> QED
  BY <1>2, <1>3

LEMMA ExplainedNext ==
  TypeOK /\ LabelsExplained /\ [Next]_vars => LabelsExplained'
<1> SUFFICES ASSUME TypeOK, LabelsExplained, [Next]_vars, NEW i \in 1 .. Len(labels')
             PROVE  Explained(i)'
  BY DEF LabelsExplained
<1>1. /\ Len(labels) \in Nat
      /\ \A j \in 1 .. Len(labels) :
           /\ labels'[j].node = labels[j].node /\ labels'[j].legs_used = labels[j].legs_used
           /\ labels'[j].law = labels[j].law /\ labels'[j].parent = labels[j].parent
           /\ labels'[j].via_leg = labels[j].via_leg
           /\ [labels'[j] EXCEPT !.pruned = FALSE] = [labels[j] EXCEPT !.pruned = FALSE]
  BY LabelsAreKept
<1>2. /\ max_legs' = max_legs /\ network' = network /\ StartLabel' = StartLabel
  BY ArgumentsAreKept
<1>3. CASE i \in 1 .. Len(labels)
  <2>1. Explained(i)
    BY <1>3 DEF LabelsExplained
  <2>2. CASE i = 1 /\ [labels[i] EXCEPT !.pruned = FALSE] = StartLabel
    BY <1>1, <1>2, <1>3, <2>2 DEF Explained
  <2>3. CASE /\ labels[i].parent \in 1 .. i - 1
             /\ labels[i].via_leg \in 1 .. Len(network.legs)
             /\ network.legs[labels[i].via_leg].from = labels[labels[i].parent].node
             /\ network.legs[labels[i].via_leg].to = labels[i].node
             /\ labels[i].legs_used = labels[labels[i].parent].legs_used + 1
             /\ labels[i].legs_used <= max_legs
             /\ labels[i].law = extend(labels[labels[i].parent].law,
                                       network.legs[labels[i].via_leg])
    <3>1. labels[i].parent \in 1 .. Len(labels)
      BY <1>1, <1>3, <2>3
    <3> QED
      BY <1>1, <1>2, <1>3, <2>3, <3>1 DEF Explained
  <2> QED
    BY <2>1, <2>2, <2>3 DEF Explained
<1>4. CASE i \notin 1 .. Len(labels)
  <2>1. OfferRejected \/ OfferInserted
    BY <1>4 DEF Next, PopSkip, PopExpand, vars
  <2> DEFINE leg == Min(todo)
  <2>2. /\ leg \in todo /\ leg \in 1 .. Len(network.legs) /\ expanding \in 1 .. Len(labels)
        /\ labels[expanding].legs_used < max_legs
        /\ network.legs[leg].from = labels[expanding].node
    BY <2>1, FirstLeg DEF TypeOK, ExpandingOK, OfferRejected, OfferInserted
  <2>3. /\ Len(labels') = Len(labels) + 1 /\ i = Len(labels) + 1
        /\ labels'[i].node = Candidate(leg).node /\ labels'[i].legs_used = Candidate(leg).legs_used
        /\ labels'[i].law = Candidate(leg).law /\ labels'[i].parent = Candidate(leg).parent
        /\ labels'[i].via_leg = Candidate(leg).via_leg
    <3>1. Len(labels') = Len(labels) + 1
      BY <2>1, OfferAdds
    <3>2. i = Len(labels) + 1
      BY <1>1, <1>4, <3>1
    <3> QED
      BY <2>1, <3>1, <3>2, OfferAdds
  <2>4. /\ labels'[i].parent = expanding /\ labels'[i].via_leg = leg
        /\ labels'[i].node = network.legs[leg].to
        /\ labels'[i].legs_used = labels[expanding].legs_used + 1
        /\ labels'[i].law = extend(labels[expanding].law, network.legs[leg])
    BY <2>2, <2>3, CandidateIsLabel
  <2>5. labels[expanding].legs_used \in Nat /\ max_legs \in Nat
    <3>1. labels[expanding] \in LabelType
      BY <2>2 DEF TypeOK, LabelsOK
    <3>2. max_legs \in Nat
      BY NetworkIsValid DEF TypeOK
    <3> QED
      BY <3>1, <3>2 DEF LabelType
  <2>6. labels'[i].legs_used <= max_legs
    BY <2>2, <2>4, <2>5
  <2>7. expanding \in 1 .. i - 1
    BY <1>1, <2>2, <2>3
  <2> HIDE DEF leg
  <2> QED
    BY <1>1, <1>2, <2>2, <2>4, <2>6, <2>7 DEF Explained
<1> QED
  BY <1>3, <1>4

(* Every label is the extension of an earlier one, evicted or not.         *)
THEOREM RiskLabelsExplained == Spec => []LabelsExplained
<1> QED
  BY TypeInit, TypeNext, ExplainedInit, ExplainedNext, PTL DEF Spec

-----------------------------------------------------------------------------
(* SafeOrdersSupported.  What one of the three safe orders discards is     *)
(* stochastically dominated, so no pruning is ever counted.                *)
LEMMA SafeOrderIsSupported ==
  ASSUME ArgumentsOK, NEW a, NEW b, a.law \in Law, b.law \in Law,
         rule.order \in {"None", "Statewise", "FirstOrderStochastic"},
         dominates(a.law, b.law, rule)
  PROVE  Supported(a, b)
<1> DEFINE n == network.num_scenarios
<1>1. n \in Nat \ {0} /\ a.law \in [1 .. n -> Int] /\ b.law \in [1 .. n -> Int]
  BY NetworkIsValid DEF Law
<1> HIDE DEF n
<1>2. dominates_statewise(a.law, b.law) \/ dominates_stochastically(a.law, b.law)
  BY DEF dominates
<1> QED
  BY <1>1, <1>2, StatewiseIsStochastic DEF Supported

LEMMA SupportedNext ==
  TypeOK /\ SafeOrdersSupported /\ [Next]_vars => SafeOrdersSupported'
<1> SUFFICES ASSUME TypeOK, SafeOrdersSupported, [Next]_vars,
                    rule'.order \in {"None", "Statewise", "FirstOrderStochastic"}
             PROVE  unsupported_prunings' = 0
  BY DEF SafeOrdersSupported
<1> DEFINE c == Candidate(Min(todo))
<1>1. /\ rule.order \in {"None", "Statewise", "FirstOrderStochastic"}
      /\ unsupported_prunings = 0 /\ ArgumentsOK
  BY ArgumentsAreKept DEF SafeOrdersSupported, TypeOK
<1>2. ASSUME OfferRejected \/ OfferInserted
      PROVE  /\ c.node \in Node /\ c.law \in Law
             /\ \A h \in frontier[c.node] : h \in Nat /\ labels[h].law \in Law
  <2>1. c.node \in Node /\ c.law \in Law
    BY <1>2, FirstLeg, CandidateIsLabel DEF OfferRejected, OfferInserted
  <2>2. \A i \in 1 .. Len(labels) : labels[i] \in LabelType
    BY DEF TypeOK, LabelsOK
  <2>3. \A i \in 1 .. Len(labels) : labels[i].law \in Law
    BY <2>2 DEF LabelType
  <2> QED
    BY <2>1, <2>3, HeldAreLabels
<1>3. CASE OfferRejected
  <2> DEFINE first == Min(Dominators(c))
  <2>1. Dominators(c) # {} /\ Dominators(c) \in SUBSET Nat
    BY <1>2, <1>3 DEF Dominators, OfferRejected
  <2>2. first \in Dominators(c)
    BY <2>1, MinIsLeast
  <2>3. first \in frontier[c.node] /\ dominates(labels[first].law, c.law, rule)
    BY <2>2 DEF Dominators
  <2> HIDE DEF c, first
  <2>4. Supported(labels[first], c)
    BY <1>1, <1>2, <1>3, <2>3, SafeOrderIsSupported
  <2> QED
    BY <1>1, <1>3, <2>4 DEF OfferRejected, c, first
<1>4. CASE OfferInserted
  <2> DEFINE unsupported == {h \in Dominated(c) : ~ Supported(c, labels[h])}
  <2>1. ASSUME NEW h \in Dominated(c)  PROVE  Supported(c, labels[h])
    <3>1. h \in frontier[c.node] /\ dominates(c.law, labels[h].law, rule)
      BY DEF Dominated
    <3> HIDE DEF c
    <3> QED
      BY <1>1, <1>2, <1>4, <3>1, SafeOrderIsSupported
  <2>2. unsupported = {}
    BY <2>1
  <2>3. unsupported_prunings' = unsupported_prunings + Cardinality(unsupported)
    BY <1>4 DEF OfferInserted
  <2> QED
    BY <1>1, <2>2, <2>3, FS_EmptySet
<1>5. CASE UNCHANGED unsupported_prunings
  BY <1>1, <1>5
<1> QED
  BY <1>3, <1>4, <1>5 DEF Next, PopSkip, PopExpand, vars

(* None, Statewise and FirstOrderStochastic never prune beyond the proof.  *)
THEOREM RiskSafeOrdersSupported == Spec => []SafeOrdersSupported
<1>1. Init => SafeOrdersSupported
  BY DEF Init, SafeOrdersSupported
<1> QED
  BY <1>1, TypeInit, TypeNext, SupportedNext, PTL DEF Spec

-----------------------------------------------------------------------------
(* A law through how many scenarios arrive by a time: what its i-th place  *)
(* is, what the first order is, and what a monotone change of the times    *)
(* does to it.                                                             *)
By(law, n, v) == {w \in 1 .. n : law[w] <= v}
Before(law, n, v) == {w \in 1 .. n : law[w] < v}

LEMMA CountsGrow ==
  ASSUME NEW n \in Nat, NEW S \in SUBSET (1 .. n), NEW T \in SUBSET (1 .. n), S \subseteq T
  PROVE  /\ IsFiniteSet(S) /\ IsFiniteSet(T)
         /\ Cardinality(S) \in Nat /\ Cardinality(T) \in Nat
         /\ Cardinality(S) <= Cardinality(T)
         /\ S # T => Cardinality(S) < Cardinality(T)
<1>1. IsFiniteSet(1 .. n)
  BY FS_Interval
<1>2. IsFiniteSet(T) /\ IsFiniteSet(S)
  BY <1>1, FS_Subset
<1>3. Cardinality(S) \in Nat /\ Cardinality(T) \in Nat
  BY <1>2, FS_CardinalityType
<1>4. Cardinality(S) <= Cardinality(T) /\ (Cardinality(S) = Cardinality(T) => S = T)
  BY <1>2, FS_Subset
<1> QED
  BY <1>2, <1>3, <1>4

LEMMA CountsAreNatural ==
  ASSUME NEW n \in Nat, NEW law, NEW v
  PROVE  /\ Cardinality(By(law, n, v)) \in Nat /\ Cardinality(Before(law, n, v)) \in Nat
         /\ By(law, n, v) \in SUBSET (1 .. n) /\ Before(law, n, v) \in SUBSET (1 .. n)
<1>1. By(law, n, v) \in SUBSET (1 .. n) /\ Before(law, n, v) \in SUBSET (1 .. n)
  BY DEF By, Before
<1> QED
  BY <1>1, CountsGrow

LEMMA PlaceCounts ==
  ASSUME NEW n \in Nat \ {0}, NEW law \in [1 .. n -> Int], NEW w \in 1 .. n
  PROVE  /\ Cardinality(Before(law, n, law[w])) < Cardinality(Below(law, n, w))
         /\ Cardinality(Below(law, n, w)) <= Cardinality(By(law, n, law[w]))
<1> DEFINE v == law[w]
<1>1. v \in Int /\ Below(law, n, w) \in SUBSET (1 .. n)
  BY DEF Below
<1>2. Before(law, n, v) \subseteq Below(law, n, w)
  BY <1>1 DEF Before, Below
<1>3. w \in Below(law, n, w) /\ w \notin Before(law, n, v)
  BY <1>1 DEF Before, Below
<1>4. Below(law, n, w) \subseteq By(law, n, v)
  BY <1>1 DEF By, Below
<1> HIDE DEF v
<1> QED
  BY <1>1, <1>2, <1>3, <1>4, CountsGrow, CountsAreNatural DEF v

LEMMA SortedCounts ==
  ASSUME NEW n \in Nat \ {0}, NEW law \in [1 .. n -> Int], NEW i \in 1 .. n
  PROVE  /\ Cardinality(Before(law, n, sorted(law)[i])) < i
         /\ i <= Cardinality(By(law, n, sorted(law)[i]))
<1>1. PICK w \in 1 .. n : Cardinality(Below(law, n, w)) = i /\ sorted(law)[i] = law[w]
  BY SortedHolds
<1> QED
  BY <1>1, PlaceCounts

(* The i-th place is the only time before which fewer than i scenarios     *)
(* arrive, and by which i do.                                              *)
LEMMA CountsSort ==
  ASSUME NEW n \in Nat \ {0}, NEW law \in [1 .. n -> Int], NEW i \in 1 .. n, NEW v \in Int,
         Cardinality(Before(law, n, v)) < i, i <= Cardinality(By(law, n, v))
  PROVE  sorted(law)[i] = v
<1> DEFINE u == sorted(law)[i]
<1>1. u \in Int
  BY SortedIsLaw
<1>2. Cardinality(Before(law, n, u)) < i /\ i <= Cardinality(By(law, n, u))
  BY SortedCounts
<1> HIDE DEF u
<1>3. /\ Cardinality(By(law, n, u)) \in Nat /\ Cardinality(By(law, n, v)) \in Nat
      /\ Cardinality(Before(law, n, u)) \in Nat /\ Cardinality(Before(law, n, v)) \in Nat
      /\ By(law, n, u) \in SUBSET (1 .. n) /\ By(law, n, v) \in SUBSET (1 .. n)
      /\ Before(law, n, u) \in SUBSET (1 .. n) /\ Before(law, n, v) \in SUBSET (1 .. n)
  BY CountsAreNatural
<1>4. ASSUME u < v  PROVE  FALSE
  <2>1. By(law, n, u) \subseteq Before(law, n, v)
    BY <1>1, <1>4 DEF By, Before
  <2>2. Cardinality(By(law, n, u)) <= Cardinality(Before(law, n, v))
    BY <1>3, <2>1, CountsGrow
  <2> QED
    BY <1>2, <1>3, <2>2
<1>5. ASSUME v < u  PROVE  FALSE
  <2>1. By(law, n, v) \subseteq Before(law, n, u)
    BY <1>1, <1>5 DEF By, Before
  <2>2. Cardinality(By(law, n, v)) <= Cardinality(Before(law, n, u))
    BY <1>3, <2>1, CountsGrow
  <2> QED
    BY <1>2, <1>3, <2>2
<1> QED
  BY <1>1, <1>4, <1>5 DEF u

LEMMA SortedAscends ==
  ASSUME NEW n \in Nat \ {0}, NEW law \in [1 .. n -> Int], NEW i \in 1 .. n, NEW j \in 1 .. n, i <= j
  PROVE  sorted(law)[i] <= sorted(law)[j]
<1> DEFINE u == sorted(law)[i]
           v == sorted(law)[j]
<1>1. u \in Int /\ v \in Int
  BY SortedIsLaw
<1>2. Cardinality(Before(law, n, u)) < i /\ j <= Cardinality(By(law, n, v))
  BY SortedCounts
<1> HIDE DEF u, v
<1>3. ASSUME v < u  PROVE  FALSE
  <2>1. By(law, n, v) \subseteq Before(law, n, u)
    BY <1>1, <1>3 DEF By, Before
  <2>2. /\ Cardinality(By(law, n, v)) \in Nat /\ Cardinality(Before(law, n, u)) \in Nat
        /\ By(law, n, v) \in SUBSET (1 .. n) /\ Before(law, n, u) \in SUBSET (1 .. n)
    BY CountsAreNatural
  <2>3. Cardinality(By(law, n, v)) <= Cardinality(Before(law, n, u))
    BY <2>1, <2>2, CountsGrow
  <2> QED
    BY <1>2, <2>2, <2>3
<1> QED
  BY <1>1, <1>3 DEF u, v

LEMMA SortedSpans ==
  ASSUME NEW n \in Nat \ {0}, NEW law \in [1 .. n -> Int], NEW w \in 1 .. n
  PROVE  sorted(law)[1] <= law[w] /\ law[w] <= sorted(law)[n]
<1> DEFINE i == Cardinality(Below(law, n, w))
<1>1. i \in 1 .. n
  BY BelowCardinality
<1>2. sorted(law)[i] = law[w]
  BY <1>1, PlaceCounts, CountsSort
<1> HIDE DEF i
<1>3. 1 \in 1 .. n /\ n \in 1 .. n /\ 1 <= i /\ i <= n
  BY <1>1
<1> QED
  BY <1>1, <1>2, <1>3, SortedAscends

(* a dominates b stochastically exactly when at no time more scenarios of  *)
(* b than of a have arrived.                                               *)
LEMMA StochasticByCounts ==
  ASSUME NEW n \in Nat \ {0}, NEW a \in [1 .. n -> Int], NEW b \in [1 .. n -> Int]
  PROVE  dominates_stochastically(a, b)
           <=> \A v \in Int : Cardinality(By(b, n, v)) <= Cardinality(By(a, n, v))
<1>1. /\ sorted(a) \in [1 .. n -> Int] /\ sorted(b) \in [1 .. n -> Int]
  BY SortedIsLaw
<1>2. dominates_stochastically(a, b) <=> \A i \in 1 .. n : sorted(a)[i] <= sorted(b)[i]
  <2>1. Len(sorted(a)) = n
    BY <1>1, PlacedIsBelow
  <2> QED
    BY <2>1 DEF dominates_stochastically, dominates_statewise
<1>3. ASSUME NEW law \in [1 .. n -> Int], NEW v \in Int
      PROVE  /\ Cardinality(By(law, n, v)) \in 0 .. n
             /\ \A i \in 1 .. n : i <= Cardinality(By(law, n, v)) <=> sorted(law)[i] <= v
  <2>1. Cardinality(By(law, n, v)) \in Nat /\ By(law, n, v) \in SUBSET (1 .. n)
    BY CountsAreNatural
  <2>2. Cardinality(By(law, n, v)) <= n
    <3>1. Cardinality(1 .. n) = n
      BY FS_Interval
    <3>2. Cardinality(By(law, n, v)) <= Cardinality(1 .. n)
      BY <2>1, CountsGrow
    <3> QED
      BY <3>1, <3>2
  <2>3. ASSUME NEW i \in 1 .. n  PROVE  i <= Cardinality(By(law, n, v)) <=> sorted(law)[i] <= v
    <3> DEFINE u == sorted(law)[i]
    <3>1. u \in Int
      BY SortedIsLaw
    <3>2. Cardinality(Before(law, n, u)) < i /\ i <= Cardinality(By(law, n, u))
      BY SortedCounts
    <3> HIDE DEF u
    <3>3. /\ Cardinality(By(law, n, u)) \in Nat /\ Cardinality(Before(law, n, u)) \in Nat
          /\ By(law, n, u) \in SUBSET (1 .. n) /\ Before(law, n, u) \in SUBSET (1 .. n)
      BY CountsAreNatural
    <3>4. CASE u <= v
      <4>1. By(law, n, u) \subseteq By(law, n, v)
        BY <3>1, <3>4 DEF By
      <4>2. Cardinality(By(law, n, u)) <= Cardinality(By(law, n, v))
        BY <2>1, <3>3, <4>1, CountsGrow
      <4> QED
        BY <2>1, <3>2, <3>3, <3>4, <4>2 DEF u
    <3>5. CASE v < u
      <4>1. By(law, n, v) \subseteq Before(law, n, u)
        BY <3>1, <3>5 DEF By, Before
      <4>2. Cardinality(By(law, n, v)) <= Cardinality(Before(law, n, u))
        BY <2>1, <3>3, <4>1, CountsGrow
      <4>3. ~ (i <= Cardinality(By(law, n, v)))
        BY <2>1, <3>2, <3>3, <4>2
      <4>4. ~ (u <= v)
        BY <3>1, <3>5
      <4> QED
        BY <4>3, <4>4 DEF u
    <3> QED
      BY <3>1, <3>4, <3>5
  <2> QED
    BY <2>1, <2>2, <2>3
<1>4. ASSUME \A i \in 1 .. n : sorted(a)[i] <= sorted(b)[i], NEW v \in Int
      PROVE  Cardinality(By(b, n, v)) <= Cardinality(By(a, n, v))
  <2>1. PICK k \in 0 .. n : k = Cardinality(By(b, n, v))
    BY <1>3
  <2>2. CASE k = 0
    BY <1>3, <2>1, <2>2
  <2>3. CASE k # 0
    <3>1. k \in 1 .. n /\ k <= k
      BY <2>3
    <3>2. sorted(b)[k] <= v
      BY <1>3, <2>1, <3>1
    <3>3. sorted(a)[k] \in Int /\ sorted(b)[k] \in Int /\ sorted(a)[k] <= sorted(b)[k]
      BY <1>1, <1>4, <3>1
    <3>4. sorted(a)[k] <= v
      BY <3>2, <3>3
    <3> QED
      BY <1>3, <2>1, <3>1, <3>4
  <2> QED
    BY <2>2, <2>3
<1>5. ASSUME \A v \in Int : Cardinality(By(b, n, v)) <= Cardinality(By(a, n, v)), NEW i \in 1 .. n
      PROVE  sorted(a)[i] <= sorted(b)[i]
  <2>1. PICK v \in Int : v = sorted(b)[i]
    BY <1>1
  <2>2. i <= Cardinality(By(b, n, v))
    BY <2>1, SortedCounts
  <2>3. /\ Cardinality(By(b, n, v)) \in Nat /\ Cardinality(By(a, n, v)) \in Nat
        /\ Cardinality(By(b, n, v)) <= Cardinality(By(a, n, v))
    BY <1>5, CountsAreNatural
  <2>4. i <= Cardinality(By(a, n, v))
    BY <2>2, <2>3
  <2> QED
    BY <1>3, <2>1, <2>4
<1> QED
  BY <1>2, <1>4, <1>5

(* Changing all times by a monotone function changes each place by it.     *)
Monotone(f) == f \in [Int -> Int] /\ \A x, y \in Int : x <= y => f[x] <= f[y]
Through(f, law, n, changed) == \A w \in 1 .. n : changed[w] = f[law[w]]
SortsThrough(f, law, n, changed) ==
  \A i \in 1 .. n : sorted(changed)[i] = f[sorted(law)[i]]

LEMMA MonotoneSorts ==
  ASSUME NEW n \in Nat \ {0}, NEW law \in [1 .. n -> Int], NEW f, Monotone(f),
         NEW changed \in [1 .. n -> Int], Through(f, law, n, changed)
  PROVE  SortsThrough(f, law, n, changed)
<1> SUFFICES ASSUME NEW i \in 1 .. n  PROVE  sorted(changed)[i] = f[sorted(law)[i]]
  BY DEF SortsThrough
<1> USE DEF Monotone, Through
<1> DEFINE u == sorted(law)[i]
           v == f[u]
<1>1. u \in Int
  <2>1. sorted(law) \in [1 .. n -> Int]
    BY SortedIsLaw
  <2> QED
    BY <2>1
<1>2. Cardinality(Before(law, n, u)) < i /\ i <= Cardinality(By(law, n, u))
  BY SortedCounts
<1> HIDE DEF u
<1>3. v \in Int
  BY <1>1
<1> HIDE DEF v
<1>4. Before(changed, n, v) \subseteq Before(law, n, u)
  <2> SUFFICES ASSUME NEW w \in 1 .. n, changed[w] < v  PROVE  law[w] < u
    BY DEF Before
  <2>1. PICK x \in Int : x = law[w]
    OBVIOUS
  <2>2. changed[w] = f[x] /\ f[x] \in Int
    BY <2>1
  <2>3. u <= x => v <= f[x]
    BY <1>1 DEF v
  <2>4. ~ (v <= f[x])
    BY <1>3, <2>2
  <2> QED
    BY <1>1, <2>1, <2>3, <2>4
<1>5. By(law, n, u) \subseteq By(changed, n, v)
  BY <1>1 DEF By, v
<1>6. /\ Cardinality(Before(changed, n, v)) <= Cardinality(Before(law, n, u))
      /\ Cardinality(By(law, n, u)) <= Cardinality(By(changed, n, v))
      /\ Cardinality(Before(changed, n, v)) \in Nat /\ Cardinality(Before(law, n, u)) \in Nat
      /\ Cardinality(By(law, n, u)) \in Nat /\ Cardinality(By(changed, n, v)) \in Nat
  BY <1>4, <1>5, CountsGrow, CountsAreNatural
<1>7. Cardinality(Before(changed, n, v)) < i
  <2> DEFINE x == Cardinality(Before(changed, n, v))
             y == Cardinality(Before(law, n, u))
  <2>1. x \in Nat /\ y \in Nat /\ i \in Nat /\ x <= y /\ y < i
    BY <1>2, <1>6
  <2> HIDE DEF x, y
  <2>2. x < i
    BY ONLY <2>1
  <2> QED
    BY <2>2 DEF x
<1>8. i <= Cardinality(By(changed, n, v))
  <2> DEFINE x == Cardinality(By(changed, n, v))
             y == Cardinality(By(law, n, u))
  <2>1. x \in Nat /\ y \in Nat /\ i \in Nat /\ y <= x /\ i <= y
    BY <1>2, <1>6
  <2> HIDE DEF x, y
  <2>2. i <= x
    BY ONLY <2>1
  <2> QED
    BY <2>2 DEF x
<1>9. sorted(changed)[i] = v
  BY <1>3, <1>7, <1>8, CountsSort
<1> QED
  BY <1>9 DEF u, v

-----------------------------------------------------------------------------
(* Sums of the latest arrivals, and the leg that separates two laws.       *)
LEMMA TailTotalsAdd ==
  ASSUME NEW n \in Nat \ {0}, NEW law \in [1 .. n -> Int]
  PROVE  /\ tail_totals(law)[0] = 0
         /\ \A m \in 1 .. n :
              tail_totals(law)[m] = tail_totals(law)[m - 1] + sorted(law)[n - m + 1]
<1> DEFINE s == sorted(law)
           add(f) == [m \in 0 .. n |-> IF m = 0 THEN 0 ELSE f[m - 1] + s[n - m + 1]]
           t == tail_totals(law)
<1>1. s \in [1 .. n -> Int]
  BY SortedIsLaw
<1>2. PICK f : f \in Sums(s, n, n)
  BY <1>1, SumsExist
<1>3. f = add(f)
  BY <1>2 DEF Sums
<1>4. t = CHOOSE g : g = add(g)
  BY PlacedIsBelow DEF tail_totals
<1>5. t = add(t)
  BY <1>3, <1>4
<1> HIDE DEF t, s
<1>6. \A m \in 0 .. n : t[m] = IF m = 0 THEN 0 ELSE t[m - 1] + s[n - m + 1]
  BY <1>5
<1>7. t[0] = 0
  BY <1>6
<1>8. \A m \in 1 .. n : t[m] = t[m - 1] + s[n - m + 1]
  BY <1>6
<1> QED
  BY <1>7, <1>8 DEF t, s

(* A law earlier in every place has smaller sums, and a smaller total if   *)
(* it is strictly earlier in one.                                          *)
LEMMA TotalsCompare ==
  ASSUME NEW n \in Nat \ {0}, NEW a \in [1 .. n -> Int], NEW b \in [1 .. n -> Int],
         \A i \in 1 .. n : sorted(a)[i] <= sorted(b)[i]
  PROVE  /\ \A m \in 0 .. n : tail_totals(a)[m] <= tail_totals(b)[m]
         /\ \A k \in 1 .. n : sorted(a)[k] < sorted(b)[k] => total(a) < total(b)
<1> DEFINE sa == sorted(a)
           sb == sorted(b)
           ta == tail_totals(a)
           tb == tail_totals(b)
<1>1. sa \in [1 .. n -> Int] /\ sb \in [1 .. n -> Int]
  BY SortedIsLaw
<1>2. \A m \in 0 .. n : ta[m] \in Int /\ tb[m] \in Int
  BY TailTotalsAreIntegers
<1>3. /\ ta[0] = 0 /\ tb[0] = 0
      /\ \A m \in 1 .. n : ta[m] = ta[m - 1] + sa[n - m + 1]
      /\ \A m \in 1 .. n : tb[m] = tb[m - 1] + sb[n - m + 1]
  BY TailTotalsAdd
<1>4. \A i \in 1 .. n : sa[i] <= sb[i]
  OBVIOUS
<1>5. total(a) = ta[n] /\ total(b) = tb[n]
  BY PlacedIsBelow DEF total
<1> HIDE DEF sa, sb, ta, tb
<1> DEFINE S == {m \in 0 .. n : ta[m] <= tb[m]}
<1>6. 0 .. n \subseteq S
  <2>1. 0 \in S
    BY <1>3
  <2>2. ASSUME NEW m \in 0 .. n - 1, m \in S  PROVE  m + 1 \in S
    <3> DEFINE i == n - m
    <3>1. m + 1 \in 1 .. n /\ m \in 0 .. n /\ i \in 1 .. n /\ m + 1 \in 0 .. n
      OBVIOUS
    <3>2. ta[m + 1] = ta[m] + sa[i] /\ tb[m + 1] = tb[m] + sb[i]
      <4>1. n - (m + 1) + 1 = i /\ (m + 1) - 1 = m
        OBVIOUS
      <4> HIDE DEF i
      <4> QED
        BY <1>3, <3>1, <4>1
    <3>3. sa[i] \in Int /\ sb[i] \in Int /\ sa[i] <= sb[i] /\ ta[m] \in Int /\ tb[m] \in Int
      BY <1>1, <1>2, <1>4, <3>1
    <3>4. ta[m] <= tb[m]
      BY <2>2
    <3> HIDE DEF i
    <3>5. ta[m + 1] <= tb[m + 1]
      BY <3>2, <3>3, <3>4
    <3> QED
      BY <3>1, <3>5
  <2> HIDE DEF S
  <2> QED
    BY <2>1, <2>2, UpTo
<1>7. ASSUME NEW k \in 1 .. n, sa[k] < sb[k]  PROVE  ta[n] < tb[n]
  <2> DEFINE T == {m \in 0 .. n : m >= n - k + 1 => ta[m] < tb[m]}
  <2>1. 0 \in T
    OBVIOUS
  <2>2. ASSUME NEW m \in 0 .. n - 1, m \in T  PROVE  m + 1 \in T
    <3> DEFINE i == n - m
    <3>1. m + 1 \in 1 .. n /\ m \in 0 .. n /\ i \in 1 .. n /\ m + 1 \in 0 .. n
      OBVIOUS
    <3>2. ta[m + 1] = ta[m] + sa[i] /\ tb[m + 1] = tb[m] + sb[i]
      <4>1. n - (m + 1) + 1 = i /\ (m + 1) - 1 = m
        OBVIOUS
      <4> HIDE DEF i
      <4> QED
        BY <1>3, <3>1, <4>1
    <3>3. sa[i] \in Int /\ sb[i] \in Int /\ sa[i] <= sb[i] /\ ta[m] \in Int /\ tb[m] \in Int
      BY <1>1, <1>2, <1>4, <3>1
    <3>4. ta[m] <= tb[m]
      BY <1>6, <3>1
    <3>5. CASE i = k
      <4>1. sa[i] < sb[i]
        BY <1>7, <3>5
      <4> HIDE DEF i
      <4>2. ta[m + 1] < tb[m + 1]
        BY <3>2, <3>3, <3>4, <4>1
      <4> QED
        BY <3>1, <4>2
    <3>6. CASE m >= n - k + 1
      <4>1. ta[m] < tb[m]
        BY <2>2, <3>6
      <4> HIDE DEF i
      <4>2. ta[m + 1] < tb[m + 1]
        BY <3>2, <3>3, <4>1
      <4> QED
        BY <3>1, <4>2
    <3>7. CASE m + 1 < n - k + 1
      BY <3>1, <3>7
    <3>8. i = k \/ m >= n - k + 1 \/ m + 1 < n - k + 1
      OBVIOUS
    <3> HIDE DEF T
    <3> QED
      BY <3>5, <3>6, <3>7, <3>8
  <2>3. n \in 0 .. n /\ n >= n - k + 1
    OBVIOUS
  <2>4. 0 .. n \subseteq T
    <3> HIDE DEF T
    <3> QED
      BY <2>1, <2>2, UpTo
  <2> QED
    BY <2>3, <2>4
<1>8. \A m \in 0 .. n : ta[m] <= tb[m]
  BY <1>6
<1>9. \A k \in 1 .. n : sa[k] < sb[k] => ta[n] < tb[n]
  BY <1>7
<1>10. \A m \in 0 .. n : tail_totals(a)[m] <= tail_totals(b)[m]
  BY <1>8 DEF ta, tb
<1>11. \A k \in 1 .. n : sorted(a)[k] < sorted(b)[k] => total(a) < total(b)
  BY <1>5, <1>9 DEF sa, sb
<1> QED
  BY <1>10, <1>11

LEMMA MinOfPair ==
  ASSUME NEW x \in Int, NEW y \in Int
  PROVE  Min({x, y}) \in Int /\ Min({x, y}) <= x /\ Min({x, y}) <= y
<1> QED
  BY DEF Min

LEMMA MaxOfPair ==
  ASSUME NEW x \in Int, NEW y \in Int
  PROVE  Max({x, y}) \in Int /\ x <= Max({x, y}) /\ y <= Max({x, y})
<1> QED
  BY DEF Max

LEMMA MaxOfThree ==
  ASSUME NEW x \in Int, NEW y \in Int, NEW z \in Int
  PROVE  /\ Max({x, y, z}) \in Int
         /\ x <= Max({x, y, z}) /\ y <= Max({x, y, z}) /\ z <= Max({x, y, z})
<1> DEFINE S == {x, y, z}
<1>1. \E m \in S : \A i \in S : m >= i
  OBVIOUS
<1>2. Max(S) \in S /\ \A i \in S : Max(S) >= i
  BY <1>1 DEF Max
<1> HIDE DEF S
<1>3. x \in S /\ y \in S /\ z \in S /\ \A i \in S : i \in Int
  BY DEF S
<1>4. Max(S) \in Int /\ x <= Max(S) /\ y <= Max(S) /\ z <= Max(S)
  BY <1>2, <1>3
<1> QED
  BY <1>4 DEF S

LEMMA CeilAround ==
  ASSUME NEW x \in Int, NEW h \in Nat \ {0}, - h < x, x < h
  PROVE  ceil_div(x, h) = IF x <= 0 THEN 0 ELSE 1
<1>1. CASE x <= 0
  <2>1. CASE x = 0
    <3>1. (x + h - 1) \div h = 0
      BY <2>1
    <3> QED
      BY <2>1, <3>1 DEF ceil_div
  <2>2. CASE x < 0
    <3>1. (- x) \div h = 0 /\ ~ (x >= 0)
      BY <2>2
    <3>2. ceil_div(x, h) = - ((- x) \div h)
      BY <3>1 DEF ceil_div
    <3> QED
      BY <2>2, <3>1, <3>2
  <2> QED
    BY <1>1, <2>1, <2>2
<1>2. CASE x > 0
  <2>1. (x + h - 1) \div h = 1 /\ x >= 0
    BY <1>2
  <2> QED
    BY <1>2, <2>1 DEF ceil_div
<1> QED
  BY <1>1, <1>2

(* Riding a leg that departs at theta and at no other time within a        *)
(* headway: who is there by theta leaves then, the others a headway later. *)
LEMMA RideAround ==
  ASSUME NEW theta \in Int, NEW h \in Nat \ {0}, NEW x \in Int, NEW w,
         - h < x - theta, x - theta < h
  PROVE  extend_one(x, StochasticLeg(0, 0, h, theta, 0, << >>, << >>), w)
           = IF x <= theta THEN theta ELSE theta + h
<1> DEFINE leg == StochasticLeg(0, 0, h, theta, 0, << >>, << >>)
           k == ceil_div(x - theta, h)
<1>1. /\ leg.shift_s = << >> /\ leg.delay_s = << >> /\ leg.min_transfer_s = 0
      /\ leg.offset_s = theta /\ leg.headway_s = h /\ leg.ride_s = 0
  BY DEF StochasticLeg
<1>2. k = IF x - theta <= 0 THEN 0 ELSE 1
  BY CeilAround
<1>3. at_or_zero(<< >>, w) = 0
  BY DEF at_or_zero
<1>4. x + 0 - 0 - theta = x - theta
  OBVIOUS
<1> HIDE DEF leg, k
<1>5. extend_one(x, leg, w) = theta + k * h + 0 + 0 + 0
  BY <1>1, <1>3, <1>4 DEF extend_one, k
<1>6. CASE x <= theta
  <2>1. k = 0
    BY <1>2, <1>6
  <2> QED
    BY <1>5, <1>6, <2>1 DEF leg
<1>7. CASE x > theta
  <2>1. k = 1
    BY <1>2, <1>7
  <2> QED
    BY <1>5, <1>7, <2>1 DEF leg
<1> QED
  BY <1>6, <1>7

DepartsAt(leg, theta, h) == leg = StochasticLeg(0, 0, h, theta, 0, << >>, << >>)

CaughtAt(n, law, theta, h, ridden) ==
  /\ ridden \in [1 .. n -> Int]
  /\ \A i \in 1 .. n : sorted(ridden)[i] = IF sorted(law)[i] <= theta THEN theta ELSE theta + h

LEMMA RiddenAround ==
  ASSUME NEW n \in Nat \ {0}, NEW law \in [1 .. n -> Int], NEW theta \in Int, NEW h \in Nat \ {0},
         - h < sorted(law)[1] - theta, sorted(law)[n] - theta < h,
         NEW leg, DepartsAt(leg, theta, h)
  PROVE  CaughtAt(n, law, theta, h, extend(law, leg))
<1> DEFINE ridden == extend(law, leg)
           f == [x \in Int |-> IF x <= theta THEN theta ELSE theta + h]
<1>1. Len(law) = n
  BY PlacedIsBelow
<1>2. sorted(law) \in [1 .. n -> Int] /\ 1 \in 1 .. n /\ n \in 1 .. n
  BY SortedIsLaw
<1>3. ASSUME NEW w \in 1 .. n  PROVE  extend_one(law[w], leg, w) = f[law[w]]
  <2> DEFINE x == law[w]
  <2>1. x \in Int /\ sorted(law)[1] <= x /\ x <= sorted(law)[n]
    BY SortedSpans
  <2>2. sorted(law)[1] \in Int /\ sorted(law)[n] \in Int
    BY <1>2
  <2> HIDE DEF x
  <2>3. - h < x - theta /\ x - theta < h
    BY <2>1, <2>2
  <2> QED
    BY <2>1, <2>3, RideAround DEF x, DepartsAt
<1>4. \A w \in 1 .. n : ridden[w] = f[law[w]]
  BY <1>1, <1>3 DEF extend
<1>5. ridden = [w \in 1 .. n |-> extend_one(law[w], leg, w)]
  BY <1>1 DEF extend
<1>6. f \in [Int -> Int]
  OBVIOUS
<1>7. \A x, y \in Int : x <= y => f[x] <= f[y]
  OBVIOUS
<1>8. \A x \in Int : f[x] = IF x <= theta THEN theta ELSE theta + h
  OBVIOUS
<1> HIDE DEF f
<1>9. ridden \in [1 .. n -> Int]
  <2>1. \A w \in 1 .. n : extend_one(law[w], leg, w) \in Int
    BY <1>3, <1>6
  <2> QED
    BY <1>5, <2>1
<1> HIDE DEF ridden
<1>10. \A i \in 1 .. n : sorted(ridden)[i] = f[sorted(law)[i]]
  <2>1. Monotone(f) /\ Through(f, law, n, ridden)
    BY <1>4, <1>6, <1>7 DEF Monotone, Through
  <2>2. SortsThrough(f, law, n, ridden)
    BY <1>9, <2>1, MonotoneSorts
  <2> QED
    BY <2>2 DEF SortsThrough
<1>11. \A i \in 1 .. n : sorted(law)[i] \in Int
  BY <1>2
<1> QED
  BY <1>8, <1>9, <1>10, <1>11 DEF ridden, CaughtAt

(* The leg of a and b that are not in order: at the first place where a is *)
(* later, b still catches the departure at the threshold and a does not.   *)
LEMMA LegSeparates ==
  ASSUME NEW n \in Nat \ {0}, NEW a \in [1 .. n -> Int], NEW b \in [1 .. n -> Int]
  PROVE  IF dominates_stochastically(a, b) THEN separating_leg(a, b) = NoLeg
         ELSE total(extend(a, separating_leg(a, b))) > total(extend(b, separating_leg(a, b)))
<1> DEFINE sa == sorted(a)
           sb == sorted(b)
           later == {i \in 1 .. n : sa[i] > sb[i]}
           theta == sb[Min(later)]
           lo == Min({sa[1], sb[1]})
           hi == Max({sa[n], sb[n]})
           h == headway_around(theta, lo, hi)
           leg == StochasticLeg(0, 0, h, theta, 0, << >>, << >>)
<1>1. sa \in [1 .. n -> Int] /\ sb \in [1 .. n -> Int]
  BY SortedIsLaw
<1>2. Len(a) = n /\ Len(sa) = n
  BY <1>1, PlacedIsBelow
<1>3. separating_leg(a, b) = IF later = {} THEN NoLeg ELSE leg
  BY <1>2 DEF separating_leg
<1>4. dominates_stochastically(a, b) <=> later = {}
  <2>1. dominates_stochastically(a, b) <=> \A i \in 1 .. n : sa[i] <= sb[i]
    BY <1>2 DEF dominates_stochastically, dominates_statewise
  <2>2. ASSUME NEW i \in 1 .. n  PROVE  sa[i] <= sb[i] <=> i \notin later
    <3>1. sa[i] \in Int /\ sb[i] \in Int
      BY <1>1
    <3> HIDE DEF sa, sb
    <3> QED
      BY <3>1
  <2>3. later \subseteq 1 .. n
    OBVIOUS
  <2> HIDE DEF later, sa, sb
  <2> QED
    BY <2>1, <2>2, <2>3
<1>5. ASSUME later # {}  PROVE  total(extend(a, leg)) > total(extend(b, leg))
  <2>1. later \in SUBSET Nat
    OBVIOUS
  <2> DEFINE m == Min(later)
  <2>2. m \in later /\ \A i \in later : m <= i
    <3> HIDE DEF later
    <3> QED
      BY <1>5, <2>1, MinIsLeast
  <2>3. m \in 1 .. n /\ sa[m] > sb[m]
    <3> HIDE DEF m, sa, sb
    <3> QED
      BY <1>1, <2>2
  <2>4. theta \in Int /\ theta = sb[m]
    BY <1>1, <2>3
  <2> HIDE DEF m
  <2>5. sa[1] \in Int /\ sb[1] \in Int /\ sa[n] \in Int /\ sb[n] \in Int
    <3>1. 1 \in 1 .. n /\ n \in 1 .. n
      OBVIOUS
    <3> QED
      BY <1>1, <3>1
  <2>6. lo \in Int /\ lo <= sa[1] /\ lo <= sb[1]
    BY <2>5, MinOfPair
  <2>7. hi \in Int /\ sa[n] <= hi /\ sb[n] <= hi
    BY <2>5, MaxOfPair
  <2> HIDE DEF lo, hi, theta
  <2>8. h \in Int /\ hi - theta + 1 <= h /\ theta - lo + 1 <= h /\ 1 <= h
    <3>1. hi - theta + 1 \in Int /\ theta - lo + 1 \in Int /\ 1 \in Int
      BY <2>4, <2>6, <2>7
    <3> QED
      BY <3>1, MaxOfThree DEF headway_around
  <2> HIDE DEF h
  <2>9. h \in Nat \ {0}
    BY <2>8
  <2>10. /\ - h < sa[1] - theta /\ - h < sb[1] - theta
         /\ sa[n] - theta < h /\ sb[n] - theta < h
    <3>1. - h < sa[1] - theta
      BY <2>4, <2>5, <2>6, <2>8, SMTT(30)
    <3>2. - h < sb[1] - theta
      BY <2>4, <2>5, <2>6, <2>8
    <3>3. sa[n] - theta < h
      BY <2>4, <2>5, <2>7, <2>8, SMTT(30)
    <3>4. sb[n] - theta < h
      BY <2>4, <2>5, <2>7, <2>8
    <3> QED
      BY <3>1, <3>2, <3>3, <3>4
  <2> DEFINE ra == extend(a, leg)
             rb == extend(b, leg)
  <2>11. /\ ra \in [1 .. n -> Int]
         /\ \A i \in 1 .. n : sorted(ra)[i] = IF sa[i] <= theta THEN theta ELSE theta + h
    <3>1. - h < sorted(a)[1] - theta /\ sorted(a)[n] - theta < h
      BY <2>10
    <3>2. DepartsAt(leg, theta, h)
      BY DEF DepartsAt
    <3> HIDE DEF leg, sa, sb
    <3>3. CaughtAt(n, a, theta, h, extend(a, leg))
      BY <2>4, <2>9, <3>1, <3>2, RiddenAround
    <3> QED
      BY <3>3 DEF sa, sb, CaughtAt
  <2>12. /\ rb \in [1 .. n -> Int]
         /\ \A i \in 1 .. n : sorted(rb)[i] = IF sb[i] <= theta THEN theta ELSE theta + h
    <3>1. - h < sorted(b)[1] - theta /\ sorted(b)[n] - theta < h
      BY <2>10
    <3>2. DepartsAt(leg, theta, h)
      BY DEF DepartsAt
    <3> HIDE DEF leg, sa, sb
    <3>3. CaughtAt(n, b, theta, h, extend(b, leg))
      BY <2>4, <2>9, <3>1, <3>2, RiddenAround
    <3> QED
      BY <3>3 DEF sa, sb, CaughtAt
  <2> HIDE DEF ra, rb
  <2>13. \A i \in 1 .. n : sa[i] \in Int /\ sb[i] \in Int
    BY <1>1
  <2>14. ASSUME NEW i \in 1 .. n  PROVE  sorted(rb)[i] <= sorted(ra)[i]
    <3>1. CASE i < m
      <4>1. i \notin later
        BY <2>2, <2>3, <3>1
      <4>2. sa[i] <= sb[i]
        BY <2>13, <4>1
      <4>3. sb[i] <= sb[m]
        BY <2>3, <3>1, SortedAscends
      <4>4. sb[i] <= theta /\ sa[i] <= theta
        BY <2>4, <2>13, <4>2, <4>3
      <4>5. sorted(rb)[i] = theta /\ sorted(ra)[i] = theta
        BY <2>11, <2>12, <4>4
      <4> QED
        BY <2>4, <4>5
    <3>2. CASE m <= i
      <4>1. sa[m] <= sa[i]
        BY <2>3, <3>2, SortedAscends
      <4>2. sa[m] > theta /\ sa[m] \in Int /\ sa[i] \in Int
        BY <2>3, <2>4, <2>13
      <4>3. ~ (sa[i] <= theta)
        BY <2>4, <4>1, <4>2
      <4>4. sorted(ra)[i] = theta + h
        BY <2>11, <4>3
      <4>5. sorted(rb)[i] = theta \/ sorted(rb)[i] = theta + h
        BY <2>12
      <4> QED
        BY <2>4, <2>9, <4>4, <4>5
    <3> QED
      BY <2>3, <3>1, <3>2
  <2>15. sorted(rb)[m] < sorted(ra)[m]
    <3>1. sb[m] <= theta /\ ~ (sa[m] <= theta)
      BY <2>3, <2>4, <2>13
    <3>2. sorted(rb)[m] = theta /\ sorted(ra)[m] = theta + h
      BY <2>3, <2>11, <2>12, <3>1
    <3> QED
      BY <2>4, <2>9, <3>2
  <2>16. total(rb) < total(ra)
    BY <2>3, <2>11, <2>12, <2>14, <2>15, TotalsCompare
  <2>17. total(rb) \in Int /\ total(ra) \in Int
    <3>1. n \in 0 .. n /\ Len(ra) = n /\ Len(rb) = n
      BY <2>11, <2>12, PlacedIsBelow
    <3> QED
      BY <2>11, <2>12, <3>1, TailTotalsAreIntegers DEF total
  <2>18. total(ra) > total(rb)
    BY <2>16, <2>17
  <2> QED
    BY <2>18 DEF ra, rb
<1> HIDE DEF later, leg
<1> QED
  BY <1>3, <1>4, <1>5

(* The leg separating_leg names makes a worse on average, whenever a does  *)
(* not stochastically dominate b, for any two laws that met at a node.     *)
THEOREM SeparatingLegHolds == Spec => []SeparatingLegReverses
<1>1. ASSUME TypeOK  PROVE  SeparatingLegReverses
  <2>1. network.num_scenarios \in Nat \ {0}
    BY <1>1, NetworkIsValid DEF TypeOK
  <2>2. ASSUME NEW u \in Node, NEW a \in LawsAt(u)  PROVE  a \in Law
    <3>1. PICK l \in Range(labels) : a = l.law
      BY <2>2 DEF LawsAt
    <3>2. l \in LabelType
      BY <1>1, <3>1 DEF TypeOK, LabelsOK, Range
    <3> QED
      BY <3>1, <3>2 DEF LabelType
  <2>3. ASSUME NEW u \in Node, NEW a \in LawsAt(u), NEW b \in LawsAt(u)
        PROVE  LET leg == separating_leg(a, b)
               IN  IF dominates_stochastically(a, b) THEN leg = NoLeg
                   ELSE total(extend(a, leg)) > total(extend(b, leg))
    <3>1. a \in [1 .. network.num_scenarios -> Int] /\ b \in [1 .. network.num_scenarios -> Int]
      BY <2>2, <2>3 DEF Law
    <3> QED
      BY <2>1, <3>1, LegSeparates
  <2> QED
    BY <2>3 DEF SeparatingLegReverses
<1> QED
  BY <1>1, RiskTypeCorrect, PTL

-----------------------------------------------------------------------------
(* JourneysReplay.  journey_of is defined by recursion on a parent that    *)
(* comes before its child, so it exists; and along that recursion a label  *)
(* and its journey are extended alike.                                     *)
Journey == [legs : Seq(1 .. Len(network.legs)), end_node : Node, law : Law]
Start == [legs |-> << >>, end_node |-> instance.source, law |-> StartLabel.law]

Replayed(f, i) ==
  IF labels[i].via_leg = 0 THEN Start ELSE Ridden(f[labels[i].parent], labels[i].via_leg)

LEMMA StartIsJourney ==
  ASSUME ArgumentsOK
  PROVE  Start \in Journey
<1>1. instance.source \in Node
  BY NetworkIsValid
<1>2. StartLabel.law \in Law
  BY NetworkIsValid DEF StartLabel, RiskLabel, certain, Law
<1>3. << >> \in Seq(1 .. Len(network.legs))
  OBVIOUS
<1> QED
  BY <1>1, <1>2, <1>3 DEF Start, Journey

LEMMA RiddenIsJourney ==
  ASSUME ArgumentsOK, NEW j \in Journey, NEW i \in 1 .. Len(network.legs)
  PROVE  /\ Ridden(j, i) \in Journey
         /\ Ridden(j, i).legs = Append(j.legs, i)
         /\ Ridden(j, i).end_node = network.legs[i].to
         /\ Ridden(j, i).law = extend(j.law, network.legs[i])
<1>1. /\ j.legs \in Seq(1 .. Len(network.legs)) /\ j.law \in Law
  BY DEF Journey
<1>2. network.legs[i].to \in Node /\ extend(j.law, network.legs[i]) \in Law
  BY <1>1, LegIsValid
<1>3. Append(j.legs, i) \in Seq(1 .. Len(network.legs))
  BY <1>1
<1> QED
  BY <1>2, <1>3 DEF Ridden, Journey

LEMMA LabelExplained ==
  ASSUME TypeOK, LabelsExplained, NEW i \in 1 .. Len(labels)
  PROVE  \/ /\ labels[i].via_leg = 0 /\ labels[i].node = instance.source
            /\ labels[i].legs_used = 0 /\ labels[i].law = StartLabel.law
         \/ /\ labels[i].via_leg \in 1 .. Len(network.legs) /\ labels[i].via_leg # 0
            /\ labels[i].parent \in 1 .. i - 1 /\ labels[i].parent \in 1 .. Len(labels)
            /\ network.legs[labels[i].via_leg].from = labels[labels[i].parent].node
            /\ network.legs[labels[i].via_leg].to = labels[i].node
            /\ labels[i].legs_used = labels[labels[i].parent].legs_used + 1
            /\ labels[i].legs_used <= max_legs
            /\ labels[i].law = extend(labels[labels[i].parent].law,
                                      network.legs[labels[i].via_leg])
<1>1. Explained(i) /\ labels[i] \in LabelType /\ Len(labels) \in Nat
  BY DEF LabelsExplained, TypeOK, LabelsOK
<1>2. CASE i = 1 /\ [labels[i] EXCEPT !.pruned = FALSE] = StartLabel
  <2> DEFINE l == labels[i]
             r == [l EXCEPT !.pruned = FALSE]
  <2>1. /\ r.via_leg = l.via_leg /\ r.node = l.node /\ r.legs_used = l.legs_used /\ r.law = l.law
    BY <1>1 DEF LabelType
  <2>2. /\ StartLabel.via_leg = 0 /\ StartLabel.node = instance.source
        /\ StartLabel.legs_used = 0
    BY DEF StartLabel, RiskLabel
  <2>3. r = StartLabel
    BY <1>2
  <2> HIDE DEF r, l
  <2>4. /\ l.via_leg = 0 /\ l.node = instance.source
        /\ l.legs_used = 0 /\ l.law = StartLabel.law
    BY <2>1, <2>2, <2>3
  <2> QED
    BY <2>4 DEF l
<1>3. CASE ~ (i = 1 /\ [labels[i] EXCEPT !.pruned = FALSE] = StartLabel)
  <2>1. /\ labels[i].parent \in 1 .. i - 1 /\ labels[i].via_leg \in 1 .. Len(network.legs)
        /\ network.legs[labels[i].via_leg].from = labels[labels[i].parent].node
        /\ network.legs[labels[i].via_leg].to = labels[i].node
        /\ labels[i].legs_used = labels[labels[i].parent].legs_used + 1
        /\ labels[i].legs_used <= max_legs
        /\ labels[i].law = extend(labels[labels[i].parent].law, network.legs[labels[i].via_leg])
    BY <1>1, <1>3 DEF Explained
  <2>2. labels[i].parent \in 1 .. Len(labels)
    <3>1. i \in Nat /\ i <= Len(labels) /\ Len(labels) \in Nat
      BY <1>1
    <3> QED
      BY <2>1, <3>1
  <2>3. labels[i].via_leg # 0
    BY <2>1
  <2> QED
    BY <2>1, <2>2, <2>3
<1> QED
  BY <1>2, <1>3

LEMMA ReplayExists ==
  ASSUME TypeOK, LabelsExplained
  PROVE  \E f \in [1 .. Len(labels) -> Journey] :
           f = [i \in 1 .. Len(labels) |-> Replayed(f, i)]
<1> DEFINE n == Len(labels)
           Fits(f, k) == \A i \in 1 .. k : f[i] = Replayed(f, i)
           S == {k \in 0 .. n : \E f \in [1 .. k -> Journey] : Fits(f, k)}
<1>1. n \in Nat /\ ArgumentsOK
  BY DEF TypeOK, LabelsOK
<1> HIDE DEF n
<1>2. 0 \in S
  <2>1. PICK f \in [1 .. 0 -> Journey] : TRUE
    <3>1. [i \in 1 .. 0 |-> Start] \in [1 .. 0 -> Journey]
      OBVIOUS
    <3> QED
      BY <3>1
  <2>2. Fits(f, 0)
    OBVIOUS
  <2>3. 0 \in 0 .. n
    BY <1>1
  <2> HIDE DEF Fits
  <2> QED
    BY <2>2, <2>3
<1>3. ASSUME NEW k \in 0 .. n - 1, k \in S  PROVE  k + 1 \in S
  <2>1. PICK f \in [1 .. k -> Journey] : Fits(f, k)
    BY <1>3
  <2>2. k + 1 \in 1 .. n /\ k + 1 \in 0 .. n
    BY <1>1
  <2> DEFINE g == [i \in 1 .. k + 1 |-> IF i = k + 1 THEN Replayed(f, k + 1) ELSE f[i]]
  <2>3. \/ labels[k + 1].via_leg = 0
        \/ /\ labels[k + 1].via_leg \in 1 .. Len(network.legs) /\ labels[k + 1].via_leg # 0
           /\ labels[k + 1].parent \in 1 .. k
    <3>1. (k + 1) - 1 = k
      OBVIOUS
    <3> QED
      BY <2>2, <3>1, LabelExplained DEF n
  <2>4. Replayed(f, k + 1) \in Journey
    <3>1. CASE labels[k + 1].via_leg = 0
      BY <1>1, <3>1, StartIsJourney DEF Replayed
    <3>2. CASE labels[k + 1].via_leg # 0
      <4>1. f[labels[k + 1].parent] \in Journey /\ labels[k + 1].via_leg \in 1 .. Len(network.legs)
        BY <2>3, <3>2
      <4>2. Ridden(f[labels[k + 1].parent], labels[k + 1].via_leg) \in Journey
        BY <1>1, <4>1, RiddenIsJourney
      <4> QED
        BY <3>2, <4>2 DEF Replayed
    <3> QED
      BY <3>1, <3>2
  <2>5. g \in [1 .. k + 1 -> Journey]
    BY <2>4
  <2>6. ASSUME NEW i \in 1 .. k + 1  PROVE  g[i] = Replayed(g, i)
    <3>1. ASSUME NEW p \in 1 .. k  PROVE  g[p] = f[p]
      OBVIOUS
    <3>2. g[i] = Replayed(f, i)
      <4>1. CASE i = k + 1
        BY <4>1
      <4>2. CASE i # k + 1
        <5>1. i \in 1 .. k
          BY <4>2
        <5> QED
          BY <2>1, <3>1, <5>1
      <4> QED
        BY <4>1, <4>2
    <3>3. \/ labels[i].via_leg = 0 \/ labels[i].parent \in 1 .. k
      <4>1. i \in 1 .. n /\ i - 1 <= k
        BY <1>1
      <4>2. labels[i].via_leg = 0 \/ labels[i].parent \in 1 .. i - 1
        BY <4>1, LabelExplained DEF n
      <4> QED
        BY <4>1, <4>2
    <3> HIDE DEF g
    <3>4. Replayed(f, i) = Replayed(g, i)
      BY <3>1, <3>3 DEF Replayed
    <3> QED
      BY <3>2, <3>4
  <2>7. Fits(g, k + 1)
    <3> HIDE DEF g
    <3> QED
      BY <2>6
  <2> HIDE DEF g, Fits
  <2> QED
    BY <2>2, <2>5, <2>7
<1>4. n \in S
  <2>1. n \in 0 .. n
    BY <1>1
  <2>2. 0 .. n \subseteq S
    <3> HIDE DEF S
    <3> QED
      BY <1>1, <1>2, <1>3, UpTo
  <2> QED
    BY <2>1, <2>2
<1>5. PICK f \in [1 .. n -> Journey] : Fits(f, n)
  BY <1>4
<1>6. f = [i \in 1 .. n |-> Replayed(f, i)]
  <2>1. \A i \in 1 .. n : f[i] = Replayed(f, i)
    BY <1>5
  <2>2. f = [i \in 1 .. n |-> f[i]]
    OBVIOUS
  <2> QED
    BY <2>1, <2>2
<1> QED
  BY <1>5, <1>6 DEF n

LEMMA JourneyOfReplays ==
  ASSUME TypeOK, LabelsExplained
  PROVE  \A i \in 1 .. Len(labels) : journey_of[i] = Replayed(journey_of, i)
<1> DEFINE n == Len(labels)
<1>1. \E f : f = [i \in 1 .. n |-> Replayed(f, i)]
  BY ReplayExists
<1>2. journey_of = CHOOSE f : f = [i \in 1 .. n |-> Replayed(f, i)]
  BY DEF journey_of, Replayed, Start
<1>3. journey_of = [i \in 1 .. n |-> Replayed(journey_of, i)]
  BY <1>1, <1>2
<1> HIDE DEF journey_of
<1> QED
  BY <1>3

(* The journey of label i, and where its legs lead.                        *)
Leads(j) ==
  /\ \A k \in 1 .. Len(j.legs) :
       network.legs[j.legs[k]].from =
         IF k = 1 THEN instance.source ELSE network.legs[j.legs[k - 1]].to
  /\ j.end_node = IF Len(j.legs) = 0 THEN instance.source
                  ELSE network.legs[j.legs[Len(j.legs)]].to
Replays(j, l) ==
  /\ j \in Journey
  /\ j.end_node = l.node /\ j.law = l.law /\ Len(j.legs) = l.legs_used
  /\ l.legs_used <= max_legs
  /\ Leads(j)

LEMMA RiddenLeads ==
  ASSUME ArgumentsOK, NEW j \in Journey, Leads(j), NEW i \in 1 .. Len(network.legs),
         network.legs[i].from = j.end_node
  PROVE  Leads(Ridden(j, i)) /\ Len(Ridden(j, i).legs) = Len(j.legs) + 1
<1> DEFINE s == j.legs
           n == Len(s)
           t == Append(s, i)
           r == Ridden(j, i)
<1>1. s \in Seq(1 .. Len(network.legs))
  BY DEF Journey
<1>2. r.legs = t /\ r.end_node = network.legs[i].to
  BY RiddenIsJourney
<1>3. n \in Nat /\ Len(t) = n + 1 /\ t[n + 1] = i /\ \A k \in 1 .. n : t[k] = s[k]
  BY <1>1
<1>4. /\ \A k \in 1 .. n : network.legs[s[k]].from =
                             IF k = 1 THEN instance.source ELSE network.legs[s[k - 1]].to
      /\ j.end_node = IF n = 0 THEN instance.source ELSE network.legs[s[n]].to
  BY DEF Leads
<1> HIDE DEF s, n, t, r
<1>5. ASSUME NEW k \in 1 .. n + 1
      PROVE  network.legs[t[k]].from =
               IF k = 1 THEN instance.source ELSE network.legs[t[k - 1]].to
  <2>1. CASE k = n + 1
    <3>1. network.legs[t[k]].from = j.end_node
      BY <1>3, <2>1
    <3>2. CASE n = 0
      BY <1>4, <2>1, <3>1, <3>2
    <3>3. CASE n # 0
      <4>1. k - 1 = n /\ n \in 1 .. n /\ k # 1
        BY <1>3, <2>1, <3>3
      <4>2. t[k - 1] = s[n]
        BY <1>3, <4>1
      <4> QED
        BY <1>4, <3>1, <3>3, <4>1, <4>2
    <3> QED
      BY <3>2, <3>3
  <2>2. CASE k # n + 1
    <3>1. k \in 1 .. n /\ t[k] = s[k]
      BY <1>3, <2>2
    <3>2. CASE k = 1
      BY <1>4, <3>1, <3>2
    <3>3. CASE k # 1
      <4>1. k - 1 \in 1 .. n
        BY <1>3, <3>1, <3>3
      <4>2. t[k - 1] = s[k - 1]
        BY <1>3, <4>1
      <4> QED
        BY <1>4, <3>1, <3>3, <4>2
    <3> QED
      BY <3>2, <3>3
  <2> QED
    BY <2>1, <2>2
<1>6. Len(t) # 0 /\ network.legs[t[Len(t)]].to = network.legs[i].to
  BY <1>3
<1>7. Leads(r)
  BY <1>2, <1>3, <1>5, <1>6 DEF Leads
<1>8. Len(r.legs) = n + 1
  BY <1>2, <1>3
<1> QED
  BY <1>7, <1>8 DEF r, n, s

LEMMA EveryLabelReplays ==
  ASSUME TypeOK, LabelsExplained
  PROVE  \A i \in 1 .. Len(labels) : Replays(journey_of[i], labels[i])
<1> DEFINE n == Len(labels)
           S == {k \in 0 .. n : \A i \in 1 .. k : Replays(journey_of[i], labels[i])}
<1>1. n \in Nat /\ ArgumentsOK /\ max_legs \in Nat
  BY NetworkIsValid DEF TypeOK, LabelsOK
<1>2. 0 \in S
  BY <1>1
<1>3. ASSUME NEW k \in 0 .. n - 1, k \in S  PROVE  k + 1 \in S
  <2> DEFINE i == k + 1
             l == labels[i]
  <2>1. i \in 1 .. n /\ i \in 0 .. n /\ i - 1 = k
    BY <1>1
  <2>2. journey_of[i] = Replayed(journey_of, i)
    BY <2>1, JourneyOfReplays
  <2>3. Replays(journey_of[i], l)
    <3>1. CASE l.via_leg = 0
      <4>1. /\ l.node = instance.source /\ l.legs_used = 0 /\ l.law = StartLabel.law
        BY <2>1, <3>1, LabelExplained
      <4>2. journey_of[i] = Start /\ Start \in Journey
        BY <1>1, <2>2, <3>1, StartIsJourney DEF Replayed
      <4>3. Len(<< >>) = 0
        OBVIOUS
      <4>4. Leads(Start) /\ Len(Start.legs) = 0
        BY <4>3 DEF Leads, Start
      <4>5. Start.end_node = instance.source /\ Start.law = StartLabel.law
        BY DEF Start
      <4> HIDE DEF l, i
      <4> QED
        BY <1>1, <4>1, <4>2, <4>4, <4>5 DEF Replays
    <3>2. CASE l.via_leg # 0
      <4> DEFINE p == labels[l.parent]
                 j == journey_of[l.parent]
                 leg == network.legs[l.via_leg]
      <4>1. /\ l.via_leg \in 1 .. Len(network.legs) /\ l.parent \in 1 .. k
            /\ leg.from = p.node /\ leg.to = l.node /\ l.legs_used = p.legs_used + 1
            /\ l.legs_used <= max_legs /\ l.law = extend(p.law, leg)
        BY <2>1, <3>2, LabelExplained
      <4>2. Replays(j, p)
        BY <1>3, <4>1
      <4>3. journey_of[i] = Ridden(j, l.via_leg)
        BY <2>2, <3>2 DEF Replayed
      <4> HIDE DEF p, j
      <4>4. j \in Journey /\ Leads(j) /\ j.end_node = p.node /\ j.law = p.law
            /\ Len(j.legs) = p.legs_used
        BY <4>2 DEF Replays
      <4>5. /\ Leads(Ridden(j, l.via_leg))
            /\ Len(Ridden(j, l.via_leg).legs) = Len(j.legs) + 1
        BY <1>1, <4>1, <4>4, RiddenLeads
      <4>6. /\ Ridden(j, l.via_leg) \in Journey
            /\ Ridden(j, l.via_leg).end_node = leg.to
            /\ Ridden(j, l.via_leg).law = extend(j.law, leg)
        BY <1>1, <4>1, <4>4, RiddenIsJourney
      <4> HIDE DEF l, leg, i
      <4> QED
        BY <4>1, <4>3, <4>4, <4>5, <4>6 DEF Replays
    <3> QED
      BY <3>1, <3>2
  <2>4. ASSUME NEW m \in 1 .. i  PROVE  Replays(journey_of[m], labels[m])
    <3>1. CASE m = i
      BY <2>3, <3>1
    <3>2. CASE m # i
      <4>1. m \in 1 .. k
        BY <3>2
      <4> QED
        BY <1>3, <4>1
    <3> QED
      BY <3>1, <3>2
  <2> QED
    BY <2>1, <2>4
<1>4. 0 .. n \subseteq S
  <2> HIDE DEF S
  <2> QED
    BY <1>1, <1>2, <1>3, UpTo
<1>5. n \in S
  BY <1>1, <1>4
<1> QED
  BY <1>5

(* The legs journey_of names lead from the source to the label's node,     *)
(* with its law, within the bound: for every label, evicted or not.        *)
THEOREM RiskJourneysReplay == Spec => []JourneysReplay
<1>1. ASSUME TypeOK, LabelsExplained  PROVE  JourneysReplay
  BY <1>1, EveryLabelReplays DEF Replays, Leads, JourneysReplay
<1> QED
  BY <1>1, RiskTypeCorrect, RiskLabelsExplained, PTL

-----------------------------------------------------------------------------
(* What an unfinished search still owes: a survivor below the leg bound    *)
(* that waits on no stack has been ridden along every leg out of its node, *)
(* but for the legs still to ride if it is the one being expanded.         *)
Owed(i, e) == i = expanding /\ e \in todo
RiddenAlong(i, e) == \E k \in 1 .. Len(labels) : labels[k].parent = i /\ labels[k].via_leg = e
EveryLegRidden ==
  \A i \in 1 .. Len(labels) :
    ~ labels[i].pruned /\ labels[i].legs_used < max_legs /\ i \notin Range(work)
      => \A e \in legs_from(network, labels[i].node) : Owed(i, e) \/ RiddenAlong(i, e)

LEMMA RiddenInit ==
  Init => EveryLegRidden
<1> SUFFICES ASSUME Init  PROVE  EveryLegRidden
  OBVIOUS
<1>1. Len(labels) = 1 /\ work = << 1 >>
  BY DEF Init
<1>2. 1 \in Range(work)
  BY <1>1 DEF Range
<1> QED
  BY <1>1, <1>2 DEF EveryLegRidden

LEMMA PoppedRange ==
  ASSUME TypeOK, work # << >>
  PROVE  /\ Top \in 1 .. Len(labels)
         /\ Range(work) \subseteq Range(Popped) \cup {Top}
<1> DEFINE n == Len(work)
<1>1. work \in Seq(1 .. Len(labels)) /\ n \in Nat \ {0}
  BY DEF TypeOK
<1>2. work[n] \in 1 .. Len(labels)
  BY <1>1
<1>3. Popped = [k \in 1 .. n - 1 |-> work[k]]
  BY <1>1 DEF Popped
<1>4. ASSUME NEW k \in 1 .. n  PROVE  work[k] \in Range(Popped) \cup {work[n]}
  <2>1. CASE k = n
    BY <2>1
  <2>2. CASE k # n
    <3>1. k \in 1 .. n - 1
      BY <1>1, <2>2
    <3>2. k \in DOMAIN Popped /\ Popped[k] = work[k]
      BY <1>3, <3>1
    <3> QED
      BY <3>2 DEF Range
  <2> QED
    BY <2>1, <2>2
<1>5. DOMAIN work = 1 .. n
  BY <1>1
<1> QED
  BY <1>2, <1>4, <1>5 DEF Top, Range

LEMMA PushedRange ==
  ASSUME TypeOK, NEW new
  PROVE  Range(work) \cup {new} \subseteq Range(Append(work, new))
<1> DEFINE n == Len(work)
           pushed == Append(work, new)
<1>1. work \in Seq(1 .. Len(labels)) /\ n \in Nat /\ DOMAIN work = 1 .. n
  BY DEF TypeOK
<1>2. DOMAIN pushed = 1 .. n + 1 /\ pushed[n + 1] = new /\ \A k \in 1 .. n : pushed[k] = work[k]
  BY <1>1
<1> HIDE DEF pushed, n
<1>3. n + 1 \in DOMAIN pushed
  BY <1>1, <1>2
<1>4. \A k \in 1 .. n : k \in DOMAIN pushed
  BY <1>1, <1>2
<1> QED
  BY <1>1, <1>2, <1>3, <1>4 DEF Range, pushed

LEMMA RiddenNext ==
  TypeOK /\ EveryLegRidden /\ [Next]_vars => EveryLegRidden'
<1> SUFFICES ASSUME TypeOK, EveryLegRidden, [Next]_vars,
                    NEW i \in 1 .. Len(labels'), ~ labels'[i].pruned,
                    labels'[i].legs_used < max_legs', i \notin Range(work'),
                    NEW e \in legs_from(network', labels'[i].node)
             PROVE  (i = expanding' /\ e \in todo')
                      \/ \E k \in 1 .. Len(labels') :
                           labels'[k].parent = i /\ labels'[k].via_leg = e
  BY DEF EveryLegRidden, Owed, RiddenAlong
<1> DEFINE ridden == \E k \in 1 .. Len(labels') : labels'[k].parent = i /\ labels'[k].via_leg = e
<1>1. /\ Len(labels) \in Nat /\ Len(labels') \in Nat /\ Len(labels') >= Len(labels)
      /\ \A k \in 1 .. Len(labels) :
           /\ labels'[k].node = labels[k].node /\ labels'[k].legs_used = labels[k].legs_used
           /\ labels'[k].parent = labels[k].parent /\ labels'[k].via_leg = labels[k].via_leg
  BY LabelsAreKept
<1>2. network' = network /\ max_legs' = max_legs
  BY ArgumentsAreKept
<1>3. ASSUME i \in 1 .. Len(labels), ~ labels[i].pruned, i \notin Range(work)
      PROVE  (i = expanding /\ e \in todo) \/ ridden
  <2>1. labels[i].legs_used < max_legs /\ e \in legs_from(network, labels[i].node)
    BY <1>1, <1>2, <1>3
  <2>2. (i = expanding /\ e \in todo) \/ RiddenAlong(i, e)
    BY <1>3, <2>1 DEF EveryLegRidden, Owed
  <2>3. ASSUME NEW k \in 1 .. Len(labels)
        PROVE  k \in 1 .. Len(labels')
    BY <1>1
  <2> QED
    BY <1>1, <2>2, <2>3 DEF RiddenAlong
<1>4. CASE PopSkip
  <2>1. labels' = labels /\ work # << >> /\ work' = Popped /\ ~ Expandable(labels[Top])
        /\ todo' = todo /\ expanding' = expanding
    BY <1>4 DEF PopSkip
  <2>2. i # Top
    BY <1>2, <2>1 DEF Expandable
  <2>3. i \notin Range(work)
    BY <2>1, <2>2, PoppedRange
  <2> QED
    BY <1>3, <2>1, <2>3
<1>5. CASE PopExpand
  <2>1. labels' = labels /\ work # << >> /\ work' = Popped /\ todo = {}
        /\ expanding' = Top /\ todo' = legs_from(network, labels[Top].node)
    BY <1>5 DEF PopExpand
  <2>2. CASE i = Top
    BY <1>2, <2>1, <2>2
  <2>3. CASE i # Top
    <3>1. i \notin Range(work)
      BY <2>1, <2>3, PoppedRange
    <3> QED
      BY <1>3, <2>1, <3>1
  <2> QED
    BY <2>2, <2>3
<1>6. CASE OfferRejected \/ OfferInserted
  <2> DEFINE c == Candidate(Min(todo))
             new == Len(labels) + 1
  <2>1. /\ Len(labels') = new
        /\ labels'[new].parent = c.parent /\ labels'[new].via_leg = c.via_leg
    BY <1>6, OfferAdds
  <2>2. c.parent = expanding /\ c.via_leg = Min(todo)
    BY <1>6, FirstLeg, CandidateIsLabel DEF OfferRejected, OfferInserted
  <2>3. todo' = todo \ {Min(todo)} /\ expanding' = expanding
    BY <1>6 DEF OfferRejected, OfferInserted
  <2>4. i # new /\ Range(work) \subseteq Range(work')
    <3>1. CASE OfferRejected
      <4>1. labels'[new].pruned /\ work' = work
        BY <3>1, RejectedIsDominated DEF OfferRejected
      <4> QED
        BY <4>1
    <3>2. CASE OfferInserted
      <4>1. work' = Append(work, new)
        BY <3>2 DEF OfferInserted
      <4>2. Range(work) \cup {new} \subseteq Range(work')
        BY <4>1, PushedRange
      <4> QED
        BY <4>2
    <3> QED
      BY <1>6, <3>1, <3>2
  <2>5. i \in 1 .. Len(labels)
    BY <1>1, <2>1, <2>4
  <2>6. ~ labels[i].pruned
    <3>1. CASE OfferRejected
      BY <2>5, <3>1, RejectedIsDominated
    <3>2. CASE OfferInserted
      BY <2>5, <3>2, InsertedDominates
    <3> QED
      BY <1>6, <3>1, <3>2
  <2>7. (i = expanding /\ e \in todo) \/ ridden
    BY <1>3, <2>4, <2>5, <2>6
  <2>8. CASE i = expanding /\ e = Min(todo)
    <3>1. new \in 1 .. Len(labels')
      BY <1>1, <2>1
    <3> HIDE DEF c, new
    <3> QED
      BY <2>1, <2>2, <2>8, <3>1
  <2> QED
    BY <2>3, <2>7, <2>8
<1>7. CASE UNCHANGED vars
  <2>1. labels' = labels /\ work' = work /\ expanding' = expanding /\ todo' = todo
    BY <1>7 DEF vars
  <2> QED
    BY <1>3, <2>1
<1> QED
  BY <1>4, <1>5, <1>6, <1>7 DEF Next

-----------------------------------------------------------------------------
(* While no pruning has been beyond the proof, the frontier holds a        *)
(* stochastic dominator of everything discarded, whatever the rule.        *)
CoveredBySupport ==
  unsupported_prunings = 0 =>
    \A i \in 1 .. Len(labels) :
      labels[i].pruned =>
        \E h \in frontier[labels[i].node] :
          dominates_stochastically(labels[h].law, labels[i].law)

LEMMA SupportInit ==
  Init => CoveredBySupport
<1> SUFFICES ASSUME Init  PROVE  CoveredBySupport
  OBVIOUS
<1>1. Len(labels) = 1 /\ labels[1] = StartLabel
  BY DEF Init
<1>2. ~ labels[1].pruned
  BY <1>1 DEF StartLabel, RiskLabel
<1> QED
  BY <1>1, <1>2 DEF CoveredBySupport

LEMMA StochasticIsTransitive ==
  ASSUME NEW n \in Nat \ {0}, NEW a \in [1 .. n -> Int], NEW b \in [1 .. n -> Int],
         NEW d \in [1 .. n -> Int],
         dominates_stochastically(a, b), dominates_stochastically(b, d)
  PROVE  dominates_stochastically(a, d)
<1> DEFINE r == [order |-> "FirstOrderStochastic", tail_count |-> 1]
<1>1. /\ r \in {r} /\ r.order = "FirstOrderStochastic"
  OBVIOUS
<1> HIDE DEF r
<1>2. \A x, y : dominates(x, y, r) <=> dominates_stochastically(x, y)
  BY <1>1 DEF dominates
<1>3. r.order \in {"None", "Statewise", "FirstOrderStochastic", "AllTailAverages", "Scalar"}
      /\ (r.order = "Scalar" => r.tail_count \in 1 .. n)
  BY <1>1
<1>4. dominates(a, b, r) /\ dominates(b, d, r)
  BY <1>2
<1>5. dominates(a, d, r)
  BY <1>1, <1>3, <1>4, DominanceIsTransitive
<1> QED
  BY <1>2, <1>5

LEMMA SupportNext ==
  TypeOK /\ FrontiersHoldSurvivors /\ CoveredBySupport /\ [Next]_vars => CoveredBySupport'
<1> SUFFICES ASSUME TypeOK, FrontiersHoldSurvivors, CoveredBySupport, [Next]_vars,
                    unsupported_prunings' = 0,
                    NEW i \in 1 .. Len(labels'), labels'[i].pruned
             PROVE  \E h \in frontier'[labels'[i].node] :
                      dominates_stochastically(labels'[h].law, labels'[i].law)
  BY DEF CoveredBySupport
<1> DEFINE c == Candidate(Min(todo))
           new == Len(labels) + 1
<1>1. /\ Len(labels) \in Nat
      /\ \A j \in 1 .. Len(labels) :
           /\ labels[j].node \in Node /\ labels[j].law \in Law
           /\ labels'[j].node = labels[j].node /\ labels'[j].law = labels[j].law
  BY LabelsAreKept DEF LabelType
<1>2. \A u \in Node : \A h \in frontier[u] : h \in 1 .. Len(labels) /\ labels[h].node = u
  BY DEF FrontiersHoldSurvivors
<1>3. unsupported_prunings \in Nat
  BY DEF TypeOK
<1>4. CASE OfferRejected
  <2> DEFINE first == Min(Dominators(c))
  <2>1. /\ frontier' = frontier /\ Len(labels') = new /\ c.node \in Node
        /\ \A j \in 1 .. Len(labels) : labels'[j] = labels[j]
        /\ labels'[new].node = c.node /\ labels'[new].law = c.law
    BY <1>4, RejectedIsDominated
  <2>2. /\ Dominators(c) # {}
        /\ unsupported_prunings' =
             unsupported_prunings + IF Supported(labels[first], c) THEN 0 ELSE 1
    BY <1>4 DEF OfferRejected
  <2>3. unsupported_prunings = 0 /\ Supported(labels[first], c)
    BY <1>3, <2>2
  <2>4. first \in frontier[c.node]
    <3>1. Dominators(c) \subseteq frontier[c.node] /\ Dominators(c) \in SUBSET Nat
      BY <2>1, HeldAreLabels DEF Dominators
    <3> QED
      BY <2>2, <3>1, MinIsLeast
  <2> HIDE DEF c, first
  <2>5. CASE i = new
    <3>1. dominates_stochastically(labels[first].law, c.law)
      BY <2>3 DEF Supported
    <3> QED
      BY <1>2, <2>1, <2>4, <2>5, <3>1
  <2>6. CASE i # new
    <3>1. i \in 1 .. Len(labels) /\ labels[i].pruned
      BY <1>1, <2>1, <2>6
    <3>2. PICK h \in frontier[labels[i].node] :
                 dominates_stochastically(labels[h].law, labels[i].law)
      BY <2>3, <3>1 DEF CoveredBySupport
    <3> QED
      BY <1>1, <1>2, <2>1, <3>1, <3>2
  <2> QED
    BY <2>5, <2>6
<1>5. CASE OfferInserted
  <2> DEFINE gone == Dominated(c)
             bad == {h \in gone : ~ Supported(c, labels[h])}
  <2>1. /\ c.node \in Node /\ c.law \in Law /\ ~ c.pruned
        /\ frontier' = [frontier EXCEPT ![c.node] = (@ \ gone) \cup {new}]
        /\ Len(labels') = new /\ labels'[new] = c
        /\ gone \subseteq frontier[c.node] /\ gone \subseteq 1 .. Len(labels)
        /\ \A j \in (1 .. Len(labels)) \ gone : labels'[j] = labels[j]
    BY <1>5, InsertedDominates
  <2>2. unsupported_prunings' = unsupported_prunings + Cardinality(bad)
    BY <1>5 DEF OfferInserted
  <2> HIDE DEF c, gone
  <2>3. IsFiniteSet(bad) /\ Cardinality(bad) \in Nat
    <3>1. bad \in SUBSET (1 .. Len(labels))
      BY <2>1
    <3> HIDE DEF bad
    <3> QED
      BY <1>1, <3>1, CountsGrow
  <2>4. unsupported_prunings = 0 /\ Cardinality(bad) = 0
    <3> HIDE DEF bad
    <3> QED
      BY <1>3, <2>2, <2>3
  <2>5. bad = {}
    <3> HIDE DEF bad
    <3> QED
      BY <2>3, <2>4, FS_EmptySet
  <2>6. \A j \in gone : dominates_stochastically(c.law, labels[j].law)
    BY <2>5 DEF Supported
  <2>7. /\ new \in frontier'[c.node]
        /\ \A u \in Node : \A h \in frontier[u] \ gone : h \in frontier'[u]
    BY <2>1 DEF TypeOK, FrontierOK
  <2> HIDE DEF bad
  <2>8. i \in 1 .. Len(labels)
    BY <1>1, <2>1
  <2>9. CASE i \in gone
    <3>1. labels[i].node = c.node
      BY <1>2, <2>1, <2>9
    <3> QED
      BY <1>1, <2>1, <2>6, <2>7, <2>8, <2>9, <3>1
  <2>10. CASE i \notin gone
    <3>1. labels[i].pruned
      BY <2>1, <2>8, <2>10
    <3>2. PICK h \in frontier[labels[i].node] :
                 dominates_stochastically(labels[h].law, labels[i].law)
      BY <2>4, <2>8, <3>1 DEF CoveredBySupport
    <3>3. h \in 1 .. Len(labels) /\ labels[h].node = labels[i].node
      BY <1>1, <1>2, <2>8, <3>2
    <3>4. CASE h \notin gone
      BY <1>1, <2>1, <2>7, <2>8, <3>2, <3>3, <3>4
    <3>5. CASE h \in gone
      <4>1. labels[i].node = c.node /\ dominates_stochastically(c.law, labels[h].law)
        BY <1>2, <2>1, <2>6, <3>3, <3>5
      <4>2. /\ labels[h].law \in [1 .. network.num_scenarios -> Int]
            /\ labels[i].law \in [1 .. network.num_scenarios -> Int]
            /\ c.law \in [1 .. network.num_scenarios -> Int]
            /\ network.num_scenarios \in Nat \ {0}
        BY <1>1, <2>1, <2>8, <3>3, NetworkIsValid DEF Law, TypeOK
      <4>3. dominates_stochastically(c.law, labels[i].law)
        BY <3>2, <4>1, <4>2, StochasticIsTransitive
      <4> QED
        BY <1>1, <2>1, <2>7, <2>8, <4>1, <4>3
    <3> QED
      BY <3>4, <3>5
  <2> QED
    BY <2>9, <2>10
<1>6. CASE UNCHANGED << labels, frontier, unsupported_prunings >>
  BY <1>6 DEF CoveredBySupport
<1> QED
  BY <1>4, <1>5, <1>6 DEF Next, PopSkip, PopExpand, vars

-----------------------------------------------------------------------------
(* ExactWhereSupported.  The journeys of the oracle, layer by layer; every *)
(* label's journey is one of them, and each of them is covered by a        *)
(* survivor at its end.                                                    *)
RiddenFrom(js) == UNION {{Ridden(j, i) : i \in legs_from(network, j.end_node)} : j \in js}

Layered(layer) ==
  /\ layer \in [0 .. max_legs -> SUBSET Journey]
  /\ layer[0] = {Start}
  /\ \A d \in 0 .. max_legs - 1 : layer[d + 1] = RiddenFrom(layer[d])
  /\ enumerate_journeys = UNION {layer[d] : d \in 0 .. max_legs}

LEMMA RiddenFromJourneys ==
  ASSUME ArgumentsOK, NEW js \in SUBSET Journey
  PROVE  RiddenFrom(js) \in SUBSET Journey
<1> SUFFICES ASSUME NEW j \in js, NEW i \in legs_from(network, j.end_node)
             PROVE  Ridden(j, i) \in Journey
  BY DEF RiddenFrom
<1>1. i \in 1 .. Len(network.legs) /\ j \in Journey
  BY DEF legs_from
<1> QED
  BY <1>1, RiddenIsJourney

LEMMA LayersExist ==
  ASSUME ArgumentsOK
  PROVE  \E layer : Layered(layer)
<1> DEFINE n == max_legs
           Next1(f, d) == IF d = 0 THEN {Start} ELSE RiddenFrom(f[d - 1])
           Fits(f, k) == \A d \in 0 .. k : f[d] = Next1(f, d)
           S == {k \in 0 .. n : \E f \in [0 .. k -> SUBSET Journey] : Fits(f, k)}
<1>1. n \in Nat /\ {Start} \in SUBSET Journey
  BY NetworkIsValid, StartIsJourney
<1> HIDE DEF n
<1>2. 0 \in S
  <2>1. PICK f \in [0 .. 0 -> SUBSET Journey] : f[0] = {Start}
    <3> DEFINE g == [d \in 0 .. 0 |-> {Start}]
    <3>1. g \in [0 .. 0 -> SUBSET Journey] /\ g[0] = {Start}
      BY <1>1
    <3> HIDE DEF g
    <3> QED
      BY <3>1
  <2>2. Fits(f, 0)
    BY <2>1
  <2>3. 0 \in 0 .. n
    BY <1>1
  <2> HIDE DEF Fits
  <2> QED
    BY <2>2, <2>3
<1>3. ASSUME NEW k \in 0 .. n - 1, k \in S  PROVE  k + 1 \in S
  <2>1. PICK f \in [0 .. k -> SUBSET Journey] : Fits(f, k)
    BY <1>3
  <2>2. k + 1 \in 0 .. n
    BY <1>1
  <2> DEFINE g == [d \in 0 .. k + 1 |-> IF d = k + 1 THEN RiddenFrom(f[k]) ELSE f[d]]
  <2>3. RiddenFrom(f[k]) \in SUBSET Journey
    <3>1. f[k] \in SUBSET Journey
      OBVIOUS
    <3> QED
      BY <3>1, RiddenFromJourneys
  <2>4. g \in [0 .. k + 1 -> SUBSET Journey]
    BY <2>3
  <2>5. ASSUME NEW d \in 0 .. k + 1  PROVE  g[d] = Next1(g, d)
    <3>1. CASE d = k + 1
      <4>1. g[d] = RiddenFrom(f[k]) /\ d # 0 /\ d - 1 = k /\ k \in 0 .. k + 1 /\ k # k + 1
        BY <3>1
      <4>2. g[d - 1] = f[k]
        BY <4>1
      <4> QED
        BY <4>1, <4>2
    <3>2. CASE d # k + 1 /\ d # 0
      <4>1. d \in 0 .. k /\ d - 1 \in 0 .. k + 1 /\ d - 1 # k + 1
        BY <3>2
      <4>2. g[d] = f[d] /\ g[d - 1] = f[d - 1]
        BY <3>2, <4>1
      <4>3. f[d] = Next1(f, d)
        BY <2>1, <4>1
      <4> QED
        BY <3>2, <4>2, <4>3
    <3>3. CASE d = 0
      <4>1. g[0] = f[0] /\ 0 \in 0 .. k
        BY <3>3
      <4>2. f[0] = {Start}
        BY <2>1, <4>1
      <4> QED
        BY <3>3, <4>1, <4>2
    <3> QED
      BY <3>1, <3>2, <3>3
  <2>6. Fits(g, k + 1)
    <3> HIDE DEF g
    <3> QED
      BY <2>5
  <2> HIDE DEF g, Fits
  <2> QED
    BY <2>2, <2>4, <2>6
<1>4. n \in S
  <2>1. n \in 0 .. n
    BY <1>1
  <2>2. 0 .. n \subseteq S
    <3> HIDE DEF S
    <3> QED
      BY <1>1, <1>2, <1>3, UpTo
  <2> QED
    BY <2>1, <2>2
<1>5. PICK f \in [0 .. n -> SUBSET Journey] : Fits(f, n)
  BY <1>4
<1>6. f = [d \in 0 .. n |-> IF d = 0 THEN {Start} ELSE RiddenFrom(f[d - 1])]
  <2>1. \A d \in 0 .. n : f[d] = IF d = 0 THEN {Start} ELSE RiddenFrom(f[d - 1])
    BY <1>5
  <2>2. f = [d \in 0 .. n |-> f[d]]
    OBVIOUS
  <2> QED
    BY <2>1, <2>2
<1> DEFINE layer == CHOOSE g : g = [d \in 0 .. n |-> IF d = 0 THEN {Start} ELSE RiddenFrom(g[d - 1])]
<1>7. layer = [d \in 0 .. n |-> IF d = 0 THEN {Start} ELSE RiddenFrom(layer[d - 1])]
  BY <1>6
<1>8. enumerate_journeys = UNION {layer[d] : d \in 0 .. n}
  BY DEF enumerate_journeys, RiddenFrom, Start, n
<1> HIDE DEF layer
<1>9. layer[0] = {Start}
  BY <1>1, <1>7
<1>10. ASSUME NEW d \in 0 .. n - 1  PROVE  layer[d + 1] = RiddenFrom(layer[d])
  <2>1. d + 1 \in 0 .. n /\ d + 1 # 0 /\ (d + 1) - 1 = d
    BY <1>1
  <2> QED
    BY <1>7, <2>1
<1>11. layer \in [0 .. n -> SUBSET Journey]
  <2> DEFINE T == {d \in 0 .. n : layer[d] \in SUBSET Journey}
  <2>1. 0 \in T
    BY <1>1, <1>9
  <2>2. ASSUME NEW d \in 0 .. n - 1, d \in T  PROVE  d + 1 \in T
    <3>1. layer[d + 1] = RiddenFrom(layer[d]) /\ d + 1 \in 0 .. n /\ layer[d] \in SUBSET Journey
      BY <1>1, <1>10, <2>2
    <3>2. layer[d + 1] \in SUBSET Journey
      BY <3>1, RiddenFromJourneys
    <3> QED
      BY <3>1, <3>2
  <2>3. 0 .. n \subseteq T
    <3> HIDE DEF T
    <3> QED
      BY <1>1, <2>1, <2>2, UpTo
  <2>4. layer = [d \in 0 .. n |-> layer[d]]
    BY <1>7
  <2>5. \A d \in 0 .. n : layer[d] \in SUBSET Journey
    BY <2>3
  <2> QED
    BY <2>4, <2>5
<1> QED
  BY <1>8, <1>9, <1>10, <1>11 DEF Layered, n

(* The legs out of a node, and what a layer holds.                         *)
LEMMA LayerHolds ==
  ASSUME ArgumentsOK, NEW layer, Layered(layer), NEW d \in 0 .. max_legs - 1
  PROVE  /\ d \in 0 .. max_legs /\ d + 1 \in 0 .. max_legs
         /\ layer[d] \in SUBSET Journey /\ layer[d + 1] \in SUBSET Journey
         /\ \A j \in layer[d] : \A i \in legs_from(network, j.end_node) : Ridden(j, i) \in layer[d + 1]
         /\ \A k \in layer[d + 1] : \E j \in layer[d] : \E i \in legs_from(network, j.end_node) :
              k = Ridden(j, i)
<1>1. max_legs \in Nat
  BY NetworkIsValid
<1>2. d \in 0 .. max_legs /\ d + 1 \in 0 .. max_legs
  BY <1>1
<1>3. layer[d] \in SUBSET Journey /\ layer[d + 1] \in SUBSET Journey
  BY <1>2 DEF Layered
<1>4. layer[d + 1] = RiddenFrom(layer[d])
  BY DEF Layered
<1> QED
  BY <1>2, <1>3, <1>4 DEF RiddenFrom

(* Every label's journey is in the layer of its legs.                      *)
LEMMA LabelsAreEnumerated ==
  ASSUME TypeOK, LabelsExplained, NEW layer, Layered(layer), NEW i \in 1 .. Len(labels)
  PROVE  /\ labels[i].legs_used \in 0 .. max_legs
         /\ journey_of[i] \in layer[labels[i].legs_used]
         /\ journey_of[i].end_node = labels[i].node /\ journey_of[i].law = labels[i].law
<1> DEFINE n == Len(labels)
           Held(k) == /\ labels[k].legs_used \in 0 .. max_legs
                      /\ journey_of[k] \in layer[labels[k].legs_used]
           S == {k \in 0 .. n : \A m \in 1 .. k : Held(m)}
<1>1. n \in Nat /\ ArgumentsOK /\ max_legs \in Nat
  BY NetworkIsValid DEF TypeOK, LabelsOK
<1>2. \A k \in 1 .. n : Replays(journey_of[k], labels[k])
  BY EveryLabelReplays
<1>3. 0 \in S
  BY <1>1
<1>4. ASSUME NEW k \in 0 .. n - 1, k \in S  PROVE  k + 1 \in S
  <2> DEFINE m == k + 1
             l == labels[m]
  <2>1. m \in 1 .. n /\ m \in 0 .. n /\ m - 1 = k
    BY <1>1
  <2>2. journey_of[m] = Replayed(journey_of, m)
    BY <2>1, JourneyOfReplays
  <2>3. Held(m)
    <3>1. CASE l.via_leg = 0
      <4>1. l.legs_used = 0
        BY <2>1, <3>1, LabelExplained
      <4>2. journey_of[m] = Start /\ layer[0] = {Start}
        BY <2>2, <3>1 DEF Replayed, Layered
      <4> QED
        BY <1>1, <4>1, <4>2
    <3>2. CASE l.via_leg # 0
      <4> DEFINE p == labels[l.parent]
                 j == journey_of[l.parent]
      <4>1. /\ l.via_leg \in 1 .. Len(network.legs) /\ l.parent \in 1 .. k
            /\ l.parent \in 1 .. n
            /\ network.legs[l.via_leg].from = p.node /\ l.legs_used = p.legs_used + 1
            /\ l.legs_used <= max_legs
        BY <2>1, <3>2, LabelExplained
      <4>2. p.legs_used \in 0 .. max_legs /\ j \in layer[p.legs_used]
        BY <1>4, <4>1
      <4>3. journey_of[m] = Ridden(j, l.via_leg)
        BY <2>2, <3>2 DEF Replayed
      <4>4. j.end_node = p.node
        BY <1>2, <4>1 DEF Replays
      <4>5. l.via_leg \in legs_from(network, j.end_node)
        BY <4>1, <4>4 DEF legs_from
      <4>6. p.legs_used \in 0 .. max_legs - 1 /\ l.legs_used \in 0 .. max_legs
        BY <1>1, <4>1, <4>2, SMTT(30)
      <4>7. Ridden(j, l.via_leg) \in layer[p.legs_used + 1]
        BY <1>1, <4>2, <4>5, <4>6, LayerHolds
      <4> QED
        BY <4>1, <4>3, <4>6, <4>7
    <3> QED
      BY <3>1, <3>2
  <2> HIDE DEF Held
  <2>4. ASSUME NEW q \in 1 .. m  PROVE  Held(q)
    <3>1. CASE q = m
      BY <2>3, <3>1
    <3>2. CASE q # m
      <4>1. q \in 1 .. k
        BY <3>2
      <4> QED
        BY <1>4, <4>1
    <3> QED
      BY <3>1, <3>2
  <2> QED
    BY <2>1, <2>4
<1>5. 0 .. n \subseteq S
  <2> HIDE DEF S
  <2> QED
    BY <1>1, <1>3, <1>4, UpTo
<1>6. Held(i)
  BY <1>1, <1>5
<1> QED
  BY <1>2, <1>6 DEF Replays

-----------------------------------------------------------------------------
(* When the search has finished, a survivor below the bound has been       *)
(* ridden along every leg out of its node.                                 *)
LEMMA FinishedRidden ==
  ASSUME TypeOK, LabelsExplained, EveryLegRidden, Finished,
         NEW i \in 1 .. Len(labels), ~ labels[i].pruned, labels[i].legs_used < max_legs,
         NEW e \in legs_from(network, labels[i].node)
  PROVE  \E k \in 1 .. Len(labels) :
           /\ labels[k].node = network.legs[e].to
           /\ labels[k].legs_used = labels[i].legs_used + 1
           /\ labels[k].law = extend(labels[i].law, network.legs[e])
<1>1. Range(work) = {} /\ todo = {}
  <2>1. work = << >> /\ todo = {}
    BY DEF Finished
  <2> QED
    BY <2>1 DEF Range
<1>2. RiddenAlong(i, e)
  BY <1>1 DEF EveryLegRidden, Owed
<1>3. PICK k \in 1 .. Len(labels) : labels[k].parent = i /\ labels[k].via_leg = e
  BY <1>2 DEF RiddenAlong
<1>4. e # 0
  BY DEF legs_from
<1> QED
  BY <1>3, <1>4, LabelExplained

(* Without pruning there is a label for each journey.                      *)
LEMMA UnprunedCovers ==
  ASSUME TypeOK, LabelsExplained, FrontiersHoldSurvivors, EveryLegRidden, Finished,
         \A i \in 1 .. Len(labels) : ~ labels[i].pruned,
         NEW layer, Layered(layer), NEW d \in 0 .. max_legs, NEW j \in layer[d]
  PROVE  \E i \in frontier[j.end_node] : labels[i].law = j.law
<1> DEFINE Has(x, k) == \E i \in 1 .. Len(labels) :
                          /\ labels[i].node = x.end_node /\ labels[i].law = x.law
                          /\ labels[i].legs_used = k
           S == {k \in 0 .. max_legs : \A x \in layer[k] : Has(x, k)}
<1>1. max_legs \in Nat /\ ArgumentsOK
  BY NetworkIsValid DEF TypeOK
<1>2. 0 \in S
  <2>1. layer[0] = {Start} /\ 1 \in 1 .. Len(labels)
    BY DEF Layered, TypeOK, LabelsOK
  <2>2. Explained(1)
    BY <2>1 DEF LabelsExplained
  <2>3. ~ (labels[1].parent \in 1 .. 1 - 1)
    OBVIOUS
  <2>4. ~ (labels[1].via_leg \in 1 .. Len(network.legs) /\ labels[1].parent \in 1 .. 1 - 1)
    BY <2>3
  <2>5. /\ labels[1].node = instance.source /\ labels[1].legs_used = 0
        /\ labels[1].law = StartLabel.law
    BY <2>1, <2>4, LabelExplained
  <2>6. Start.end_node = instance.source /\ Start.law = StartLabel.law
    BY DEF Start
  <2>7. Has(Start, 0)
    BY <2>1, <2>5, <2>6
  <2> HIDE DEF Has
  <2> QED
    BY <1>1, <2>1, <2>7
<1>3. ASSUME NEW k \in 0 .. max_legs - 1, k \in S  PROVE  k + 1 \in S
  <2>1. k + 1 \in 0 .. max_legs
    BY <1>1
  <2>2. ASSUME NEW y \in layer[k + 1]  PROVE  Has(y, k + 1)
    <3>0. PICK x \in layer[k] : \E e \in legs_from(network, x.end_node) : y = Ridden(x, e)
      BY <1>1, LayerHolds
    <3>1. PICK e \in legs_from(network, x.end_node) : y = Ridden(x, e)
      BY <3>0
    <3>2. x \in Journey /\ e \in 1 .. Len(network.legs)
      BY <1>1, LayerHolds DEF legs_from
    <3>3. PICK i \in 1 .. Len(labels) :
                 /\ labels[i].node = x.end_node /\ labels[i].law = x.law
                 /\ labels[i].legs_used = k
      BY <1>3
    <3>4. labels[i].legs_used < max_legs /\ e \in legs_from(network, labels[i].node)
      BY <1>1, <3>3
    <3>5. PICK p \in 1 .. Len(labels) :
                 /\ labels[p].node = network.legs[e].to
                 /\ labels[p].legs_used = labels[i].legs_used + 1
                 /\ labels[p].law = extend(labels[i].law, network.legs[e])
      BY <3>4, FinishedRidden
    <3>6. y.end_node = network.legs[e].to /\ y.law = extend(x.law, network.legs[e])
      BY <1>1, <3>1, <3>2, RiddenIsJourney
    <3> QED
      BY <3>3, <3>5, <3>6
  <2> HIDE DEF Has
  <2> QED
    BY <2>1, <2>2
<1>4. 0 .. max_legs \subseteq S
  <2> HIDE DEF S
  <2> QED
    BY <1>1, <1>2, <1>3, UpTo
<1>5. PICK i \in 1 .. Len(labels) : labels[i].node = j.end_node /\ labels[i].law = j.law
  BY <1>4
<1>6. j.end_node \in Node
  BY DEF Layered, Journey
<1> QED
  BY <1>5, <1>6 DEF FrontiersHoldSurvivors

(* The laws of the journeys that end at u.                                 *)
JourneyLaws(u) == {j.law : j \in {x \in enumerate_journeys : x.end_node = u}}

LEMMA JourneyLawsHold ==
  ASSUME ArgumentsOK, NEW layer, Layered(layer), NEW d \in 0 .. max_legs, NEW j \in layer[d]
  PROVE  j \in Journey /\ j \in enumerate_journeys /\ j.law \in JourneyLaws(j.end_node)
<1>1. j \in Journey /\ j \in enumerate_journeys
  BY DEF Layered
<1> QED
  BY <1>1 DEF JourneyLaws

LEMMA LabelLawsAreJourneyLaws ==
  ASSUME TypeOK, LabelsExplained, NEW i \in 1 .. Len(labels)
  PROVE  labels[i].law \in JourneyLaws(labels[i].node)
<1>1. ArgumentsOK
  BY DEF TypeOK
<1>2. PICK layer : Layered(layer)
  BY <1>1, LayersExist
<1> QED
  BY <1>1, <1>2, LabelsAreEnumerated, JourneyLawsHold

(* With an order that every leg keeps between the laws that can meet at    *)
(* its start, and that holds between a survivor and whatever is discarded, *)
(* a survivor stands in it to each journey, unless the leg bound binds.    *)
KeptByLegs(R) ==
  \A e \in 1 .. Len(network.legs) :
    LET leg == network.legs[e]
    IN  \A a, b \in JourneyLaws(leg.from) :
          << a, b >> \in R => << extend(a, leg), extend(b, leg) >> \in R

Preorder(R) ==
  /\ \A a \in Law : << a, a >> \in R
  /\ \A a, b, c \in Law : << a, b >> \in R /\ << b, c >> \in R => << a, c >> \in R
DiscardedUnder(R) ==
  \A i \in 1 .. Len(labels) :
    labels[i].pruned =>
      \E h \in frontier[labels[i].node] : << labels[h].law, labels[i].law >> \in R

LEMMA SurvivorsCover ==
  ASSUME TypeOK, LabelsExplained, FrontiersHoldSurvivors, EveryLegRidden, Finished, ~ LimitBinds,
         NEW R, Preorder(R), DiscardedUnder(R), KeptByLegs(R),
         NEW layer, Layered(layer), NEW d \in 0 .. max_legs, NEW j \in layer[d]
  PROVE  \E i \in frontier[j.end_node] : << labels[i].law, j.law >> \in R
<1> DEFINE Has(x) == \E i \in frontier[x.end_node] : << labels[i].law, x.law >> \in R
           S == {k \in 0 .. max_legs : \A x \in layer[k] : Has(x)}
<1>1. max_legs \in Nat /\ ArgumentsOK
  BY NetworkIsValid DEF TypeOK
<1>2. \A i \in 1 .. Len(labels) :
        labels[i].node \in Node /\ labels[i].law \in Law /\ labels[i].legs_used \in Nat
  <2>1. \A i \in 1 .. Len(labels) : labels[i] \in LabelType
    BY DEF TypeOK, LabelsOK
  <2> QED
    BY <2>1 DEF LabelType
<1>3. \A u \in Node : \A i \in frontier[u] :
        i \in 1 .. Len(labels) /\ labels[i].node = u /\ ~ labels[i].pruned
  BY DEF FrontiersHoldSurvivors
  (* A survivor stands in the order to every label. *)
<1>4. ASSUME NEW i \in 1 .. Len(labels)
      PROVE  \E h \in frontier[labels[i].node] : << labels[h].law, labels[i].law >> \in R
  <2>1. CASE labels[i].pruned
    BY <2>1 DEF DiscardedUnder
  <2>2. CASE ~ labels[i].pruned
    <3>1. i \in frontier[labels[i].node]
      BY <1>2, <2>2 DEF FrontiersHoldSurvivors
    <3> QED
      BY <1>2, <3>1 DEF Preorder
  <2> QED
    BY <2>1, <2>2
<1>5. 0 \in S
  <2>1. layer[0] = {Start} /\ 1 \in 1 .. Len(labels)
    BY DEF Layered, TypeOK, LabelsOK
  <2>2. ~ (labels[1].parent \in 1 .. 1 - 1)
    OBVIOUS
  <2>3. labels[1].node = instance.source /\ labels[1].law = StartLabel.law
    BY <2>1, <2>2, LabelExplained
  <2>4. Start.end_node = instance.source /\ Start.law = StartLabel.law
    BY DEF Start
  <2>5. Has(Start)
    BY <1>4, <2>1, <2>3, <2>4
  <2> HIDE DEF Has
  <2> QED
    BY <1>1, <2>1, <2>5
<1>6. ASSUME NEW k \in 0 .. max_legs - 1, k \in S  PROVE  k + 1 \in S
  <2>1. k + 1 \in 0 .. max_legs /\ k \in 0 .. max_legs
    BY <1>1
  <2>2. ASSUME NEW y \in layer[k + 1]  PROVE  Has(y)
    <3>0. PICK x \in layer[k] : \E e \in legs_from(network, x.end_node) : y = Ridden(x, e)
      BY <1>1, LayerHolds
    <3>1. PICK e \in legs_from(network, x.end_node) : y = Ridden(x, e)
      BY <3>0
    <3> DEFINE leg == network.legs[e]
    <3>2. x \in Journey /\ e \in 1 .. Len(network.legs) /\ leg.from = x.end_node
      BY <1>1, LayerHolds DEF legs_from
    <3>3. x.end_node \in Node /\ x.law \in Law /\ x.law \in JourneyLaws(x.end_node)
      BY <1>1, <2>1, <3>2, JourneyLawsHold DEF Journey
    <3>4. PICK i \in frontier[x.end_node] : << labels[i].law, x.law >> \in R
      BY <1>6
    <3>5. /\ i \in 1 .. Len(labels) /\ labels[i].node = x.end_node /\ ~ labels[i].pruned
          /\ labels[i].law \in Law
      BY <1>2, <1>3, <3>3, <3>4
    <3>6. labels[i].legs_used < max_legs
      <4>1. labels[i].legs_used # max_legs
        BY <3>1, <3>3, <3>4 DEF LimitBinds
      <4>2. labels[i].legs_used \in 0 .. max_legs
        BY <3>5, LabelsAreEnumerated
      <4> QED
        BY <1>1, <4>1, <4>2
    <3>7. e \in legs_from(network, labels[i].node)
      BY <3>5
    <3>8. PICK p \in 1 .. Len(labels) :
                 labels[p].node = leg.to /\ labels[p].law = extend(labels[i].law, leg)
      BY <3>5, <3>6, <3>7, FinishedRidden
    <3>9. y.end_node = leg.to /\ y.law = extend(x.law, leg) /\ y \in Journey
      BY <1>1, <3>1, <3>2, RiddenIsJourney
    <3>10. << labels[p].law, y.law >> \in R
      <4>1. labels[i].law \in JourneyLaws(leg.from)
        BY <3>2, <3>5, LabelLawsAreJourneyLaws
      <4> QED
        BY <3>2, <3>3, <3>4, <3>8, <3>9, <4>1 DEF KeptByLegs
    <3>11. PICK h \in frontier[labels[p].node] : << labels[h].law, labels[p].law >> \in R
      BY <1>4, <3>8
    <3>12. labels[h].law \in Law /\ labels[p].law \in Law /\ y.law \in Law
      BY <1>2, <1>3, <3>8, <3>9, <3>11 DEF Journey
    <3>13. << labels[h].law, y.law >> \in R
      BY <3>10, <3>11, <3>12 DEF Preorder
    <3> QED
      BY <3>8, <3>9, <3>11, <3>13
  <2> HIDE DEF Has
  <2> QED
    BY <2>1, <2>2
<1>7. 0 .. max_legs \subseteq S
  <2> HIDE DEF S
  <2> QED
    BY <1>1, <1>5, <1>6, UpTo
<1> QED
  BY <1>7

-----------------------------------------------------------------------------
(* The best of the survivors is the best of the journeys.                  *)
LEMMA LeastOf ==
  ASSUME NEW n \in Nat, NEW f \in [1 .. n -> Int], NEW D \in SUBSET (1 .. n), D # {}
  PROVE  \E i \in D : \A j \in D : f[i] <= f[j]
<1> DEFINE HasLeast(E) == E = {} \/ \E i \in E : \A j \in E : f[i] <= f[j]
           S == {k \in 0 .. n : \A E \in SUBSET (1 .. k) : HasLeast(E)}
<1>1. 0 \in S
  OBVIOUS
<1>2. ASSUME NEW k \in 0 .. n - 1, k \in S  PROVE  k + 1 \in S
  <2>1. k + 1 \in 0 .. n /\ k + 1 \in 1 .. n
    OBVIOUS
  <2>2. ASSUME NEW E \in SUBSET (1 .. k + 1)  PROVE  HasLeast(E)
    <3> DEFINE R == E \ {k + 1}
    <3>1. R \in SUBSET (1 .. k)
      OBVIOUS
    <3>2. HasLeast(R)
      BY <1>2, <3>1
    <3>3. CASE k + 1 \notin E
      <4>1. R = E
        BY <3>3
      <4> QED
        BY <3>2, <4>1
    <3>4. CASE k + 1 \in E /\ R = {}
      <4>1. E = {k + 1}
        BY <3>4
      <4> QED
        BY <2>1, <4>1
    <3>5. CASE k + 1 \in E /\ R # {}
      <4>1. PICK i \in R : \A j \in R : f[i] <= f[j]
        BY <3>2, <3>5
      <4>2. f[i] \in Int /\ f[k + 1] \in Int /\ i \in 1 .. n /\ \A j \in R : f[j] \in Int
        BY <2>1, <3>1
      <4>3. CASE f[i] <= f[k + 1]
        BY <4>1, <4>3
      <4>4. CASE f[k + 1] < f[i]
        <5>1. \A j \in R : f[k + 1] <= f[j]
          BY <4>1, <4>2, <4>4
        <5>2. \A j \in E : f[k + 1] <= f[j]
          BY <4>2, <5>1
        <5> QED
          BY <3>5, <5>2
      <4>5. f[i] <= f[k + 1] \/ f[k + 1] < f[i]
        BY <4>2
      <4> HIDE DEF HasLeast, R
      <4> QED
        BY <4>3, <4>4, <4>5
    <3> QED
      BY <3>3, <3>4, <3>5
  <2> HIDE DEF HasLeast
  <2> QED
    BY <2>1, <2>2
<1>3. 0 .. n \subseteq S
  <2> HIDE DEF S
  <2> QED
    BY <1>1, <1>2, UpTo
<1>4. HasLeast(D)
  <2>1. n \in S
    <3>1. n \in 0 .. n
      OBVIOUS
    <3> HIDE DEF S
    <3> QED
      BY <1>3, <3>1
  <2> HIDE DEF HasLeast
  <2> QED
    BY <2>1
<1> QED
  BY <1>4

LEMMA MinIs ==
  ASSUME NEW X \in SUBSET Int, NEW x \in X, \A y \in X : x <= y
  PROVE  Min(X) = x
<1> DEFINE m == Min(X)
<1>1. m \in X /\ \A y \in X : m <= y
  BY DEF Min
<1> HIDE DEF m
<1>2. m \in Int /\ x \in Int /\ m <= x /\ x <= m
  BY <1>1
<1>3. m = x
  BY <1>2
<1> QED
  BY <1>3 DEF m

LEMMA BestAgrees ==
  ASSUME TypeOK, FrontiersHoldSurvivors, LabelsExplained,
         NEW u \in Node, NEW m \in 1 .. network.num_scenarios,
         \A law \in JourneyLaws(u) :
           \E i \in frontier[u] : tail_totals(labels[i].law)[m] <= tail_totals(law)[m]
  PROVE  found(u, m) = truth(enumerate_journeys, u, m)
<1> DEFINE n == network.num_scenarios
           F == {labels[i].law : i \in frontier[u]}
           T == JourneyLaws(u)
           vF == {tail_totals(law)[m] : law \in F}
           vT == {tail_totals(law)[m] : law \in T}
<1>1. found(u, m) = BestOf(F, m) /\ truth(enumerate_journeys, u, m) = BestOf(T, m)
  BY DEF found, truth, JourneyLaws
<1>2. n \in Nat \ {0} /\ ArgumentsOK /\ Len(labels) \in Nat
  BY NetworkIsValid DEF TypeOK, LabelsOK
<1>3. \A i \in frontier[u] : i \in 1 .. Len(labels) /\ labels[i].node = u
  BY DEF FrontiersHoldSurvivors
<1>4. F \subseteq T
  BY <1>3, LabelLawsAreJourneyLaws
<1>5. ASSUME NEW law \in T  PROVE  tail_totals(law)[m] \in Int
  <2>1. PICK layer : Layered(layer)
    BY <1>2, LayersExist
  <2>2. enumerate_journeys \subseteq Journey
    BY <2>1 DEF Layered
  <2>3. law \in Law
    BY <2>2 DEF JourneyLaws, Journey
  <2>4. law \in [1 .. n -> Int] /\ m \in 0 .. n
    BY <1>2, <2>3 DEF Law
  <2> QED
    BY <1>2, <2>4, TailTotalsAreIntegers
<1>6. CASE F = {}
  <2>1. T = {}
    BY <1>6
  <2> QED
    BY <1>1, <1>6, <2>1
<1>7. CASE F # {}
  <2> DEFINE f == [i \in 1 .. Len(labels) |->
                     IF i \in frontier[u] THEN tail_totals(labels[i].law)[m] ELSE 0]
  <2>1. \A i \in frontier[u] : tail_totals(labels[i].law)[m] \in Int
    BY <1>4, <1>5
  <2>2. f \in [1 .. Len(labels) -> Int]
    BY <2>1
  <2>3. frontier[u] \in SUBSET (1 .. Len(labels)) /\ frontier[u] # {}
    BY <1>3, <1>7
  <2>4. PICK b \in frontier[u] : \A i \in frontier[u] : f[b] <= f[i]
    <3> HIDE DEF f
    <3> QED
      BY <1>2, <2>2, <2>3, LeastOf
  <2> DEFINE best == tail_totals(labels[b].law)[m]
  <2>5. best \in Int /\ \A i \in frontier[u] : best <= tail_totals(labels[i].law)[m]
    BY <2>1, <2>3, <2>4
  <2>6. best \in vF /\ best \in vT
    BY <1>4
  <2>7. ASSUME NEW law \in T  PROVE  best <= tail_totals(law)[m]
    <3>1. PICK i \in frontier[u] : tail_totals(labels[i].law)[m] <= tail_totals(law)[m]
      OBVIOUS
    <3> HIDE DEF best
    <3> QED
      BY <1>5, <2>1, <2>5, <3>1
  <2> HIDE DEF best
  <2>8. vT \in SUBSET Int /\ vF \in SUBSET Int
    BY <1>4, <1>5
  <2>9. (\A y \in vT : best <= y) /\ (\A y \in vF : best <= y)
    BY <1>4, <2>7
  <2> HIDE DEF vT, vF
  <2>10. Min(vF) = best /\ Min(vT) = best
    BY <2>6, <2>8, <2>9, MinIs
  <2>11. T # {}
    BY <1>4, <1>7
  <2> HIDE DEF T, F
  <2>12. BestOf(F, m) = << Min(vF) >> /\ BestOf(T, m) = << Min(vT) >>
    BY <1>7, <2>11 DEF BestOf, vF, vT
  <2> QED
    BY <1>1, <2>10, <2>12
<1> QED
  BY <1>6, <1>7

(* With a survivor for each journey that dominates it stochastically, the  *)
(* search is exact.                                                        *)
LEMMA CoverIsExact ==
  ASSUME TypeOK, FrontiersHoldSurvivors, LabelsExplained,
         NEW layer, Layered(layer),
         \A d \in 0 .. max_legs : \A j \in layer[d] :
           \E i \in frontier[j.end_node] : dominates_stochastically(labels[i].law, j.law)
  PROVE  exact
<1> SUFFICES ASSUME NEW u \in Node, NEW m \in 1 .. network.num_scenarios
             PROVE  found(u, m) = truth(enumerate_journeys, u, m)
  BY DEF exact
<1> DEFINE n == network.num_scenarios
<1>1. n \in Nat \ {0} /\ ArgumentsOK
  BY NetworkIsValid DEF TypeOK
<1>2. ASSUME NEW law \in JourneyLaws(u)
      PROVE  \E i \in frontier[u] : tail_totals(labels[i].law)[m] <= tail_totals(law)[m]
  <2>1. PICK j \in enumerate_journeys : j.end_node = u /\ j.law = law
    BY DEF JourneyLaws
  <2>2. PICK d \in 0 .. max_legs : j \in layer[d]
    BY <2>1 DEF Layered
  <2>3. PICK i \in frontier[u] : dominates_stochastically(labels[i].law, law)
    BY <2>1, <2>2
  <2>4. j \in Journey
    BY <1>1, <2>2, JourneyLawsHold
  <2>5. law \in [1 .. n -> Int]
    BY <2>1, <2>4 DEF Journey, Law
  <2>6. i \in 1 .. Len(labels)
    BY <2>3 DEF FrontiersHoldSurvivors
  <2>7. labels[i].law \in [1 .. n -> Int]
    <3>1. labels[i] \in LabelType
      BY <2>6 DEF TypeOK, LabelsOK
    <3> QED
      BY <3>1 DEF LabelType, Law
  <2>8. \A k \in 1 .. n : sorted(labels[i].law)[k] <= sorted(law)[k]
    <3>1. sorted(labels[i].law) \in [1 .. n -> Int]
      BY <1>1, <2>7, SortedIsLaw
    <3>2. Len(sorted(labels[i].law)) = n
      BY <1>1, <3>1, PlacedIsBelow
    <3> QED
      BY <2>3, <3>2 DEF dominates_stochastically, dominates_statewise
  <2>9. m \in 0 .. n
    BY <1>1
  <2>10. tail_totals(labels[i].law)[m] <= tail_totals(law)[m]
    BY <1>1, <2>5, <2>7, <2>8, <2>9, TotalsCompare
  <2> QED
    BY <2>10
<1> QED
  BY <1>2, BestAgrees

-----------------------------------------------------------------------------
(* A next departure, and so a leg, keeps the statewise order.              *)
LEMMA DivIsMonotone ==
  ASSUME NEW x \in Nat, NEW y \in Nat, NEW h \in Nat \ {0}, x <= y
  PROVE  /\ x \div h \in Nat /\ y \div h \in Nat
         /\ x \div h <= y \div h
<1>1. x \div h \in Nat
  OBVIOUS
<1>2. y \div h \in Nat
  OBVIOUS
<1>3. x \div h <= y \div h
  OBVIOUS
<1> QED
  BY <1>1, <1>2, <1>3

LEMMA CeilIsMonotone ==
  ASSUME NEW x \in Int, NEW y \in Int, NEW h \in Nat \ {0}, x <= y
  PROVE  /\ ceil_div(x, h) \in Int /\ ceil_div(y, h) \in Int
         /\ ceil_div(x, h) <= ceil_div(y, h)
<1>1. CASE x >= 0
  <2>1. x + h - 1 \in Nat /\ y + h - 1 \in Nat /\ x + h - 1 <= y + h - 1 /\ y >= 0
    BY <1>1
  <2>2. /\ (x + h - 1) \div h \in Nat /\ (y + h - 1) \div h \in Nat
        /\ (x + h - 1) \div h <= (y + h - 1) \div h
    BY <2>1, DivIsMonotone
  <2> QED
    BY <1>1, <2>1, <2>2 DEF ceil_div
<1>2. CASE x < 0 /\ y >= 0
  <2>1. - x \in Nat /\ y + h - 1 \in Nat /\ ~ (x >= 0)
    BY <1>2
  <2>2. (- x) \div h \in Nat /\ (y + h - 1) \div h \in Nat
    BY <2>1, DivIsMonotone
  <2>3. ceil_div(x, h) = - ((- x) \div h) /\ ceil_div(y, h) = (y + h - 1) \div h
    BY <1>2, <2>1 DEF ceil_div
  <2> QED
    BY <2>2, <2>3
<1>3. CASE y < 0
  <2>1. - x \in Nat /\ - y \in Nat /\ - y <= - x /\ ~ (x >= 0) /\ ~ (y >= 0)
    BY <1>3
  <2>2. (- x) \div h \in Nat /\ (- y) \div h \in Nat /\ (- y) \div h <= (- x) \div h
    BY <2>1, DivIsMonotone
  <2>3. ceil_div(x, h) = - ((- x) \div h) /\ ceil_div(y, h) = - ((- y) \div h)
    BY <2>1 DEF ceil_div
  <2> QED
    BY <2>2, <2>3
<1> QED
  BY <1>1, <1>2, <1>3

LEMMA ScaledIsMonotone ==
  ASSUME NEW k \in Int, NEW l \in Int, NEW h \in Nat \ {0}, k <= l
  PROVE  k * h \in Int /\ l * h \in Int /\ k * h <= l * h
<1>1. (l - k) * h >= 0
  OBVIOUS
<1>2. (l - k) * h = l * h - k * h
  OBVIOUS
<1> QED
  BY <1>1, <1>2

(* What a scenario makes of a leg.                                         *)
LEMMA PerScenario ==
  ASSUME ArgumentsOK, NEW e \in 1 .. Len(network.legs), NEW w \in 1 .. network.num_scenarios
  PROVE  LET leg == network.legs[e]
         IN  /\ at_or_zero(leg.shift_s, w) \in Int /\ at_or_zero(leg.delay_s, w) \in Int
             /\ leg.headway_s \in Nat \ {0} /\ leg.offset_s \in Int
             /\ leg.ride_s \in Nat /\ leg.min_transfer_s \in Nat
<1> DEFINE leg == network.legs[e]
           n == network.num_scenarios
           Row == [from : Node, to : Node, headway_s : Nat \ {0}, offset_s : Int,
                   ride_s : Nat, min_transfer_s : Nat,
                   shift_s : {<< >>} \cup [1 .. n -> Int], delay_s : {<< >>} \cup [1 .. n -> Int]]
<1>1. network.legs \in Seq(Row)
  BY InstancesAreValid DEF ArgumentsOK, network, validate_network, Node
<1> HIDE DEF Row
<1>2. leg \in Row
  BY <1>1
<1> HIDE DEF leg
<1>3. /\ leg.headway_s \in Nat \ {0} /\ leg.offset_s \in Int
      /\ leg.ride_s \in Nat /\ leg.min_transfer_s \in Nat
      /\ leg.shift_s \in {<< >>} \cup [1 .. n -> Int] /\ leg.delay_s \in {<< >>} \cup [1 .. n -> Int]
  BY <1>2 DEF Row
<1>4. ASSUME NEW v \in {<< >>} \cup [1 .. n -> Int]  PROVE  at_or_zero(v, w) \in Int
  <2>1. CASE v = << >>
    BY <2>1 DEF at_or_zero
  <2>2. CASE v # << >>
    BY <2>2 DEF at_or_zero
  <2> QED
    BY <2>1, <2>2
<1> QED
  BY <1>3, <1>4 DEF leg

RiddenAs(leg, w, s, d, h, o, t, r) ==
  /\ s = at_or_zero(leg.shift_s, w) /\ d = at_or_zero(leg.delay_s, w) /\ h = leg.headway_s
  /\ o = leg.offset_s /\ t = leg.min_transfer_s /\ r = leg.ride_s

LEMMA ArrivalIs ==
  ASSUME NEW leg, NEW w, NEW s \in Int, NEW d \in Int, NEW h \in Int, NEW o \in Int, NEW t \in Int,
         NEW r \in Int, RiddenAs(leg, w, s, d, h, o, t, r),
         NEW x \in Int, NEW k \in Int, k = ceil_div((x + t) - s - o, h)
  PROVE  extend_one(x, leg, w) = o + k * h + s + r + d
BY DEF extend_one, RiddenAs

LEMMA RideIsMonotone ==
  ASSUME ArgumentsOK, NEW e \in 1 .. Len(network.legs), NEW w \in 1 .. network.num_scenarios,
         NEW x \in Int, NEW y \in Int, x <= y
  PROVE  /\ extend_one(x, network.legs[e], w) \in Int /\ extend_one(y, network.legs[e], w) \in Int
         /\ extend_one(x, network.legs[e], w) <= extend_one(y, network.legs[e], w)
<1> DEFINE leg == network.legs[e]
           s == at_or_zero(leg.shift_s, w)
           d == at_or_zero(leg.delay_s, w)
           h == leg.headway_s
           o == leg.offset_s
           t == leg.min_transfer_s
           r == leg.ride_s
           k == ceil_div((x + t) - s - o, h)
           l == ceil_div((y + t) - s - o, h)
<1>1. s \in Int /\ d \in Int /\ h \in Nat \ {0} /\ o \in Int /\ t \in Nat /\ r \in Nat
  BY PerScenario
<1>2. k \in Int /\ l \in Int /\ k <= l
  <2> HIDE DEF s, d, h, o, t, r, leg
  <2>1. (x + t) - s - o \in Int /\ (y + t) - s - o \in Int /\ (x + t) - s - o <= (y + t) - s - o
    BY <1>1
  <2> QED
    BY <1>1, <2>1, CeilIsMonotone
<1>3. /\ extend_one(x, leg, w) = o + k * h + s + r + d
      /\ extend_one(y, leg, w) = o + l * h + s + r + d
  <2>1. /\ RiddenAs(leg, w, s, d, h, o, t, r)
        /\ k = ceil_div((x + t) - s - o, h) /\ l = ceil_div((y + t) - s - o, h)
    BY DEF RiddenAs
  <2>2. t \in Int /\ r \in Int /\ h \in Int /\ s \in Int /\ d \in Int /\ o \in Int
    BY <1>1
  <2> HIDE DEF s, d, h, o, t, r, leg, k, l
  <2>3. extend_one(x, leg, w) = o + k * h + s + r + d
    BY <1>2, <2>1, <2>2, ArrivalIs, SMTT(30)
  <2>4. extend_one(y, leg, w) = o + l * h + s + r + d
    BY <1>2, <2>1, <2>2, ArrivalIs, SMTT(30)
  <2> QED
    BY <2>3, <2>4
<1> HIDE DEF s, d, h, o, t, r, leg
<1> HIDE DEF k, l
<1>4. k * h \in Int /\ l * h \in Int /\ k * h <= l * h
  BY <1>1, <1>2, ScaledIsMonotone
<1>5. /\ o + k * h + s + r + d \in Int /\ o + l * h + s + r + d \in Int
      /\ o + k * h + s + r + d <= o + l * h + s + r + d
  <2> DEFINE p == k * h
             q == l * h
  <2> HIDE DEF p, q
  <2>1. p \in Int /\ q \in Int /\ p <= q
    BY <1>4 DEF p, q
  <2>2. /\ o + p + s + r + d \in Int /\ o + q + s + r + d \in Int
    BY <1>1, <2>1
  <2>3. o + p + s + r + d <= o + q + s + r + d
    BY <1>1, <2>1
  <2> QED
    BY <2>2, <2>3 DEF p, q
<1> QED
  BY <1>3, <1>5 DEF leg

LEMMA StatewiseIsKept ==
  ASSUME ArgumentsOK, NEW e \in 1 .. Len(network.legs), NEW a \in Law, NEW b \in Law,
         dominates_statewise(a, b)
  PROVE  dominates_statewise(extend(a, network.legs[e]), extend(b, network.legs[e]))
<1> DEFINE n == network.num_scenarios
<1>1. n \in Nat \ {0}
  BY NetworkIsValid
<1>2. a \in [1 .. n -> Int] /\ b \in [1 .. n -> Int]
  BY DEF Law
<1>3. Len(a) = n /\ Len(b) = n
  BY <1>1, <1>2, PlacedIsBelow
<1>4. extend(a, network.legs[e]) \in [1 .. n -> Int]
  BY LegIsValid DEF Law
<1>5. Len(extend(a, network.legs[e])) = n
  BY <1>1, <1>4, PlacedIsBelow
<1> HIDE DEF n
<1>6. ASSUME NEW w \in 1 .. n
      PROVE  extend(a, network.legs[e])[w] <= extend(b, network.legs[e])[w]
  <2>1. a[w] \in Int /\ b[w] \in Int /\ a[w] <= b[w]
    BY <1>2, <1>3 DEF dominates_statewise
  <2>2. extend_one(a[w], network.legs[e], w) <= extend_one(b[w], network.legs[e], w)
    BY <2>1, RideIsMonotone DEF n
  <2> QED
    BY <1>3, <2>2 DEF extend
<1> QED
  BY <1>5, <1>6 DEF dominates_statewise

-----------------------------------------------------------------------------
(* Under independence a leg keeps the first order.  Scenarios fall into    *)
(* classes that the delays of some legs cannot tell apart.                 *)
Scenario == 1 .. network.num_scenarios
Class(F, w) ==
  {x \in Scenario : \A f \in F : delay_of(network, f, x) = delay_of(network, f, w)}
Key(F, w) == CHOOSE c : c \in Class(F, w)

LEMMA ClassFacts ==
  ASSUME NEW F, NEW w \in Scenario, NEW x \in Scenario
  PROVE  /\ w \in Class(F, w) /\ Key(F, w) \in Scenario
         /\ Key(F, x) = Key(F, w) <=> x \in Class(F, w)
<1>1. \A v \in Scenario : v \in Class(F, v)
  BY DEF Class
<1>2. ASSUME NEW v \in Scenario, NEW y \in Class(F, v)  PROVE  Class(F, y) = Class(F, v)
  BY DEF Class
<1>3. \A v \in Scenario : Key(F, v) \in Class(F, v)
  BY <1>1 DEF Key
<1>4. \A v \in Scenario : Class(F, v) \subseteq Scenario
  BY DEF Class
<1>5. ASSUME Key(F, x) = Key(F, w)  PROVE  x \in Class(F, w)
  <2>1. Class(F, Key(F, x)) = Class(F, x) /\ Class(F, Key(F, w)) = Class(F, w)
    BY <1>2, <1>3
  <2> QED
    BY <1>1, <1>5, <2>1
<1>6. ASSUME x \in Class(F, w)  PROVE  Key(F, x) = Key(F, w)
  <2>1. Class(F, x) = Class(F, w)
    BY <1>2, <1>6
  <2> QED
    BY <2>1 DEF Key
<1> QED
  BY <1>1, <1>3, <1>4, <1>5, <1>6

(* What holds of the sizes of all parts holds of the whole.                *)
EachPartScales(n, key, p, q, P, Q) ==
  \A c \in 1 .. n :
    Cardinality({w \in P : key[w] = c}) * p <= Cardinality({w \in Q : key[w] = c}) * q

LEMMA PartsScale ==
  ASSUME NEW n \in Nat, NEW key \in [1 .. n -> 1 .. n], NEW p \in Nat, NEW q \in Nat,
         NEW P \in SUBSET (1 .. n), NEW Q \in SUBSET (1 .. n),
         EachPartScales(n, key, p, q, P, Q)
  PROVE  Cardinality(P) * p <= Cardinality(Q) * q
<1> DEFINE To(X, k) == {w \in X : key[w] <= k}
           Part(X, c) == {w \in X : key[w] = c}
           S == {k \in 0 .. n : Cardinality(To(P, k)) * p <= Cardinality(To(Q, k)) * q}
<1>0. ASSUME NEW X \in SUBSET (1 .. n), NEW w \in X
      PROVE  w \in 1 .. n /\ key[w] \in 1 .. n
  OBVIOUS
<1>1. 0 \in S
  <2>0. ASSUME NEW X \in SUBSET (1 .. n)  PROVE  To(X, 0) = {}
    <3>1. \A w \in X : ~ (key[w] <= 0)
      BY <1>0
    <3> QED
      BY <3>1
  <2>1. To(P, 0) = {} /\ To(Q, 0) = {}
    BY <2>0
  <2>2. Cardinality(To(P, 0)) = 0 /\ Cardinality(To(Q, 0)) = 0
    BY <2>1, FS_EmptySet
  <2> HIDE DEF To
  <2> QED
    BY <2>2
<1>2. ASSUME NEW X \in SUBSET (1 .. n), NEW k \in 0 .. n - 1
      PROVE  /\ Cardinality(To(X, k)) \in Nat /\ Cardinality(Part(X, k + 1)) \in Nat
             /\ Cardinality(To(X, k + 1)) = Cardinality(To(X, k)) + Cardinality(Part(X, k + 1))
  <2>1. To(X, k) \in SUBSET (1 .. n) /\ Part(X, k + 1) \in SUBSET (1 .. n)
    OBVIOUS
  <2>2. To(X, k + 1) = To(X, k) \cup Part(X, k + 1) /\ To(X, k) \cap Part(X, k + 1) = {}
    <3>1. \A w \in X : key[w] <= k + 1 <=> key[w] <= k \/ key[w] = k + 1
      BY <1>0
    <3>2. \A w \in X : ~ (key[w] <= k /\ key[w] = k + 1)
      BY <1>0
    <3> QED
      BY <3>1, <3>2
  <2> HIDE DEF To, Part
  <2>3. IsFiniteSet(To(X, k)) /\ IsFiniteSet(Part(X, k + 1))
    BY <2>1, CountsGrow
  <2>4. Cardinality(To(X, k)) \in Nat /\ Cardinality(Part(X, k + 1)) \in Nat
    BY <2>3, FS_CardinalityType
  <2>5. Cardinality(To(X, k) \cap Part(X, k + 1)) = 0
    BY <2>2, FS_EmptySet
  <2>6. Cardinality(To(X, k) \cup Part(X, k + 1))
          = Cardinality(To(X, k)) + Cardinality(Part(X, k + 1))
              - Cardinality(To(X, k) \cap Part(X, k + 1))
    BY <2>3, FS_Union
  <2> DEFINE x == Cardinality(To(X, k))
             y == Cardinality(Part(X, k + 1))
  <2>7. Cardinality(To(X, k + 1)) = x + y - 0
    BY <2>2, <2>5, <2>6
  <2>8. x \in Nat /\ y \in Nat
    BY <2>4
  <2> HIDE DEF x, y
  <2>9. Cardinality(To(X, k + 1)) = x + y
    BY <2>7, <2>8
  <2> QED
    BY <2>4, <2>9 DEF x, y
<1>3. ASSUME NEW k \in 0 .. n - 1, k \in S  PROVE  k + 1 \in S
  <2> DEFINE x == Cardinality(To(P, k))
             y == Cardinality(To(Q, k))
             a == Cardinality(Part(P, k + 1))
             b == Cardinality(Part(Q, k + 1))
  <2>1. x * p <= y * q
    BY <1>3
  <2>2. k + 1 \in 1 .. n /\ k + 1 \in 0 .. n
    OBVIOUS
  <2>3. a * p <= b * q
    BY <2>2 DEF EachPartScales
  <2>4. x \in Nat /\ y \in Nat /\ a \in Nat /\ b \in Nat
    BY <1>2
  <2>5. Cardinality(To(P, k + 1)) = x + a /\ Cardinality(To(Q, k + 1)) = y + b
    BY <1>2
  <2> HIDE DEF x, y, a, b
  <2>6. (x + a) * p = x * p + a * p /\ (y + b) * q = y * q + b * q
    BY <2>4
  <2>7. x * p \in Nat /\ a * p \in Nat /\ y * q \in Nat /\ b * q \in Nat
    BY <2>4
  <2>8. (x + a) * p <= (y + b) * q
    BY <2>1, <2>3, <2>6, <2>7
  <2> HIDE DEF To
  <2> QED
    BY <2>2, <2>5, <2>8
<1>4. n \in S
  <2>1. n \in 0 .. n
    OBVIOUS
  <2>2. 0 .. n \subseteq S
    <3> HIDE DEF S
    <3> QED
      BY <1>1, <1>3, UpTo
  <2> QED
    BY <2>1, <2>2
<1>5. ASSUME NEW X \in SUBSET (1 .. n)  PROVE  To(X, n) = X
  <2>1. \A w \in X : key[w] <= n
    BY <1>0
  <2> QED
    BY <2>1
<1> HIDE DEF To
<1> QED
  BY <1>4, <1>5

(* The legs upstream of a node and of the end of a leg out of it.          *)
LEMMA UpstreamGrows ==
  ASSUME NEW e \in 1 .. Len(network.legs)
  PROVE  /\ e \in Upstream(network, network.legs[e].to)
         /\ Upstream(network, network.legs[e].from) \subseteq Upstream(network, network.legs[e].to)
         /\ Upstream(network, network.legs[e].from) \subseteq 1 .. Len(network.legs)
<1> DEFINE Legs == 1 .. Len(network.legs)
           Closed(u, U) == \A f \in Legs : LeadsTo(network, f, u, U) => f \in U
           to == network.legs[e].to
           from == network.legs[e].from
<1>1. \A u : Upstream(network, u)
               = {f \in Legs : \A U \in {V \in SUBSET Legs : Closed(u, V)} : f \in U}
  BY DEF Upstream
<1>2. ASSUME NEW U \in SUBSET Legs, Closed(to, U)  PROVE  e \in U /\ Closed(from, U)
  <2>1. e \in U
    BY <1>2 DEF LeadsTo
  <2>2. ASSUME NEW f \in Legs, LeadsTo(network, f, from, U)  PROVE  LeadsTo(network, f, to, U)
    BY <2>1, <2>2 DEF LeadsTo
  <2> QED
    BY <1>2, <2>1, <2>2
<1> HIDE DEF Closed, to, from
<1>3. e \in Upstream(network, to)
  BY <1>1, <1>2
<1>4. Upstream(network, from) \subseteq Upstream(network, to)
  BY <1>1, <1>2
<1>5. Upstream(network, from) \subseteq Legs
  BY <1>1
<1> QED
  BY <1>3, <1>4, <1>5 DEF to, from

(* When whole headways is all that shifts a leg, it arrives as it would    *)
(* unshifted, late by its delay.                                           *)
LEMMA ShiftIsNothing ==
  ASSUME NEW z \in Int, NEW s \in Int, NEW h \in Nat \ {0}, s % h = 0
  PROVE  ceil_div(z - s, h) * h + s = ceil_div(z, h) * h
<1>1. PICK c \in Int : s = c * h
  OBVIOUS
<1>2. ASSUME NEW y \in Int
      PROVE  ceil_div(y, h) \in Int /\ ceil_div(y, h) * h >= y /\ ceil_div(y, h) * h < y + h
  <2>1. ceil_div(y, h) \in Int
    BY CeilIsMonotone
  <2>2. CASE y >= 0
    <3>1. ceil_div(y, h) * h >= y
      BY <2>2 DEF ceil_div
    <3>2. ceil_div(y, h) * h < y + h
      BY <2>2 DEF ceil_div
    <3> QED
      BY <2>1, <3>1, <3>2
  <2>3. CASE y < 0
    <3>1. ceil_div(y, h) * h >= y
      BY <2>3 DEF ceil_div
    <3>2. ceil_div(y, h) * h < y + h
      BY <2>3 DEF ceil_div
    <3> QED
      BY <2>1, <3>1, <3>2
  <2> QED
    BY <2>2, <2>3
<1> DEFINE k == ceil_div(z - s, h)
           l == ceil_div(z, h)
<1>3. /\ k \in Int /\ k * h >= z - s /\ k * h < z - s + h
      /\ l \in Int /\ l * h >= z /\ l * h < z + h
  <2>1. z - s \in Int
    OBVIOUS
  <2> QED
    BY <1>2, <2>1
<1> HIDE DEF k, l
<1>4. (k + c) * h = k * h + s
  BY <1>1, <1>3
<1>5. (k + c) * h >= z /\ (k + c) * h < z + h
  <2> DEFINE m == k * h
  <2>1. m \in Int /\ m >= z - s /\ m < z - s + h
    BY <1>3
  <2> HIDE DEF m
  <2>2. m + s >= z /\ m + s < z + h
    BY <2>1
  <2> QED
    BY <1>4, <2>2 DEF m
<1>6. k + c = l
  <2> DEFINE j == k + c
  <2>1. j \in Int /\ j * h >= z /\ j * h < z + h
    BY <1>3, <1>5
  <2> HIDE DEF j
  <2>2. j = l
    BY <1>3, <2>1
  <2> QED
    BY <2>2 DEF j
<1> QED
  BY <1>4, <1>6 DEF k, l

Undelayed(e, f) ==
  /\ f \in [Int -> Int]
  /\ \A x, y \in Int : x <= y => f[x] <= f[y]
  /\ \A x \in Int : \A w \in Scenario :
       extend_one(x, network.legs[e], w) = f[x] + delay_of(network, e, w)

LEMMA NetworkIsIndependent ==
  ASSUME ArgumentsOK, instance.independent, NEW e \in 1 .. Len(network.legs)
  PROVE  /\ \A w \in Scenario :
              at_or_zero(network.legs[e].shift_s, w) % network.legs[e].headway_s = 0
         /\ \A C \in Outcomes(network, Upstream(network, network.legs[e].from)) :
              \A D \in Outcomes(network, {e}) :
                Cardinality(C \cap D) * network.num_scenarios = Cardinality(C) * Cardinality(D)
<1>1. Independent(network)
  BY DelaysAreIndependent DEF ArgumentsOK, network
<1> QED
  BY <1>1 DEF Independent, Scenario

LEMMA UndelayedExists ==
  ASSUME ArgumentsOK, instance.independent, NEW e \in 1 .. Len(network.legs)
  PROVE  \E f : Undelayed(e, f)
<1> DEFINE leg == network.legs[e]
           h == leg.headway_s
           o == leg.offset_s
           t == leg.min_transfer_s
           r == leg.ride_s
           f == [x \in Int |-> o + ceil_div(x + t - o, h) * h + r]
<1>1. 1 \in Scenario
  BY NetworkIsValid DEF Scenario
<1>2. h \in Nat \ {0} /\ o \in Int /\ t \in Int /\ r \in Int
  <2>1. h \in Nat \ {0} /\ o \in Int /\ t \in Nat /\ r \in Nat
    BY <1>1, PerScenario DEF Scenario
  <2> QED
    BY <2>1
<1>3. ASSUME NEW x \in Int  PROVE  ceil_div(x + t - o, h) \in Int /\ x + t - o \in Int
  <2> HIDE DEF h, o, t
  <2>1. x + t - o \in Int
    BY <1>2
  <2> QED
    BY <1>2, <2>1, CeilIsMonotone
<1>4. f \in [Int -> Int]
  <2> HIDE DEF h, o, t, r
  <2>1. ASSUME NEW x \in Int  PROVE  o + ceil_div(x + t - o, h) * h + r \in Int
    <3> DEFINE k == ceil_div(x + t - o, h)
    <3>1. k \in Int
      BY <1>3
    <3> HIDE DEF k
    <3>2. k * h \in Int
      BY <1>2, <3>1, ScaledIsMonotone
    <3>3. o + k * h + r \in Int
      BY <1>2, <3>2
    <3> QED
      BY <3>3 DEF k
  <2> QED
    BY <2>1
<1>5. ASSUME NEW x \in Int, NEW y \in Int, x <= y  PROVE  f[x] <= f[y]
  <2> DEFINE k == ceil_div(x + t - o, h)
             l == ceil_div(y + t - o, h)
  <2>1. f[x] = o + k * h + r /\ f[y] = o + l * h + r
    OBVIOUS
  <2> HIDE DEF h, o, t, r, f
  <2>2. k \in Int /\ l \in Int /\ k <= l
    <3>1. x + t - o \in Int /\ y + t - o \in Int /\ x + t - o <= y + t - o
      BY <1>2, <1>5
    <3> QED
      BY <1>2, <3>1, CeilIsMonotone
  <2> HIDE DEF k, l
  <2>3. k * h \in Int /\ l * h \in Int /\ k * h <= l * h
    BY <1>2, <2>2, ScaledIsMonotone
  <2> DEFINE p == k * h
             q == l * h
  <2>4. p \in Int /\ q \in Int /\ p <= q
    BY <2>3
  <2> HIDE DEF p, q
  <2>5. o + p + r <= o + q + r
    BY <1>2, <2>4
  <2> QED
    BY <2>1, <2>5 DEF p, q
<1>6. ASSUME NEW x \in Int, NEW w \in Scenario
      PROVE  extend_one(x, leg, w) = f[x] + delay_of(network, e, w)
  <2> DEFINE s == at_or_zero(leg.shift_s, w)
             d == at_or_zero(leg.delay_s, w)
             k == ceil_div((x + t) - s - o, h)
             l == ceil_div(x + t - o, h)
  <2>1. s \in Int /\ d \in Int
    BY PerScenario DEF Scenario
  <2>2. s % h = 0
    BY NetworkIsIndependent
  <2>3. f[x] = o + l * h + r /\ delay_of(network, e, w) = d
    BY DEF delay_of
  <2>4. RiddenAs(leg, w, s, d, h, o, t, r)
    BY DEF RiddenAs
  <2>5. h \in Int
    BY <1>2
  <2> HIDE DEF s, d, h, o, t, r, leg, f
  <2>6. k \in Int /\ l \in Int /\ k * h + s = l * h
    <3> DEFINE z == x + t - o
    <3>1. z \in Int /\ z - s \in Int /\ (x + t) - s - o = z - s
      BY <1>2, <2>1
    <3> HIDE DEF z
    <3>2. ceil_div(z - s, h) * h + s = ceil_div(z, h) * h
      BY <1>2, <2>1, <2>2, <3>1, ShiftIsNothing
    <3>3. \A y \in Int : y <= y
      OBVIOUS
    <3>4. ceil_div(z - s, h) \in Int
      BY <1>2, <3>1, <3>3, CeilIsMonotone
    <3>5. ceil_div(z, h) \in Int
      BY <1>2, <3>1, <3>3, CeilIsMonotone
    <3> QED
      BY <3>1, <3>2, <3>4, <3>5 DEF z
  <2>7. k = ceil_div((x + t) - s - o, h)
    OBVIOUS
  <2> HIDE DEF k, l
  <2>8. extend_one(x, leg, w) = o + k * h + s + r + d
    <3>1. k \in Int /\ t \in Int /\ r \in Int /\ o \in Int /\ s \in Int /\ d \in Int
      BY <1>2, <2>1, <2>6
    <3> QED
      BY <2>4, <2>5, <2>7, <3>1, ArrivalIs
  <2>9. o + k * h + s + r + d = o + l * h + r + d
    <3> DEFINE p == k * h
               q == l * h
    <3>1. p \in Int /\ q \in Int /\ p + s = q
      BY <2>5, <2>6
    <3> HIDE DEF p, q
    <3>2. o + p + s + r + d = o + q + r + d
      BY <1>2, <2>1, <3>1
    <3> QED
      BY <3>2 DEF p, q
  <2> QED
    BY <2>3, <2>8, <2>9
<1> HIDE DEF f, leg
<1>7. Undelayed(e, f)
  BY <1>4, <1>5, <1>6 DEF Undelayed, leg
<1> QED
  BY <1>7

-----------------------------------------------------------------------------
(* The law of a journey is a function of the delays upstream of its end.   *)
Determined(law, F) ==
  \A w \in Scenario : \A x \in Class(F, w) : law[x] = law[w]

LEMMA JourneysAreDetermined ==
  ASSUME ArgumentsOK, instance.independent,
         NEW layer, Layered(layer), NEW d \in 0 .. max_legs, NEW j \in layer[d]
  PROVE  Determined(j.law, Upstream(network, j.end_node))
<1> DEFINE Has(x) == Determined(x.law, Upstream(network, x.end_node))
           S == {k \in 0 .. max_legs : \A x \in layer[k] : Has(x)}
<1>1. max_legs \in Nat
  BY NetworkIsValid
<1>2. 0 \in S
  <2>1. layer[0] = {Start}
    BY DEF Layered
  <2>2. \A w \in Scenario : Start.law[w] = instance.departure_time_s
    BY DEF Start, StartLabel, RiskLabel, certain, Scenario
  <2>3. Has(Start)
    BY <2>2 DEF Determined, Class
  <2> HIDE DEF Has
  <2> QED
    BY <1>1, <2>1, <2>3
<1>3. ASSUME NEW k \in 0 .. max_legs - 1, k \in S  PROVE  k + 1 \in S
  <2>1. k + 1 \in 0 .. max_legs
    BY <1>1
  <2>2. ASSUME NEW y \in layer[k + 1]  PROVE  Has(y)
    <3>1. PICK x \in layer[k] : \E i \in legs_from(network, x.end_node) : y = Ridden(x, i)
      BY LayerHolds
    <3>2. PICK e \in legs_from(network, x.end_node) : y = Ridden(x, e)
      BY <3>1
    <3> DEFINE leg == network.legs[e]
    <3>3. x \in Journey /\ e \in 1 .. Len(network.legs) /\ leg.from = x.end_node
      BY LayerHolds DEF legs_from
    <3>4. y.end_node = leg.to /\ y.law = extend(x.law, leg)
      BY <3>2, <3>3, RiddenIsJourney
    <3>5. x.law \in [1 .. network.num_scenarios -> Int]
      BY <3>3 DEF Journey, Law
    <3>6. Len(x.law) = network.num_scenarios
      BY <3>5, NetworkIsValid, PlacedIsBelow
    <3>7. \A w \in Scenario : y.law[w] = extend_one(x.law[w], leg, w) /\ x.law[w] \in Int
      BY <3>4, <3>5, <3>6 DEF extend, Scenario
    <3>8. PICK f : Undelayed(e, f)
      BY <3>3, UndelayedExists
    <3>9. \A w \in Scenario : y.law[w] = f[x.law[w]] + delay_of(network, e, w)
      BY <3>7, <3>8 DEF Undelayed
    <3>10. Has(x)
      BY <1>3
    <3>11. ASSUME NEW w \in Scenario, NEW v \in Class(Upstream(network, leg.to), w)
           PROVE  y.law[v] = y.law[w]
      <4>1. v \in Scenario
        BY DEF Class
      <4>2. delay_of(network, e, v) = delay_of(network, e, w)
        BY <3>3, UpstreamGrows DEF Class
      <4>3. v \in Class(Upstream(network, leg.from), w)
        BY <3>3, UpstreamGrows DEF Class
      <4>4. x.law[v] = x.law[w]
        BY <3>3, <3>10, <4>3 DEF Determined
      <4> QED
        BY <3>9, <4>1, <4>2, <4>4
    <3> QED
      BY <3>4, <3>11 DEF Determined
  <2> HIDE DEF Has
  <2> QED
    BY <2>1, <2>2
<1>4. 0 .. max_legs \subseteq S
  <2> HIDE DEF S
  <2> QED
    BY <1>1, <1>2, <1>3, UpTo
<1> QED
  BY <1>4

LEMMA JourneyLawsAreDetermined ==
  ASSUME ArgumentsOK, instance.independent, NEW u, NEW law \in JourneyLaws(u)
  PROVE  law \in Law /\ Determined(law, Upstream(network, u))
<1>1. PICK j \in enumerate_journeys : j.end_node = u /\ j.law = law
  BY DEF JourneyLaws
<1>2. PICK layer : Layered(layer)
  BY LayersExist
<1>3. PICK d \in 0 .. max_legs : j \in layer[d]
  BY <1>2 DEF Layered
<1>4. j \in Journey
  BY <1>2, <1>3, JourneyLawsHold
<1> QED
  BY <1>1, <1>2, <1>3, <1>4, JourneysAreDetermined DEF Journey

(* A set of scenarios that the delays upstream determine is independent of *)
(* the delay of the leg: its classes are, one by one.                      *)
LEMMA ProductHolds ==
  ASSUME ArgumentsOK, instance.independent, NEW e \in 1 .. Len(network.legs), NEW w0 \in Scenario,
         NEW A \in SUBSET Scenario,
         \A w \in A : Class(Upstream(network, network.legs[e].from), w) \subseteq A
  PROVE  Cardinality(A \cap Class({e}, w0)) * network.num_scenarios
           = Cardinality(A) * Cardinality(Class({e}, w0))
<1> DEFINE n == network.num_scenarios
           F == Upstream(network, network.legs[e].from)
           D == Class({e}, w0)
           key == [w \in 1 .. n |-> Key(F, w)]
           q == Cardinality(D)
           P == A \cap D
<1>1. n \in Nat /\ Scenario = 1 .. n
  BY NetworkIsValid DEF Scenario
<1>2. key \in [1 .. n -> 1 .. n]
  BY <1>1, ClassFacts
<1>3. D \in SUBSET (1 .. n) /\ P \in SUBSET (1 .. n) /\ A \in SUBSET (1 .. n)
  BY <1>1 DEF Class
<1>4. q \in Nat
  BY <1>1, <1>3, CountsGrow
<1>5. ASSUME NEW c \in 1 .. n
      PROVE  Cardinality({w \in P : key[w] = c}) * n = Cardinality({w \in A : key[w] = c}) * q
  <2>1. CASE {w \in A : key[w] = c} = {}
    <3>1. {w \in P : key[w] = c} = {}
      BY <2>1
    <3>2. Cardinality({w \in P : key[w] = c}) = 0 /\ Cardinality({w \in A : key[w] = c}) = 0
      BY <2>1, <3>1, FS_EmptySet
    <3> HIDE DEF P, key, q
    <3> QED
      BY <1>1, <1>4, <3>2
  <2>2. CASE {w \in A : key[w] = c} # {}
    <3>1. PICK v \in A : key[v] = c
      BY <2>2
    <3> DEFINE C == Class(F, v)
    <3>2. v \in Scenario /\ C \subseteq A /\ C \subseteq Scenario
      BY <3>1 DEF Class
    <3>3. ASSUME NEW w \in A  PROVE  key[w] = c <=> w \in C
      <4>1. w \in Scenario /\ key[w] = Key(F, w) /\ key[v] = Key(F, v)
        BY <1>1, <3>2
      <4> QED
        BY <3>1, <3>2, <4>1, ClassFacts
    <3> HIDE DEF key
    <3>4. {w \in A : key[w] = c} = C /\ {w \in P : key[w] = c} = C \cap D
      BY <3>2, <3>3
    <3>5. C \in Outcomes(network, F) /\ D \in Outcomes(network, {e})
      BY <3>2 DEF Outcomes, Class, Scenario
    <3>6. Cardinality(C \cap D) * n = Cardinality(C) * Cardinality(D)
      BY <3>5, NetworkIsIndependent
    <3> QED
      BY <3>4, <3>6
  <2> QED
    BY <2>1, <2>2
<1>6. \A X \in SUBSET (1 .. n) : Cardinality(X) \in Nat
  BY <1>1, CountsGrow
<1>7. ASSUME NEW c \in 1 .. n
      PROVE  /\ Cardinality({w \in P : key[w] = c}) * n <= Cardinality({w \in A : key[w] = c}) * q
             /\ Cardinality({w \in A : key[w] = c}) * q <= Cardinality({w \in P : key[w] = c}) * n
  <2> DEFINE x == Cardinality({w \in P : key[w] = c})
             y == Cardinality({w \in A : key[w] = c})
  <2>1. x \in Nat /\ y \in Nat
    <3>1. {w \in P : key[w] = c} \in SUBSET (1 .. n) /\ {w \in A : key[w] = c} \in SUBSET (1 .. n)
      BY <1>3
    <3> QED
      BY <1>6, <3>1
  <2>2. x * n = y * q
    BY <1>5
  <2> HIDE DEF x, y, q
  <2>3. x * n \in Int /\ y * q \in Int
    BY <1>1, <1>4, <2>1
  <2>4. x * n <= y * q /\ y * q <= x * n
    BY <2>2, <2>3
  <2> QED
    BY <2>4 DEF x, y
<1> HIDE DEF key, q, P
<1>8. Cardinality(P) * n <= Cardinality(A) * q
  <2>1. EachPartScales(n, key, n, q, P, A)
    BY <1>7 DEF EachPartScales
  <2> QED
    BY <1>1, <1>2, <1>3, <1>4, <2>1, PartsScale
<1>9. Cardinality(A) * q <= Cardinality(P) * n
  <2>1. EachPartScales(n, key, q, n, A, P)
    BY <1>7 DEF EachPartScales
  <2> QED
    BY <1>1, <1>2, <1>3, <1>4, <2>1, PartsScale
<1>10. Cardinality(P) * n \in Int /\ Cardinality(A) * q \in Int
  BY <1>1, <1>3, <1>4, <1>6
<1>11. Cardinality(P) * n = Cardinality(A) * q
  BY <1>8, <1>9, <1>10
<1> QED
  BY <1>11 DEF P, q

LEMMA ScaledDown ==
  ASSUME NEW x \in Nat, NEW y \in Nat, NEW a \in Nat, NEW b \in Nat, NEW q \in Nat,
         NEW n \in Nat \ {0}, x * n = a * q, y * n = b * q, a <= b
  PROVE  x <= y
<1>1. a * q <= b * q
  OBVIOUS
<1>2. x * n <= y * n
  BY <1>1
<1>3. ASSUME y < x  PROVE  FALSE
  <2>1. y * n + n <= x * n
    BY <1>3
  <2>2. y * n \in Nat /\ x * n \in Nat
    OBVIOUS
  <2> QED
    BY <1>2, <2>1, <2>2
<1> QED
  BY <1>3

LEMMA StochasticIsKept ==
  ASSUME ArgumentsOK, instance.independent, NEW e \in 1 .. Len(network.legs),
         NEW a \in Law, NEW b \in Law,
         Determined(a, Upstream(network, network.legs[e].from)),
         Determined(b, Upstream(network, network.legs[e].from)),
         dominates_stochastically(a, b)
  PROVE  dominates_stochastically(extend(a, network.legs[e]), extend(b, network.legs[e]))
<1> DEFINE n == network.num_scenarios
           F == Upstream(network, network.legs[e].from)
           ea == extend(a, network.legs[e])
           eb == extend(b, network.legs[e])
           key == [w \in 1 .. n |-> Key({e}, w)]
           late(w) == delay_of(network, e, w)
<1>1. n \in Nat \ {0} /\ Scenario = 1 .. n
  BY NetworkIsValid DEF Scenario
<1>2. a \in [1 .. n -> Int] /\ b \in [1 .. n -> Int]
  BY DEF Law
<1>3. ea \in [1 .. n -> Int] /\ eb \in [1 .. n -> Int]
  BY LegIsValid DEF Law
<1>4. PICK f : Undelayed(e, f)
  BY UndelayedExists
<1>5. /\ f \in [Int -> Int] /\ \A x, y \in Int : x <= y => f[x] <= f[y]
  BY <1>4 DEF Undelayed
<1>6. \A w \in 1 .. n : late(w) \in Int
  BY PerScenario DEF delay_of
<1>7. Len(a) = n /\ Len(b) = n
  BY <1>1, <1>2, PlacedIsBelow
<1>8. \A w \in 1 .. n : ea[w] = f[a[w]] + late(w) /\ eb[w] = f[b[w]] + late(w)
  <2>1. \A w \in 1 .. n : /\ ea[w] = extend_one(a[w], network.legs[e], w)
                          /\ eb[w] = extend_one(b[w], network.legs[e], w)
    BY <1>7 DEF extend
  <2>2. \A w \in 1 .. n : a[w] \in Int /\ b[w] \in Int
    BY <1>2
  <2> HIDE DEF ea, eb
  <2> QED
    BY <1>1, <1>4, <2>1, <2>2 DEF Undelayed
<1>9. key \in [1 .. n -> 1 .. n]
  BY <1>1, ClassFacts
<1> DEFINE fa == [w \in 1 .. n |-> f[a[w]]]
           fb == [w \in 1 .. n |-> f[b[w]]]
<1>10. fa \in [1 .. n -> Int] /\ fb \in [1 .. n -> Int]
  BY <1>2, <1>5
<1>11. dominates_stochastically(fa, fb)
  <2>1. \A w \in 1 .. n : fa[w] = f[a[w]] /\ fb[w] = f[b[w]]
    OBVIOUS
  <2> HIDE DEF fa, fb
  <2>2. ASSUME NEW i \in 1 .. n  PROVE  sorted(fa)[i] <= sorted(fb)[i]
    <3>1. sorted(a) \in [1 .. n -> Int] /\ sorted(b) \in [1 .. n -> Int]
      BY <1>1, <1>2, SortedIsLaw
    <3>2. Len(sorted(a)) = n
      BY <1>1, <3>1, PlacedIsBelow
    <3>3. sorted(a)[i] <= sorted(b)[i] /\ sorted(a)[i] \in Int /\ sorted(b)[i] \in Int
      BY <3>1, <3>2 DEF dominates_stochastically, dominates_statewise
    <3>4. sorted(fa)[i] = f[sorted(a)[i]]
      <4>1. Monotone(f) /\ Through(f, a, n, fa)
        BY <1>5, <2>1 DEF Monotone, Through
      <4> HIDE DEF n
      <4>2. SortsThrough(f, a, n, fa)
        BY <1>1, <1>2, <1>10, <4>1, MonotoneSorts
      <4> QED
        BY <4>2 DEF SortsThrough
    <3>5. sorted(fb)[i] = f[sorted(b)[i]]
      <4>1. Monotone(f) /\ Through(f, b, n, fb)
        BY <1>5, <2>1 DEF Monotone, Through
      <4> HIDE DEF n
      <4>2. SortsThrough(f, b, n, fb)
        BY <1>1, <1>2, <1>10, <4>1, MonotoneSorts
      <4> QED
        BY <4>2 DEF SortsThrough
    <3> QED
      BY <1>5, <3>3, <3>4, <3>5
  <2>3. sorted(fa) \in [1 .. n -> Int]
    BY <1>1, <1>10, SortedIsLaw
  <2>4. Len(sorted(fa)) = n
    BY <1>1, <2>3, PlacedIsBelow
  <2> QED
    BY <2>2, <2>4 DEF dominates_stochastically, dominates_statewise
<1>12. \A v \in Int : Cardinality(By(fb, n, v)) <= Cardinality(By(fa, n, v))
  <2> HIDE DEF fa, fb, n
  <2> QED
    BY <1>1, <1>10, <1>11, StochasticByCounts
<1>13. ASSUME NEW v \in Int  PROVE  Cardinality(By(eb, n, v)) <= Cardinality(By(ea, n, v))
  <2> DEFINE P == By(eb, n, v)
             Q == By(ea, n, v)
  <2>1. P \in SUBSET (1 .. n) /\ Q \in SUBSET (1 .. n)
    BY DEF By
  <2>2. ASSUME NEW c \in 1 .. n
        PROVE  Cardinality({w \in P : key[w] = c}) <= Cardinality({w \in Q : key[w] = c})
    <3>1. CASE \A w \in 1 .. n : key[w] # c
      <4>1. {w \in P : key[w] = c} = {} /\ {w \in Q : key[w] = c} = {}
        BY <2>1, <3>1
      <4> HIDE DEF P, Q, key
      <4>2. Cardinality({w \in P : key[w] = c}) = 0 /\ Cardinality({w \in Q : key[w] = c}) = 0
        BY <4>1, FS_EmptySet
      <4> QED
        BY <4>2
    <3>2. CASE \E w \in 1 .. n : key[w] = c
      <4>1. PICK w0 \in 1 .. n : key[w0] = c
        BY <3>2
      <4> DEFINE D == Class({e}, w0)
                 t == v - late(w0)
                 A == By(fa, n, t)
                 B == By(fb, n, t)
      <4>2. t \in Int
        BY <1>6
      <4>3. ASSUME NEW w \in 1 .. n  PROVE  key[w] = c <=> w \in D
        <5>1. key[w] = Key({e}, w) /\ key[w0] = Key({e}, w0)
          OBVIOUS
        <5> QED
          BY <1>1, <4>1, <5>1, ClassFacts, SMTT(30)
      <4>4. ASSUME NEW w \in D  PROVE  late(w) = late(w0) /\ w \in 1 .. n
        BY <1>1 DEF Class
      <4>5. ASSUME NEW w \in D  PROVE  (w \in P <=> w \in B) /\ (w \in Q <=> w \in A)
        <5> DEFINE x == f[a[w]]
                   y == f[b[w]]
                   l == late(w0)
        <5>1. w \in 1 .. n /\ late(w) = l /\ l \in Int
          BY <1>6, <4>4
        <5>2. x \in Int /\ y \in Int
          BY <1>2, <1>5, <5>1
        <5>3. ea[w] = x + l /\ eb[w] = y + l /\ fa[w] = x /\ fb[w] = y
          BY <1>8, <5>1
        <5>4. t = v - l
          OBVIOUS
        <5> HIDE DEF x, y, l, t, ea, eb, fa, fb
        <5>5. (x + l <= v <=> x <= t) /\ (y + l <= v <=> y <= t)
          BY <5>1, <5>2, <5>4
        <5> QED
          BY <5>1, <5>3, <5>5 DEF By
      <4>6. {w \in P : key[w] = c} = B \cap D /\ {w \in Q : key[w] = c} = A \cap D
        <5>1. A \subseteq 1 .. n /\ B \subseteq 1 .. n
          BY DEF By
        <5> HIDE DEF P, Q, A, B, D, key
        <5> QED
          BY <2>1, <4>3, <4>5, <5>1
      <4>7. ASSUME NEW law \in [1 .. n -> Int], Determined(law, F), NEW g,
                   g = [w \in 1 .. n |-> f[law[w]]]
            PROVE  /\ By(g, n, t) \in SUBSET (1 .. n)
                   /\ Cardinality(By(g, n, t) \cap D) * n = Cardinality(By(g, n, t)) * Cardinality(D)
        <5> DEFINE G == By(g, n, t)
        <5>1. G \in SUBSET Scenario
          BY <1>1 DEF By
        <5>2. ASSUME NEW w \in G, NEW x \in Class(F, w)  PROVE  x \in G
          <6>1. w \in Scenario /\ g[w] <= t /\ x \in Scenario
            BY <1>1 DEF By, Class
          <6>2. law[x] = law[w]
            BY <4>7, <6>1, <5>2 DEF Determined
          <6>3. g[x] = g[w]
            BY <1>1, <4>7, <6>1, <6>2
          <6> QED
            BY <1>1, <6>1, <6>3 DEF By
        <5> HIDE DEF G
        <5>3. Cardinality(G \cap D) * n = Cardinality(G) * Cardinality(D)
          BY <1>1, <5>1, <5>2, ProductHolds
        <5> QED
          BY <1>1, <5>1, <5>3 DEF G
      <4>8. /\ A \in SUBSET (1 .. n) /\ B \in SUBSET (1 .. n)
            /\ Cardinality(A \cap D) * n = Cardinality(A) * Cardinality(D)
            /\ Cardinality(B \cap D) * n = Cardinality(B) * Cardinality(D)
        BY <1>2, <4>7
      <4>9. Cardinality(B) <= Cardinality(A)
        BY <1>12, <4>2
      <4>10. D \in SUBSET (1 .. n)
        BY <1>1 DEF Class
      <4> HIDE DEF A, B, D, n
      <4>11. /\ Cardinality(A) \in Nat /\ Cardinality(B) \in Nat /\ Cardinality(D) \in Nat
             /\ Cardinality(A \cap D) \in Nat /\ Cardinality(B \cap D) \in Nat
        <5>1. A \cap D \in SUBSET (1 .. n) /\ B \cap D \in SUBSET (1 .. n)
          BY <4>8
        <5> QED
          BY <1>1, <4>8, <4>10, <5>1, CountsGrow
      <4>12. Cardinality(B \cap D) <= Cardinality(A \cap D)
        BY <1>1, <4>8, <4>9, <4>11, ScaledDown
      <4> QED
        BY <4>6, <4>12
    <3> QED
      BY <3>1, <3>2
  <2> HIDE DEF P, Q, key, n
  <2>3. Cardinality(P) \in Nat /\ Cardinality(Q) \in Nat
    BY <1>1, <2>1, CountsGrow
  <2>4. ASSUME NEW c \in 1 .. n
        PROVE  Cardinality({w \in P : key[w] = c}) * 1 <= Cardinality({w \in Q : key[w] = c}) * 1
    <3> DEFINE x == Cardinality({w \in P : key[w] = c})
               y == Cardinality({w \in Q : key[w] = c})
    <3>1. {w \in P : key[w] = c} \in SUBSET (1 .. n) /\ {w \in Q : key[w] = c} \in SUBSET (1 .. n)
      BY <2>1
    <3>2. x \in Nat /\ y \in Nat /\ x <= y
      BY <1>1, <2>2, <3>1, CountsGrow
    <3> HIDE DEF x, y
    <3>3. x * 1 <= y * 1
      BY <3>2
    <3> QED
      BY <3>3 DEF x, y
  <2>5. Cardinality(P) * 1 <= Cardinality(Q) * 1
    <3>1. EachPartScales(n, key, 1, 1, P, Q)
      BY <2>4 DEF EachPartScales
    <3> QED
      BY <1>1, <1>9, <2>1, <3>1, PartsScale
  <2>6. Cardinality(P) <= Cardinality(Q)
    BY <2>3, <2>5
  <2> QED
    BY <2>6 DEF P, Q
<1> HIDE DEF ea, eb, n
<1>14. dominates_stochastically(ea, eb)
  BY <1>1, <1>3, <1>13, StochasticByCounts
<1> QED
  BY <1>14 DEF ea, eb

-----------------------------------------------------------------------------
(* Each of the two orders, as a relation.                                  *)
StatewisePairs == {p \in Law \X Law : dominates_statewise(p[1], p[2])}
StochasticPairs == {p \in Law \X Law : dominates_stochastically(p[1], p[2])}

LEMMA OrdersArePreorders ==
  ASSUME ArgumentsOK
  PROVE  Preorder(StatewisePairs) /\ Preorder(StochasticPairs)
<1> DEFINE n == network.num_scenarios
<1>1. n \in Nat \ {0} /\ Law = [1 .. n -> Int]
  BY NetworkIsValid DEF Law
<1> HIDE DEF n
<1>2. ASSUME NEW a \in Law  PROVE  Len(a) = n /\ \A w \in 1 .. n : a[w] \in Int
  BY <1>1, PlacedIsBelow
<1>3. ASSUME NEW a \in Law  PROVE  dominates_statewise(a, a)
  BY <1>2 DEF dominates_statewise
<1>4. ASSUME NEW a \in Law  PROVE  dominates_stochastically(a, a)
  <2>1. sorted(a) \in Law
    BY <1>1, SortedIsLaw
  <2> QED
    BY <1>3, <2>1 DEF dominates_stochastically
<1>5. ASSUME NEW a \in Law, NEW b \in Law, NEW c \in Law,
             dominates_statewise(a, b), dominates_statewise(b, c)
      PROVE  dominates_statewise(a, c)
  <2>1. ASSUME NEW w \in 1 .. n  PROVE  a[w] <= c[w]
    <3>1. a[w] <= b[w] /\ b[w] <= c[w]
      BY <1>2, <1>5 DEF dominates_statewise
    <3>2. a[w] \in Int /\ b[w] \in Int /\ c[w] \in Int
      BY <1>2
    <3> QED
      BY <3>1, <3>2
  <2> QED
    BY <1>2, <2>1 DEF dominates_statewise
<1>6. ASSUME NEW a \in Law, NEW b \in Law, NEW c \in Law,
             dominates_stochastically(a, b), dominates_stochastically(b, c)
      PROVE  dominates_stochastically(a, c)
  BY <1>1, <1>6, StochasticIsTransitive
<1>7. ASSUME NEW a \in Law, NEW b \in Law
      PROVE  /\ << a, b >> \in StatewisePairs <=> dominates_statewise(a, b)
             /\ << a, b >> \in StochasticPairs <=> dominates_stochastically(a, b)
  BY DEF StatewisePairs, StochasticPairs
<1>8. Preorder(StatewisePairs)
  BY <1>3, <1>5, <1>7 DEF Preorder
<1>9. Preorder(StochasticPairs)
  BY <1>4, <1>6, <1>7 DEF Preorder
<1> QED
  BY <1>8, <1>9

LEMMA JourneyLawsAreLaws ==
  ASSUME ArgumentsOK, NEW u, NEW law \in JourneyLaws(u)
  PROVE  law \in Law
<1>1. PICK j \in enumerate_journeys : j.end_node = u /\ j.law = law
  BY DEF JourneyLaws
<1>2. PICK layer : Layered(layer)
  BY LayersExist
<1>3. PICK d \in 0 .. max_legs : j \in layer[d]
  BY <1>2 DEF Layered
<1>4. j \in Journey
  BY <1>2, <1>3, JourneyLawsHold
<1> QED
  BY <1>1, <1>4 DEF Journey

LEMMA LegsKeepTheOrders ==
  ASSUME ArgumentsOK
  PROVE  KeptByLegs(StatewisePairs) /\ (instance.independent => KeptByLegs(StochasticPairs))
<1>1. ASSUME NEW e \in 1 .. Len(network.legs), NEW a \in JourneyLaws(network.legs[e].from),
             NEW b \in JourneyLaws(network.legs[e].from)
      PROVE  /\ a \in Law /\ b \in Law
             /\ extend(a, network.legs[e]) \in Law /\ extend(b, network.legs[e]) \in Law
  BY JourneyLawsAreLaws, LegIsValid
<1>2. KeptByLegs(StatewisePairs)
  <2> SUFFICES ASSUME NEW e \in 1 .. Len(network.legs),
                      NEW a \in JourneyLaws(network.legs[e].from),
                      NEW b \in JourneyLaws(network.legs[e].from),
                      << a, b >> \in StatewisePairs
               PROVE  << extend(a, network.legs[e]), extend(b, network.legs[e]) >> \in StatewisePairs
    BY DEF KeptByLegs
  <2>1. dominates_statewise(a, b)
    BY DEF StatewisePairs
  <2>2. dominates_statewise(extend(a, network.legs[e]), extend(b, network.legs[e]))
    BY <1>1, <2>1, StatewiseIsKept
  <2> QED
    BY <1>1, <2>2 DEF StatewisePairs
<1>3. ASSUME instance.independent  PROVE  KeptByLegs(StochasticPairs)
  <2> SUFFICES ASSUME NEW e \in 1 .. Len(network.legs),
                      NEW a \in JourneyLaws(network.legs[e].from),
                      NEW b \in JourneyLaws(network.legs[e].from),
                      << a, b >> \in StochasticPairs
               PROVE  << extend(a, network.legs[e]), extend(b, network.legs[e]) >> \in StochasticPairs
    BY DEF KeptByLegs
  <2>1. dominates_stochastically(a, b)
    BY DEF StochasticPairs
  <2>2. /\ Determined(a, Upstream(network, network.legs[e].from))
        /\ Determined(b, Upstream(network, network.legs[e].from))
    BY <1>3, JourneyLawsAreDetermined
  <2>3. dominates_stochastically(extend(a, network.legs[e]), extend(b, network.legs[e]))
    BY <1>1, <1>3, <2>1, <2>2, StochasticIsKept
  <2> QED
    BY <1>1, <2>3 DEF StochasticPairs
<1> QED
  BY <1>2, <1>3

(* Where what is discarded is covered in an order the legs keep and that   *)
(* implies the first, the survivors are exact.                             *)
LEMMA ExactUnder ==
  ASSUME TypeOK, LabelsExplained, FrontiersHoldSurvivors, EveryLegRidden, Finished, ~ LimitBinds,
         NEW R, Preorder(R), DiscardedUnder(R), KeptByLegs(R), R \subseteq StochasticPairs
  PROVE  exact
<1>1. ArgumentsOK
  BY DEF TypeOK
<1>2. PICK layer : Layered(layer)
  BY <1>1, LayersExist
<1>3. ASSUME NEW d \in 0 .. max_legs, NEW j \in layer[d]
      PROVE  \E i \in frontier[j.end_node] : dominates_stochastically(labels[i].law, j.law)
  <2>1. PICK i \in frontier[j.end_node] : << labels[i].law, j.law >> \in R
    BY <1>2, SurvivorsCover
  <2>2. << labels[i].law, j.law >> \in StochasticPairs
    BY <2>1
  <2>3. dominates_stochastically(labels[i].law, j.law)
    BY <2>2 DEF StochasticPairs
  <2> QED
    BY <2>3
<1> QED
  BY <1>2, <1>3, CoverIsExact

LEMMA ExactWhereNothingIsPruned ==
  ASSUME TypeOK, LabelsExplained, FrontiersHoldSurvivors, EveryLegRidden, Finished,
         \A i \in 1 .. Len(labels) : ~ labels[i].pruned
  PROVE  exact
<1>1. ArgumentsOK
  BY DEF TypeOK
<1>2. PICK layer : Layered(layer)
  BY <1>1, LayersExist
<1>3. ASSUME NEW d \in 0 .. max_legs, NEW j \in layer[d]
      PROVE  \E i \in frontier[j.end_node] : dominates_stochastically(labels[i].law, j.law)
  <2>1. PICK i \in frontier[j.end_node] : labels[i].law = j.law
    BY <1>2, UnprunedCovers
  <2>2. j.law \in Law
    BY <1>1, <1>2, JourneyLawsHold DEF Journey
  <2>3. dominates_stochastically(j.law, j.law)
    BY <1>1, <2>2, OrdersArePreorders DEF Preorder, StochasticPairs
  <2> QED
    BY <2>1, <2>3
<1> QED
  BY <1>2, <1>3, CoverIsExact

LEMMA SupportedIsExact ==
  TypeOK /\ LabelsExplained /\ FrontiersHoldSurvivors /\ PrunedIsCovered /\ EveryLegRidden
    /\ CoveredBySupport => ExactWhereSupported
<1> SUFFICES ASSUME TypeOK, LabelsExplained, FrontiersHoldSurvivors, PrunedIsCovered,
                    EveryLegRidden, CoveredBySupport, Finished,
                    \/ rule.order = "None"
                    \/ /\ ~ LimitBinds
                       /\ \/ rule.order = "Statewise"
                          \/ instance.independent /\ unsupported_prunings = 0
             PROVE  exact
  BY DEF ExactWhereSupported
<1>1. ArgumentsOK
  BY DEF TypeOK
<1>2. \A i \in 1 .. Len(labels) : \A h \in frontier[labels[i].node] :
        labels[i].law \in Law /\ labels[h].law \in Law
  <2> SUFFICES ASSUME NEW i \in 1 .. Len(labels), NEW h \in frontier[labels[i].node]
               PROVE  labels[i].law \in Law /\ labels[h].law \in Law
    OBVIOUS
  <2>1. labels[i] \in LabelType
    BY DEF TypeOK, LabelsOK
  <2>2. h \in 1 .. Len(labels)
    BY <2>1 DEF FrontiersHoldSurvivors, LabelType
  <2>3. labels[h] \in LabelType
    BY <2>2 DEF TypeOK, LabelsOK
  <2> QED
    BY <2>1, <2>3 DEF LabelType
<1>3. CASE rule.order = "None"
  <2>1. \A i \in 1 .. Len(labels) : ~ labels[i].pruned
    BY <1>3 DEF PrunedIsCovered, dominates
  <2> QED
    BY <2>1, ExactWhereNothingIsPruned
<1>4. CASE ~ LimitBinds /\ rule.order = "Statewise"
  <2>1. DiscardedUnder(StatewisePairs)
    <3> SUFFICES ASSUME NEW i \in 1 .. Len(labels), labels[i].pruned
                 PROVE  \E h \in frontier[labels[i].node] :
                          << labels[h].law, labels[i].law >> \in StatewisePairs
      BY DEF DiscardedUnder
    <3>1. PICK h \in frontier[labels[i].node] : dominates(labels[h].law, labels[i].law, rule)
      BY DEF PrunedIsCovered
    <3>2. dominates_statewise(labels[h].law, labels[i].law)
      BY <1>4, <3>1 DEF dominates
    <3> QED
      BY <1>2, <3>2 DEF StatewisePairs
  <2>2. StatewisePairs \subseteq StochasticPairs
    <3> SUFFICES ASSUME NEW a \in Law, NEW b \in Law, dominates_statewise(a, b)
                 PROVE  dominates_stochastically(a, b)
      BY DEF StatewisePairs, StochasticPairs
    <3>1. network.num_scenarios \in Nat \ {0} /\ Law = [1 .. network.num_scenarios -> Int]
      BY <1>1, NetworkIsValid DEF Law
    <3> QED
      BY <3>1, StatewiseIsStochastic
  <2> QED
    BY <1>1, <1>4, <2>1, <2>2, OrdersArePreorders, LegsKeepTheOrders, ExactUnder
<1>5. CASE ~ LimitBinds /\ instance.independent /\ unsupported_prunings = 0
  <2>1. DiscardedUnder(StochasticPairs)
    <3> SUFFICES ASSUME NEW i \in 1 .. Len(labels), labels[i].pruned
                 PROVE  \E h \in frontier[labels[i].node] :
                          << labels[h].law, labels[i].law >> \in StochasticPairs
      BY DEF DiscardedUnder
    <3>1. PICK h \in frontier[labels[i].node] :
            dominates_stochastically(labels[h].law, labels[i].law)
      BY <1>5 DEF CoveredBySupport
    <3> QED
      BY <1>2, <3>1 DEF StochasticPairs
  <2> QED
    BY <1>1, <1>5, <2>1, OrdersArePreorders, LegsKeepTheOrders, ExactUnder
<1> QED
  BY <1>3, <1>4, <1>5

(* One search answers every confidence level at every node exactly as the  *)
(* enumeration does: unpruned; with statewise pruning, on any network; and *)
(* with any rule whose prunings were all stochastic dominance, on a        *)
(* network of independent delays: the two where the leg bound stopped no   *)
(* survivor.                                                               *)
THEOREM RiskExactWhereSupported == Spec => []ExactWhereSupported
<1>1. Spec => [](EveryLegRidden /\ CoveredBySupport)
  BY TypeInit, TypeNext, SurvivorsInit, SurvivorsNext, RiddenInit, RiddenNext,
     SupportInit, SupportNext, PTL DEF Spec
<1> QED
  BY <1>1, RiskTypeCorrect, RiskLabelsExplained, RiskFrontiersHoldSurvivors, RiskPrunedIsCovered,
     SupportedIsExact, PTL
=============================================================================
