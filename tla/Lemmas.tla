-------------------------------- MODULE Lemmas --------------------------------
(***************************************************************************)
(* What the proofs share.  Induction over naturals, and what follows for a *)
(* search for the first or last position with some property and for        *)
(* FoldLeft: a property to be proved by induction is given as the set of   *)
(* the numbers that have it, a step of a fold as a function.  Then the two *)
(* pure parts of routing.cpp, for every argument.                          *)
(* insert_and_dominate on every frontier and every candidate: it rejects   *)
(* exactly the dominated candidates, and keeps the frontier sorted and     *)
(* exactly the non-dominated part of what it was given.                    *)
(* select_optimal_departure on every range of departures out of a node and *)
(* every configuration: what it returns.                                   *)
(***************************************************************************)
EXTENDS Dominance, Lookahead, SequencesExt, WellFoundedInduction, SequenceTheorems,
  FiniteSetTheorems, Functions, TLAPS

(* A nonempty set of naturals has a least element.                         *)
LEMMA LeastNatural ==
  ASSUME NEW S \in SUBSET Nat, S # {}
  PROVE  \E m \in S : \A n \in S : m <= n
<1>1. PICK m \in S : \A n \in S : ~ (<< n, m >> \in OpToRel(<, Nat))
  BY NatLessThanWellFounded, WFMin
<1>2. \A n \in S : ~ (n < m)
  BY <1>1 DEF OpToRel
<1> QED
  BY <1>2

(* Min returns it.                                                         *)
LEMMA MinIsLeast ==
  ASSUME NEW S \in SUBSET Nat, S # {}
  PROVE  Min(S) \in S /\ \A n \in S : Min(S) <= n
BY LeastNatural DEF Min

(* Max returns the greatest element of a set that has a bound.             *)
LEMMA MaxIsGreatest ==
  ASSUME NEW n \in Nat, NEW S \in SUBSET (0 .. n), S # {}
  PROVE  Max(S) \in S /\ \A i \in S : i <= Max(S)
<1> DEFINE below == {n - i : i \in S}
<1>1. below \in SUBSET Nat /\ below # {}
  <2>1. \A i \in S : n - i \in Nat
    OBVIOUS
  <2> QED
    BY <2>1
<1>2. PICK m \in below : \A l \in below : m <= l
  BY <1>1, LeastNatural
<1>3. PICK i \in S : m = n - i
  BY <1>2
<1>4. ASSUME NEW j \in S  PROVE  j <= i
  <2>1. n - j \in below
    OBVIOUS
  <2>2. n - i <= n - j
    BY <1>2, <1>3, <2>1
  <2>3. i \in 0 .. n /\ j \in 0 .. n
    OBVIOUS
  <2> QED
    BY <2>2, <2>3
<1> HIDE DEF below
<1>5. \E x \in S : \A y \in S : x >= y
  <2>1. \A y \in S : i >= y
    BY <1>4
  <2> QED
    BY <2>1
<1>6. Max(S) \in S /\ \A y \in S : Max(S) >= y
  BY <1>5 DEF Max
<1> QED
  BY <1>6

LEMMA MaxInUpTo ==
  ASSUME NEW n \in Nat
  PROVE  \A t \in SUBSET (1 .. n) : t # {} => Max(t) \in 1 .. n
<1> SUFFICES ASSUME NEW t \in SUBSET (1 .. n), t # {}  PROVE  Max(t) \in 1 .. n
  OBVIOUS
<1>1. t \in SUBSET (0 .. n)
  OBVIOUS
<1> QED
  BY <1>1, MaxIsGreatest

LEMMA MaxOfInterval ==
  ASSUME NEW i \in Nat \ {0}
  PROVE  Max(1 .. i) = i /\ (1 .. i) \ {i} = 1 .. i - 1
<1>1. 1 .. i \in SUBSET (0 .. i) /\ 1 .. i # {} /\ i \in Nat /\ i \in 1 .. i
  OBVIOUS
<1>2. Max(1 .. i) \in 1 .. i /\ \A j \in 1 .. i : j <= Max(1 .. i)
  BY ONLY <1>1, MaxIsGreatest
<1> QED
  BY <1>2

(* What holds of 0 and of a number's successor holds up to n.              *)
LEMMA UpTo ==
  ASSUME NEW n \in Nat, NEW S, 0 \in S,
         \A i \in 0 .. n - 1 : i \in S => i + 1 \in S
  PROVE  0 .. n \subseteq S
<1> DEFINE bad == (0 .. n) \ S
<1>1. SUFFICES ASSUME bad # {}  PROVE  FALSE
  OBVIOUS
<1>2. bad \in SUBSET Nat
  OBVIOUS
<1>3. PICK m \in bad : \A l \in bad : m <= l
  BY <1>1, <1>2, LeastNatural
<1>4. m \in 0 .. n /\ m \notin S /\ m # 0
  OBVIOUS
<1>5. m - 1 \in 0 .. n - 1 /\ m - 1 \notin bad
  BY <1>3, <1>4
<1> QED
  BY <1>4, <1>5

(* The functions a recursion over the subsets of 1 .. n describes when it  *)
(* takes out the greatest element first, as FoldLeft does.                 *)
Folds(n, S, base, step) ==
  {f \in [SUBSET (1 .. n) -> S] :
     \A t \in SUBSET (1 .. n) :
       f[t] = IF t = {} THEN base ELSE step[Max(t)][f[t \ {Max(t)}]]}

(* There is one.                                                           *)
LEMMA FoldExists ==
  ASSUME NEW n \in Nat, NEW S, NEW base \in S, NEW step \in [1 .. n -> [S -> S]]
  PROVE  Folds(n, S, base, step) # {}
<1> DEFINE Fine == {i \in 0 .. n : Folds(i, S, base, step) # {}}
<1>1. 0 \in Fine
  <2> DEFINE f == [t \in SUBSET (1 .. 0) |-> base]
  <2>1. SUBSET (1 .. 0) = {{}}
    OBVIOUS
  <2>2. f \in Folds(0, S, base, step)
    BY <2>1 DEF Folds
  <2> QED
    BY <2>2
<1>2. ASSUME NEW i \in 0 .. n - 1, i \in Fine  PROVE  i + 1 \in Fine
  <2>1. PICK f : f \in Folds(i, S, base, step)
    BY <1>2
  <2> DEFINE g == [t \in SUBSET (1 .. i + 1) |->
                     IF i + 1 \in t THEN step[i + 1][f[t \ {i + 1}]] ELSE f[t]]
  <2>2. /\ f \in [SUBSET (1 .. i) -> S]
        /\ \A t \in SUBSET (1 .. i) :
             f[t] = IF t = {} THEN base ELSE step[Max(t)][f[t \ {Max(t)}]]
    BY <2>1 DEF Folds
  <2>3. ASSUME NEW t \in SUBSET (1 .. i + 1)
        PROVE  g[t] \in S /\ g[t] = IF t = {} THEN base ELSE step[Max(t)][g[t \ {Max(t)}]]
    <3> HIDE DEF Fine
    <3>1. CASE i + 1 \in t
      <4>1. t \in SUBSET (0 .. i + 1) /\ t # {} /\ i + 1 \in Nat
        BY <3>1
      <4>2. Max(t) \in t /\ i + 1 <= Max(t)
        BY <3>1, <4>1, MaxIsGreatest
      <4>3. Max(t) = i + 1
        <5>1. Max(t) \in 1 .. i + 1
          BY <4>2
        <5> QED
          BY <4>2, <5>1
      <4>4. t \ {i + 1} \in SUBSET (1 .. i) /\ t \ {i + 1} \in SUBSET (1 .. i + 1)
        OBVIOUS
      <4>5. g[t \ {i + 1}] = f[t \ {i + 1}] /\ f[t \ {i + 1}] \in S
        BY <2>2, <4>4
      <4> QED
        BY <3>1, <4>3, <4>5
    <3>2. CASE i + 1 \notin t
      <4>1. t \in SUBSET (1 .. i)
        BY <3>2
      <4>2. g[t] = f[t] /\ f[t] \in S
        BY <2>2, <3>2, <4>1
      <4>3. CASE t # {}
        <5>1. t \in SUBSET (0 .. i) /\ i \in Nat
          BY <4>1
        <5>2. Max(t) \in t
          BY <4>3, <5>1, MaxIsGreatest
        <5>3. t \ {Max(t)} \in SUBSET (1 .. i + 1) /\ i + 1 \notin t \ {Max(t)}
          BY <3>2
        <5>4. g[t \ {Max(t)}] = f[t \ {Max(t)}]
          BY <5>3
        <5> QED
          BY <2>2, <4>1, <4>2, <4>3, <5>4
      <4> QED
        BY <2>2, <4>1, <4>2, <4>3
    <3> QED
      BY <3>1, <3>2
  <2>4. g \in Folds(i + 1, S, base, step)
    <3> HIDE DEF g
    <3>1. g \in [SUBSET (1 .. i + 1) -> S]
      BY <2>3 DEF g
    <3> QED
      BY <2>3, <3>1 DEF Folds
  <2> QED
    BY <2>4
<1> HIDE DEF Fine
<1>3. 0 .. n \subseteq Fine
  BY <1>1, <1>2, UpTo
<1> QED
  BY <1>3 DEF Fine

(* What is reached after each of n steps.                                  *)
Iterations(n, S, base, step) ==
  {g \in [0 .. n -> S] : g[0] = base /\ \A i \in 1 .. n : g[i] = step[i][g[i - 1]]}

(* F is such a function at least where its values are in S.                *)
IsFold(F, n, S, base, step) ==
  /\ F[{}] = base
  /\ \A t \in SUBSET (1 .. n) :
       t # {} /\ F[t \ {Max(t)}] \in S => F[t] = step[Max(t)][F[t \ {Max(t)}]]

(* A fold ends where its last step does.                                   *)
LEMMA FoldRuns ==
  ASSUME NEW n \in Nat, NEW S, NEW base \in S, NEW step \in [1 .. n -> [S -> S]],
         NEW F, IsFold(F, n, S, base, step)
  PROVE  \E g \in Iterations(n, S, base, step) : g[n] = F[1 .. n]
<1> DEFINE g == [i \in 0 .. n |-> F[1 .. i]]
           Fine == {i \in 0 .. n : g[i] \in S}
<1>1. g[0] = base
  <2>1. 1 .. 0 = {}
    OBVIOUS
  <2> QED
    BY <2>1 DEF IsFold
<1>2. ASSUME NEW i \in 1 .. n, g[i - 1] \in S
      PROVE  g[i] = step[i][g[i - 1]] /\ g[i] \in S
  <2>1. Max(1 .. i) = i /\ (1 .. i) \ {i} = 1 .. i - 1
    BY MaxOfInterval
  <2>2. 1 .. i \in SUBSET (1 .. n) /\ 1 .. i # {}
    OBVIOUS
  <2>3. g[i] = F[1 .. i] /\ g[i - 1] = F[1 .. i - 1]
    OBVIOUS
  <2>4. F[1 .. i] = step[i][F[1 .. i - 1]]
    BY <1>2, <2>1, <2>2, <2>3 DEF IsFold
  <2> QED
    BY <1>2, <2>3, <2>4
<1>3. 0 \in Fine
  BY <1>1
<1>4. ASSUME NEW i \in 0 .. n - 1, i \in Fine  PROVE  i + 1 \in Fine
  <2>1. i + 1 \in 1 .. n /\ (i + 1) - 1 = i /\ g[i] \in S
    BY <1>4
  <2> HIDE DEF g
  <2>2. g[(i + 1) - 1] \in S
    BY <2>1
  <2>3. g[i + 1] \in S
    BY <1>2, <2>1, <2>2
  <2> QED
    BY <2>1, <2>3
<1> HIDE DEF Fine
<1>5. 0 .. n \subseteq Fine
  BY <1>3, <1>4, UpTo
<1>6. \A i \in 0 .. n : g[i] \in S
  BY <1>5 DEF Fine
<1>7. g \in [0 .. n -> S]
  BY <1>6
<1>8. g[n] = F[1 .. n]
  OBVIOUS
<1> HIDE DEF g
<1>9. \A i \in 1 .. n : g[i - 1] \in S
  BY <1>6
<1> QED
  BY <1>1, <1>2, <1>7, <1>8, <1>9 DEF Iterations

LEMMA RunExists ==
  ASSUME NEW n \in Nat, NEW S, NEW base \in S, NEW step \in [1 .. n -> [S -> S]]
  PROVE  Iterations(n, S, base, step) # {}
<1>1. PICK f : f \in Folds(n, S, base, step)
  BY FoldExists
<1>2. IsFold(f, n, S, base, step)
  BY <1>1 DEF Folds, IsFold
<1> QED
  BY <1>2, FoldRuns

(* What each step of a fold hands to the next holds at its end.            *)
LEMMA FoldKeeps ==
  ASSUME NEW n \in Nat, NEW S, NEW base \in S, NEW step \in [1 .. n -> [S -> S]],
         NEW F, IsFold(F, n, S, base, step),
         NEW Good, base \in Good[0],
         \A i \in 1 .. n : \A x \in S : x \in Good[i - 1] => step[i][x] \in Good[i]
  PROVE  F[1 .. n] \in S /\ F[1 .. n] \in Good[n]
<1>1. PICK g \in Iterations(n, S, base, step) : g[n] = F[1 .. n]
  BY FoldRuns
<1>2. /\ g \in [0 .. n -> S] /\ g[0] = base
      /\ \A i \in 1 .. n : g[i] = step[i][g[i - 1]] /\ g[i - 1] \in S
  BY DEF Iterations
<1> DEFINE Fine == {i \in 0 .. n : g[i] \in Good[i]}
<1>3. 0 \in Fine
  BY <1>2
<1>4. ASSUME NEW i \in 0 .. n - 1, i \in Fine  PROVE  i + 1 \in Fine
  <2>1. i + 1 \in 1 .. n /\ (i + 1) - 1 = i
    OBVIOUS
  <2>2. g[i + 1] = step[i + 1][g[i]] /\ g[i] \in S
    BY <1>2, <2>1
  <2> QED
    BY <1>4, <2>1, <2>2
<1> HIDE DEF Fine
<1>5. 0 .. n \subseteq Fine
  BY <1>3, <1>4, UpTo
<1> QED
  BY <1>1, <1>2, <1>5 DEF Fine

-----------------------------------------------------------------------------
(* A set of things with an arrival time and a cost. *)
Costed(S) == \A x \in S : x.arrival_time \in Nat /\ x.secondary_cost \in Nat

(* lower_bound returns the first position not before the candidate.        *)
LEMMA LowerBoundFirst ==
  ASSUME NEW S, Costed(S), NEW ls \in Seq(S), NEW new \in S
  PROVE  LET it == LowerBound(ls, new)
         IN  /\ it \in 1 .. Len(ls) + 1
             /\ it <= Len(ls) => ls[it].arrival_time >= new.arrival_time
             /\ \A i \in 1 .. it - 1 : /\ i \in DOMAIN ls
                                       /\ ls[i].arrival_time < new.arrival_time
<1> DEFINE P == {j \in 1 .. Len(ls) + 1 :
                   j <= Len(ls) => ls[j].arrival_time >= new.arrival_time}
           it == LowerBound(ls, new)
<1>1. Len(ls) \in Nat /\ DOMAIN ls = 1 .. Len(ls) /\ \A i \in 1 .. Len(ls) : ls[i] \in S
  OBVIOUS
<1>2. P \subseteq Nat /\ Len(ls) + 1 \in P
  BY <1>1
<1>3. it = Min(P)
  BY DEF LowerBound
<1>4. it \in P /\ \A n \in P : it <= n
  BY <1>2, <1>3, MinIsLeast
<1>5. ASSUME NEW i \in 1 .. it - 1
      PROVE  i \in DOMAIN ls /\ ls[i].arrival_time < new.arrival_time
  <2>1. i \in 1 .. Len(ls) /\ i \notin P
    BY <1>1, <1>4
  <2> QED
    BY <1>1, <2>1 DEF Costed
<1> QED
  BY <1>4, <1>5

(* The pruning loop stops at the first label that is cheaper.              *)
LEMMA PruneEndFirst ==
  ASSUME NEW S, Costed(S), NEW ls \in Seq(S), NEW new \in S
  PROVE  LET it == LowerBound(ls, new)
             end == PruneEnd(ls, new)
         IN  /\ end \in it .. Len(ls) + 1
             /\ end <= Len(ls) => ls[end].secondary_cost < new.secondary_cost
             /\ \A i \in it .. end - 1 : /\ i \in DOMAIN ls
                                         /\ ls[i].secondary_cost >= new.secondary_cost
<1> DEFINE it == LowerBound(ls, new)
           P == {j \in it .. Len(ls) + 1 :
                   j <= Len(ls) => ls[j].secondary_cost < new.secondary_cost}
           end == PruneEnd(ls, new)
<1>1. Len(ls) \in Nat /\ DOMAIN ls = 1 .. Len(ls) /\ \A i \in 1 .. Len(ls) : ls[i] \in S
  OBVIOUS
<1>2. it \in 1 .. Len(ls) + 1
  BY LowerBoundFirst
<1>3. P \subseteq Nat /\ Len(ls) + 1 \in P
  BY <1>1, <1>2
<1>4. end = Min(P)
  BY DEF PruneEnd
<1>5. end \in P /\ \A n \in P : end <= n
  BY <1>3, <1>4, MinIsLeast
<1>6. ASSUME NEW i \in it .. end - 1
      PROVE  i \in DOMAIN ls /\ ls[i].secondary_cost >= new.secondary_cost
  <2>1. i \in 1 .. Len(ls) /\ i \notin P /\ i \in it .. Len(ls) + 1
    BY <1>1, <1>2, <1>5
  <2> QED
    BY <1>1, <2>1 DEF Costed
<1> QED
  BY <1>5, <1>6

(* A sequence in which the block from it up to end gave way to new.        *)
Splice(ls, it, new, end) ==
  SubSeq(ls, 1, it - 1) \o << new >> \o SubSeq(ls, end, Len(ls))

(* Its elements.                                                           *)
LEMMA SpliceParts ==
  ASSUME NEW S, NEW ls \in Seq(S), NEW new \in S,
         NEW it \in 1 .. Len(ls) + 1, NEW end \in it .. Len(ls) + 1
  PROVE  LET ins == Splice(ls, it, new, end)
         IN  /\ ins \in Seq(S)
             /\ Len(ins) = Len(ls) + it - end + 1
             /\ \A i \in 1 .. Len(ins) :
                  ins[i] = IF i < it THEN ls[i]
                           ELSE IF i = it THEN new ELSE ls[i - it - 1 + end]
<1> DEFINE n == Len(ls)
           A == SubSeq(ls, 1, it - 1)
           B == << new >>
           C == SubSeq(ls, end, n)
<1>1. n \in Nat /\ \A i \in 1 .. n : ls[i] \in S
  OBVIOUS
<1>2. it \in 1 .. n + 1 /\ end \in it .. n + 1
  OBVIOUS
<1> HIDE DEF n
<1>3. /\ A \in Seq(S) /\ Len(A) = it - 1
      /\ \A i \in 1 .. it - 1 : A[i] = ls[i]
  <2>1. \A i \in 1 .. it - 1 : ls[i] \in S
    BY <1>1, <1>2
  <2> QED
    BY <1>2, <2>1, SubSeqProperties
<1>4. B \in Seq(S) /\ Len(B) = 1 /\ B[1] = new
  OBVIOUS
<1>5. /\ C \in Seq(S) /\ Len(C) = n - end + 1
      /\ \A i \in 1 .. n - end + 1 : C[i] = ls[end + i - 1]
  <2>1. \A i \in end .. n : ls[i] \in S
    BY <1>1, <1>2
  <2> QED
    BY <1>1, <1>2, <2>1, SubSeqProperties
<1>6. /\ A \o B \in Seq(S) /\ Len(A \o B) = it
      /\ \A i \in 1 .. it : (A \o B)[i] = IF i < it THEN ls[i] ELSE new
  <2>1. A \o B \in Seq(S) /\ Len(A \o B) = it
    BY <1>2, <1>3, <1>4, ConcatProperties
  <2>2. ASSUME NEW i \in 1 .. it
        PROVE  (A \o B)[i] = IF i < it THEN ls[i] ELSE new
    <3>1. (A \o B)[i] = IF i <= it - 1 THEN A[i] ELSE B[i - (it - 1)]
      BY <1>2, <1>3, <1>4, ConcatProperties
    <3>2. CASE i < it
      <4>1. i <= it - 1 /\ i \in 1 .. it - 1
        BY <1>2, <3>2
      <4>2. A[i] = ls[i]
        BY <1>3, <4>1
      <4> QED
        BY <3>1, <3>2, <4>1, <4>2
    <3>3. CASE i = it
      <4>1. ~ (i <= it - 1) /\ i - (it - 1) = 1 /\ ~ (i < it)
        BY <1>2, <3>3
      <4> QED
        BY <1>4, <3>1, <4>1
    <3> QED
      BY <1>2, <3>2, <3>3
  <2> QED
    BY <2>1, <2>2
<1> HIDE DEF A, B, C
<1>7. /\ (A \o B) \o C \in Seq(S) /\ Len((A \o B) \o C) = n + it - end + 1
      /\ \A i \in 1 .. n + it - end + 1 :
           ((A \o B) \o C)[i] = IF i < it THEN ls[i]
                                ELSE IF i = it THEN new ELSE ls[i - it - 1 + end]
  <2>1. (A \o B) \o C \in Seq(S) /\ Len((A \o B) \o C) = n + it - end + 1
    <3>1. (A \o B) \o C \in Seq(S) /\ Len((A \o B) \o C) = Len(A \o B) + Len(C)
      BY <1>5, <1>6, ConcatProperties
    <3>2. Len(A \o B) + Len(C) = n + it - end + 1
      BY <1>1, <1>2, <1>5, <1>6
    <3> QED
      BY <3>1, <3>2
  <2>2. ASSUME NEW i \in 1 .. n + it - end + 1
        PROVE  ((A \o B) \o C)[i] = IF i < it THEN ls[i]
                                ELSE IF i = it THEN new ELSE ls[i - it - 1 + end]
    <3>1. i \in 1 .. Len(A \o B) + Len(C)
      BY <1>1, <1>2, <1>5, <1>6
    <3>2. ((A \o B) \o C)[i] = IF i <= it THEN (A \o B)[i] ELSE C[i - it]
      BY <1>5, <1>6, <3>1, ConcatProperties, SMTT(30)
    <3>3. CASE i <= it
      BY <1>2, <1>6, <3>2, <3>3
    <3>4. CASE i > it
      <4>1. i - it \in 1 .. n - end + 1 /\ end + (i - it) - 1 = i - it - 1 + end
        BY <1>1, <1>2, <3>4
      <4>2. C[i - it] = ls[i - it - 1 + end]
        BY <1>5, <4>1
      <4>3. ~ (i <= it) /\ ~ (i < it) /\ i # it
        BY <1>2, <3>4
      <4> QED
        BY <3>2, <4>2, <4>3
    <3>5. i <= it \/ i > it
      BY <1>1, <1>2
    <3> QED
      BY <3>3, <3>4, <3>5
  <2> QED
    BY <2>1, <2>2
<1> DEFINE ins == Splice(ls, it, new, end)
<1>8. ins = (A \o B) \o C
  BY DEF A, B, C, n, Splice
<1> HIDE DEF ins
<1>9. /\ ins \in Seq(S)
      /\ Len(ins) = Len(ls) + it - end + 1
      /\ \A i \in 1 .. Len(ins) :
           ins[i] = IF i < it THEN ls[i]
                    ELSE IF i = it THEN new ELSE ls[i - it - 1 + end]
  BY <1>7, <1>8 DEF n
<1> QED
  BY <1>9 DEF ins

(* So are those of the frontier after an insertion.                        *)
LEMMA InsertedParts ==
  ASSUME NEW S, Costed(S), NEW ls \in Seq(S), NEW new \in S
  PROVE  LET it == LowerBound(ls, new)
             end == PruneEnd(ls, new)
             ins == Inserted(ls, new)
         IN  /\ ins \in Seq(S)
             /\ Len(ins) = Len(ls) + it - end + 1
             /\ \A i \in 1 .. Len(ins) :
                  ins[i] = IF i < it THEN ls[i]
                           ELSE IF i = it THEN new ELSE ls[i - it - 1 + end]
<1> DEFINE it == LowerBound(ls, new)
           end == PruneEnd(ls, new)
           ins == Inserted(ls, new)
<1>1. it \in 1 .. Len(ls) + 1 /\ end \in it .. Len(ls) + 1
  BY LowerBoundFirst, PruneEndFirst
<1>2. ins = Splice(ls, it, new, end)
  BY DEF Inserted, Splice
<1> HIDE DEF it, end, ins
<1>3. \A a \in 1 .. Len(ls) + 1 : \A b \in a .. Len(ls) + 1 :
        LET x == Splice(ls, a, new, b)
        IN  /\ x \in Seq(S)
            /\ Len(x) = Len(ls) + a - b + 1
            /\ \A i \in 1 .. Len(x) :
                 x[i] = IF i < a THEN ls[i] ELSE IF i = a THEN new ELSE ls[i - a - 1 + b]
  BY SpliceParts
<1>4. /\ ins \in Seq(S)
      /\ Len(ins) = Len(ls) + it - end + 1
      /\ \A i \in 1 .. Len(ins) :
           ins[i] = IF i < it THEN ls[i]
                    ELSE IF i = it THEN new ELSE ls[i - it - 1 + end]
  BY <1>1, <1>2, <1>3, Zenon
<1> QED
  BY <1>4 DEF it, end, ins

-----------------------------------------------------------------------------
(* The two-neighbour test is the full dominance test.                      *)
LEMMA RejectedIffDominated ==
  ASSUME NEW S, Costed(S), NEW ls \in Seq(S), NEW new \in S, SortedFrontier(ls)
  PROVE  Rejected(ls, new) <=> \E i \in DOMAIN ls : WeaklyDominates(ls[i], new)
<1> DEFINE it == LowerBound(ls, new)
<1>1. /\ Len(ls) \in Nat /\ DOMAIN ls = 1 .. Len(ls)
      /\ \A i \in DOMAIN ls : /\ ls[i].arrival_time \in Nat
                              /\ ls[i].secondary_cost \in Nat
      /\ new.arrival_time \in Nat /\ new.secondary_cost \in Nat
  BY DEF Costed
<1>2. /\ it \in 1 .. Len(ls) + 1
      /\ it <= Len(ls) => ls[it].arrival_time >= new.arrival_time
      /\ \A i \in 1 .. it - 1 : /\ i \in DOMAIN ls
                                /\ ls[i].arrival_time < new.arrival_time
  BY LowerBoundFirst
<1>3. Rejected(ls, new) <=>
        \/ it > 1 /\ WeaklyDominates(ls[it - 1], new)
        \/ /\ it <= Len(ls) /\ ls[it].arrival_time = new.arrival_time
           /\ ls[it].secondary_cost <= new.secondary_cost
  BY DEF Rejected, RejectedByLeft, RejectedBySameTime
<1> HIDE DEF it
<1>4. ASSUME Rejected(ls, new)
      PROVE  \E i \in DOMAIN ls : WeaklyDominates(ls[i], new)
  <2>1. CASE it > 1 /\ WeaklyDominates(ls[it - 1], new)
    BY <1>1, <1>2, <2>1
  <2>2. CASE /\ it <= Len(ls) /\ ls[it].arrival_time = new.arrival_time
             /\ ls[it].secondary_cost <= new.secondary_cost
    <3>1. it \in DOMAIN ls
      BY <1>1, <1>2, <2>2
    <3> QED
      BY <1>1, <2>2, <3>1 DEF WeaklyDominates
  <2> QED
    BY <1>3, <1>4, <2>1, <2>2
<1>5. ASSUME NEW i \in DOMAIN ls, WeaklyDominates(ls[i], new)
      PROVE  Rejected(ls, new)
  <2>1. CASE i < it
    <3>1. it - 1 \in DOMAIN ls /\ it > 1 /\ i <= it - 1
      BY <1>1, <1>2, <2>1
    <3>2. ls[it - 1].arrival_time < new.arrival_time
      <4>1. it - 1 \in 1 .. it - 1
        BY <1>2, <3>1
      <4> QED
        BY <1>2, <4>1
    <3>3. ls[it - 1].secondary_cost <= ls[i].secondary_cost
      <4>1. i \in DOMAIN ls /\ it - 1 \in DOMAIN ls /\ i \in Int /\ it - 1 \in Int
        BY <1>1, <3>1
      <4>2. CASE i = it - 1
        BY <1>1, <4>1, <4>2
      <4>3. CASE i < it - 1
        <5>1. ls[i].secondary_cost > ls[it - 1].secondary_cost
          BY <4>1, <4>3 DEF SortedFrontier
        <5> QED
          BY <1>1, <4>1, <5>1
      <4> QED
        BY <3>1, <4>1, <4>2, <4>3
    <3>4. WeaklyDominates(ls[it - 1], new)
      BY <1>1, <1>5, <3>1, <3>2, <3>3 DEF WeaklyDominates
    <3> QED
      BY <1>3, <3>1, <3>4
  <2>2. CASE i >= it
    <3>1. it \in DOMAIN ls /\ it <= Len(ls)
      BY <1>1, <1>2, <2>2
    <3>2. i = it
      <4>1. ~ (it < i)
        <5>1. SUFFICES ASSUME it < i PROVE FALSE
          OBVIOUS
        <5>2. ls[it].arrival_time < ls[i].arrival_time
          BY <3>1, <5>1 DEF SortedFrontier
        <5> QED
          BY <1>1, <1>2, <1>5, <3>1, <5>2 DEF WeaklyDominates
      <4> QED
        BY <1>1, <1>2, <2>2, <4>1
    <3> QED
      BY <1>1, <1>2, <1>3, <1>5, <3>1, <3>2 DEF WeaklyDominates
  <2> QED
    BY <1>1, <1>2, <2>1, <2>2
<1> QED
  BY <1>4, <1>5

(* What is left of a label that is let in is cheaper later, what is right  *)
(* of it is later and cheaper, and what is erased it dominates.            *)
LEMMA PartsOrdered ==
  ASSUME NEW S, Costed(S), NEW ls \in Seq(S), NEW new \in S, SortedFrontier(ls),
         ~ Rejected(ls, new)
  PROVE  LET it == LowerBound(ls, new)
             end == PruneEnd(ls, new)
         IN  /\ \A i \in 1 .. it - 1 :
                  /\ i \in DOMAIN ls
                  /\ ls[i].arrival_time < new.arrival_time
                  /\ ls[i].secondary_cost > new.secondary_cost
             /\ \A i \in it .. end - 1 :
                  i \in DOMAIN ls /\ WeaklyDominates(new, ls[i])
             /\ \A i \in end .. Len(ls) :
                  /\ i \in DOMAIN ls
                  /\ ls[i].arrival_time > new.arrival_time
                  /\ ls[i].secondary_cost < new.secondary_cost
<1> DEFINE it == LowerBound(ls, new)
           end == PruneEnd(ls, new)
<1>1. /\ Len(ls) \in Nat /\ DOMAIN ls = 1 .. Len(ls)
      /\ \A i \in DOMAIN ls : /\ ls[i].arrival_time \in Nat
                              /\ ls[i].secondary_cost \in Nat
      /\ new.arrival_time \in Nat /\ new.secondary_cost \in Nat
  BY DEF Costed
<1>2. /\ it \in 1 .. Len(ls) + 1
      /\ it <= Len(ls) => ls[it].arrival_time >= new.arrival_time
      /\ \A i \in 1 .. it - 1 : /\ i \in DOMAIN ls
                                /\ ls[i].arrival_time < new.arrival_time
  BY LowerBoundFirst
<1>3. /\ end \in it .. Len(ls) + 1
      /\ end <= Len(ls) => ls[end].secondary_cost < new.secondary_cost
      /\ \A i \in it .. end - 1 : /\ i \in DOMAIN ls
                                  /\ ls[i].secondary_cost >= new.secondary_cost
  BY PruneEndFirst
<1>4. \A i \in DOMAIN ls : ~ WeaklyDominates(ls[i], new)
  BY RejectedIffDominated
<1> HIDE DEF it, end
<1>5. ASSUME NEW i \in 1 .. it - 1
      PROVE  /\ i \in DOMAIN ls
             /\ ls[i].arrival_time < new.arrival_time
             /\ ls[i].secondary_cost > new.secondary_cost
  <2>1. i \in DOMAIN ls /\ ls[i].arrival_time < new.arrival_time
    BY <1>2
  <2>2. ~ (ls[i].secondary_cost <= new.secondary_cost)
    BY <1>1, <1>4, <2>1 DEF WeaklyDominates
  <2> QED
    BY <1>1, <2>1, <2>2
<1>6. ASSUME NEW i \in DOMAIN ls, i >= it
      PROVE  ls[i].arrival_time >= new.arrival_time
  <2>1. it \in DOMAIN ls /\ ls[it].arrival_time >= new.arrival_time
    BY <1>1, <1>2, <1>6
  <2>2. it < i \/ it = i
    BY <1>1, <1>2, <1>6
  <2>3. it < i => ls[it].arrival_time < ls[i].arrival_time
    BY <2>1 DEF SortedFrontier
  <2> QED
    BY <1>1, <2>1, <2>2, <2>3
<1>7. ASSUME NEW i \in it .. end - 1
      PROVE  i \in DOMAIN ls /\ WeaklyDominates(new, ls[i])
  <2>1. i \in DOMAIN ls /\ ls[i].secondary_cost >= new.secondary_cost /\ i >= it
    BY <1>2, <1>3
  <2> QED
    BY <1>1, <1>6, <2>1 DEF WeaklyDominates
<1>8. ASSUME NEW i \in end .. Len(ls)
      PROVE  /\ i \in DOMAIN ls
             /\ ls[i].arrival_time > new.arrival_time
             /\ ls[i].secondary_cost < new.secondary_cost
  <2>1. /\ i \in DOMAIN ls /\ end \in DOMAIN ls /\ end <= i
        /\ i >= it /\ end <= Len(ls)
    BY <1>1, <1>2, <1>3
  <2>2. ls[i].secondary_cost <= ls[end].secondary_cost
    <3>1. end < i \/ end = i
      BY <1>1, <2>1
    <3>2. end < i => ls[end].secondary_cost > ls[i].secondary_cost
      BY <2>1 DEF SortedFrontier
    <3> QED
      BY <1>1, <2>1, <3>1, <3>2
  <2>3. ls[i].secondary_cost < new.secondary_cost
    BY <1>1, <1>3, <2>1, <2>2
  <2>4. ls[i].arrival_time # new.arrival_time
    BY <1>1, <1>4, <2>1, <2>3 DEF WeaklyDominates
  <2> QED
    BY <1>1, <1>6, <2>1, <2>3, <2>4
<1> QED
  BY <1>5, <1>7, <1>8 DEF it, end

(* An insertion keeps the frontier sorted.                                 *)
LEMMA InsertedSorted ==
  ASSUME NEW S, Costed(S), NEW ls \in Seq(S), NEW new \in S, SortedFrontier(ls),
         ~ Rejected(ls, new)
  PROVE  SortedFrontier(Inserted(ls, new))
<1> DEFINE it == LowerBound(ls, new)
           end == PruneEnd(ls, new)
           n == Len(ls)
           ins == Inserted(ls, new)
           at(i) == i - it - 1 + end
<1>1. /\ n \in Nat /\ DOMAIN ls = 1 .. n
      /\ \A i \in DOMAIN ls : /\ ls[i].arrival_time \in Nat
                              /\ ls[i].secondary_cost \in Nat
      /\ new.arrival_time \in Nat /\ new.secondary_cost \in Nat
  BY DEF Costed
<1>2. it \in 1 .. n + 1 /\ end \in it .. n + 1
  BY LowerBoundFirst, PruneEndFirst
<1>3. /\ ins \in Seq(S) /\ Len(ins) = n + it - end + 1
      /\ \A i \in 1 .. Len(ins) :
           ins[i] = IF i < it THEN ls[i] ELSE IF i = it THEN new ELSE ls[at(i)]
  BY InsertedParts
<1>4. /\ \A i \in 1 .. it - 1 :
           /\ i \in DOMAIN ls
           /\ ls[i].arrival_time < new.arrival_time
           /\ ls[i].secondary_cost > new.secondary_cost
      /\ \A i \in end .. n :
           /\ i \in DOMAIN ls
           /\ ls[i].arrival_time > new.arrival_time
           /\ ls[i].secondary_cost < new.secondary_cost
  BY PartsOrdered
<1> HIDE DEF it, end, n, ins
<1>5. DOMAIN ins = 1 .. n + it - end + 1
  BY <1>3
<1>6. SUFFICES ASSUME NEW i \in DOMAIN ins, NEW j \in DOMAIN ins, i < j
               PROVE  /\ ins[i].arrival_time < ins[j].arrival_time
                      /\ ins[i].secondary_cost > ins[j].secondary_cost
  BY DEF SortedFrontier, ins
<1>7. i \in 1 .. n + it - end + 1 /\ j \in 1 .. n + it - end + 1
  BY <1>5
<1>8. CASE j < it
  <2>1. i \in DOMAIN ls /\ j \in DOMAIN ls /\ ins[i] = ls[i] /\ ins[j] = ls[j]
    BY <1>1, <1>2, <1>3, <1>6, <1>7, <1>8
  <2> QED
    BY <1>6, <2>1 DEF SortedFrontier
<1>9. CASE j = it
  <2>1. i \in 1 .. it - 1 /\ ins[i] = ls[i] /\ ins[j] = new
    BY <1>1, <1>2, <1>3, <1>6, <1>7, <1>9
  <2> QED
    BY <1>4, <2>1
<1>10. CASE j > it
  <2>1. at(j) \in end .. n /\ ins[j] = ls[at(j)]
    <3>1. ~ (j < it) /\ j # it
      BY <1>2, <1>7, <1>10
    <3>2. ins[j] = ls[at(j)]
      BY <1>3, <1>7, <3>1
    <3>3. at(j) \in end .. n
      <4>1. j \in Int /\ it \in Int /\ end \in Int /\ n \in Int
        BY <1>1, <1>2, <1>7
      <4>2. j <= n + it - end + 1
        BY <1>7, <4>1
      <4> QED
        BY <1>10, <4>1, <4>2
    <3> QED
      BY <3>2, <3>3
  <2>2. CASE i < it
    <3>1. i \in 1 .. it - 1 /\ ins[i] = ls[i]
      BY <1>1, <1>2, <1>3, <1>7, <2>2
    <3>2. i < at(j) /\ at(j) \in DOMAIN ls /\ i \in DOMAIN ls
      BY <1>1, <1>2, <1>6, <1>7, <2>1, <2>2
    <3> QED
      BY <2>1, <3>1, <3>2 DEF SortedFrontier
  <2>3. CASE i = it
    <3>1. ins[i] = new
      BY <1>2, <1>3, <1>7, <2>3
    <3> QED
      BY <1>1, <1>4, <2>1, <3>1
  <2>4. CASE i > it
    <3>1. ~ (i < it) /\ i # it
      BY <1>2, <1>7, <2>4
    <3>2. ins[i] = ls[at(i)]
      BY <1>3, <1>7, <3>1
    <3>3. at(i) < at(j) /\ at(i) \in DOMAIN ls /\ at(j) \in DOMAIN ls
      <4>1. /\ i \in Int /\ j \in Int /\ it \in Int /\ end \in Int /\ n \in Int
            /\ 1 <= it /\ it <= end
        BY <1>1, <1>2, <1>7
      <4>2. i <= n + it - end + 1 /\ j <= n + it - end + 1
        BY <1>7, <4>1
      <4>3. at(i) < at(j)
        BY <1>6, <4>1
      <4>4. at(i) \in 1 .. n
        BY <2>4, <4>1, <4>2
      <4>5. at(j) \in 1 .. n
        BY <1>10, <4>1, <4>2
      <4> QED
        BY <1>1, <4>3, <4>4, <4>5, Zenon
    <3> QED
      BY <2>1, <3>2, <3>3 DEF SortedFrontier
  <2>5. i < it \/ i = it \/ i > it
    BY <1>2, <1>7
  <2> QED
    BY <2>2, <2>3, <2>4, <2>5
<1>11. j < it \/ j = it \/ j > it
  BY <1>2, <1>7
<1> QED
  BY <1>8, <1>9, <1>10, <1>11

(* An insertion keeps exactly the labels new does not dominate, and new.   *)
LEMMA InsertedRange ==
  ASSUME NEW S, Costed(S), NEW ls \in Seq(S), NEW new \in S, SortedFrontier(ls),
         ~ Rejected(ls, new)
  PROVE  Range(Inserted(ls, new))
           = {x \in Range(ls) : ~ WeaklyDominates(new, x)} \cup {new}
<1> DEFINE it == LowerBound(ls, new)
           end == PruneEnd(ls, new)
           n == Len(ls)
           ins == Inserted(ls, new)
           at(i) == i - it - 1 + end
<1>1. /\ n \in Nat /\ DOMAIN ls = 1 .. n
      /\ \A i \in DOMAIN ls : /\ ls[i].arrival_time \in Nat
                              /\ ls[i].secondary_cost \in Nat
      /\ new.arrival_time \in Nat /\ new.secondary_cost \in Nat
  BY DEF Costed
<1>2. it \in 1 .. n + 1 /\ end \in it .. n + 1
  BY LowerBoundFirst, PruneEndFirst
<1>3. /\ ins \in Seq(S) /\ Len(ins) = n + it - end + 1
      /\ \A i \in 1 .. Len(ins) :
           ins[i] = IF i < it THEN ls[i] ELSE IF i = it THEN new ELSE ls[at(i)]
  BY InsertedParts
<1>4. /\ \A i \in 1 .. it - 1 :
           /\ i \in DOMAIN ls
           /\ ls[i].arrival_time < new.arrival_time
           /\ ls[i].secondary_cost > new.secondary_cost
      /\ \A i \in it .. end - 1 :
           i \in DOMAIN ls /\ WeaklyDominates(new, ls[i])
      /\ \A i \in end .. n :
           /\ i \in DOMAIN ls
           /\ ls[i].arrival_time > new.arrival_time
           /\ ls[i].secondary_cost < new.secondary_cost
  BY PartsOrdered
<1> HIDE DEF it, end, n, ins
<1>5. DOMAIN ins = 1 .. n + it - end + 1
  BY <1>3
<1>6. \A i \in 1 .. it - 1 : ~ WeaklyDominates(new, ls[i])
  BY <1>1, <1>4 DEF WeaklyDominates
<1>7. \A i \in end .. n : ~ WeaklyDominates(new, ls[i])
  BY <1>1, <1>4 DEF WeaklyDominates
<1>8. ASSUME NEW i \in DOMAIN ins
      PROVE  ins[i] \in {x \in Range(ls) : ~ WeaklyDominates(new, x)} \cup {new}
  <2>1. i \in 1 .. n + it - end + 1
    BY <1>5
  <2>2. CASE i < it
    <3>1. i \in 1 .. it - 1 /\ ins[i] = ls[i]
      BY <1>1, <1>2, <1>3, <2>1, <2>2
    <3> QED
      BY <1>4, <1>6, <3>1 DEF Range
  <2>3. CASE i = it
    BY <1>2, <1>3, <2>1, <2>3
  <2>4. CASE i > it
    <3>1. ~ (i < it) /\ i # it
      BY <1>2, <2>1, <2>4
    <3>2. ins[i] = ls[at(i)]
      <4>1. i \in 1 .. Len(ins)
        BY <1>3, <2>1
      <4> QED
        BY <1>3, <3>1, <4>1, Zenon
    <3>3. at(i) \in end .. n
      <4>1. i \in Int /\ it \in Int /\ end \in Int /\ n \in Int
        BY <1>1, <1>2, <2>1
      <4>2. i <= n + it - end + 1
        BY <2>1, <4>1
      <4> QED
        BY <2>4, <4>1, <4>2
    <3> QED
      BY <1>4, <1>7, <3>2, <3>3 DEF Range
  <2>5. i < it \/ i = it \/ i > it
    BY <1>2, <2>1
  <2> QED
    BY <2>2, <2>3, <2>4, <2>5
<1>9. new \in Range(ins)
  <2>1. it \in DOMAIN ins /\ ins[it] = new
    BY <1>1, <1>2, <1>3, <1>5
  <2> QED
    BY <2>1 DEF Range
<1>10. ASSUME NEW i \in DOMAIN ls, ~ WeaklyDominates(new, ls[i])
       PROVE  ls[i] \in Range(ins)
  <2>1. CASE i < it
    <3>1. i \in DOMAIN ins /\ ins[i] = ls[i]
      BY <1>1, <1>2, <1>3, <1>5, <2>1
    <3> QED
      BY <3>1 DEF Range
  <2>2. CASE i >= end
    <3> DEFINE j == i + it + 1 - end
    <3>1. j \in DOMAIN ins /\ ~ (j < it) /\ j # it /\ at(j) = i
      <4>1. i \in Int /\ it \in Int /\ end \in Int /\ n \in Int /\ i <= n /\ it >= 1
        BY <1>1, <1>2
      <4>2. j \in Int /\ j > it /\ j <= n + it - end + 1
        BY <2>2, <4>1
      <4>3. j \in 1 .. n + it - end + 1
        BY <4>1, <4>2
      <4>4. at(j) = i
        BY <4>1
      <4>5. ~ (j < it) /\ j # it
        BY <4>1, <4>2
      <4> QED
        BY <1>5, <4>3, <4>4, <4>5, Zenon
    <3>2. ins[j] = ls[i]
      BY <1>3, <1>5, <3>1
    <3> QED
      BY <3>1, <3>2 DEF Range
  <2>3. i < it \/ i >= end \/ i \in it .. end - 1
    BY <1>1, <1>2
  <2> QED
    BY <1>4, <1>10, <2>1, <2>2, <2>3
<1>11. Range(ins) \subseteq {x \in Range(ls) : ~ WeaklyDominates(new, x)} \cup {new}
  BY <1>8 DEF Range
<1>12. {x \in Range(ls) : ~ WeaklyDominates(new, x)} \cup {new} \subseteq Range(ins)
  <2>1. \A x \in Range(ls) : ~ WeaklyDominates(new, x) => x \in Range(ins)
    BY <1>10 DEF Range
  <2> QED
    BY <1>9, <2>1
<1> QED
  BY <1>11, <1>12 DEF ins

(* What one call of insert_and_dominate does to a sorted frontier: it      *)
(* leaves it alone or replaces what new dominates by new; it stays sorted, *)
(* and whatever was or came in is still covered.                           *)
THEOREM InsertFrontier ==
  ASSUME NEW S, Costed(S), NEW ls \in Seq(S), NEW new \in S, SortedFrontier(ls)
  PROVE  LET after == AfterInsert(ls, new)
         IN  /\ after \in Seq(S)
             /\ SortedFrontier(after)
             /\ Len(after) <= Len(ls) + 1
             /\ Rejected(ls, new) =>
                  /\ after = ls
                  /\ \E x \in Range(ls) : WeaklyDominates(x, new)
             /\ ~ Rejected(ls, new) =>
                  /\ Range(after) =
                       {x \in Range(ls) : ~ WeaklyDominates(new, x)} \cup {new}
                  /\ \A x \in Range(ls) : ~ WeaklyDominates(x, new)
<1>1. CASE Rejected(ls, new)
  <2>1. AfterInsert(ls, new) = ls
    BY <1>1 DEF AfterInsert
  <2>2. \E i \in DOMAIN ls : WeaklyDominates(ls[i], new)
    BY <1>1, RejectedIffDominated
  <2> QED
    BY <1>1, <2>1, <2>2, LenProperties DEF Range
<1>2. CASE ~ Rejected(ls, new)
  <2>1. AfterInsert(ls, new) = Inserted(ls, new)
    BY <1>2 DEF AfterInsert
  <2>2. Inserted(ls, new) \in Seq(S)
    BY InsertedParts
  <2>3. \A i \in DOMAIN ls : ~ WeaklyDominates(ls[i], new)
    BY <1>2, RejectedIffDominated
  <2>4. \A x \in Range(ls) : ~ WeaklyDominates(x, new)
    BY <2>3 DEF Range
  <2>5. Len(Inserted(ls, new)) <= Len(ls) + 1
    <3> DEFINE it == LowerBound(ls, new)
               end == PruneEnd(ls, new)
    <3>1. Len(Inserted(ls, new)) = Len(ls) + it - end + 1
      BY InsertedParts
    <3>2. /\ Len(ls) \in Nat
          /\ it \in 1 .. Len(ls) + 1
          /\ end \in it .. Len(ls) + 1
      BY LenProperties, LowerBoundFirst, PruneEndFirst
    <3> HIDE DEF it, end
    <3> QED
      BY <3>1, <3>2
  <2> QED
    BY <1>2, <2>1, <2>2, <2>4, <2>5, InsertedSorted, InsertedRange
<1> QED
  BY <1>1, <1>2

(* No label of a sorted frontier dominates another.                        *)
LEMMA SortedIncomparable ==
  ASSUME NEW S, Costed(S), NEW ls \in Seq(S), SortedFrontier(ls),
         NEW x \in Range(ls), NEW y \in Range(ls), WeaklyDominates(x, y)
  PROVE  x = y
<1>1. PICK i \in DOMAIN ls, j \in DOMAIN ls : x = ls[i] /\ y = ls[j]
  BY DEF Range
<1>2. i \in Nat /\ j \in Nat /\ x \in S /\ y \in S
  BY <1>1
<1>3. ~ (i < j)
  <2>1. SUFFICES ASSUME i < j PROVE FALSE
    OBVIOUS
  <2>2. x.secondary_cost > y.secondary_cost
    BY <1>1, <2>1 DEF SortedFrontier
  <2> QED
    BY <1>2, <2>2 DEF WeaklyDominates, Costed
<1>4. ~ (j < i)
  <2>1. SUFFICES ASSUME j < i PROVE FALSE
    OBVIOUS
  <2>2. y.arrival_time < x.arrival_time
    BY <1>1, <2>1 DEF SortedFrontier
  <2> QED
    BY <1>2, <2>2 DEF WeaklyDominates, Costed
<1> QED
  BY <1>1, <1>2, <1>3, <1>4

(* A sorted frontier has as many labels as positions.                      *)
LEMMA SortedCardinality ==
  ASSUME NEW S, Costed(S), NEW ls \in Seq(S), SortedFrontier(ls)
  PROVE  IsFiniteSet(Range(ls)) /\ Cardinality(Range(ls)) = Len(ls)
<1>1. Len(ls) \in Nat /\ DOMAIN ls = 1 .. Len(ls)
  OBVIOUS
<1>2. \A i, j \in DOMAIN ls : i # j => ls[i] # ls[j]
  <2> SUFFICES ASSUME NEW i \in DOMAIN ls, NEW j \in DOMAIN ls, i # j, ls[i] = ls[j]
               PROVE  FALSE
    OBVIOUS
  <2>1. ls[i].arrival_time \in Nat /\ ls[j].arrival_time \in Nat
    BY DEF Costed
  <2>2. i < j \/ j < i
    BY <1>1
  <2> QED
    BY <2>1, <2>2 DEF SortedFrontier
<1>3. ls \in Bijection(1 .. Len(ls), Range(ls))
  BY <1>1, <1>2 DEF Range, Bijection, Injection, Surjection, IsInjective
<1>4. IsFiniteSet(1 .. Len(ls)) /\ Cardinality(1 .. Len(ls)) = Len(ls)
  <2>1. Len(ls) \in Int /\ Len(ls) >= 0 /\ 1 \in Int
    BY <1>1
  <2>2. /\ IsFiniteSet(1 .. Len(ls))
        /\ Cardinality(1 .. Len(ls)) = IF 1 > Len(ls) THEN 0 ELSE Len(ls) - 1 + 1
    BY <2>1, FS_Interval, Zenon
  <2> QED
    BY <2>1, <2>2
<1> QED
  BY <1>3, <1>4, FS_Bijection DEF ExistsBijection

NatPoint == [arrival_time : Nat, secondary_cost : Nat]

(* The reference definition: of points, insert_and_dominate keeps exactly  *)
(* the non-dominated ones of what it had and what it was given.            *)
THEOREM InsertKeepsMinimal ==
  ASSUME NEW ls \in Seq(NatPoint), NEW new \in NatPoint, SortedFrontier(ls)
  PROVE  Range(AfterInsert(ls, new)) = Minimal(Range(ls) \cup {new})
<1> DEFINE after == AfterInsert(ls, new)
<1>1. Costed(NatPoint)
  BY DEF Costed, NatPoint
<1>2. Range(ls) \subseteq NatPoint
  BY DEF Range
<1>3. \A p, q \in NatPoint : WeaklyDominates(p, q) /\ p # q => StrictlyDominates(p, q)
  BY DEF NatPoint, WeaklyDominates, StrictlyDominates
<1>4. \A p, q \in NatPoint : StrictlyDominates(p, q) => WeaklyDominates(p, q) /\ p # q
  BY DEF NatPoint, StrictlyDominates
<1>5. \A p, q, r \in NatPoint : WeaklyDominates(p, q) /\ WeaklyDominates(q, r)
                            => WeaklyDominates(p, r)
  BY DEF NatPoint, WeaklyDominates
<1>6. \A p, q \in NatPoint : WeaklyDominates(p, q) /\ WeaklyDominates(q, p) => p = q
  BY DEF NatPoint, WeaklyDominates
<1>7. \A x, y \in Range(ls) : WeaklyDominates(x, y) => x = y
  BY <1>1, SortedIncomparable
<1>8. CASE Rejected(ls, new)
  <2>1. after = ls /\ \E x \in Range(ls) : WeaklyDominates(x, new)
    BY <1>1, <1>8, InsertFrontier
  <2>2. PICK x \in Range(ls) : WeaklyDominates(x, new)
    BY <2>1
  <2>3. ASSUME NEW y \in Range(ls)
        PROVE  ~ StrictlyDominates(new, y)
    BY <1>2, <1>4, <1>5, <1>6, <1>7, <2>2
  <2>4. \A y \in Range(ls) : y \in Minimal(Range(ls) \cup {new})
    BY <1>2, <1>4, <1>7, <2>3 DEF Minimal
  <2>5. new \in Minimal(Range(ls) \cup {new}) => new \in Range(ls)
    BY <1>2, <1>3, <2>2 DEF Minimal
  <2> QED
    BY <2>1, <2>4, <2>5 DEF Minimal
<1>9. CASE ~ Rejected(ls, new)
  <2>1. /\ Range(after) = {x \in Range(ls) : ~ WeaklyDominates(new, x)} \cup {new}
        /\ \A x \in Range(ls) : ~ WeaklyDominates(x, new)
    BY <1>1, <1>9, InsertFrontier
  <2>2. new \in Minimal(Range(ls) \cup {new})
    BY <1>2, <1>4, <2>1 DEF Minimal
  <2>3. ASSUME NEW x \in Range(ls)
        PROVE  x \in Minimal(Range(ls) \cup {new}) <=> ~ WeaklyDominates(new, x)
    <3>1. x # new
      BY <2>1, <2>3 DEF NatPoint, WeaklyDominates
    <3>2. WeaklyDominates(new, x) => StrictlyDominates(new, x)
      BY <1>2, <1>3, <3>1
    <3>3. ~ WeaklyDominates(new, x) => \A q \in Range(ls) \cup {new} :
                                          ~ StrictlyDominates(q, x)
      BY <1>2, <1>4, <1>7
    <3> QED
      BY <3>2, <3>3 DEF Minimal
  <2> QED
    BY <2>1, <2>2, <2>3 DEF Minimal
<1> QED
  BY <1>8, <1>9

-----------------------------------------------------------------------------
(* A range of departures: a sequence whose fields are naturals.            *)
DepartureRange(es) ==
  /\ Len(es) \in Nat
  /\ DOMAIN es = 1 .. Len(es)
  /\ \A i \in DOMAIN es :
       /\ es[i].departure_time \in Nat /\ es[i].travel_time \in Nat
       /\ es[i].secondary_weight \in Nat /\ es[i].penalty \in Nat

(* Composites are naturals.                                                *)
LEMMA CompositeNat ==
  ASSUME NEW g, NEW c, NEW u, NEW i \in DOMAIN g.edges[u],
         DepartureRange(g.edges[u]), c.lambda \in Nat
  PROVE  Composite(g, c, g.edges[u][i]) \in Nat
<1> DEFINE e == g.edges[u][i]
<1>1. e.departure_time \in Nat /\ e.travel_time \in Nat
        /\ e.secondary_weight \in Nat /\ e.penalty \in Nat
  BY DEF DepartureRange
<1>2. c.lambda * e.secondary_weight \in Nat
  BY <1>1
<1> QED
  BY <1>1, <1>2 DEF Composite

(* When some departure is examined, the one returned is the first examined *)
(* departure of least composite.                                           *)
LEMMA SelectionBoards ==
  ASSUME NEW g, NEW c, NEW t, NEW u, NEW v,
         DepartureRange(g.edges[u]), c.lambda \in Nat,
         Examined(g, c, t, u, v) # {}
  PROVE  LET i == select_optimal_departure(g, c, t, u, v)
         IN  /\ i \in DOMAIN g.edges[u]
             /\ Boards(g, c, t, u, v, i)
<1> DEFINE E == Examined(g, c, t, u, v)
           cost(i) == Composite(g, c, g.edges[u][i])
           costs == {cost(i) : i \in E}
<1>1. E \subseteq DOMAIN g.edges[u] /\ E \subseteq Nat
  <2>1. E \subseteq DOMAIN g.edges[u]
    BY Zenon DEF Examined, Candidates
  <2> QED
    BY <2>1 DEF DepartureRange
<1>2. \A i \in E : cost(i) \in Nat
  BY <1>1, CompositeNat
<1>3. PICK m \in costs : \A n \in costs : m <= n
  BY <1>2, LeastNatural
<1> DEFINE best == {i \in E : cost(i) = m}
<1>4. best # {} /\ best \subseteq Nat
  BY <1>1, <1>3
<1>5. PICK i \in best : \A j \in best : i <= j
  BY <1>4, LeastNatural
<1>6. Boards(g, c, t, u, v, i)
  <2>1. ASSUME NEW j \in E
        PROVE  cost(i) < cost(j) \/ (cost(i) = cost(j) /\ i <= j)
    <3>1. cost(i) = m /\ m <= cost(j) /\ cost(i) \in Nat /\ cost(j) \in Nat
      BY <1>2, <1>3
    <3>2. cost(j) = m => i <= j
      BY <1>5
    <3> QED
      BY <3>1, <3>2
  <2> QED
    BY <2>1, <1>5 DEF Boards
<1>7. i \in DOMAIN g.edges[u]
  BY <1>1, <1>5
<1> QED
  BY <1>6, <1>7 DEF select_optimal_departure

(* What is returned, if anything is, can be boarded: it leaves u for v     *)
(* inside the window.                                                      *)
THEOREM SelectionIsCatchable ==
  ASSUME NEW g, NEW c, NEW t, NEW u, NEW v,
         DepartureRange(g.edges[u]), c.lambda \in Nat,
         select_optimal_departure(g, c, t, u, v) # NoDeparture
  PROVE  LET i == select_optimal_departure(g, c, t, u, v)
         IN  /\ i \in DOMAIN g.edges[u]
             /\ g.edges[u][i].destination = v
             /\ t <= g.edges[u][i].departure_time
             /\ g.edges[u][i].departure_time <= t + c.W_max_seconds
<1>1. Examined(g, c, t, u, v) # {}
  BY DEF select_optimal_departure
<1>2. LET i == select_optimal_departure(g, c, t, u, v)
      IN  i \in Candidates(g, c, t, u, v)
  BY <1>1, SelectionBoards DEF Boards, Examined
<1> QED
  BY <1>2 DEF Candidates
=============================================================================
