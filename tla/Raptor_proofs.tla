----------------------------- MODULE Raptor_proofs -----------------------------
(***************************************************************************)
(* For every timetable in which no trip overtakes another, whatever its    *)
(* footpaths, every round cap and number of queries: the scratch buffers   *)
(* and the marks.  Where the footpaths are closed: each round is exact.    *)
(***************************************************************************)
EXTENDS RaptorGate, NetworkBuild_proofs

Times == 0 .. UINT32_MAX
Arrivals == [Stop -> Times]
LayerType == [cur : Arrivals, marked : SUBSET Stop, list : Seq(Stop)]

NoRepeats(s) == \A i, j \in DOMAIN s : s[i] = s[j] => i = j

(* A list of marks: each stop once, the stops being those improved on      *)
(* before.                                                                 *)
MarksOK(c, before) ==
  /\ \A p \in Stop : c.cur[p] <= before[p]
  /\ c.marked = {p \in Stop : c.cur[p] < before[p]}
  /\ Range(c.list) = c.marked
  /\ NoRepeats(c.list)

Timetabled == WellBuilt(tt) /\ UINT32_MAX \in Nat

LEMMA AppendFacts ==
  ASSUME NEW S, NEW s \in Seq(S), NEW x \in S
  PROVE  /\ Append(s, x) \in Seq(S)
         /\ Range(Append(s, x)) = Range(s) \cup {x}
         /\ NoRepeats(s) /\ x \notin Range(s) => NoRepeats(Append(s, x))
<1> DEFINE t == Append(s, x)
<1>1. PICK n \in Nat : n = Len(s) /\ DOMAIN s = 1 .. n
  OBVIOUS
<1>2. /\ t \in Seq(S) /\ DOMAIN t = 1 .. n + 1 /\ t[n + 1] = x
      /\ \A i \in 1 .. n : t[i] = s[i]
  BY <1>1
<1> HIDE DEF t
<1>3. Range(t) = Range(s) \cup {x}
  <2>1. Range(t) \subseteq Range(s) \cup {x}
    <3> SUFFICES ASSUME NEW i \in 1 .. n + 1 PROVE t[i] \in Range(s) \cup {x}
      BY <1>2 DEF Range
    <3>1. i \in 1 .. n \/ i = n + 1
      OBVIOUS
    <3> QED
      BY <1>1, <1>2, <3>1 DEF Range
  <2>2. \A i \in 1 .. n : i \in 1 .. n + 1
    OBVIOUS
  <2>3. n + 1 \in 1 .. n + 1
    OBVIOUS
  <2> QED
    BY <1>1, <1>2, <2>1, <2>2, <2>3 DEF Range
<1>4. ASSUME NoRepeats(s), x \notin Range(s)  PROVE  NoRepeats(t)
  <2> SUFFICES ASSUME NEW i \in 1 .. n + 1, NEW j \in 1 .. n + 1, t[i] = t[j]
               PROVE  i = j
    BY <1>2 DEF NoRepeats
  <2>1. (i \in 1 .. n \/ i = n + 1) /\ (j \in 1 .. n \/ j = n + 1)
    OBVIOUS
  <2>2. \A m \in 1 .. n : s[m] # x
    BY <1>1, <1>4 DEF Range
  <2> QED
    BY <1>1, <1>2, <1>4, <2>1, <2>2 DEF NoRepeats
<1> QED
  BY <1>2, <1>3, <1>4 DEF t

LEMMA LayerTimes ==
  ASSUME UINT32_MAX \in Nat
  PROVE  /\ \A at \in Arrivals : \A q \in Stop : at[q] \in Nat /\ at[q] <= UINT32_MAX
         /\ \A c \in LayerType : \A q \in Stop : c.cur[q] \in Nat /\ c.cur[q] <= UINT32_MAX
BY DEF LayerType, Arrivals, Times

(* Improving a layer at a stop.                                            *)
LEMMA ImprovedFacts ==
  ASSUME UINT32_MAX \in Nat, NEW c \in LayerType, NEW p \in Stop, NEW arr \in Nat
  PROVE  /\ Improved(c, p, arr) \in LayerType
         /\ \A q \in Stop : Improved(c, p, arr).cur[q] <= c.cur[q]
         /\ Improved(c, p, arr).cur[p] <= arr
         /\ \A q \in Stop : \/ Improved(c, p, arr).cur[q] = c.cur[q]
                            \/ q = p /\ Improved(c, p, arr).cur[q] = arr
         /\ \A before \in Arrivals :
              MarksOK(c, before) => MarksOK(Improved(c, p, arr), before)
<1> DEFINE d == Improved(c, p, arr)
<1>1. /\ c.cur \in Arrivals /\ c.marked \in SUBSET Stop /\ c.list \in Seq(Stop)
      /\ \A q \in Stop : c.cur[q] \in Times
  BY DEF LayerType, Arrivals
<1>2. \A q \in Stop : c.cur[q] \in Nat /\ c.cur[q] <= UINT32_MAX
  BY <1>1 DEF Times
<1>3. CASE ~ (arr < c.cur[p])
  <2>1. d = c
    BY <1>3 DEF Improved
  <2>2. c.cur[p] <= arr
    BY <1>2, <1>3
  <2>3. \A q \in Stop : c.cur[q] <= c.cur[q]
    BY <1>2
  <2> HIDE DEF d
  <2>4. /\ d \in LayerType
        /\ \A q \in Stop : d.cur[q] <= c.cur[q]
        /\ d.cur[p] <= arr
        /\ \A q \in Stop : d.cur[q] = c.cur[q]
        /\ \A before \in Arrivals : MarksOK(c, before) => MarksOK(d, before)
    BY <2>1, <2>2, <2>3
  <2> QED
    BY <2>4 DEF d
<1>4. CASE arr < c.cur[p]
  <2> DEFINE cur == [c.cur EXCEPT ![p] = arr]
             list == IF p \in c.marked THEN c.list ELSE Append(c.list, p)
  <2>1. d = [cur |-> cur, marked |-> c.marked \cup {p}, list |-> list]
    BY <1>4 DEF Improved, LayerType
  <2>2. arr \in Times
    BY <1>2, <1>4 DEF Times
  <2>3. cur \in Arrivals /\ cur[p] = arr /\ \A q \in Stop \ {p} : cur[q] = c.cur[q]
    BY <1>1, <2>2 DEF Arrivals
  <2>4. list \in Seq(Stop)
    BY <1>1, AppendFacts
  <2> HIDE DEF cur, list
  <2>5. d.cur = cur /\ d.marked = c.marked \cup {p} /\ d.list = list /\ d \in LayerType
    BY <1>1, <2>1, <2>3, <2>4 DEF LayerType
  <2>6. \A q \in Stop : cur[q] <= c.cur[q]
    BY <1>2, <1>4, <2>3
  <2>7. ASSUME NEW before \in Arrivals, MarksOK(c, before)  PROVE  MarksOK(d, before)
    <3>1. \A q \in Stop : before[q] \in Nat /\ cur[q] \in Nat
      BY <2>3 DEF Arrivals, Times
    <3>2. \A q \in Stop : cur[q] <= before[q]
      BY <1>2, <2>6, <2>7, <3>1 DEF MarksOK
    <3>3. \A q \in Stop : cur[q] < before[q] <=> q \in c.marked \cup {p}
      BY <1>2, <1>4, <2>3, <2>7, <3>1 DEF MarksOK
    <3>4. Range(list) = c.marked \cup {p} /\ NoRepeats(list)
      BY <1>1, <2>7, AppendFacts DEF MarksOK, list
    <3>5. c.marked \cup {p} = {q \in Stop : cur[q] < before[q]}
      BY <1>1, <3>3
    <3> QED
      BY <2>5, <3>2, <3>4, <3>5 DEF MarksOK
  <2> HIDE DEF d
  <2>8. /\ d \in LayerType
        /\ \A q \in Stop : d.cur[q] <= c.cur[q]
        /\ d.cur[p] <= arr
        /\ \A q \in Stop : d.cur[q] = c.cur[q] \/ (q = p /\ d.cur[q] = arr)
        /\ \A before \in Arrivals : MarksOK(c, before) => MarksOK(d, before)
    BY <2>3, <2>5, <2>6, <2>7
  <2> QED
    BY <2>8 DEF d
<1> QED
  BY <1>3, <1>4

LEMMA TransfersOut ==
  ASSUME Timetabled, NEW p \in Stop
  PROVE  /\ tt.transfers[p] \in Seq(TransferEdge)
         /\ \A w \in Range(tt.transfers[p]) : w.destination \in Stop /\ w.travel_time \in Nat
<1>1. tt.transfers[p] \in Seq(TransferEdge)
  BY DEF Timetabled, WellBuilt
<1>2. \A i \in DOMAIN tt.transfers[p] : tt.transfers[p][i] \in TransferEdge
  BY <1>1
<1> QED
  BY <1>1, <1>2 DEF Range, TransferEdge

(* What the footpaths out of p have done to a layer, the first i of them.  *)
WalkedUpTo(c, p, base, i, d) ==
  LET ts == tt.transfers[p]
  IN  /\ \A q \in Stop : d.cur[q] <= c.cur[q]
      /\ \A j \in 1 .. i : d.cur[ts[j].destination] <= base + ts[j].travel_time
      /\ \A q \in Stop : \/ d.cur[q] = c.cur[q]
                         \/ \E w \in Range(ts) : /\ w.destination = q
                                                 /\ d.cur[q] = base + w.travel_time
      /\ \A before \in Arrivals : MarksOK(c, before) => MarksOK(d, before)

LEMMA WalkedStep ==
  ASSUME Timetabled, NEW c \in LayerType, NEW p \in Stop, NEW base \in Nat,
         NEW i \in 1 .. Len(tt.transfers[p]), NEW x \in LayerType,
         WalkedUpTo(c, p, base, i - 1, x)
  PROVE  LET t == tt.transfers[p][i]
             d == Improved(x, t.destination, base + t.travel_time)
         IN  d \in LayerType /\ WalkedUpTo(c, p, base, i, d)
<1> DEFINE ts == tt.transfers[p]
           t == ts[i]
           arr == base + t.travel_time
           d == Improved(x, t.destination, arr)
<1>1. PICK n \in Nat : n = Len(ts) /\ DOMAIN ts = 1 .. n
  BY TransfersOut
<1>2. \A j \in 1 .. n : /\ ts[j] \in Range(ts) /\ ts[j].destination \in Stop
                        /\ ts[j].travel_time \in Nat
  BY <1>1, TransfersOut DEF Range
<1>3. i \in 1 .. n /\ t.destination \in Stop /\ arr \in Nat /\ t \in Range(ts)
  <2>1. i \in 1 .. n
    BY <1>1
  <2> QED
    BY <1>2, <2>1
<1>4. /\ d \in LayerType
      /\ \A q \in Stop : d.cur[q] <= x.cur[q]
      /\ d.cur[t.destination] <= arr
      /\ \A q \in Stop : d.cur[q] = x.cur[q] \/ (q = t.destination /\ d.cur[q] = arr)
      /\ \A before \in Arrivals : MarksOK(x, before) => MarksOK(d, before)
  <2> HIDE DEF arr, t
  <2> QED
    BY <1>3, ImprovedFacts DEF Timetabled
<1>5. /\ \A q \in Stop : x.cur[q] <= c.cur[q]
      /\ \A j \in 1 .. i - 1 : x.cur[ts[j].destination] <= base + ts[j].travel_time
      /\ \A q \in Stop : \/ x.cur[q] = c.cur[q]
                         \/ \E w \in Range(ts) : /\ w.destination = q
                                                 /\ x.cur[q] = base + w.travel_time
      /\ \A before \in Arrivals : MarksOK(c, before) => MarksOK(x, before)
  BY DEF WalkedUpTo
<1> HIDE DEF d
<1>6. \A q \in Stop : d.cur[q] \in Nat /\ x.cur[q] \in Nat /\ c.cur[q] \in Nat
  BY <1>4, LayerTimes DEF Timetabled
<1>7. \A q \in Stop : d.cur[q] <= c.cur[q]
  BY <1>4, <1>5, <1>6
<1>8. ASSUME NEW j \in 1 .. i
      PROVE  d.cur[ts[j].destination] <= base + ts[j].travel_time
  <2>1. CASE j = i
    BY <1>4, <2>1
  <2>2. CASE j # i
    <3>1. j \in 1 .. i - 1 /\ j \in 1 .. n
      BY <1>3, <2>2
    <3>2. PICK q \in Stop : q = ts[j].destination
      BY <1>2, <3>1
    <3>3. PICK b \in Nat : b = base + ts[j].travel_time
      BY <1>2, <3>1
    <3>4. x.cur[q] <= b /\ d.cur[q] <= x.cur[q]
      BY <1>4, <1>5, <3>1, <3>2, <3>3
    <3>5. d.cur[q] <= b
      BY <1>6, <3>4
    <3> QED
      BY <3>2, <3>3, <3>5
  <2> QED
    BY <2>1, <2>2
<1>9. ASSUME NEW q \in Stop
      PROVE  d.cur[q] = c.cur[q] \/ \E w \in Range(ts) : /\ w.destination = q
                                                         /\ d.cur[q] = base + w.travel_time
  BY <1>3, <1>4, <1>5
<1>10. \A before \in Arrivals : MarksOK(c, before) => MarksOK(d, before)
  BY <1>4, <1>5
<1>11. WalkedUpTo(c, p, base, i, d)
  BY <1>7, <1>8, <1>9, <1>10 DEF WalkedUpTo
<1> QED
  BY <1>4, <1>11 DEF d

LEMMA WalkedFacts ==
  ASSUME Timetabled, NEW c \in LayerType, NEW p \in Stop, NEW base \in Nat
  PROVE  /\ Walked(c, p, base) \in LayerType
         /\ WalkedUpTo(c, p, base, Len(tt.transfers[p]), Walked(c, p, base))
<1> DEFINE ts == tt.transfers[p]
           op(x, t) == Improved(x, t.destination, base + t.travel_time)
<1>1. PICK n \in Nat : n = Len(ts) /\ DOMAIN ts = 1 .. n
  BY TransfersOut
<1> DEFINE step == [i \in 1 .. n |-> [x \in LayerType |-> op(x, ts[i])]]
           Good == [i \in 0 .. n |-> {x \in LayerType : WalkedUpTo(c, p, base, i, x)}]
           eq(f) == [t \in SUBSET (1 .. n) |->
                       IF t = {} THEN c ELSE op(f[t \ {Max(t)}], ts[Max(t)])]
           F == CHOOSE f : f = eq(f)
<1>2. Walked(c, p, base) = F[1 .. n]
  BY <1>1 DEF Walked, FoldLeft, MapThenFoldSet
<1>3. \A i \in 1 .. n : ts[i].destination \in Stop /\ base + ts[i].travel_time \in Nat
  BY <1>1, TransfersOut DEF Range
<1>4. \A i \in 1 .. n, x \in LayerType : op(x, ts[i]) \in LayerType
  BY <1>3, ImprovedFacts DEF Timetabled
<1> HIDE DEF op
<1>5. step \in [1 .. n -> [LayerType -> LayerType]]
  BY <1>4
<1>6. \A i \in 1 .. n, x \in LayerType : step[i][x] = op(x, ts[i])
  OBVIOUS
<1> HIDE DEF step
<1>7. PICK f : f \in Folds(n, LayerType, c, step)
  BY <1>5, FoldExists
<1>8. \A t \in SUBSET (1 .. n) : t # {} => Max(t) \in 1 .. n
  BY MaxInUpTo
<1>9. f = eq(f)
  BY <1>6, <1>7, <1>8 DEF Folds
<1>10. F = eq(F)
  BY <1>9
<1> HIDE DEF F
<1>11. IsFold(F, n, LayerType, c, step)
  BY <1>6, <1>8, <1>10 DEF IsFold
<1>12. c \in Good[0]
  <2>1. \A q \in Stop : c.cur[q] \in Nat
    BY DEF LayerType, Arrivals, Times
  <2>2. \A q \in Stop : c.cur[q] <= c.cur[q]
    BY <2>1
  <2>3. 1 .. 0 = {}
    OBVIOUS
  <2>4. WalkedUpTo(c, p, base, 0, c)
    BY <2>2, <2>3 DEF WalkedUpTo
  <2> QED
    BY <2>4
<1>13. \A i \in 1 .. n : \A x \in LayerType : x \in Good[i - 1] => step[i][x] \in Good[i]
  <2> SUFFICES ASSUME NEW i \in 1 .. n, NEW x \in LayerType, x \in Good[i - 1]
               PROVE  step[i][x] \in Good[i]
    OBVIOUS
  <2>1. i \in 0 .. n /\ i - 1 \in 0 .. n /\ i \in 1 .. Len(tt.transfers[p])
    BY <1>1
  <2>2. WalkedUpTo(c, p, base, i - 1, x)
    BY <2>1
  <2>3. op(x, ts[i]) \in LayerType /\ WalkedUpTo(c, p, base, i, op(x, ts[i]))
    BY <2>1, <2>2, WalkedStep DEF op
  <2> QED
    BY <1>6, <2>1, <2>3
<1> HIDE DEF Good
<1>14. F[1 .. n] \in LayerType /\ F[1 .. n] \in Good[n]
  BY <1>5, <1>11, <1>12, <1>13, FoldKeeps
<1>15. WalkedUpTo(c, p, base, n, F[1 .. n])
  BY <1>14 DEF Good
<1> QED
  BY <1>1, <1>2, <1>14, <1>15

-----------------------------------------------------------------------------
(* Trips of a route, by position.                                          *)
LEMMA RouteFacts ==
  ASSUME Timetabled, NEW r \in Route
  PROVE  LET stops == tt.routes[r].stops
             trips == tt.routes[r].trips
         IN  /\ stops \in Seq(Stop) /\ trips \in Seq(Seq(StopTime))
             /\ \A m \in DOMAIN trips : \A i \in DOMAIN stops :
                  trips[m][i].arrival \in Nat /\ trips[m][i].departure \in Nat
             /\ \A m \in DOMAIN trips : DOMAIN trips[m] = DOMAIN stops
             /\ \A a, b \in DOMAIN trips : a <= b =>
                  \A i \in DOMAIN stops :
                    /\ trips[a][i].arrival <= trips[b][i].arrival
                    /\ trips[a][i].departure <= trips[b][i].departure
<1> DEFINE R == [stops : Seq(Stop), trips : Seq(Seq(StopTime))]
           stops == tt.routes[r].stops
           trips == tt.routes[r].trips
<1>1. tt.routes \in Seq(R)
  BY DEF Timetabled, WellBuilt
<1>2. r \in DOMAIN tt.routes
  BY DEF Route
<1>3. tt.routes[r] \in R
  <2> HIDE DEF R
  <2> QED
    BY <1>1, <1>2
<1>4. stops \in Seq(Stop) /\ trips \in Seq(Seq(StopTime))
  BY <1>3
<1>5. /\ \A m \in DOMAIN trips : Len(trips[m]) = Len(stops)
      /\ \A a, b \in DOMAIN trips : a < b => no_later_than(trips[a], trips[b])
  BY <1>2 DEF Timetabled, WellBuilt
<1> HIDE DEF stops, trips
<1>6. \A m \in DOMAIN trips : trips[m] \in Seq(StopTime)
  BY <1>4
<1>7. \A m \in DOMAIN trips : DOMAIN trips[m] = DOMAIN stops
  BY <1>4, <1>5, <1>6
<1>8. \A m \in DOMAIN trips : \A i \in DOMAIN stops : trips[m][i] \in StopTime
  BY <1>6, <1>7
<1>9. \A m \in DOMAIN trips : \A i \in DOMAIN stops :
        trips[m][i].arrival \in Nat /\ trips[m][i].departure \in Nat
  BY <1>8 DEF StopTime
<1>10. ASSUME NEW a \in DOMAIN trips, NEW b \in DOMAIN trips, a <= b,
              NEW i \in DOMAIN stops
       PROVE  /\ trips[a][i].arrival <= trips[b][i].arrival
              /\ trips[a][i].departure <= trips[b][i].departure
  <2>1. CASE a = b
    <3>1. \A x \in Nat : x <= x
      OBVIOUS
    <3> QED
      BY <1>9, <2>1, <3>1
  <2>2. CASE a # b
    <3>1. a < b
      BY <1>4, <1>10, <2>2
    <3> QED
      BY <1>5, <1>7, <3>1 DEF no_later_than
  <2> QED
    BY <2>1, <2>2
<1>11. /\ stops \in Seq(Stop) /\ trips \in Seq(Seq(StopTime))
       /\ \A m \in DOMAIN trips : \A i \in DOMAIN stops :
            trips[m][i].arrival \in Nat /\ trips[m][i].departure \in Nat
       /\ \A m \in DOMAIN trips : DOMAIN trips[m] = DOMAIN stops
       /\ \A a, b \in DOMAIN trips : a <= b =>
            \A i \in DOMAIN stops : /\ trips[a][i].arrival <= trips[b][i].arrival
                                    /\ trips[a][i].departure <= trips[b][i].departure
  BY <1>4, <1>7, <1>9, <1>10
<1> QED
  BY <1>11 DEF stops, trips

(* One halving: the trips before lo leave too early, those from hi on do   *)
(* not, and after i halvings of n trips at most n - i are undecided.       *)
Bounds(n) == [lo : 1 .. n + 1, hi : 1 .. n + 1]
Narrowed(r, pos, t, n, i, b) ==
  /\ b.lo <= b.hi /\ b.hi - b.lo <= n - i
  /\ \A m \in 1 .. n : m < b.lo => tt.routes[r].trips[m][pos].departure < t
  /\ \A m \in 1 .. n : b.hi <= m => t <= tt.routes[r].trips[m][pos].departure

LEMMA Midpoint ==
  ASSUME NEW lo \in Nat, NEW hi \in Nat, lo < hi
  PROVE  lo + (hi - lo) \div 2 \in lo .. hi - 1
<1>1. PICK d \in Nat : hi = lo + d /\ d > 0
  <2>1. hi - lo \in Nat /\ hi = lo + (hi - lo) /\ hi - lo > 0
    OBVIOUS
  <2> QED
    BY <2>1
<1>2. d \div 2 \in Nat /\ d \div 2 < d
  BY <1>1
<1> QED
  BY <1>1, <1>2

LEMMA HalvedFacts ==
  ASSUME Timetabled, NEW r \in Route, NEW pos \in DOMAIN tt.routes[r].stops, NEW t \in Nat,
         NEW n \in Nat, n = Len(tt.routes[r].trips), NEW b \in Bounds(n)
  PROVE  /\ Halved(r, pos, t, b) \in Bounds(n)
         /\ \A i \in 1 .. n : Narrowed(r, pos, t, n, i - 1, b)
                                => Narrowed(r, pos, t, n, i, Halved(r, pos, t, b))
<1> DEFINE D(m) == tt.routes[r].trips[m][pos].departure
           mid == b.lo + (b.hi - b.lo) \div 2
           d == Halved(r, pos, t, b)
<1>1. /\ b = [lo |-> b.lo, hi |-> b.hi]
      /\ b.lo \in 1 .. n + 1 /\ b.hi \in 1 .. n + 1
  BY DEF Bounds
<1>2. DOMAIN tt.routes[r].trips = 1 .. n
  BY RouteFacts
<1>3. /\ \A m \in 1 .. n : D(m) \in Nat
      /\ \A l, m \in 1 .. n : l <= m => D(l) <= D(m)
  BY <1>2, RouteFacts
<1>4. CASE b.lo >= b.hi
  <2>1. d = b
    BY <1>4 DEF Halved
  <2>2. ASSUME NEW i \in 1 .. n, Narrowed(r, pos, t, n, i - 1, b)
        PROVE  Narrowed(r, pos, t, n, i, b)
    BY <1>1, <1>4, <2>2 DEF Narrowed
  <2> QED
    BY <2>1, <2>2
<1>5. CASE b.lo < b.hi
  <2>1. mid \in b.lo .. b.hi - 1
    BY <1>1, <1>5, Midpoint
  <2>2. ~ (b.lo >= b.hi)
    BY <1>1, <1>5
  <2> HIDE DEF mid
  <2>3. mid \in 1 .. n /\ mid + 1 \in 1 .. n + 1 /\ mid \in 1 .. n + 1
    <3>1. PICK lo \in 1 .. n + 1, hi \in 1 .. n + 1 : lo = b.lo /\ hi = b.hi
      BY <1>1
    <3>2. ASSUME NEW m \in lo .. hi - 1
          PROVE  m \in 1 .. n /\ m + 1 \in 1 .. n + 1 /\ m \in 1 .. n + 1
      OBVIOUS
    <3> QED
      BY <2>1, <3>1, <3>2
  <2>4. CASE D(mid) < t
    <3>1. d = [lo |-> mid + 1, hi |-> b.hi]
      BY <1>1, <2>2, <2>4 DEF Halved, mid
    <3> HIDE DEF d
    <3>2. d \in Bounds(n) /\ d.lo = mid + 1 /\ d.hi = b.hi
      BY <1>1, <2>3, <3>1 DEF Bounds
    <3>3. ASSUME NEW i \in 1 .. n, Narrowed(r, pos, t, n, i - 1, b)
          PROVE  Narrowed(r, pos, t, n, i, d)
      <4>1. d.lo <= d.hi /\ d.hi - d.lo <= n - i
        <5>1. b.hi - b.lo <= n - (i - 1)
          BY <3>3 DEF Narrowed
        <5>2. PICK lo \in Nat, hi \in Nat, mi \in Nat : lo = b.lo /\ hi = b.hi /\ mi = mid
          BY <1>1, <2>3
        <5>3. mi \in lo .. hi - 1 /\ hi - lo <= n - (i - 1)
          BY <2>1, <5>1, <5>2
        <5>4. mi + 1 <= hi /\ hi - (mi + 1) <= n - i
          BY <5>3
        <5> QED
          BY <3>2, <5>2, <5>4
      <4>2. ASSUME NEW m \in 1 .. n, m < d.lo  PROVE  D(m) < t
        <5>1. m <= mid
          BY <2>3, <3>2, <4>2
        <5> HIDE DEF D
        <5> QED
          BY <1>3, <2>3, <2>4, <5>1
      <4>3. \A m \in 1 .. n : d.hi <= m => t <= D(m)
        BY <3>2, <3>3 DEF Narrowed
      <4> QED
        BY <4>1, <4>2, <4>3 DEF Narrowed
    <3> QED
      BY <3>2, <3>3 DEF d
  <2>5. CASE ~ (D(mid) < t)
    <3>1. d = [lo |-> b.lo, hi |-> mid]
      BY <1>1, <2>2, <2>5 DEF Halved, mid
    <3> HIDE DEF d
    <3>2. d \in Bounds(n) /\ d.lo = b.lo /\ d.hi = mid
      BY <1>1, <2>3, <3>1 DEF Bounds
    <3>3. ASSUME NEW i \in 1 .. n, Narrowed(r, pos, t, n, i - 1, b)
          PROVE  Narrowed(r, pos, t, n, i, d)
      <4>1. d.lo <= d.hi /\ d.hi - d.lo <= n - i
        <5>1. b.hi - b.lo <= n - (i - 1)
          BY <3>3 DEF Narrowed
        <5>2. PICK lo \in Nat, hi \in Nat, mi \in Nat : lo = b.lo /\ hi = b.hi /\ mi = mid
          BY <1>1, <2>3
        <5>3. mi \in lo .. hi - 1 /\ hi - lo <= n - (i - 1)
          BY <2>1, <5>1, <5>2
        <5>4. lo <= mi /\ mi - lo <= n - i
          BY <5>3
        <5> QED
          BY <3>2, <5>2, <5>4
      <4>2. ASSUME NEW m \in 1 .. n, d.hi <= m  PROVE  t <= D(m)
        <5>1. mid <= m
          BY <2>3, <3>2, <4>2
        <5> HIDE DEF D
        <5> QED
          BY <1>3, <2>3, <2>5, <5>1
      <4>3. \A m \in 1 .. n : m < d.lo => D(m) < t
        BY <3>2, <3>3 DEF Narrowed
      <4> QED
        BY <4>1, <4>2, <4>3 DEF Narrowed
    <3> QED
      BY <3>2, <3>3 DEF d
  <2> QED
    BY <2>4, <2>5
<1> QED
  BY <1>1, <1>4, <1>5

(* The bisection finds the first trip that can be caught.                  *)
LEMMA EarliestTrip ==
  ASSUME Timetabled, NEW r \in Route, NEW pos \in DOMAIN tt.routes[r].stops, NEW t \in Nat
  PROVE  LET et == earliest_trip(r, pos, t)
             trips == tt.routes[r].trips
         IN  /\ et \in 1 .. Len(trips) + 1
             /\ et \in DOMAIN trips => t <= trips[et][pos].departure
             /\ \A m \in DOMAIN trips : t <= trips[m][pos].departure => et <= m
<1> DEFINE trips == tt.routes[r].trips
<1>1. PICK n \in Nat : n = Len(trips) /\ DOMAIN trips = 1 .. n
  BY RouteFacts
<1> DEFINE S == Bounds(n)
           base == [lo |-> 1, hi |-> n + 1]
           step == [i \in 1 .. n |-> [x \in S |-> Halved(r, pos, t, x)]]
           Good == [i \in 0 .. n |-> {x \in S : Narrowed(r, pos, t, n, i, x)}]
           eq(f) == [s \in SUBSET (1 .. n) |->
                       IF s = {} THEN base ELSE Halved(r, pos, t, f[s \ {Max(s)}])]
           F == CHOOSE f : f = eq(f)
<1>2. earliest_trip(r, pos, t) = F[1 .. n].lo
  BY <1>1 DEF earliest_trip, FoldLeft, MapThenFoldSet
<1>3. \A x \in S : Halved(r, pos, t, x) \in S
  BY <1>1, HalvedFacts
<1>4. base \in S /\ base \in Good[0]
  <2>1. base \in S
    BY DEF Bounds
  <2>2. Narrowed(r, pos, t, n, 0, base)
    BY DEF Narrowed
  <2> QED
    BY <2>1, <2>2
<1> HIDE DEF base
<1>5. step \in [1 .. n -> [S -> S]] /\ \A i \in 1 .. n, x \in S : step[i][x] = Halved(r, pos, t, x)
  BY <1>3
<1>6. \A i \in 1 .. n : \A x \in S : x \in Good[i - 1] => step[i][x] \in Good[i]
  <2> SUFFICES ASSUME NEW i \in 1 .. n, NEW x \in S, x \in Good[i - 1]
               PROVE  step[i][x] \in Good[i]
    OBVIOUS
  <2>1. i \in 0 .. n /\ i - 1 \in 0 .. n
    OBVIOUS
  <2>2. Narrowed(r, pos, t, n, i - 1, x)
    BY <2>1
  <2>3. Narrowed(r, pos, t, n, i, Halved(r, pos, t, x))
    BY <1>1, <2>2, HalvedFacts
  <2> QED
    BY <1>3, <2>1, <2>3
<1> HIDE DEF S, step, Good
<1>7. PICK f : f \in Folds(n, S, base, step)
  BY <1>4, <1>5, FoldExists
<1>8. \A s \in SUBSET (1 .. n) : s # {} => Max(s) \in 1 .. n
  BY MaxInUpTo
<1>9. f = eq(f)
  BY <1>5, <1>7, <1>8 DEF Folds
<1>10. F = eq(F)
  BY <1>9
<1> HIDE DEF F
<1>11. IsFold(F, n, S, base, step)
  BY <1>5, <1>8, <1>10 DEF IsFold
<1>12. F[1 .. n] \in S /\ F[1 .. n] \in Good[n]
  <2>1. n \in Nat /\ base \in S /\ step \in [1 .. n -> [S -> S]] /\ base \in Good[0]
    BY <1>4, <1>5, <1>6
  <2>2. \A i \in 1 .. n : \A x \in S : x \in Good[i - 1] => step[i][x] \in Good[i]
    BY <1>6
  <2> QED
    BY <1>11, <2>1, <2>2, FoldKeeps, SMTT(30)
<1>13. PICK b \in Bounds(n) : b = F[1 .. n] /\ Narrowed(r, pos, t, n, n, b)
  BY <1>12 DEF S, Good
<1>14. b.lo \in 1 .. n + 1 /\ b.hi \in 1 .. n + 1 /\ b.lo = b.hi
  BY <1>13 DEF Bounds, Narrowed
<1>15. /\ \A m \in 1 .. n : m < b.lo => trips[m][pos].departure < t
       /\ \A m \in 1 .. n : b.lo <= m => t <= trips[m][pos].departure
  BY <1>13, <1>14 DEF Narrowed
<1>16. \A m \in 1 .. n : trips[m][pos].departure \in Nat
  BY <1>1, RouteFacts
<1>17. ASSUME NEW m \in 1 .. n, t <= trips[m][pos].departure  PROVE  b.lo <= m
  <2> HIDE DEF trips
  <2>1. ~ (trips[m][pos].departure < t)
    BY <1>16, <1>17
  <2> QED
    BY <1>14, <1>15, <2>1
<1>18. b.lo \in 1 .. n => t <= trips[b.lo][pos].departure
  BY <1>14, <1>15
<1> QED
  BY <1>1, <1>2, <1>13, <1>14, <1>17, <1>18

-----------------------------------------------------------------------------
(* Trip m of route r can be boarded at position a, having got there as at  *)
(* says; and x is when such a ride brings one to v.                        *)
Ready(at, r, a, m) ==
  /\ at[tt.routes[r].stops[a]] # UINT32_MAX
  /\ at[tt.routes[r].stops[a]] <= tt.routes[r].trips[m][a].departure

RideTo(at, v, x) ==
  \E r \in Route : \E m \in DOMAIN tt.routes[r].trips, b \in DOMAIN tt.routes[r].stops :
    /\ tt.routes[r].stops[b] = v
    /\ x = tt.routes[r].trips[m][b].arrival
    /\ \E a \in 1 .. b - 1 : Ready(at, r, a, m)

(* A scan begun at start in layer c has boarded at the positions up to     *)
(* last and alighted at those up to out: the layer it has made, and the    *)
(* trip it is on, which is the first that can have been boarded.           *)
OnBoard(r) == [layer : LayerType, trip : 1 .. Len(tt.routes[r].trips) + 1]
ScanLayer(c, prev, d) ==
  /\ \A p \in Stop : d.cur[p] <= c.cur[p]
  /\ \A p \in Stop : d.cur[p] = c.cur[p] \/ RideTo(prev, p, d.cur[p])
  /\ \A before \in Arrivals : MarksOK(c, before) => MarksOK(d, before)
ScanTrip(prev, r, start, last, trip) ==
  /\ trip \in DOMAIN tt.routes[r].trips => \E a \in start .. last : Ready(prev, r, a, trip)
  /\ \A a \in start .. last, m \in DOMAIN tt.routes[r].trips :
       Ready(prev, r, a, m) => trip <= m
ScanDone(prev, r, start, last, out, d) ==
  \A a \in start .. last, m \in DOMAIN tt.routes[r].trips : \A b \in a + 1 .. out :
    Ready(prev, r, a, m)
      => d.cur[tt.routes[r].stops[b]] <= tt.routes[r].trips[m][b].arrival

LEMMA AlightedFacts ==
  ASSUME Timetabled, NEW r \in Route, NEW prev \in Arrivals, NEW c \in LayerType,
         NEW start \in DOMAIN tt.routes[r].stops, NEW pos \in DOMAIN tt.routes[r].stops,
         start <= pos,
         NEW x \in OnBoard(r), ScanLayer(c, prev, x.layer),
         ScanTrip(prev, r, start, pos - 1, x.trip),
         ScanDone(prev, r, start, pos - 1, pos - 1, x.layer)
  PROVE  LET y == Alighted(x, r, pos)
         IN  /\ y \in OnBoard(r) /\ y.trip = x.trip
             /\ ScanLayer(c, prev, y.layer)
             /\ ScanDone(prev, r, start, pos - 1, pos, y.layer)
<1> DEFINE stops == tt.routes[r].stops
           trips == tt.routes[r].trips
           y == Alighted(x, r, pos)
           p == stops[pos]
           arr == trips[x.trip][pos].arrival
<1>1. PICK n \in Nat, len \in Nat :
        /\ n = Len(trips) /\ DOMAIN trips = 1 .. n
        /\ len = Len(stops) /\ DOMAIN stops = 1 .. len
  <2>1. trips \in Seq(Seq(StopTime)) /\ stops \in Seq(Stop)
    BY RouteFacts
  <2>2. Len(trips) \in Nat /\ DOMAIN trips = 1 .. Len(trips)
    BY <2>1
  <2>3. Len(stops) \in Nat /\ DOMAIN stops = 1 .. Len(stops)
    BY <2>1
  <2> QED
    BY <2>2, <2>3
<1>2. \A b \in DOMAIN stops : stops[b] \in Stop
  BY RouteFacts
<1>3. /\ x = [layer |-> x.layer, trip |-> x.trip]
      /\ x.layer \in LayerType /\ x.trip \in 1 .. n + 1
  BY <1>1 DEF OnBoard
<1>4. \A m \in 1 .. n : \A b \in 1 .. len : trips[m][b].arrival \in Nat
  BY <1>1, RouteFacts
<1>5. CASE x.trip > n
  <2>1. y = x
    BY <1>1, <1>5 DEF Alighted
  <2>2. ASSUME NEW a \in start .. pos - 1, NEW m \in 1 .. n, Ready(prev, r, a, m)
        PROVE  FALSE
    <3>1. x.trip <= m
      BY <1>1, <2>2 DEF ScanTrip
    <3> QED
      BY <1>3, <1>5, <3>1
  <2>3. ScanDone(prev, r, start, pos - 1, pos, x.layer)
    BY <1>1, <2>2 DEF ScanDone
  <2> QED
    BY <2>1, <2>3
<1>6. CASE ~ (x.trip > n)
  <2>1. x.trip \in 1 .. n /\ pos \in 1 .. len /\ p \in Stop /\ arr \in Nat
    <3>1. x.trip \in 1 .. n /\ pos \in 1 .. len
      BY <1>1, <1>3, <1>6
    <3> QED
      BY <1>1, <1>2, <1>4, <3>1
  <2> DEFINE d == Improved(x.layer, p, arr)
  <2>2. y = [layer |-> d, trip |-> x.trip]
    BY <1>1, <1>3, <1>6 DEF Alighted
  <2> HIDE DEF p, arr
  <2>3. /\ d \in LayerType
        /\ \A q \in Stop : d.cur[q] <= x.layer.cur[q]
        /\ d.cur[p] <= arr
        /\ \A q \in Stop : d.cur[q] = x.layer.cur[q] \/ (q = p /\ d.cur[q] = arr)
        /\ \A before \in Arrivals : MarksOK(x.layer, before) => MarksOK(d, before)
    BY <1>3, <2>1, ImprovedFacts DEF Timetabled
  <2> HIDE DEF d, y
  <2>4. y \in OnBoard(r) /\ y.trip = x.trip /\ y.layer = d
    BY <1>1, <1>3, <2>2, <2>3 DEF OnBoard
  <2>5. /\ \A q \in Stop : d.cur[q] \in Nat /\ x.layer.cur[q] \in Nat /\ c.cur[q] \in Nat
    BY <1>3, <2>3, LayerTimes DEF Timetabled
  <2>6. RideTo(prev, p, arr)
    <3>1. PICK a \in start .. pos - 1 : Ready(prev, r, a, x.trip)
      BY <1>1, <2>1 DEF ScanTrip
    <3>2. a \in 1 .. pos - 1
      BY <1>1
    <3> QED
      BY <1>1, <2>1, <3>1, <3>2 DEF RideTo, p, arr
  <2>7. ScanLayer(c, prev, d)
    <3>1. \A q \in Stop : d.cur[q] <= c.cur[q]
      BY <2>3, <2>5 DEF ScanLayer
    <3>2. \A q \in Stop : d.cur[q] = c.cur[q] \/ RideTo(prev, q, d.cur[q])
      BY <2>3, <2>6 DEF ScanLayer
    <3> QED
      BY <2>3, <3>1, <3>2 DEF ScanLayer
  <2>8. ASSUME NEW a \in start .. pos - 1, NEW m \in 1 .. n, NEW b \in a + 1 .. pos,
               Ready(prev, r, a, m)
        PROVE  d.cur[stops[b]] <= trips[m][b].arrival
    <3>1. x.trip <= m
      BY <1>1, <2>8 DEF ScanTrip
    <3>2. b \in 1 .. len
      BY <1>1
    <3>3. PICK e \in Nat : e = trips[m][b].arrival
      BY <1>4, <3>2
    <3>4. PICK q \in Stop : q = stops[b]
      BY <1>1, <1>2, <3>2
    <3>5. CASE b = pos
      <4>1. arr <= trips[m][pos].arrival
        BY <1>1, <2>1, <3>1, RouteFacts DEF arr
      <4>2. q = p /\ arr <= e
        BY <3>3, <3>4, <3>5, <4>1 DEF p
      <4>3. d.cur[q] <= e
        BY <2>1, <2>3, <2>5, <4>2
      <4> QED
        BY <3>3, <3>4, <4>3
    <3>6. CASE b # pos
      <4>1. b \in a + 1 .. pos - 1
        BY <1>1, <3>6
      <4>2. x.layer.cur[stops[b]] <= trips[m][b].arrival
        BY <1>1, <2>8, <4>1 DEF ScanDone
      <4>3. d.cur[q] <= e
        BY <2>3, <2>5, <3>3, <3>4, <4>2
      <4> QED
        BY <3>3, <3>4, <4>3
    <3> QED
      BY <3>5, <3>6
  <2>9. ScanDone(prev, r, start, pos - 1, pos, d)
    BY <1>1, <2>8 DEF ScanDone
  <2>10. /\ y \in OnBoard(r) /\ y.trip = x.trip
         /\ ScanLayer(c, prev, y.layer)
         /\ ScanDone(prev, r, start, pos - 1, pos, y.layer)
    BY <2>4, <2>7, <2>9
  <2> QED
    BY <2>10 DEF y
<1> QED
  BY <1>5, <1>6

LEMMA BoardedFacts ==
  ASSUME Timetabled, NEW r \in Route, NEW prev \in Arrivals,
         NEW start \in DOMAIN tt.routes[r].stops, NEW pos \in DOMAIN tt.routes[r].stops,
         start <= pos,
         NEW y \in OnBoard(r),
         ScanTrip(prev, r, start, pos - 1, y.trip),
         ScanDone(prev, r, start, pos - 1, pos, y.layer)
  PROVE  LET z == Boarded(y, prev, r, pos)
         IN  /\ z \in OnBoard(r) /\ z.layer = y.layer
             /\ ScanTrip(prev, r, start, pos, z.trip)
             /\ ScanDone(prev, r, start, pos, pos, z.layer)
<1> DEFINE stops == tt.routes[r].stops
           trips == tt.routes[r].trips
           z == Boarded(y, prev, r, pos)
           ready == prev[stops[pos]]
           et == earliest_trip(r, pos, ready)
           boards == /\ ready # UINT32_MAX
                     /\ y.trip > Len(trips) \/ ready <= trips[y.trip][pos].departure
                     /\ et < y.trip
<1>1. PICK n \in Nat, len \in Nat :
        /\ n = Len(trips) /\ DOMAIN trips = 1 .. n
        /\ len = Len(stops) /\ DOMAIN stops = 1 .. len
  <2>1. trips \in Seq(Seq(StopTime)) /\ stops \in Seq(Stop)
    BY RouteFacts
  <2>2. Len(trips) \in Nat /\ DOMAIN trips = 1 .. Len(trips)
    BY <2>1
  <2>3. Len(stops) \in Nat /\ DOMAIN stops = 1 .. Len(stops)
    BY <2>1
  <2> QED
    BY <2>2, <2>3
<1>2. /\ y = [layer |-> y.layer, trip |-> y.trip]
      /\ y.layer \in LayerType /\ y.trip \in 1 .. n + 1
  BY <1>1 DEF OnBoard
<1>3. /\ pos \in 1 .. len /\ start \in 1 .. len /\ start <= pos
      /\ ready \in Nat
      /\ \A m \in 1 .. n : trips[m][pos].departure \in Nat
  <2>1. \A b \in DOMAIN stops : stops[b] \in Stop
    BY RouteFacts
  <2>2. \A m \in 1 .. n : trips[m][pos].departure \in Nat
    BY <1>1, RouteFacts
  <2>3. ready \in Nat
    <3> DEFINE p == stops[pos]
    <3>1. p \in Stop
      BY <2>1
    <3> HIDE DEF p
    <3>2. prev[p] \in Nat
      BY <3>1, LayerTimes DEF Timetabled
    <3> QED
      BY <3>2 DEF p
  <2> QED
    BY <1>1, <2>2, <2>3
<1>4. /\ et \in 1 .. n + 1
      /\ et \in 1 .. n => ready <= trips[et][pos].departure
      /\ \A m \in 1 .. n : ready <= trips[m][pos].departure => et <= m
  BY <1>1, <1>3, EarliestTrip
<1>5. z = IF boards THEN [layer |-> y.layer, trip |-> et] ELSE y
  BY <1>2 DEF Boarded, RAPTOR_UNREACHED
<1>6. \A m \in 1 .. n : Ready(prev, r, pos, m)
                          <=> ready # UINT32_MAX /\ ready <= trips[m][pos].departure
  BY DEF Ready
<1> HIDE DEF et, ready, z
<1>7. z \in OnBoard(r) /\ z.layer = y.layer /\ z.trip \in 1 .. n + 1
      /\ z.trip = IF boards THEN et ELSE y.trip
  BY <1>1, <1>2, <1>4, <1>5 DEF OnBoard
<1>8. z.trip <= y.trip
  BY <1>2, <1>4, <1>7
<1>9. ASSUME z.trip \in 1 .. n
      PROVE  \E a \in start .. pos : Ready(prev, r, a, z.trip)
  <2>1. CASE boards
    <3>1. pos \in start .. pos
      BY <1>3
    <3> QED
      BY <1>4, <1>6, <1>7, <1>9, <2>1, <3>1
  <2>2. CASE ~ boards
    <3>1. PICK a \in start .. pos - 1 : Ready(prev, r, a, z.trip)
      BY <1>1, <1>7, <1>9, <2>2 DEF ScanTrip
    <3>2. a \in start .. pos
      BY <1>3
    <3> QED
      BY <3>1, <3>2
  <2> QED
    BY <2>1, <2>2
<1>10. ASSUME NEW a \in start .. pos, NEW m \in 1 .. n, Ready(prev, r, a, m)
       PROVE  z.trip <= m
  <2>1. CASE a = pos
    <3>1. ready # UINT32_MAX /\ ready <= trips[m][pos].departure /\ et <= m
      BY <1>4, <1>6, <1>10, <2>1
    <3>2. CASE boards
      BY <1>7, <3>1, <3>2
    <3>3. CASE ~ boards
      <4>1. CASE y.trip \in 1 .. n /\ ~ (ready <= trips[y.trip][pos].departure)
        <5>1. ~ (m <= y.trip)
          <6> SUFFICES ASSUME m <= y.trip PROVE FALSE
            OBVIOUS
          <6>1. trips[m][pos].departure <= trips[y.trip][pos].departure
            BY <1>1, <1>3, <4>1, RouteFacts
          <6>2. trips[m][pos].departure \in Nat /\ trips[y.trip][pos].departure \in Nat
            BY <1>3, <4>1
          <6> HIDE DEF trips
          <6> QED
            BY <1>3, <3>1, <4>1, <6>1, <6>2
        <5> QED
          BY <1>2, <1>7, <3>3, <5>1
      <4>2. CASE ~ (y.trip \in 1 .. n /\ ~ (ready <= trips[y.trip][pos].departure))
        <5>1. y.trip > n \/ ready <= trips[y.trip][pos].departure
          BY <1>2, <4>2
        <5>2. ~ (et < y.trip)
          BY <1>1, <3>1, <3>3, <5>1
        <5> QED
          BY <1>2, <1>4, <1>7, <3>1, <3>3, <5>2
      <4> QED
        BY <4>1, <4>2
    <3> QED
      BY <3>2, <3>3
  <2>2. CASE a # pos
    <3>1. a \in start .. pos - 1
      BY <1>3, <2>2
    <3>2. y.trip <= m
      BY <1>1, <1>10, <3>1 DEF ScanTrip
    <3> QED
      BY <1>2, <1>7, <1>8, <3>2
  <2> QED
    BY <2>1, <2>2
<1>11. ScanTrip(prev, r, start, pos, z.trip)
  BY <1>1, <1>9, <1>10 DEF ScanTrip
<1>12. ScanDone(prev, r, start, pos, pos, y.layer)
  <2> SUFFICES ASSUME NEW a \in start .. pos, NEW m \in DOMAIN trips,
                      NEW b \in a + 1 .. pos, Ready(prev, r, a, m)
               PROVE  y.layer.cur[stops[b]] <= trips[m][b].arrival
    BY DEF ScanDone
  <2>1. a \in start .. pos - 1
    BY <1>3
  <2> QED
    BY <2>1 DEF ScanDone
<1>13. /\ z \in OnBoard(r) /\ z.layer = y.layer
       /\ ScanTrip(prev, r, start, pos, z.trip)
       /\ ScanDone(prev, r, start, pos, pos, z.layer)
  BY <1>7, <1>11, <1>12
<1> QED
  BY <1>13 DEF z

(* The type of a scan's state.                                             *)
LEMMA OnBoardKept ==
  ASSUME Timetabled, NEW r \in Route, NEW prev \in Arrivals,
         NEW pos \in DOMAIN tt.routes[r].stops, NEW x \in OnBoard(r)
  PROVE  Boarded(Alighted(x, r, pos), prev, r, pos) \in OnBoard(r)
<1> DEFINE stops == tt.routes[r].stops
           trips == tt.routes[r].trips
<1>1. PICK n \in Nat, len \in Nat :
        /\ n = Len(trips) /\ DOMAIN trips = 1 .. n
        /\ len = Len(stops) /\ DOMAIN stops = 1 .. len
  <2>1. trips \in Seq(Seq(StopTime)) /\ stops \in Seq(Stop)
    BY RouteFacts
  <2>2. Len(trips) \in Nat /\ DOMAIN trips = 1 .. Len(trips)
    BY <2>1
  <2>3. Len(stops) \in Nat /\ DOMAIN stops = 1 .. Len(stops)
    BY <2>1
  <2> QED
    BY <2>2, <2>3
<1>2. PICK p \in Stop : p = stops[pos]
  <2>1. \A b \in DOMAIN stops : stops[b] \in Stop
    BY RouteFacts
  <2> QED
    BY <2>1
<1>3. prev[p] \in Nat
  BY LayerTimes DEF Timetabled
<1>4. \A m \in 1 .. n : trips[m][pos].arrival \in Nat
  BY <1>1, RouteFacts
<1>5. /\ x = [layer |-> x.layer, trip |-> x.trip]
      /\ x.layer \in LayerType /\ x.trip \in 1 .. n + 1
  BY <1>1 DEF OnBoard
<1> DEFINE y == Alighted(x, r, pos)
<1>6. y \in OnBoard(r)
  <2>1. CASE x.trip > n
    BY <1>1, <2>1 DEF Alighted
  <2>2. CASE ~ (x.trip > n)
    <3>1. x.trip \in 1 .. n
      BY <1>5, <2>2
    <3>2. PICK arr \in Nat : arr = trips[x.trip][pos].arrival
      BY <1>4, <3>1
    <3>3. Improved(x.layer, p, arr) \in LayerType
      BY <1>5, ImprovedFacts DEF Timetabled
    <3>4. y = [layer |-> Improved(x.layer, p, arr), trip |-> x.trip]
      BY <1>1, <1>2, <1>5, <2>2, <3>2 DEF Alighted
    <3> QED
      BY <1>1, <1>5, <3>3, <3>4 DEF OnBoard
  <2> QED
    BY <2>1, <2>2
<1>7. earliest_trip(r, pos, prev[p]) \in 1 .. n + 1
  BY <1>1, <1>3, EarliestTrip
<1> HIDE DEF y
<1>8. /\ y = [layer |-> y.layer, trip |-> y.trip]
      /\ y.layer \in LayerType /\ y.trip \in 1 .. n + 1
  BY <1>1, <1>6 DEF OnBoard
<1>9. \/ Boarded(y, prev, r, pos) = y
      \/ Boarded(y, prev, r, pos) = [layer |-> y.layer, trip |-> earliest_trip(r, pos, prev[p])]
  BY <1>2, <1>8 DEF Boarded
<1>10. Boarded(y, prev, r, pos) \in OnBoard(r)
  BY <1>1, <1>6, <1>7, <1>8, <1>9 DEF OnBoard
<1> QED
  BY <1>10 DEF y

(* A scan of route r begun at start alights everywhere that its best trip  *)
(* allows.                                                                 *)
LEMMA ScannedFacts ==
  ASSUME Timetabled, NEW r \in Route, NEW prev \in Arrivals, NEW c \in LayerType,
         NEW start \in DOMAIN tt.routes[r].stops
  PROVE  LET d == Scanned(c, prev, r, start)
             len == Len(tt.routes[r].stops)
         IN  /\ d \in LayerType
             /\ ScanLayer(c, prev, d)
             /\ ScanDone(prev, r, start, len, len, d)
<1> DEFINE stops == tt.routes[r].stops
           trips == tt.routes[r].trips
<1>1. PICK n \in Nat, len \in Nat :
        /\ n = Len(trips) /\ DOMAIN trips = 1 .. n
        /\ len = Len(stops) /\ DOMAIN stops = 1 .. len
  <2>1. trips \in Seq(Seq(StopTime)) /\ stops \in Seq(Stop)
    BY RouteFacts
  <2>2. Len(trips) \in Nat /\ DOMAIN trips = 1 .. Len(trips)
    BY <2>1
  <2>3. Len(stops) \in Nat /\ DOMAIN stops = 1 .. Len(stops)
    BY <2>1
  <2> QED
    BY <2>2, <2>3
<1>2. start \in 1 .. len
  BY <1>1
<1>3. PICK l \in Nat : l = len - start + 1
  <2>1. len - start + 1 \in Nat
    BY <1>2
  <2> QED
    BY <2>1
<1> DEFINE S == OnBoard(r)
           base == [layer |-> c, trip |-> n + 1]
           op(x, pos) == Boarded(Alighted(x, r, pos), prev, r, pos)
           ps == [i \in 1 .. l |-> start + i - 1]
           step == [i \in 1 .. l |-> [x \in S |-> op(x, ps[i])]]
           good(x, i) == /\ ScanLayer(c, prev, x.layer)
                         /\ ScanTrip(prev, r, start, start + i - 1, x.trip)
                         /\ ScanDone(prev, r, start, start + i - 1, start + i - 1, x.layer)
           Good == [i \in 0 .. l |-> {x \in S : good(x, i)}]
           eq(f) == [t \in SUBSET (1 .. l) |->
                       IF t = {} THEN base ELSE op(f[t \ {Max(t)}], ps[Max(t)])]
           F == CHOOSE f : f = eq(f)
<1>4. Scanned(c, prev, r, start) = F[1 .. l].layer
  BY <1>1, <1>3 DEF Scanned, FoldLeft, MapThenFoldSet
<1>5. \A i \in 1 .. l : ps[i] \in 1 .. len /\ start <= ps[i] /\ ps[i] = start + i - 1
  BY <1>2, <1>3
<1>6. base \in S /\ base.layer = c /\ base.trip = n + 1
  BY <1>1 DEF OnBoard
<1>7. \A i \in 1 .. l : \A x \in S : op(x, ps[i]) \in S
  <2> HIDE DEF ps
  <2> QED
    BY <1>1, <1>5, OnBoardKept
<1>8. good(base, 0)
  <2>1. \A q \in Stop : c.cur[q] <= c.cur[q]
    <3>1. \A q \in Stop : c.cur[q] \in Nat
      BY LayerTimes DEF Timetabled
    <3> QED
      BY <3>1
  <2>2. ScanLayer(c, prev, c)
    BY <2>1 DEF ScanLayer
  <2>3. start .. start + 0 - 1 = {} /\ n + 1 \notin 1 .. n
    BY <1>2
  <2>4. ScanTrip(prev, r, start, start + 0 - 1, n + 1)
    BY <1>1, <2>3 DEF ScanTrip
  <2>5. ScanDone(prev, r, start, start + 0 - 1, start + 0 - 1, c)
    BY <2>3 DEF ScanDone
  <2> QED
    BY <1>6, <2>2, <2>4, <2>5
<1>9. ASSUME NEW i \in 1 .. l, NEW x \in S, good(x, i - 1)
      PROVE  good(op(x, ps[i]), i)
  <2>1. PICK pos \in DOMAIN stops : pos = ps[i] /\ start <= pos /\ pos = start + i - 1
    BY <1>1, <1>5
  <2>2. start + (i - 1) - 1 = pos - 1 /\ start + i - 1 = pos
    BY <1>1, <2>1
  <2>3. /\ ScanLayer(c, prev, x.layer)
        /\ ScanTrip(prev, r, start, pos - 1, x.trip)
        /\ ScanDone(prev, r, start, pos - 1, pos - 1, x.layer)
    BY <1>9, <2>2
  <2> DEFINE y == Alighted(x, r, pos)
             z == Boarded(y, prev, r, pos)
  <2>4. /\ y \in OnBoard(r) /\ y.trip = x.trip
        /\ ScanLayer(c, prev, y.layer)
        /\ ScanDone(prev, r, start, pos - 1, pos, y.layer)
    BY <2>1, <2>3, AlightedFacts
  <2>5. ScanTrip(prev, r, start, pos - 1, y.trip)
    BY <2>3, <2>4
  <2> HIDE DEF y
  <2>6. /\ z.layer = y.layer
        /\ ScanTrip(prev, r, start, pos, z.trip)
        /\ ScanDone(prev, r, start, pos, pos, z.layer)
    BY <2>1, <2>4, <2>5, BoardedFacts
  <2> HIDE DEF z
  <2>7. good(z, i)
    BY <2>2, <2>4, <2>6
  <2>8. op(x, ps[i]) = z
    BY <2>1 DEF y, z
  <2> QED
    BY <2>7, <2>8
<1> HIDE DEF ps, op, base, good, S
<1>10. \A i \in 1 .. l, x \in S : step[i][x] = op(x, ps[i])
  OBVIOUS
<1>10a. step \in [1 .. l -> [S -> S]]
  BY <1>7
<1>11. base \in Good[0]
  BY <1>6, <1>8
<1>12. \A i \in 1 .. l : \A x \in S : x \in Good[i - 1] => step[i][x] \in Good[i]
  <2> SUFFICES ASSUME NEW i \in 1 .. l, NEW x \in S, x \in Good[i - 1]
               PROVE  step[i][x] \in Good[i]
    OBVIOUS
  <2>1. i \in 0 .. l /\ i - 1 \in 0 .. l
    OBVIOUS
  <2>2. good(x, i - 1)
    BY <2>1
  <2>3. good(op(x, ps[i]), i)
    BY <1>9, <2>2
  <2> QED
    BY <1>7, <1>10, <2>1, <2>3
<1> HIDE DEF step, Good
<1>13. PICK f : f \in Folds(l, S, base, step)
  BY <1>6, <1>10a, FoldExists
<1>14. \A t \in SUBSET (1 .. l) : t # {} => Max(t) \in 1 .. l
  BY MaxInUpTo
<1>15. f = eq(f)
  BY <1>10, <1>13, <1>14 DEF Folds
<1>16. F = eq(F)
  BY <1>15
<1> HIDE DEF F
<1>17. IsFold(F, l, S, base, step)
  BY <1>10, <1>14, <1>16 DEF IsFold
<1>18. F[1 .. l] \in S /\ F[1 .. l] \in Good[l]
  <2>1. l \in Nat /\ base \in S
    BY <1>6
  <2> QED
    BY ONLY <2>1, <1>10a, <1>11, <1>12, <1>17, FoldKeeps
<1>19. F[1 .. l].layer \in LayerType /\ good(F[1 .. l], l)
  BY <1>18 DEF S, Good, OnBoard
<1>20. start + l - 1 = len
  BY <1>2, <1>3
<1>21. /\ ScanLayer(c, prev, F[1 .. l].layer)
       /\ ScanDone(prev, r, start, len, len, F[1 .. l].layer)
  BY <1>19, <1>20 DEF good
<1> QED
  BY <1>1, <1>4, <1>19, <1>21

-----------------------------------------------------------------------------
(* The queue: every route in the list once, and those are the ones with a  *)
(* position.                                                               *)
QueueType == [pos : [Route -> Nat], list : Seq(Route)]
QueueOK(q) ==
  /\ \A r \in Route : q.pos[r] <= Len(tt.routes[r].stops)
  /\ Range(q.list) = {r \in Route : q.pos[r] # NOT_QUEUED}
  /\ NoRepeats(q.list)

(* What q queues, x queues, from a position no later.                      *)
NoLess(q, x) ==
  \A r \in Route : q.pos[r] # NOT_QUEUED => x.pos[r] # NOT_QUEUED /\ x.pos[r] <= q.pos[r]

(* Route r is queued from the first of its positions that is stop p, those *)
(* up to i looked at.                                                      *)
QueuesUpTo(x, p, r, i) ==
  \A j \in 1 .. i : tt.routes[r].stops[j] = p => x.pos[r] # NOT_QUEUED /\ x.pos[r] <= j
Queues(x, p, r) == QueuesUpTo(x, p, r, Len(tt.routes[r].stops))

LEMMA QueueTypes ==
  \A q \in QueueType : q.list \in Seq(Route) /\ \A r \in Route : q.pos[r] \in Nat
BY DEF QueueType

LEMMA NoLessFacts ==
  ASSUME NEW q \in QueueType, NEW x \in QueueType, NEW y \in QueueType,
         NoLess(q, x), NoLess(x, y)
  PROVE  /\ NoLess(q, y) /\ NoLess(q, q)
         /\ \A p \in Stop, r \in Route, i \in Nat :
              QueuesUpTo(x, p, r, i) => QueuesUpTo(y, p, r, i)
<1>1. \A r \in Route : q.pos[r] \in Nat /\ x.pos[r] \in Nat /\ y.pos[r] \in Nat
  BY QueueTypes
<1>2. NoLess(q, y)
  BY <1>1 DEF NoLess
<1>3. NoLess(q, q)
  BY <1>1 DEF NoLess
<1>4. ASSUME NEW p \in Stop, NEW r \in Route, NEW i \in Nat, QueuesUpTo(x, p, r, i)
      PROVE  QueuesUpTo(y, p, r, i)
  <2> SUFFICES ASSUME NEW j \in 1 .. i, tt.routes[r].stops[j] = p
               PROVE  y.pos[r] # NOT_QUEUED /\ y.pos[r] <= j
    BY DEF QueuesUpTo
  <2>1. x.pos[r] # NOT_QUEUED /\ x.pos[r] <= j
    BY <1>4 DEF QueuesUpTo
  <2>2. y.pos[r] # NOT_QUEUED /\ y.pos[r] <= x.pos[r]
    BY <2>1 DEF NoLess
  <2> QED
    BY <1>1, <2>1, <2>2
<1> QED
  BY <1>2, <1>3, <1>4

LEMMA QueuedAtFacts ==
  ASSUME Timetabled, NEW r \in Route, NEW pos \in DOMAIN tt.routes[r].stops,
         NEW q \in QueueType
  PROVE  LET x == QueuedAt(q, r, pos)
         IN  /\ x \in QueueType /\ NoLess(q, x)
             /\ x.pos[r] # NOT_QUEUED /\ x.pos[r] <= pos
             /\ QueueOK(q) => QueueOK(x)
<1> DEFINE x == QueuedAt(q, r, pos)
<1>1. PICK len \in Nat : len = Len(tt.routes[r].stops) /\ pos \in 1 .. len
  BY RouteFacts
<1>2. \A s \in Route : q.pos[s] \in Nat
  BY QueueTypes
<1>3. q = [pos |-> q.pos, list |-> q.list] /\ q.pos \in [Route -> Nat] /\ q.list \in Seq(Route)
  BY DEF QueueType
<1>4. ASSUME NEW at \in 1 .. pos, NEW list \in Seq(Route),
             x = [pos |-> [q.pos EXCEPT ![r] = at], list |-> list],
             q.pos[r] # NOT_QUEUED => at <= q.pos[r],
             QueueOK(q) => Range(list) = Range(q.list) \cup {r} /\ NoRepeats(list)
      PROVE  /\ x \in QueueType /\ NoLess(q, x)
             /\ x.pos[r] # NOT_QUEUED /\ x.pos[r] <= pos
             /\ QueueOK(q) => QueueOK(x)
  <2> HIDE DEF x
  <2>1. /\ x.pos \in [Route -> Nat] /\ x.pos[r] = at
        /\ \A s \in Route \ {r} : x.pos[s] = q.pos[s]
    <3>1. x.pos = [q.pos EXCEPT ![r] = at] /\ at \in Nat
      BY <1>1, <1>4
    <3> QED
      BY <1>3, <3>1
  <2>2. x \in QueueType /\ x.list = list
    BY <1>4, <2>1 DEF QueueType
  <2>3. NoLess(q, x)
    BY <1>2, <1>4, <2>1 DEF NoLess, NOT_QUEUED
  <2>4. x.pos[r] # NOT_QUEUED /\ x.pos[r] <= pos
    BY <1>4, <2>1 DEF NOT_QUEUED
  <2>5. ASSUME QueueOK(q)  PROVE  QueueOK(x)
    <3>1. at <= len
      BY <1>1
    <3>2. \A s \in Route : x.pos[s] <= Len(tt.routes[s].stops)
      BY <1>1, <2>1, <2>5, <3>1 DEF QueueOK
    <3>3. Range(list) = {s \in Route : x.pos[s] # NOT_QUEUED}
      BY <1>4, <2>1, <2>4, <2>5 DEF QueueOK
    <3> QED
      BY <1>4, <2>2, <2>5, <3>2, <3>3 DEF QueueOK
  <2> QED
    BY <2>2, <2>3, <2>4, <2>5
<1>5. CASE q.pos[r] = NOT_QUEUED
  <2>1. x = [pos |-> [q.pos EXCEPT ![r] = pos], list |-> Append(q.list, r)]
    BY <1>5 DEF QueuedAt
  <2>2. /\ Append(q.list, r) \in Seq(Route)
        /\ Range(Append(q.list, r)) = Range(q.list) \cup {r}
        /\ NoRepeats(q.list) /\ r \notin Range(q.list) => NoRepeats(Append(q.list, r))
    BY <1>3, AppendFacts
  <2>3. QueueOK(q) => NoRepeats(q.list) /\ r \notin Range(q.list)
    BY <1>5 DEF QueueOK
  <2>4. pos \in 1 .. pos
    BY <1>1
  <2> HIDE DEF x
  <2>5. /\ x \in QueueType /\ NoLess(q, x)
        /\ x.pos[r] # NOT_QUEUED /\ x.pos[r] <= pos
        /\ QueueOK(q) => QueueOK(x)
    BY <1>4, <1>5, <2>1, <2>2, <2>3, <2>4
  <2> QED
    BY <2>5 DEF x
<1>6. CASE q.pos[r] # NOT_QUEUED
  <2> DEFINE at == IF pos < q.pos[r] THEN pos ELSE q.pos[r]
  <2>1. x = [pos |-> [q.pos EXCEPT ![r] = at], list |-> q.list]
    BY <1>3, <1>6 DEF QueuedAt
  <2>2. at \in 1 .. pos /\ at <= q.pos[r]
    BY <1>1, <1>2, <1>6 DEF NOT_QUEUED
  <2>3. QueueOK(q) => Range(q.list) = Range(q.list) \cup {r} /\ NoRepeats(q.list)
    BY <1>6 DEF QueueOK
  <2> HIDE DEF x, at
  <2>4. /\ x \in QueueType /\ NoLess(q, x)
        /\ x.pos[r] # NOT_QUEUED /\ x.pos[r] <= pos
        /\ QueueOK(q) => QueueOK(x)
    BY <1>3, <1>4, <2>1, <2>2, <2>3
  <2> QED
    BY <2>4 DEF x
<1> QED
  BY <1>5, <1>6

(* All of a route's positions looked at for stop p.                        *)
LEMMA QueuedOnFacts ==
  ASSUME Timetabled, NEW r \in Route, NEW p \in Stop, NEW q \in QueueType
  PROVE  LET x == QueuedOn(q, p, r)
         IN  x \in QueueType /\ NoLess(q, x) /\ Queues(x, p, r) /\ (QueueOK(q) => QueueOK(x))
<1> DEFINE stops == tt.routes[r].stops
<1>1. PICK n \in Nat : n = Len(stops) /\ DOMAIN stops = 1 .. n
  <2>1. stops \in Seq(Stop)
    BY RouteFacts
  <2> QED
    BY <2>1
<1> DEFINE op(x, i) == IF stops[i] = p THEN QueuedAt(x, r, i) ELSE x
           good(x, i) == /\ NoLess(q, x) /\ QueuesUpTo(x, p, r, i)
                         /\ QueueOK(q) => QueueOK(x)
           ids == [i \in 1 .. n |-> i]
           step == [i \in 1 .. n |-> [x \in QueueType |-> op(x, ids[i])]]
           Good == [i \in 0 .. n |-> {x \in QueueType : good(x, i)}]
           eq(f) == [t \in SUBSET (1 .. n) |->
                       IF t = {} THEN q ELSE op(f[t \ {Max(t)}], ids[Max(t)])]
           F == CHOOSE f : f = eq(f)
<1>2. QueuedOn(q, p, r) = F[1 .. n]
  BY <1>1 DEF QueuedOn, FoldLeftDomain, FoldLeft, MapThenFoldSet
<1>3. ASSUME NEW i \in 1 .. n, NEW x \in QueueType
      PROVE  /\ op(x, i) \in QueueType /\ NoLess(x, op(x, i))
             /\ stops[i] = p => op(x, i).pos[r] # NOT_QUEUED /\ op(x, i).pos[r] <= i
             /\ QueueOK(x) => QueueOK(op(x, i))
  <2>1. CASE stops[i] = p
    BY <1>1, <2>1, QueuedAtFacts
  <2>2. CASE stops[i] # p
    <3>1. NoLess(x, x)
      BY QueueTypes DEF NoLess
    <3> QED
      BY <2>2, <3>1
  <2> QED
    BY <2>1, <2>2
<1>4. \A t \in SUBSET (1 .. n) : t # {} => Max(t) \in 1 .. n
  BY MaxInUpTo
<1>4a. \A i \in 1 .. n : ids[i] = i
  OBVIOUS
<1> HIDE DEF op, ids
<1>5. good(q, 0)
  <2>1. NoLess(q, q) /\ 1 .. 0 = {}
    BY QueueTypes DEF NoLess
  <2> QED
    BY <2>1 DEF QueuesUpTo
<1>6. ASSUME NEW i \in 1 .. n, NEW x \in QueueType, good(x, i - 1)
      PROVE  good(op(x, i), i)
  <2> DEFINE y == op(x, i)
  <2>1. /\ y \in QueueType /\ NoLess(x, y)
        /\ stops[i] = p => y.pos[r] # NOT_QUEUED /\ y.pos[r] <= i
        /\ QueueOK(x) => QueueOK(y)
    BY <1>3
  <2> HIDE DEF y
  <2>2. NoLess(q, y) /\ QueuesUpTo(y, p, r, i - 1)
    <3>1. i - 1 \in Nat
      OBVIOUS
    <3> QED
      BY <1>6, <2>1, <3>1, NoLessFacts
  <2>3. QueuesUpTo(y, p, r, i)
    <3> SUFFICES ASSUME NEW j \in 1 .. i, stops[j] = p
                 PROVE  y.pos[r] # NOT_QUEUED /\ y.pos[r] <= j
      BY DEF QueuesUpTo
    <3>1. j \in 1 .. i - 1 \/ j = i
      OBVIOUS
    <3> QED
      BY <2>1, <2>2, <3>1 DEF QueuesUpTo
  <2>4. good(y, i)
    BY <1>6, <2>1, <2>2, <2>3
  <2> QED
    BY <2>4 DEF y
<1> HIDE DEF good
<1>7. \A i \in 1 .. n, x \in QueueType : step[i][x] = op(x, ids[i])
  OBVIOUS
<1>8. step \in [1 .. n -> [QueueType -> QueueType]]
  BY <1>3, <1>4a
<1>9. q \in Good[0]
  BY <1>5
<1>10. \A i \in 1 .. n : \A x \in QueueType : x \in Good[i - 1] => step[i][x] \in Good[i]
  <2> SUFFICES ASSUME NEW i \in 1 .. n, NEW x \in QueueType, x \in Good[i - 1]
               PROVE  step[i][x] \in Good[i]
    OBVIOUS
  <2>1. i \in 0 .. n /\ i - 1 \in 0 .. n
    OBVIOUS
  <2>2. good(op(x, i), i)
    BY <1>6, <2>1
  <2> QED
    BY <1>3, <1>4a, <1>7, <2>1, <2>2
<1> HIDE DEF step, Good
<1>11. PICK f : f \in Folds(n, QueueType, q, step)
  BY <1>8, FoldExists
<1>12. f = eq(f)
  BY <1>4, <1>7, <1>11 DEF Folds
<1>13. F = eq(F)
  BY <1>12
<1> HIDE DEF F
<1>14. IsFold(F, n, QueueType, q, step)
  BY <1>4, <1>7, <1>13 DEF IsFold
<1>15. F[1 .. n] \in QueueType /\ F[1 .. n] \in Good[n]
  <2>1. n \in Nat /\ q \in QueueType
    OBVIOUS
  <2> QED
    BY ONLY <2>1, <1>8, <1>9, <1>10, <1>14, FoldKeeps
<1>16. good(F[1 .. n], n)
  BY <1>15 DEF Good
<1> QED
  BY <1>1, <1>2, <1>15, <1>16 DEF good, Queues

(* All the routes through p queued.                                        *)
LEMMA QueuedFromFacts ==
  ASSUME Timetabled, NEW p \in Stop, NEW q \in QueueType
  PROVE  LET x == QueuedFrom(q, p)
         IN  /\ x \in QueueType /\ NoLess(q, x)
             /\ \A r \in Route : Queues(x, p, r)
             /\ QueueOK(q) => QueueOK(x)
<1>1. PICK n \in Nat : n = Len(tt.routes) /\ DOMAIN tt.routes = 1 .. n /\ Route = 1 .. n
  BY DEF Timetabled, WellBuilt, Route
<1> DEFINE op(x, i) == QueuedOn(x, p, i)
           good(x, i) == /\ NoLess(q, x) /\ \A j \in 1 .. i : Queues(x, p, j)
                         /\ QueueOK(q) => QueueOK(x)
           ids == [i \in 1 .. n |-> i]
           step == [i \in 1 .. n |-> [x \in QueueType |-> op(x, ids[i])]]
           Good == [i \in 0 .. n |-> {x \in QueueType : good(x, i)}]
           eq(f) == [t \in SUBSET (1 .. n) |->
                       IF t = {} THEN q ELSE op(f[t \ {Max(t)}], ids[Max(t)])]
           F == CHOOSE f : f = eq(f)
<1>2. QueuedFrom(q, p) = F[1 .. n]
  BY <1>1 DEF QueuedFrom, FoldLeftDomain, FoldLeft, MapThenFoldSet
<1>3. ASSUME NEW i \in 1 .. n, NEW x \in QueueType
      PROVE  /\ op(x, i) \in QueueType /\ NoLess(x, op(x, i)) /\ Queues(op(x, i), p, i)
             /\ QueueOK(x) => QueueOK(op(x, i))
  BY <1>1, QueuedOnFacts
<1>4. \A t \in SUBSET (1 .. n) : t # {} => Max(t) \in 1 .. n
  BY MaxInUpTo
<1>5. \A i \in 1 .. n : ids[i] = i
  OBVIOUS
<1> HIDE DEF op, ids
<1>6. good(q, 0)
  <2>1. NoLess(q, q) /\ 1 .. 0 = {}
    BY QueueTypes DEF NoLess
  <2> QED
    BY <2>1
<1>7. ASSUME NEW i \in 1 .. n, NEW x \in QueueType, good(x, i - 1)
      PROVE  good(op(x, i), i)
  <2> DEFINE y == op(x, i)
  <2>1. /\ y \in QueueType /\ NoLess(x, y) /\ Queues(y, p, i)
        /\ QueueOK(x) => QueueOK(y)
    BY <1>3
  <2> HIDE DEF y
  <2>2. NoLess(q, y)
    BY <1>7, <2>1, NoLessFacts
  <2>3. ASSUME NEW j \in 1 .. i  PROVE  Queues(y, p, j)
    <3>1. CASE j = i
      BY <2>1, <3>1
    <3>2. CASE j # i
      <4>1. j \in 1 .. i - 1 /\ j \in Route
        BY <1>1, <3>2
      <4>2. Queues(x, p, j)
        BY <1>7, <4>1
      <4>3. Len(tt.routes[j].stops) \in Nat
        BY <4>1, RouteFacts
      <4> QED
        BY <1>7, <2>1, <4>1, <4>2, <4>3, NoLessFacts DEF Queues
    <3> QED
      BY <3>1, <3>2
  <2>4. good(y, i)
    BY <1>7, <2>1, <2>2, <2>3
  <2> QED
    BY <2>4 DEF y
<1> HIDE DEF good
<1>8. \A i \in 1 .. n, x \in QueueType : step[i][x] = op(x, ids[i])
  OBVIOUS
<1>9. step \in [1 .. n -> [QueueType -> QueueType]]
  BY <1>3, <1>5
<1>10. q \in Good[0]
  BY <1>6
<1>11. \A i \in 1 .. n : \A x \in QueueType : x \in Good[i - 1] => step[i][x] \in Good[i]
  <2> SUFFICES ASSUME NEW i \in 1 .. n, NEW x \in QueueType, x \in Good[i - 1]
               PROVE  step[i][x] \in Good[i]
    OBVIOUS
  <2>1. i \in 0 .. n /\ i - 1 \in 0 .. n
    OBVIOUS
  <2>2. good(op(x, i), i)
    BY <1>7, <2>1
  <2> QED
    BY <1>3, <1>5, <1>8, <2>1, <2>2
<1> HIDE DEF step, Good
<1>12. PICK f : f \in Folds(n, QueueType, q, step)
  BY <1>9, FoldExists
<1>13. f = eq(f)
  BY <1>4, <1>8, <1>12 DEF Folds
<1>14. F = eq(F)
  BY <1>13
<1> HIDE DEF F
<1>15. IsFold(F, n, QueueType, q, step)
  BY <1>4, <1>8, <1>14 DEF IsFold
<1>16. F[1 .. n] \in QueueType /\ F[1 .. n] \in Good[n]
  <2>1. n \in Nat /\ q \in QueueType
    OBVIOUS
  <2> QED
    BY ONLY <2>1, <1>9, <1>10, <1>11, <1>15, FoldKeeps
<1>17. good(F[1 .. n], n)
  BY <1>16 DEF Good
<1> QED
  BY <1>1, <1>2, <1>16, <1>17 DEF good

(* The queue a round begins with.                                          *)
LEMMA QueueFacts ==
  ASSUME Timetabled, NEW list, list \in Seq(Stop), NEW q \in QueueType
  PROVE  LET x == FoldLeft(QueuedFrom, q, list)
         IN  /\ x \in QueueType
             /\ \A p \in Range(list), r \in Route : Queues(x, p, r)
             /\ QueueOK(q) => QueueOK(x)
<1>1. PICK n \in Nat : n = Len(list) /\ DOMAIN list = 1 .. n
  OBVIOUS
<1> DEFINE op(x, p) == QueuedFrom(x, p)
           good(x, i) == /\ \A j \in 1 .. i : \A r \in Route : Queues(x, list[j], r)
                         /\ QueueOK(q) => QueueOK(x)
           step == [i \in 1 .. n |-> [x \in QueueType |-> op(x, list[i])]]
           Good == [i \in 0 .. n |-> {x \in QueueType : good(x, i)}]
           eq(f) == [t \in SUBSET (1 .. n) |->
                       IF t = {} THEN q ELSE op(f[t \ {Max(t)}], list[Max(t)])]
           F == CHOOSE f : f = eq(f)
<1>2. FoldLeft(QueuedFrom, q, list) = F[1 .. n]
  BY <1>1 DEF FoldLeft, MapThenFoldSet
<1>3. ASSUME NEW i \in 1 .. n, NEW x \in QueueType
      PROVE  /\ op(x, list[i]) \in QueueType /\ NoLess(x, op(x, list[i]))
             /\ \A r \in Route : Queues(op(x, list[i]), list[i], r)
             /\ QueueOK(x) => QueueOK(op(x, list[i]))
  <2>1. list[i] \in Stop
    BY <1>1
  <2> QED
    BY <2>1, QueuedFromFacts
<1>4. \A t \in SUBSET (1 .. n) : t # {} => Max(t) \in 1 .. n
  BY MaxInUpTo
<1> HIDE DEF op
<1>5. good(q, 0)
  OBVIOUS
<1>6. ASSUME NEW i \in 1 .. n, NEW x \in QueueType, good(x, i - 1)
      PROVE  good(op(x, list[i]), i)
  <2> DEFINE y == op(x, list[i])
  <2>1. /\ y \in QueueType /\ NoLess(x, y) /\ \A r \in Route : Queues(y, list[i], r)
        /\ QueueOK(x) => QueueOK(y)
    BY <1>3
  <2> HIDE DEF y
  <2>2. ASSUME NEW j \in 1 .. i, NEW r \in Route  PROVE  Queues(y, list[j], r)
    <3>1. CASE j = i
      BY <2>1, <3>1
    <3>2. CASE j # i
      <4>1. j \in 1 .. i - 1 /\ j \in 1 .. n
        BY <3>2
      <4>2. PICK p \in Stop : p = list[j]
        BY <1>1, <4>1
      <4>3. Queues(x, p, r)
        BY <1>6, <4>1, <4>2
      <4>4. Len(tt.routes[r].stops) \in Nat
        BY RouteFacts
      <4>5. NoLess(x, x)
        BY QueueTypes DEF NoLess
      <4> QED
        BY <1>6, <2>1, <4>2, <4>3, <4>4, <4>5, NoLessFacts DEF Queues
    <3> QED
      BY <3>1, <3>2
  <2>3. good(y, i)
    BY <1>6, <2>1, <2>2
  <2> QED
    BY <2>3 DEF y
<1> HIDE DEF good
<1>7. \A i \in 1 .. n, x \in QueueType : step[i][x] = op(x, list[i])
  OBVIOUS
<1>8. step \in [1 .. n -> [QueueType -> QueueType]]
  BY <1>3
<1>9. q \in Good[0]
  BY <1>5
<1>10. \A i \in 1 .. n : \A x \in QueueType : x \in Good[i - 1] => step[i][x] \in Good[i]
  <2> SUFFICES ASSUME NEW i \in 1 .. n, NEW x \in QueueType, x \in Good[i - 1]
               PROVE  step[i][x] \in Good[i]
    OBVIOUS
  <2>1. i \in 0 .. n /\ i - 1 \in 0 .. n
    OBVIOUS
  <2>2. good(op(x, list[i]), i)
    BY <1>6, <2>1
  <2> QED
    BY <1>3, <1>7, <2>1, <2>2
<1> HIDE DEF step, Good
<1>11. PICK f : f \in Folds(n, QueueType, q, step)
  BY <1>8, FoldExists
<1>12. f = eq(f)
  BY <1>4, <1>7, <1>11 DEF Folds
<1>13. F = eq(F)
  BY <1>12
<1> HIDE DEF F
<1>14. IsFold(F, n, QueueType, q, step)
  BY <1>4, <1>7, <1>13 DEF IsFold
<1>15. F[1 .. n] \in QueueType /\ F[1 .. n] \in Good[n]
  <2>1. n \in Nat /\ q \in QueueType
    OBVIOUS
  <2> QED
    BY ONLY <2>1, <1>8, <1>9, <1>10, <1>14, FoldKeeps
<1>16. good(F[1 .. n], n)
  BY <1>15 DEF Good
<1> QED
  BY <1>1, <1>2, <1>15, <1>16 DEF good, Range

-----------------------------------------------------------------------------
(* The inductive invariant of the scratch: the types, the marks and their  *)
(* list against the layer last written, and the queue.                     *)
TypeOK ==
  /\ WellBuilt(tt)
  /\ tau \in [0 .. max_rounds -> Arrivals]
  /\ rounds \in 0 .. max_rounds /\ k \in 0 .. max_rounds
  /\ marked \in SUBSET Stop /\ marked_list \in Seq(Stop)
  /\ queue_pos \in [Route -> Nat] /\ queue_list \in Seq(Route)
  /\ walkers \in Seq(Stop)
  /\ phase \in {"idle", "round", "scan", "walk"}
  /\ asked \in Seq(Stop \X Departures)
  /\ phase # "idle" => k # 0

Written == IF phase = "round" THEN k - 1 ELSE k
Before == IF Written = 0 THEN Unreached ELSE tau[Written - 1]
MarksInv ==
  IF phase = "idle" THEN marked = {} /\ marked_list = << >>
  ELSE MarksOK([cur |-> tau[Written], marked |-> marked, list |-> marked_list], Before)
Queue == [pos |-> queue_pos, list |-> queue_list]
QueueInv ==
  IF phase = "scan" THEN QueueOK(Queue)
  ELSE queue_pos = NothingQueued /\ queue_list = << >>
Scratch == TypeOK /\ MarksInv /\ QueueInv

LEMMA DistinctLength ==
  ASSUME NEW S, NEW s \in Seq(S), NoRepeats(s)
  PROVE  Len(s) = Cardinality(Range(s))
<1>1. PICK n \in Nat : n = Len(s) /\ DOMAIN s = 1 .. n
  OBVIOUS
<1>2. s \in Bijection(1 .. n, Range(s))
  <2>1. s \in [1 .. n -> Range(s)]
    BY <1>1 DEF Range
  <2> QED
    BY <1>1, <2>1 DEF Bijection, Injection, Surjection, IsInjective, NoRepeats, Range
<1>3. IsFiniteSet(1 .. n) /\ Cardinality(1 .. n) = n
  BY FS_Interval
<1>4. ExistsBijection(1 .. n, Range(s))
  BY <1>2 DEF ExistsBijection
<1>5. Cardinality(Range(s)) = n
  BY <1>3, <1>4, FS_Bijection
<1> QED
  BY <1>1, <1>5

LEMMA TimetableOK == ASSUME TypeOK  PROVE  Timetabled
BY DeparturesAssumption DEF TypeOK, Timetabled

LEMMA UnreachedType == Unreached \in Arrivals
BY DeparturesAssumption DEF Unreached, Arrivals, Times, RAPTOR_UNREACHED

LEMMA ScratchFresh == ASSUME WellBuilt(tt), Fresh  PROVE  Scratch
<1>1. TypeOK
  <2>1. 0 \in 0 .. max_rounds /\ Unreached \in Arrivals
    BY UnreachedType, SizeAssumption
  <2>2. tau \in [0 .. max_rounds -> Arrivals]
    BY <2>1 DEF Fresh
  <2>3. queue_pos \in [Route -> Nat]
    BY DEF Fresh, NothingQueued, NOT_QUEUED
  <2> QED
    BY <2>1, <2>2, <2>3 DEF Fresh, TypeOK
<1> QED
  BY <1>1 DEF Fresh, Scratch, MarksInv, QueueInv

LEMMA ScratchInit == ASSUME Init  PROVE  Scratch
BY ScratchFresh, TimetablesAssumption DEF Init

(* The layer a query begins with.                                          *)
LEMMA SourceFacts ==
  ASSUME NEW s \in Stop, NEW t \in Departures
  PROVE  LET c == [cur |-> [Unreached EXCEPT ![s] = t], marked |-> {s}, list |-> << s >>]
         IN  /\ c \in LayerType /\ MarksOK(c, Unreached) /\ t \in Nat
             /\ c.cur[s] = t /\ \A p \in Stop \ {s} : c.cur[p] = UINT32_MAX
<1> DEFINE cur == [Unreached EXCEPT ![s] = t]
<1>1. t \in Times /\ t < UINT32_MAX /\ UINT32_MAX \in Nat /\ t \in Nat
  BY DeparturesAssumption DEF Times
<1>2. /\ cur \in Arrivals /\ cur[s] = t
      /\ \A p \in Stop \ {s} : cur[p] = UINT32_MAX
      /\ \A p \in Stop : Unreached[p] = UINT32_MAX
  BY <1>1, UnreachedType DEF Arrivals, Unreached, RAPTOR_UNREACHED
<1> HIDE DEF cur
<1>3. \A p \in Stop : cur[p] <= Unreached[p]
  BY <1>1, <1>2
<1>4. {s} = {p \in Stop : cur[p] < Unreached[p]}
  BY <1>1, <1>2
<1>5. << s >> \in Seq(Stop) /\ Range(<< s >>) = {s} /\ NoRepeats(<< s >>)
  BY DEF Range, NoRepeats
<1>6. MarksOK([cur |-> cur, marked |-> {s}, list |-> << s >>], Unreached)
  BY <1>3, <1>4, <1>5 DEF MarksOK
<1>7. [cur |-> cur, marked |-> {s}, list |-> << s >>] \in LayerType
  BY <1>2, <1>5 DEF LayerType
<1> QED
  BY <1>1, <1>2, <1>6, <1>7 DEF cur

LEMMA ScratchStartQuery == ASSUME Scratch, StartQuery  PROVE  Scratch'
<1>1. PICK s \in Stop, t \in Departures :
        LET c == Walked([cur |-> [Unreached EXCEPT ![s] = t],
                         marked |-> marked \cup {s}, list |-> << s >>], s, t)
        IN  /\ tau' = [j \in 0 .. max_rounds |-> IF j = 0 THEN c.cur ELSE Unreached]
            /\ marked' = c.marked /\ marked_list' = c.list
            /\ asked' = Append(asked, << s, t >>)
  BY DEF StartQuery
<1>2. marked = {} /\ queue_pos = NothingQueued /\ queue_list = << >> /\ TypeOK
  BY DEF StartQuery, Scratch, MarksInv, QueueInv
<1> DEFINE c0 == [cur |-> [Unreached EXCEPT ![s] = t], marked |-> {s}, list |-> << s >>]
           c == Walked(c0, s, t)
<1>3. c0 \in LayerType /\ MarksOK(c0, Unreached) /\ t \in Nat
  BY SourceFacts
<1>4. /\ tau' = [j \in 0 .. max_rounds |-> IF j = 0 THEN c.cur ELSE Unreached]
      /\ marked' = c.marked /\ marked_list' = c.list
      /\ asked' = Append(asked, << s, t >>)
  BY <1>1, <1>2
<1> HIDE DEF c0
<1>5. c \in LayerType /\ MarksOK(c, Unreached)
  BY <1>2, <1>3, WalkedFacts, TimetableOK, UnreachedType DEF WalkedUpTo
<1> HIDE DEF c
<1>6. /\ c.cur \in Arrivals /\ c.marked \in SUBSET Stop /\ c.list \in Seq(Stop)
      /\ c = [cur |-> c.cur, marked |-> c.marked, list |-> c.list]
  BY <1>5 DEF LayerType
<1>7. phase' = "round" /\ k' = 1 /\ rounds' = 0
      /\ UNCHANGED << tt, queue_pos, queue_list, walkers >>
  BY DEF StartQuery
<1>8. tau'[0] = c.cur /\ tau' \in [0 .. max_rounds -> Arrivals]
  BY <1>4, <1>6, SizeAssumption, UnreachedType
<1>9. TypeOK'
  <2>1. 0 \in 0 .. max_rounds /\ 1 \in 0 .. max_rounds /\ << s, t >> \in Stop \X Departures
    BY SizeAssumption
  <2>2. Append(asked, << s, t >>) \in Seq(Stop \X Departures)
    BY <1>2, <2>1 DEF TypeOK
  <2> QED
    BY <1>2, <1>4, <1>6, <1>7, <1>8, <2>1, <2>2 DEF TypeOK, Route
<1>10. MarksInv'
  <2>1. Written' = 0
    BY <1>7 DEF Written
  <2> QED
    BY <1>4, <1>5, <1>6, <1>7, <1>8, <2>1 DEF MarksInv, Before, Unreached
<1>11. QueueInv'
  BY <1>2, <1>7 DEF QueueInv, NothingQueued, Route
<1> QED
  BY <1>9, <1>10, <1>11 DEF Scratch

(* The state between two actions of a round.                               *)
LEMMA InRound ==
  ASSUME Scratch, phase # "idle"
  PROVE  /\ k \in 1 .. max_rounds /\ k - 1 \in 0 .. max_rounds /\ k \in Nat
         /\ tau[k] \in Arrivals /\ tau[k - 1] \in Arrivals
         /\ phase \in {"scan", "walk"} => MarksOK(Layer, tau[k - 1]) /\ Layer \in LayerType
<1>1. k \in 1 .. max_rounds /\ k - 1 \in 0 .. max_rounds /\ k \in Nat
  BY SizeAssumption DEF Scratch, TypeOK
<1>2. tau[k] \in Arrivals /\ tau[k - 1] \in Arrivals
  BY <1>1 DEF Scratch, TypeOK
<1>3. ASSUME phase \in {"scan", "walk"}  PROVE  MarksOK(Layer, tau[k - 1]) /\ Layer \in LayerType
  <2>1. Written = k /\ Before = tau[k - 1]
    BY <1>1, <1>3 DEF Written, Before
  <2> QED
    BY <1>2, <1>3, <2>1 DEF Scratch, TypeOK, MarksInv, Layer, LayerType
<1> QED
  BY <1>1, <1>2, <1>3

LEMMA HeadTailFacts ==
  ASSUME NEW S, NEW s \in Seq(S), s # << >>
  PROVE  /\ Head(s) \in S /\ Tail(s) \in Seq(S)
         /\ Range(s) = {Head(s)} \cup Range(Tail(s))
         /\ NoRepeats(s) => NoRepeats(Tail(s)) /\ Head(s) \notin Range(Tail(s))
<1> DEFINE t == Tail(s)
<1>1. PICK n \in Nat : n + 1 = Len(s) /\ DOMAIN s = 1 .. n + 1
  <2>1. Len(s) \in Nat /\ Len(s) # 0 /\ DOMAIN s = 1 .. Len(s)
    OBVIOUS
  <2>2. Len(s) - 1 \in Nat /\ (Len(s) - 1) + 1 = Len(s)
    BY <2>1
  <2> QED
    BY <2>1, <2>2
<1>2. /\ t \in Seq(S) /\ DOMAIN t = 1 .. n /\ Head(s) = s[1] /\ Head(s) \in S
      /\ \A i \in 1 .. n : t[i] = s[i + 1]
  BY <1>1
<1> HIDE DEF t
<1>3. \A i \in 1 .. n : i + 1 \in 1 .. n + 1
  OBVIOUS
<1>4. 1 \in 1 .. n + 1
  OBVIOUS
<1>5. Range(s) = {Head(s)} \cup Range(t)
  <2>1. ASSUME NEW i \in 1 .. n + 1  PROVE  s[i] \in {Head(s)} \cup Range(t)
    <3>1. i = 1 \/ (i - 1 \in 1 .. n /\ (i - 1) + 1 = i)
      OBVIOUS
    <3> QED
      BY <1>2, <3>1 DEF Range
  <2> QED
    BY <1>1, <1>2, <1>3, <1>4, <2>1, SMTT(30) DEF Range
<1>6. ASSUME NoRepeats(s)  PROVE  NoRepeats(t) /\ Head(s) \notin Range(t)
  <2>1. ASSUME NEW i \in 1 .. n, NEW j \in 1 .. n, t[i] = t[j]  PROVE  i = j
    <3>1. s[i + 1] = s[j + 1] /\ i + 1 \in 1 .. n + 1 /\ j + 1 \in 1 .. n + 1
      BY <1>2, <1>3, <2>1
    <3>2. i + 1 = j + 1
      BY <1>1, <1>6, <3>1 DEF NoRepeats
    <3> QED
      BY <3>2
  <2>2. ASSUME NEW i \in 1 .. n, t[i] = Head(s)  PROVE  FALSE
    <3>1. s[i + 1] = s[1] /\ i + 1 \in 1 .. n + 1
      BY <1>2, <1>3, <2>2
    <3>2. i + 1 = 1
      BY <1>1, <1>4, <1>6, <3>1 DEF NoRepeats
    <3> QED
      BY <3>2
  <2> QED
    BY <1>2, <2>1, <2>2 DEF NoRepeats, Range
<1> QED
  BY <1>2, <1>5, <1>6 DEF t

LEMMA ScratchBeginRound == ASSUME Scratch, BeginRound  PROVE  Scratch'
<1> DEFINE q0 == [pos |-> queue_pos, list |-> << >>]
           q == FoldLeft(QueuedFrom, q0, marked_list)
<1>1. /\ TypeOK /\ queue_pos = NothingQueued /\ phase = "round"
      /\ tau' = [tau EXCEPT ![k] = tau[k - 1]]
      /\ queue_pos' = q.pos /\ queue_list' = q.list
      /\ marked' = marked \ Range(marked_list) /\ marked_list' = << >> /\ phase' = "scan"
      /\ UNCHANGED << tt, rounds, hit_round_cap, k, walkers, asked >>
  BY DEF BeginRound, Scratch, QueueInv
<1>2. /\ k \in 1 .. max_rounds /\ k - 1 \in 0 .. max_rounds /\ k \in Nat
      /\ tau[k - 1] \in Arrivals
  BY <1>1, InRound
<1>3. q0 \in QueueType /\ QueueOK(q0)
  <2>1. q0 \in QueueType
    BY <1>1 DEF TypeOK, QueueType
  <2>2. \A r \in Route : Len(tt.routes[r].stops) \in Nat
    <3>1. Timetabled
      BY <1>1, TimetableOK
    <3> QED
      BY <3>1, RouteFacts
  <2>3. q0.pos = NothingQueued /\ q0.list = << >>
    BY <1>1
  <2> HIDE DEF q0
  <2> QED
    BY <2>1, <2>2, <2>3 DEF QueueOK, NothingQueued, NOT_QUEUED, Range, NoRepeats
<1> HIDE DEF q0
<1>4. q \in QueueType /\ QueueOK(q)
  <2>1. Timetabled /\ marked_list \in Seq(Stop)
    BY <1>1, TimetableOK DEF TypeOK
  <2> QED
    BY <1>3, <2>1, QueueFacts
<1> HIDE DEF q
<1>5. /\ tau' \in [0 .. max_rounds -> Arrivals]
      /\ tau'[k] = tau[k - 1] /\ tau'[k - 1] = tau[k - 1]
  BY <1>1, <1>2 DEF TypeOK
<1>6. TypeOK'
  <2>1. q.pos \in [Route -> Nat] /\ q.list \in Seq(Route)
    BY <1>4 DEF QueueType
  <2> QED
    BY <1>1, <1>5, <2>1 DEF TypeOK, Route
<1>7. marked' = {}
  <2>1. MarksOK([cur |-> tau[Written], marked |-> marked, list |-> marked_list], Before)
    BY <1>1 DEF Scratch, MarksInv
  <2>2. Range(marked_list) = marked
    BY <2>1 DEF MarksOK
  <2> QED
    BY <1>1, <2>2
<1>8. MarksInv'
  <2>1. Written' = k /\ Before' = tau[k - 1]
    BY <1>1, <1>2, <1>5 DEF Written, Before
  <2>2. \A p \in Stop : tau[k - 1][p] \in Nat
    BY <1>2, DeparturesAssumption, LayerTimes
  <2> DEFINE at == tau[k - 1]
  <2>3. MarksOK([cur |-> at, marked |-> {}, list |-> << >>], at)
    <3>1. \A p \in Stop : at[p] <= at[p] /\ ~ (at[p] < at[p])
      BY <2>2
    <3> HIDE DEF at
    <3> QED
      BY <3>1 DEF MarksOK, Range, NoRepeats
  <2> QED
    BY <1>1, <1>5, <1>7, <2>1, <2>3 DEF MarksInv
<1>9. QueueInv'
  <2>1. q = [pos |-> q.pos, list |-> q.list]
    BY <1>4 DEF QueueType
  <2>2. Queue' = q
    BY <1>1, <2>1 DEF Queue
  <2> QED
    BY <1>1, <1>4, <2>2 DEF QueueInv, QueueOK, Route
<1> QED
  BY <1>6, <1>8, <1>9 DEF Scratch

(* The route at the head of the queue, and its scan.                       *)
LEMMA HeadFacts ==
  ASSUME Scratch, phase = "scan", queue_list # << >>
  PROVE  LET r == Head(queue_list)
         IN  /\ r \in Route /\ queue_pos[r] \in DOMAIN tt.routes[r].stops
             /\ Tail(queue_list) \in Seq(Route)
<1> DEFINE r == Head(queue_list)
<1>1. /\ r \in Route /\ Tail(queue_list) \in Seq(Route) /\ r \in Range(queue_list)
  BY HeadTailFacts DEF Scratch, TypeOK
<1>2. QueueOK(Queue) /\ Queue.pos = queue_pos /\ Queue.list = queue_list
  BY DEF Scratch, QueueInv, Queue
<1> HIDE DEF r
<1>3. queue_pos[r] # NOT_QUEUED /\ queue_pos[r] <= Len(tt.routes[r].stops) /\ queue_pos[r] \in Nat
  BY <1>1, <1>2 DEF QueueOK, Scratch, TypeOK
<1>4. Timetabled
  BY TimetableOK DEF Scratch
<1>5. PICK n \in Nat : n = Len(tt.routes[r].stops) /\ DOMAIN tt.routes[r].stops = 1 .. n
  BY <1>1, <1>4, RouteFacts
<1>6. queue_pos[r] \in 1 .. n
  BY <1>3, <1>5 DEF NOT_QUEUED
<1> QED
  BY <1>1, <1>5, <1>6 DEF r

LEMMA ScratchScanRoute == ASSUME Scratch, ScanRoute  PROVE  Scratch'
<1> DEFINE r == Head(queue_list)
           c == Scanned(Layer, tau[k - 1], r, queue_pos[r])
<1>1. /\ TypeOK /\ phase = "scan" /\ queue_list # << >>
      /\ tau' = [tau EXCEPT ![k] = c.cur] /\ marked' = c.marked /\ marked_list' = c.list
      /\ queue_pos' = [queue_pos EXCEPT ![r] = NOT_QUEUED] /\ queue_list' = Tail(queue_list)
      /\ UNCHANGED << tt, rounds, hit_round_cap, k, walkers, phase, asked >>
  BY DEF ScanRoute, Scratch
<1>2. /\ k \in 1 .. max_rounds /\ k - 1 \in 0 .. max_rounds /\ k \in Nat
      /\ tau[k - 1] \in Arrivals /\ MarksOK(Layer, tau[k - 1]) /\ Layer \in LayerType
  BY <1>1, InRound
<1>3. /\ r \in Route /\ queue_pos[r] \in DOMAIN tt.routes[r].stops
      /\ Tail(queue_list) \in Seq(Route)
  BY <1>1, HeadFacts
<1> HIDE DEF r
<1>4. c \in LayerType /\ MarksOK(c, tau[k - 1])
  <2>1. Timetabled
    BY <1>1, TimetableOK
  <2> QED
    BY <1>2, <1>3, <2>1, ScannedFacts DEF ScanLayer
<1> HIDE DEF c
<1>5. /\ c.cur \in Arrivals /\ c.marked \in SUBSET Stop /\ c.list \in Seq(Stop)
      /\ c = [cur |-> c.cur, marked |-> c.marked, list |-> c.list]
  BY <1>4 DEF LayerType
<1>6. /\ tau' \in [0 .. max_rounds -> Arrivals]
      /\ tau'[k] = c.cur /\ tau'[k - 1] = tau[k - 1]
  BY <1>1, <1>2, <1>5 DEF TypeOK
<1>7. /\ queue_pos' \in [Route -> Nat] /\ queue_pos'[r] = NOT_QUEUED
      /\ \A s \in Route \ {r} : queue_pos'[s] = queue_pos[s]
  BY <1>1, <1>3 DEF TypeOK, NOT_QUEUED
<1>8. TypeOK'
  BY <1>1, <1>3, <1>5, <1>6, <1>7 DEF TypeOK, Route
<1>9. MarksInv'
  <2>1. Written' = k /\ Before' = tau[k - 1]
    BY <1>1, <1>2, <1>6 DEF Written, Before
  <2> QED
    BY <1>1, <1>4, <1>5, <1>6, <2>1 DEF MarksInv
<1>10. QueueInv'
  <2>1. QueueOK(Queue) /\ Queue.pos = queue_pos /\ Queue.list = queue_list
    BY <1>1 DEF Scratch, QueueInv, Queue
  <2>2. /\ Range(queue_list) = {r} \cup Range(Tail(queue_list))
        /\ NoRepeats(Tail(queue_list)) /\ r \notin Range(Tail(queue_list))
    BY <1>1, <2>1, HeadTailFacts DEF TypeOK, QueueOK, r
  <2>3. \A s \in Route : queue_pos'[s] <= Len(tt.routes[s].stops)
    <3>1. Timetabled
      BY <1>1, TimetableOK
    <3>2. \A s \in Route : Len(tt.routes[s].stops) \in Nat
      BY <3>1, RouteFacts
    <3> QED
      BY <1>7, <2>1, <3>2 DEF QueueOK, NOT_QUEUED
  <2>4. Range(Tail(queue_list)) = {s \in Route : queue_pos'[s] # NOT_QUEUED}
    BY <1>3, <1>7, <2>1, <2>2 DEF QueueOK
  <2>5. Queue'.pos = queue_pos' /\ Queue'.list = Tail(queue_list) /\ Route' = Route
    BY <1>1 DEF Queue, Route
  <2>6. QueueOK(Queue)'
    BY <1>1, <2>2, <2>3, <2>4, <2>5 DEF QueueOK
  <2> QED
    BY <1>1, <2>6 DEF QueueInv
<1> QED
  BY <1>8, <1>9, <1>10 DEF Scratch

LEMMA ScratchBeginWalks == ASSUME Scratch, BeginWalks  PROVE  Scratch'
<1>1. /\ phase = "scan" /\ queue_list = << >> /\ walkers' = marked_list /\ phase' = "walk"
      /\ UNCHANGED << tt, tau, rounds, hit_round_cap, k, marked, marked_list,
                      queue_pos, queue_list, asked >>
  BY DEF BeginWalks
<1>2. TypeOK'
  BY <1>1 DEF Scratch, TypeOK, Route
<1>3. MarksInv'
  BY <1>1 DEF Scratch, MarksInv, Written, Before, Unreached
<1>4. QueueInv'
  <2>1. QueueOK(Queue) /\ Queue.pos = queue_pos /\ Queue.list = << >>
    BY <1>1 DEF Scratch, QueueInv, Queue
  <2>2. \A r \in Route : queue_pos[r] = NOT_QUEUED
    BY <2>1 DEF QueueOK, Range
  <2>3. queue_pos = NothingQueued
    BY <2>2 DEF Scratch, TypeOK, NothingQueued
  <2> QED
    BY <1>1, <2>3 DEF QueueInv, NothingQueued, Route
<1> QED
  BY <1>2, <1>3, <1>4 DEF Scratch

LEMMA ScratchWalkFrom == ASSUME Scratch, WalkFrom  PROVE  Scratch'
<1> DEFINE p == Head(walkers)
           c == Walked(Layer, p, tau[k][p])
<1>1. /\ TypeOK /\ phase = "walk" /\ walkers # << >>
      /\ tau' = [tau EXCEPT ![k] = c.cur] /\ marked' = c.marked /\ marked_list' = c.list
      /\ walkers' = Tail(walkers)
      /\ UNCHANGED << tt, rounds, hit_round_cap, k, queue_pos, queue_list, phase, asked >>
  BY DEF WalkFrom, Scratch
<1>2. /\ k \in 1 .. max_rounds /\ k - 1 \in 0 .. max_rounds /\ k \in Nat
      /\ tau[k] \in Arrivals
      /\ tau[k - 1] \in Arrivals /\ MarksOK(Layer, tau[k - 1]) /\ Layer \in LayerType
  BY <1>1, InRound
<1>3. p \in Stop /\ Tail(walkers) \in Seq(Stop)
  BY <1>1, HeadTailFacts DEF TypeOK
<1> HIDE DEF p
<1>4. tau[k][p] \in Nat
  BY <1>2, <1>3, DeparturesAssumption, LayerTimes
<1>5. c \in LayerType /\ MarksOK(c, tau[k - 1])
  <2>1. Timetabled
    BY <1>1, TimetableOK
  <2> QED
    BY <1>2, <1>3, <1>4, <2>1, WalkedFacts DEF WalkedUpTo
<1> HIDE DEF c
<1>6. /\ c.cur \in Arrivals /\ c.marked \in SUBSET Stop /\ c.list \in Seq(Stop)
      /\ c = [cur |-> c.cur, marked |-> c.marked, list |-> c.list]
  BY <1>5 DEF LayerType
<1>7. /\ tau' \in [0 .. max_rounds -> Arrivals]
      /\ tau'[k] = c.cur /\ tau'[k - 1] = tau[k - 1]
  BY <1>1, <1>2, <1>6 DEF TypeOK
<1>8. TypeOK'
  BY <1>1, <1>3, <1>6, <1>7 DEF TypeOK, Route
<1>9. MarksInv'
  <2>1. Written' = k /\ Before' = tau[k - 1]
    BY <1>1, <1>2, <1>7 DEF Written, Before
  <2> QED
    BY <1>1, <1>5, <1>6, <1>7, <2>1 DEF MarksInv
<1>10. QueueInv'
  BY <1>1 DEF Scratch, QueueInv, NothingQueued, Route
<1> QED
  BY <1>8, <1>9, <1>10 DEF Scratch

LEMMA ScratchEndRound == ASSUME Scratch, EndRound  PROVE  Scratch'
<1>1. /\ TypeOK /\ phase = "walk" /\ QueueInv
      /\ UNCHANGED << tt, tau, queue_pos, queue_list, walkers, asked >>
  BY DEF EndRound, Scratch
<1>2. k \in 1 .. max_rounds /\ k \in Nat /\ MarksOK(Layer, tau[k - 1])
  BY <1>1, InRound
<1>3. Range(marked_list) = marked
  BY <1>2 DEF MarksOK, Layer
<1>4. CASE EndQuery /\ rounds' \in {rounds, k}
  <2>1. marked' = {} /\ marked_list' = << >> /\ phase' = "idle" /\ k' = 0
    BY <1>3, <1>4 DEF EndQuery, MarksCleared
  <2>2. rounds' \in 0 .. max_rounds /\ 0 \in 0 .. max_rounds
    BY <1>1, <1>2, <1>4, SizeAssumption DEF TypeOK
  <2>3. TypeOK'
    BY <1>1, <2>1, <2>2 DEF TypeOK, Route
  <2> QED
    BY <1>1, <2>1, <2>3 DEF Scratch, MarksInv, QueueInv, NothingQueued, Route
<1>5. CASE /\ RoundsLeft /\ rounds' = k /\ k' = k + 1 /\ phase' = "round"
           /\ UNCHANGED << hit_round_cap, marked, marked_list >>
  <2>1. /\ k + 1 \in 0 .. max_rounds /\ k \in 0 .. max_rounds /\ k + 1 # 0
        /\ (k + 1) - 1 = k /\ k # 0
    BY <1>2, <1>5, SizeAssumption DEF RoundsLeft
  <2>2. TypeOK'
    BY <1>1, <1>5, <2>1 DEF TypeOK, Route
  <2>3. Written' = k /\ Before' = tau[k - 1]
    BY <1>1, <1>5, <2>1 DEF Written, Before
  <2>4. MarksInv'
    BY <1>1, <1>2, <1>5, <2>3 DEF MarksInv, Layer
  <2>5. QueueInv'
    BY <1>1, <1>5 DEF QueueInv, NothingQueued, Route
  <2> QED
    BY <2>2, <2>4, <2>5 DEF Scratch
<1> QED
  BY <1>4, <1>5 DEF EndRound

LEMMA ScratchStep == ASSUME Scratch, [Next]_vars  PROVE  Scratch'
<1>1. CASE StartQuery
  BY <1>1, ScratchStartQuery
<1>2. CASE BeginRound
  BY <1>2, ScratchBeginRound
<1>3. CASE ScanRoute
  BY <1>3, ScratchScanRoute
<1>4. CASE BeginWalks
  BY <1>4, ScratchBeginWalks
<1>5. CASE WalkFrom
  BY <1>5, ScratchWalkFrom
<1>6. CASE EndRound
  BY <1>6, ScratchEndRound
<1>7. CASE UNCHANGED vars
  <2>1. TypeOK'
    BY <1>7 DEF vars, Scratch, TypeOK, Route
  <2>2. MarksInv'
    BY <1>7 DEF vars, Scratch, MarksInv, Written, Before, Unreached
  <2>3. QueueInv'
    BY <1>7 DEF vars, Scratch, QueueInv, Queue, QueueOK, NothingQueued, Route
  <2> QED
    BY <2>1, <2>2, <2>3 DEF Scratch
<1> QED
  BY <1>1, <1>2, <1>3, <1>4, <1>5, <1>6, <1>7 DEF Next, Search

LEMMA ScratchIsClean == Scratch => ScratchClean
BY DEF Scratch, MarksInv, QueueInv, ScratchClean

LEMMA ScratchMarksImprove == Scratch => MarksAreImprovements
<1>1. ASSUME Scratch, phase # "idle"
      PROVE  /\ marked = {p \in Stop : tau[Written][p] < Before[p]}
             /\ Range(marked_list) = marked
             /\ Len(marked_list) = Cardinality(marked)
  <2>1. /\ marked = {p \in Stop : tau[Written][p] < Before[p]}
        /\ Range(marked_list) = marked /\ NoRepeats(marked_list)
    BY <1>1 DEF Scratch, MarksInv, MarksOK
  <2>2. Len(marked_list) = Cardinality(Range(marked_list))
    BY <1>1, <2>1, DistinctLength DEF Scratch, TypeOK
  <2> QED
    BY <2>1, <2>2
<1> QED
  BY <1>1 DEF MarksAreImprovements, Written, Before

(* The scratch buffers of run hold what their invariant says, in every     *)
(* round of every query.                                                   *)
THEOREM RaptorScratch == Spec => []Scratch
BY ScratchInit, ScratchStep, PTL DEF Spec

(* Between queries every scratch buffer is as the constructor left it, so  *)
(* a query on a used Raptor object is one on a fresh object.               *)
THEOREM RaptorScratchClean == Spec => []ScratchClean
BY ScratchIsClean, RaptorScratch, PTL

(* In a round the marks are exactly the stops it improved, each once in    *)
(* the list.                                                               *)
THEOREM RaptorMarksAreImprovements == Spec => []MarksAreImprovements
BY ScratchMarksImprove, RaptorScratch, PTL

-----------------------------------------------------------------------------
(* The definitions of ReferenceArrivals by what they bound and attain.     *)
WalkTo(at, v, x) ==
  \E u \in Stop : \E w \in Range(tt.transfers[u]) :
    w.destination = v /\ x = at[u] + w.travel_time

LEMMA LeastTimeFacts ==
  ASSUME UINT32_MAX \in Nat, NEW S \in SUBSET Nat
  PROVE  /\ LeastTime(S) \in Times
         /\ \A x \in S : LeastTime(S) <= x
         /\ LeastTime(S) \in S \/ LeastTime(S) = UINT32_MAX
<1> DEFINE T == S \cup {UINT32_MAX}
           l == LeastTime(S)
<1>1. T \in SUBSET Nat /\ T # {} /\ l = Min(T)
  BY DEF LeastTime
<1> HIDE DEF l
<1>2. l \in T /\ \A x \in T : l <= x
  BY <1>1, MinIsLeast
<1>3. l \in Nat /\ l <= UINT32_MAX
  BY <1>1, <1>2
<1> QED
  BY <1>2, <1>3 DEF l, Times

LEMMA AfterWalkFacts ==
  ASSUME Timetabled, NEW at \in Arrivals
  PROVE  LET y == AfterWalk(tt, at)
         IN  /\ y \in Arrivals
             /\ \A v \in Stop : y[v] <= at[v]
             /\ \A u \in Stop : \A w \in Range(tt.transfers[u]) :
                  y[w.destination] <= at[u] + w.travel_time
             /\ \A v \in Stop : y[v] = at[v] \/ WalkTo(at, v, y[v])
<1> DEFINE walks(v) == UNION {{at[u] + w.travel_time :
                         w \in {x \in Range(tt.transfers[u]) : x.destination = v}} : u \in Stop}
           y == AfterWalk(tt, at)
<1>1. UINT32_MAX \in Nat /\ \A u \in Stop : at[u] \in Nat /\ at[u] <= UINT32_MAX
  BY LayerTimes DEF Timetabled
<1>2. \A u \in Stop : \A w \in Range(tt.transfers[u]) :
        w.destination \in Stop /\ w.travel_time \in Nat
  BY TransfersOut
<1>3. \A v \in Stop : \A x : x \in walks(v) <=> WalkTo(at, v, x)
  BY DEF WalkTo
<1>4. ASSUME NEW v \in Stop  PROVE  {at[v]} \cup walks(v) \in SUBSET Nat
  BY <1>1, <1>2
<1>5. \A v \in Stop : y[v] = LeastTime({at[v]} \cup walks(v))
  BY DEF AfterWalk
<1>6. y = [v \in Stop |-> LeastTime({at[v]} \cup walks(v))]
  BY DEF AfterWalk
<1> HIDE DEF walks, y
<1>7. ASSUME NEW v \in Stop
      PROVE  /\ y[v] \in Times /\ y[v] <= at[v]
             /\ \A x \in walks(v) : y[v] <= x
             /\ y[v] = at[v] \/ y[v] \in walks(v)
  <2> DEFINE S == {at[v]} \cup walks(v)
  <2>1. S \in SUBSET Nat /\ at[v] \in S
    BY <1>4
  <2>2. y[v] = LeastTime(S)
    BY <1>5
  <2>3. /\ \A x \in S : y[v] <= x
        /\ y[v] \in S \/ y[v] = UINT32_MAX
        /\ y[v] \in Times
    <3> HIDE DEF S
    <3> QED
      BY <1>1, <2>1, <2>2, LeastTimeFacts
  <2>4. y[v] = UINT32_MAX => y[v] = at[v]
    BY <1>1, <2>1, <2>3
  <2> QED
    BY <2>1, <2>3, <2>4
<1>8. y \in Arrivals
  BY <1>6, <1>7 DEF Arrivals
<1>9. \A u \in Stop : \A w \in Range(tt.transfers[u]) :
        y[w.destination] <= at[u] + w.travel_time
  <2> SUFFICES ASSUME NEW u \in Stop, NEW w \in Range(tt.transfers[u])
               PROVE  y[w.destination] <= at[u] + w.travel_time
    OBVIOUS
  <2>1. WalkTo(at, w.destination, at[u] + w.travel_time)
    BY DEF WalkTo
  <2> QED
    BY <1>2, <1>3, <1>7, <2>1
<1>10. /\ y \in Arrivals
       /\ \A v \in Stop : y[v] <= at[v]
       /\ \A u \in Stop : \A w \in Range(tt.transfers[u]) :
            y[w.destination] <= at[u] + w.travel_time
       /\ \A v \in Stop : y[v] = at[v] \/ WalkTo(at, v, y[v])
  BY <1>3, <1>7, <1>8, <1>9
<1> QED
  BY <1>10 DEF y

LEMMA AfterRideFacts ==
  ASSUME Timetabled, NEW at \in Arrivals
  PROVE  LET y == AfterRide(tt, at)
         IN  /\ y \in Arrivals
             /\ \A v \in Stop : y[v] <= at[v]
             /\ \A v \in Stop : \A x : RideTo(at, v, x) => y[v] <= x
             /\ \A v \in Stop : y[v] = at[v] \/ RideTo(at, v, y[v])
<1> DEFINE rides(v) ==
             UNION {UNION {{trip[b].arrival :
                              b \in {i \in DOMAIN trip :
                                      /\ route.stops[i] = v
                                      /\ \E a \in 1 .. i - 1 :
                                           /\ at[route.stops[a]] # UINT32_MAX
                                           /\ at[route.stops[a]] <= trip[a].departure}} :
                              trip \in Range(route.trips)} : route \in Range(tt.routes)}
           y == AfterRide(tt, at)
<1>1. UINT32_MAX \in Nat /\ \A u \in Stop : at[u] \in Nat /\ at[u] <= UINT32_MAX
  BY LayerTimes DEF Timetabled
<1>2. \A r \in Route : \A m \in DOMAIN tt.routes[r].trips :
        DOMAIN tt.routes[r].trips[m] = DOMAIN tt.routes[r].stops
  BY RouteFacts
<1>3. \A r \in Route : \A m \in DOMAIN tt.routes[r].trips : \A b \in DOMAIN tt.routes[r].stops :
        tt.routes[r].trips[m][b].arrival \in Nat
  BY RouteFacts
<1>4. ASSUME NEW v \in Stop, NEW x  PROVE  x \in rides(v) <=> RideTo(at, v, x)
  <2>1. ASSUME x \in rides(v)  PROVE  RideTo(at, v, x)
    <3>1. PICK route \in Range(tt.routes) : \E trip \in Range(route.trips) :
            \E b \in DOMAIN trip :
              /\ x = trip[b].arrival /\ route.stops[b] = v
              /\ \E a \in 1 .. b - 1 : /\ at[route.stops[a]] # UINT32_MAX
                                       /\ at[route.stops[a]] <= trip[a].departure
      BY <2>1
    <3>2. PICK r \in Route : route = tt.routes[r]
      BY DEF Range, Route
    <3>3. PICK m \in DOMAIN route.trips : \E b \in DOMAIN route.trips[m] :
              /\ x = route.trips[m][b].arrival /\ route.stops[b] = v
              /\ \E a \in 1 .. b - 1 : /\ at[route.stops[a]] # UINT32_MAX
                                       /\ at[route.stops[a]] <= route.trips[m][a].departure
      BY <3>1 DEF Range
    <3> QED
      BY <1>2, <3>2, <3>3 DEF RideTo, Ready
  <2>2. ASSUME RideTo(at, v, x)  PROVE  x \in rides(v)
    <3>1. PICK r \in Route : \E m \in DOMAIN tt.routes[r].trips, b \in DOMAIN tt.routes[r].stops :
            /\ tt.routes[r].stops[b] = v
            /\ x = tt.routes[r].trips[m][b].arrival
            /\ \E a \in 1 .. b - 1 : Ready(at, r, a, m)
      BY <2>2 DEF RideTo
    <3>2. PICK m \in DOMAIN tt.routes[r].trips, b \in DOMAIN tt.routes[r].stops :
            /\ tt.routes[r].stops[b] = v
            /\ x = tt.routes[r].trips[m][b].arrival
            /\ \E a \in 1 .. b - 1 : Ready(at, r, a, m)
      BY <3>1
    <3> DEFINE route == tt.routes[r]
               trip == route.trips[m]
    <3>3. route \in Range(tt.routes) /\ trip \in Range(route.trips) /\ b \in DOMAIN trip
      BY <1>2 DEF Range, Route
    <3>4. /\ x = trip[b].arrival /\ route.stops[b] = v
          /\ \E a \in 1 .. b - 1 : /\ at[route.stops[a]] # UINT32_MAX
                                   /\ at[route.stops[a]] <= trip[a].departure
      BY <3>2 DEF Ready
    <3> HIDE DEF route, trip
    <3> QED
      BY <3>3, <3>4
  <2> HIDE DEF rides
  <2> QED
    BY <2>1, <2>2
<1>5. \A v \in Stop : y[v] = LeastTime({at[v]} \cup rides(v))
  BY DEF AfterRide
<1>6. y = [v \in Stop |-> LeastTime({at[v]} \cup rides(v))]
  BY DEF AfterRide
<1> HIDE DEF rides, y
<1>7. ASSUME NEW v \in Stop  PROVE  {at[v]} \cup rides(v) \in SUBSET Nat
  <2>1. \A x : RideTo(at, v, x) => x \in Nat
    BY <1>3 DEF RideTo
  <2> QED
    BY <1>1, <1>4, <2>1
<1>8. ASSUME NEW v \in Stop
      PROVE  /\ y[v] \in Times /\ y[v] <= at[v]
             /\ \A x \in rides(v) : y[v] <= x
             /\ y[v] = at[v] \/ y[v] \in rides(v)
  <2> DEFINE S == {at[v]} \cup rides(v)
  <2>1. S \in SUBSET Nat /\ at[v] \in S
    BY <1>7
  <2>2. y[v] = LeastTime(S)
    BY <1>5
  <2>3. /\ \A x \in S : y[v] <= x
        /\ y[v] \in S \/ y[v] = UINT32_MAX
        /\ y[v] \in Times
    <3> HIDE DEF S
    <3> QED
      BY <1>1, <2>1, <2>2, LeastTimeFacts
  <2>4. y[v] = UINT32_MAX => y[v] = at[v]
    BY <1>1, <2>1, <2>3
  <2> QED
    BY <2>1, <2>3, <2>4
<1>9. y \in Arrivals
  BY <1>6, <1>8 DEF Arrivals
<1>10. /\ y \in Arrivals
       /\ \A v \in Stop : y[v] <= at[v]
       /\ \A v \in Stop : \A x : RideTo(at, v, x) => y[v] <= x
       /\ \A v \in Stop : y[v] = at[v] \/ RideTo(at, v, y[v])
  BY <1>4, <1>8, <1>9
<1> QED
  BY <1>10 DEF y

(* Where the footpaths are closed one walk is as good as any number.       *)
Closed == transfers_are_transitively_closed(tt)
WalkedOut(y) ==
  \A u \in Stop : \A w \in Range(tt.transfers[u]) : y[w.destination] <= y[u] + w.travel_time

LEMMA OneWalkIsEnough ==
  ASSUME Timetabled, Closed, NEW at \in Arrivals
  PROVE  WalkedOut(AfterWalk(tt, at))
<1> DEFINE y == AfterWalk(tt, at)
<1>1. /\ \A v \in Stop : y[v] \in Nat /\ at[v] \in Nat /\ y[v] <= at[v]
      /\ \A u \in Stop : \A w \in Range(tt.transfers[u]) :
           y[w.destination] <= at[u] + w.travel_time
      /\ \A v \in Stop : y[v] = at[v] \/ WalkTo(at, v, y[v])
  BY AfterWalkFacts, LayerTimes DEF Timetabled
<1> HIDE DEF y
<1>2. SUFFICES ASSUME NEW u \in Stop, NEW w \in Range(tt.transfers[u])
               PROVE  y[w.destination] <= y[u] + w.travel_time
  BY DEF WalkedOut, y
<1>3. PICK v \in Stop, time \in Nat : v = w.destination /\ time = w.travel_time
  BY TransfersOut
<1>4. CASE y[u] = at[u]
  BY <1>1, <1>4
<1>5. CASE WalkTo(at, u, y[u])
  <2>1. PICK p \in Stop : \E a \in Range(tt.transfers[p]) :
          a.destination = u /\ y[u] = at[p] + a.travel_time
    BY <1>5 DEF WalkTo
  <2>2. PICK a \in Range(tt.transfers[p]) : a.destination = u /\ y[u] = at[p] + a.travel_time
    BY <2>1
  <2>3. PICK first \in Nat : first = a.travel_time
    BY TransfersOut
  <2>4. CASE v = p
    <3>1. y[v] <= at[p]
      BY <1>1, <2>4
    <3>2. y[v] <= y[u] + time
      BY <1>1, <2>2, <2>3, <3>1
    <3> QED
      BY <1>3, <3>2
  <2>5. CASE v # p
    <3>1. PICK c \in Range(tt.transfers[p]) :
            c.destination = v /\ c.travel_time <= a.travel_time + w.travel_time
      BY <1>3, <2>2, <2>5 DEF Closed, transfers_are_transitively_closed
    <3>2. PICK both \in Nat : both = c.travel_time
      BY TransfersOut
    <3>3. y[v] <= at[p] + both /\ both <= first + time
      BY <1>1, <1>3, <2>3, <3>1, <3>2
    <3>4. y[v] <= y[u] + time
      BY <1>1, <2>2, <2>3, <3>3
    <3> QED
      BY <1>3, <3>4
  <2> QED
    BY <2>4, <2>5
<1> QED
  BY <1>1, <1>4, <1>5

(* The layers AtMost defines.                                              *)
ExactLayers(e, n, s, t) ==
  /\ e \in [0 .. n -> Arrivals]
  /\ e[0] = AfterWalk(tt, OnlyAt(s, t))
  /\ \A j \in 1 .. n : e[j] = AfterWalk(tt, AfterRide(tt, e[j - 1]))

LEMMA AtMostFacts ==
  ASSUME Timetabled, NEW n \in Nat, NEW s \in Stop, NEW t \in Times
  PROVE  ExactLayers(AtMost(tt, n, s, t), n, s, t)
<1> DEFINE base == AfterWalk(tt, OnlyAt(s, t))
           next(at) == AfterWalk(tt, AfterRide(tt, at))
           step == [j \in 1 .. n |-> [at \in Arrivals |-> next(at)]]
           eq(f) == [j \in 0 .. n |-> IF j = 0 THEN base ELSE next(f[j - 1])]
           F == CHOOSE f : f = eq(f)
<1>1. AtMost(tt, n, s, t) = F
  BY DEF AtMost
<1>2. base \in Arrivals
  <2>1. OnlyAt(s, t) \in Arrivals
    BY DEF OnlyAt, Arrivals, Times, Timetabled
  <2> QED
    BY <2>1, AfterWalkFacts
<1>3. \A at \in Arrivals : next(at) \in Arrivals
  BY AfterRideFacts, AfterWalkFacts
<1> HIDE DEF base, next
<1>4. step \in [1 .. n -> [Arrivals -> Arrivals]] /\ \A j \in 1 .. n, at \in Arrivals : step[j][at] = next(at)
  BY <1>3
<1> HIDE DEF step
<1>5. PICK g : g \in Iterations(n, Arrivals, base, step)
  BY <1>2, <1>4, RunExists
<1>6. /\ g \in [0 .. n -> Arrivals] /\ g[0] = base
      /\ \A j \in 1 .. n : g[j - 1] \in Arrivals /\ g[j] = next(g[j - 1])
  <2>1. g \in [0 .. n -> Arrivals] /\ g[0] = base /\ \A j \in 1 .. n : g[j] = step[j][g[j - 1]]
    BY <1>5 DEF Iterations
  <2>2. \A j \in 1 .. n : g[j - 1] \in Arrivals
    BY <2>1
  <2> QED
    BY <1>4, <2>1, <2>2
<1>7. g = eq(g)
  BY <1>6
<1>8. F = eq(F)
  BY <1>7
<1> HIDE DEF F
<1>9. F[0] = base /\ \A j \in 1 .. n : F[j] = next(F[j - 1])
  BY <1>8
<1> DEFINE Fine == {j \in 0 .. n : F[j] \in Arrivals}
<1>10. 0 .. n \subseteq Fine
  <2>1. 0 \in Fine
    BY <1>2, <1>9
  <2>2. ASSUME NEW j \in 0 .. n - 1, j \in Fine  PROVE  j + 1 \in Fine
    <3>1. j + 1 \in 1 .. n /\ (j + 1) - 1 = j /\ F[j] \in Arrivals
      BY <2>2
    <3>2. F[j + 1] = next(F[j])
      BY <1>9, <3>1
    <3> QED
      BY <1>3, <3>1, <3>2
  <2> HIDE DEF Fine
  <2> QED
    BY <2>1, <2>2, UpTo
<1>11. \A j \in 0 .. n : F[j] \in Arrivals
  BY <1>10
<1>12. F \in [0 .. n -> Arrivals]
  BY <1>8, <1>11
<1> QED
  BY <1>1, <1>9, <1>12 DEF ExactLayers, base, next

(* A round more is never later, and finished layers are walked out.        *)
LEMMA ExactFacts ==
  ASSUME Timetabled, NEW n \in Nat, NEW s \in Stop, NEW t \in Times,
         NEW e, ExactLayers(e, n, s, t)
  PROVE  /\ \A j \in 0 .. n : \A p \in Stop : e[j][p] \in Nat /\ e[j][p] <= UINT32_MAX
         /\ \A j \in 0 .. n : \A i \in 0 .. j : \A p \in Stop : e[j][p] <= e[i][p]
         /\ Closed => \A j \in 0 .. n : WalkedOut(e[j])
<1>1. \A j \in 0 .. n : e[j] \in Arrivals
  BY DEF ExactLayers
<1>2. \A j \in 0 .. n : \A p \in Stop : e[j][p] \in Nat /\ e[j][p] <= UINT32_MAX
  BY <1>1, LayerTimes DEF Timetabled
<1>3. ASSUME NEW j \in 1 .. n  PROVE  \A p \in Stop : e[j][p] <= e[j - 1][p]
  <2> DEFINE x == e[j - 1]
             y == AfterRide(tt, x)
             z == AfterWalk(tt, y)
  <2>1. x \in Arrivals /\ j - 1 \in 0 .. n /\ j \in 0 .. n
    BY <1>1
  <2>2. e[j] = z
    BY DEF ExactLayers
  <2> HIDE DEF x
  <2>3. y \in Arrivals /\ \A p \in Stop : y[p] <= x[p]
    BY <2>1, AfterRideFacts
  <2> HIDE DEF y
  <2>4. z \in Arrivals /\ \A p \in Stop : z[p] <= y[p]
    BY <2>3, AfterWalkFacts
  <2> HIDE DEF z
  <2>5. \A p \in Stop : x[p] \in Nat /\ y[p] \in Nat /\ z[p] \in Nat
    BY <2>1, <2>3, <2>4, LayerTimes DEF Timetabled
  <2>6. \A p \in Stop : z[p] <= x[p]
    BY <2>3, <2>4, <2>5
  <2> QED
    BY <2>2, <2>6 DEF x
<1>4. ASSUME NEW i \in 0 .. n, NEW p \in Stop
      PROVE  \A j \in 0 .. n : i <= j => e[j][p] <= e[i][p]
  <2> DEFINE Fine == {j \in 0 .. n : i <= j => e[j][p] <= e[i][p]}
  <2>1. 0 \in Fine
    BY <1>2
  <2>2. ASSUME NEW j \in 0 .. n - 1, j \in Fine  PROVE  j + 1 \in Fine
    <3>1. /\ j + 1 \in 1 .. n /\ j + 1 \in 0 .. n /\ (j + 1) - 1 = j /\ j \in 0 .. n
          /\ i <= j => e[j][p] <= e[i][p]
      BY <2>2
    <3>2. e[j + 1][p] <= e[j][p]
      BY <1>3, <3>1
    <3>3. e[j + 1][p] \in Nat /\ e[j][p] \in Nat /\ e[i][p] \in Nat
      BY <1>2, <3>1
    <3>4. ASSUME i <= j + 1  PROVE  e[j + 1][p] <= e[i][p]
      <4>1. i <= j \/ i = j + 1
        BY <3>4
      <4> QED
        BY <3>1, <3>2, <3>3, <4>1
    <3> QED
      BY <3>1, <3>4
  <2> HIDE DEF Fine
  <2>3. 0 .. n \subseteq Fine
    BY <2>1, <2>2, UpTo
  <2> QED
    BY <2>3 DEF Fine
<1>5. \A j \in 0 .. n : \A i \in 0 .. j : \A p \in Stop : e[j][p] <= e[i][p]
  <2> SUFFICES ASSUME NEW j \in 0 .. n, NEW i \in 0 .. j, NEW p \in Stop
               PROVE  e[j][p] <= e[i][p]
    OBVIOUS
  <2>1. i \in 0 .. n /\ i <= j
    OBVIOUS
  <2> QED
    BY <1>4, <2>1
<1>6. ASSUME Closed, NEW j \in 0 .. n  PROVE  WalkedOut(e[j])
  <2>1. CASE j = 0
    <3>1. OnlyAt(s, t) \in Arrivals
      BY DEF OnlyAt, Arrivals, Times, Timetabled
    <3> QED
      BY <1>6, <2>1, <3>1, OneWalkIsEnough DEF ExactLayers
  <2>2. CASE j # 0
    <3>1. j \in 1 .. n /\ j - 1 \in 0 .. n
      BY <2>2
    <3>2. AfterRide(tt, e[j - 1]) \in Arrivals
      BY <1>1, <3>1, AfterRideFacts
    <3>3. e[j] = AfterWalk(tt, AfterRide(tt, e[j - 1]))
      BY <3>1 DEF ExactLayers
    <3> QED
      BY <1>6, <3>2, <3>3, OneWalkIsEnough
  <2> QED
    BY <2>1, <2>2
<1> QED
  BY <1>2, <1>5, <1>6

-----------------------------------------------------------------------------
(* The inductive invariant of exactness.  The finished layers are exact.   *)
(* While routes are scanned the layer written is not earlier than one      *)
(* more ride allows, and every ride that would improve it still waits in   *)
(* the queue.  While stops are walked from it lies between what the ride   *)
(* and what the walk after it allows, and every walk still to be taken     *)
(* leaves from a stop in the list.                                         *)
Exact == AtMost(tt, max_rounds, Last(asked)[1], Last(asked)[2])
Ridden == AfterRide(tt, Exact[k - 1])

Waiting(r, a) == queue_pos[r] # NOT_QUEUED /\ queue_pos[r] <= a
ScanInv ==
  /\ \A p \in Stop : Ridden[p] <= tau[k][p]
  /\ \A r \in Route : \A m \in DOMAIN tt.routes[r].trips, a \in DOMAIN tt.routes[r].stops :
       \A b \in a + 1 .. Len(tt.routes[r].stops) :
         Ready(Exact[k - 1], r, a, m)
           => \/ Waiting(r, a)
              \/ tau[k][tt.routes[r].stops[b]] <= tt.routes[r].trips[m][b].arrival
WalkInv ==
  /\ \A p \in Stop : Exact[k][p] <= tau[k][p] /\ tau[k][p] <= Ridden[p]
  /\ \A u \in Stop : \A w \in Range(tt.transfers[u]) :
       u \in Range(walkers) \/ tau[k][w.destination] <= Ridden[u] + w.travel_time
ExactInv ==
  /\ Closed
  /\ phase # "idle" => asked # << >> /\ rounds = k - 1
  /\ asked # << >> => \A j \in 0 .. rounds : tau[j] = Exact[j]
  /\ phase = "scan" => ScanInv
  /\ phase = "walk" => WalkInv

LEMMA ExactContext ==
  ASSUME Scratch, asked # << >>
  PROVE  /\ Timetabled /\ max_rounds \in Nat
         /\ \A j \in 0 .. max_rounds : Exact[j] \in Arrivals
         /\ \A j \in 0 .. max_rounds : \A p \in Stop :
              Exact[j][p] \in Nat /\ Exact[j][p] <= UINT32_MAX
         /\ \A j \in 0 .. max_rounds : \A i \in 0 .. j : \A p \in Stop :
              Exact[j][p] <= Exact[i][p]
         /\ Closed => \A j \in 0 .. max_rounds : WalkedOut(Exact[j])
         /\ \A j \in 1 .. max_rounds : Exact[j] = AfterWalk(tt, AfterRide(tt, Exact[j - 1]))
<1>1. Timetabled /\ max_rounds \in Nat
  BY TimetableOK, SizeAssumption DEF Scratch
<1>2. Last(asked) \in Stop \X Departures
  <2>1. asked \in Seq(Stop \X Departures)
    BY DEF Scratch, TypeOK
  <2> QED
    BY <2>1 DEF Last
<1>3. PICK s \in Stop, t \in Departures : Last(asked) = << s, t >>
  BY <1>2
<1>4. t \in Times
  BY DeparturesAssumption DEF Times
<1>5. Exact = AtMost(tt, max_rounds, s, t)
  BY <1>3 DEF Exact
<1> HIDE DEF Exact
<1>6. ExactLayers(Exact, max_rounds, s, t)
  BY <1>1, <1>4, <1>5, AtMostFacts
<1>7. /\ \A j \in 0 .. max_rounds : Exact[j] \in Arrivals
      /\ \A j \in 1 .. max_rounds : Exact[j] = AfterWalk(tt, AfterRide(tt, Exact[j - 1]))
  BY <1>6 DEF ExactLayers
<1>8. /\ \A j \in 0 .. max_rounds : \A p \in Stop :
           Exact[j][p] \in Nat /\ Exact[j][p] <= UINT32_MAX
      /\ \A j \in 0 .. max_rounds : \A i \in 0 .. j : \A p \in Stop :
           Exact[j][p] <= Exact[i][p]
      /\ Closed => \A j \in 0 .. max_rounds : WalkedOut(Exact[j])
  BY <1>1, <1>4, <1>6, ExactFacts
<1> QED
  BY <1>1, <1>7, <1>8

LEMMA RiddenFacts ==
  ASSUME Scratch, ExactInv, phase # "idle"
  PROVE  /\ Timetabled /\ k \in 1 .. max_rounds /\ tau[k - 1] = Exact[k - 1]
         /\ \A p \in Stop : /\ Ridden[p] \in Nat /\ tau[k][p] \in Nat
                            /\ Exact[k][p] \in Nat /\ Exact[k - 1][p] \in Nat
         /\ \A p \in Stop : Ridden[p] <= Exact[k - 1][p] /\ Exact[k][p] <= Ridden[p]
         /\ \A p \in Stop : \A x : RideTo(Exact[k - 1], p, x) => Ridden[p] <= x
         /\ \A p \in Stop : Ridden[p] = Exact[k - 1][p] \/ RideTo(Exact[k - 1], p, Ridden[p])
         /\ \A p \in Stop : Exact[k][p] = Ridden[p] \/ WalkTo(Ridden, p, Exact[k][p])
         /\ WalkedOut(Exact[k]) /\ WalkedOut(Exact[k - 1])
<1>1. /\ k \in 1 .. max_rounds /\ k - 1 \in 0 .. max_rounds /\ k \in 0 .. max_rounds
      /\ tau[k] \in Arrivals
  BY InRound DEF Scratch, TypeOK
<1>2. asked # << >> /\ rounds = k - 1 /\ Closed /\ \A j \in 0 .. rounds : tau[j] = Exact[j]
  BY DEF ExactInv
<1> HIDE DEF Exact
<1>3. /\ Timetabled
      /\ Exact[k - 1] \in Arrivals /\ Exact[k] = AfterWalk(tt, Ridden)
      /\ \A p \in Stop : Exact[k][p] \in Nat /\ Exact[k - 1][p] \in Nat
      /\ WalkedOut(Exact[k]) /\ WalkedOut(Exact[k - 1])
  BY <1>1, <1>2, ExactContext DEF Ridden
<1>4. /\ Ridden \in Arrivals
      /\ \A p \in Stop : Ridden[p] <= Exact[k - 1][p]
      /\ \A p \in Stop : \A x : RideTo(Exact[k - 1], p, x) => Ridden[p] <= x
      /\ \A p \in Stop : Ridden[p] = Exact[k - 1][p] \/ RideTo(Exact[k - 1], p, Ridden[p])
  BY <1>3, AfterRideFacts DEF Ridden
<1>5. /\ \A p \in Stop : Exact[k][p] <= Ridden[p]
      /\ \A p \in Stop : Exact[k][p] = Ridden[p] \/ WalkTo(Ridden, p, Exact[k][p])
  BY <1>3, <1>4, AfterWalkFacts
<1>6. \A p \in Stop : Ridden[p] \in Nat /\ tau[k][p] \in Nat
  BY <1>1, <1>4, LayerTimes, DeparturesAssumption
<1>7. tau[k - 1] = Exact[k - 1]
  BY <1>1, <1>2
<1> QED
  BY <1>1, <1>3, <1>4, <1>5, <1>6, <1>7

(* The walks out of the source give the exact layer of no trip.            *)
LEMMA SourceExact ==
  ASSUME Timetabled, NEW s \in Stop, NEW t \in Departures
  PROVE  LET c == [cur |-> [Unreached EXCEPT ![s] = t], marked |-> {s}, list |-> << s >>]
         IN  Walked(c, s, t).cur = AfterWalk(tt, OnlyAt(s, t))
<1> DEFINE c == [cur |-> [Unreached EXCEPT ![s] = t], marked |-> {s}, list |-> << s >>]
           d == Walked(c, s, t)
           only == OnlyAt(s, t)
           y == AfterWalk(tt, only)
<1>1. c \in LayerType /\ t \in Nat /\ t \in Times
  BY SourceFacts, DeparturesAssumption DEF Times
<1>2. only \in Arrivals /\ only[s] = t /\ \A p \in Stop \ {s} : only[p] = UINT32_MAX
  BY <1>1 DEF OnlyAt, Arrivals, Times, Timetabled
<1>3. \A p \in Stop : c.cur[p] = only[p]
  <2>1. c.cur[s] = t /\ \A p \in Stop \ {s} : c.cur[p] = UINT32_MAX
    BY SourceFacts
  <2> HIDE DEF c, only
  <2> QED
    BY <1>2, <2>1
<1> HIDE DEF c, only
<1>4. /\ d \in LayerType
      /\ \A q \in Stop : d.cur[q] <= c.cur[q]
      /\ \A j \in 1 .. Len(tt.transfers[s]) :
           d.cur[tt.transfers[s][j].destination] <= t + tt.transfers[s][j].travel_time
      /\ \A q \in Stop : \/ d.cur[q] = c.cur[q]
                         \/ \E w \in Range(tt.transfers[s]) : /\ w.destination = q
                                                              /\ d.cur[q] = t + w.travel_time
  BY <1>1, WalkedFacts DEF WalkedUpTo
<1> HIDE DEF d
<1>5. \A w \in Range(tt.transfers[s]) : d.cur[w.destination] <= t + w.travel_time
  <2>1. tt.transfers[s] \in Seq(TransferEdge)
    BY TransfersOut
  <2> QED
    BY <1>4, <2>1 DEF Range
<1>6. /\ y \in Arrivals
      /\ \A v \in Stop : y[v] <= only[v]
      /\ \A u \in Stop : \A w \in Range(tt.transfers[u]) :
           y[w.destination] <= only[u] + w.travel_time
      /\ \A v \in Stop : y[v] = only[v] \/ WalkTo(only, v, y[v])
  BY <1>2, AfterWalkFacts
<1> HIDE DEF y
<1>7. \A q \in Stop : /\ d.cur[q] \in Nat /\ y[q] \in Nat /\ only[q] \in Nat
                      /\ d.cur[q] <= UINT32_MAX /\ UINT32_MAX \in Nat
  BY <1>2, <1>4, <1>6, LayerTimes DEF Timetabled
<1>8. ASSUME NEW q \in Stop  PROVE  d.cur[q] = y[q]
  <2>1. y[q] <= d.cur[q]
    <3>1. CASE d.cur[q] = c.cur[q]
      BY <1>3, <1>6, <3>1
    <3>2. CASE \E w \in Range(tt.transfers[s]) : w.destination = q /\ d.cur[q] = t + w.travel_time
      BY <1>2, <1>6, <3>2
    <3> QED
      BY <1>4, <3>1, <3>2
  <2>2. d.cur[q] <= y[q]
    <3>1. CASE y[q] = only[q]
      BY <1>3, <1>4, <3>1
    <3>2. CASE WalkTo(only, q, y[q])
      <4>1. PICK u \in Stop : \E w \in Range(tt.transfers[u]) :
              w.destination = q /\ y[q] = only[u] + w.travel_time
        BY <3>2 DEF WalkTo
      <4>2. PICK w \in Range(tt.transfers[u]) :
              w.destination = q /\ y[q] = only[u] + w.travel_time
        BY <4>1
      <4>3. PICK time \in Nat : time = w.travel_time
        BY TransfersOut
      <4>4. CASE u = s
        BY <1>2, <1>5, <4>2, <4>4
      <4>5. CASE u # s
        <5>1. only[u] = UINT32_MAX
          BY <1>2, <4>5
        <5>2. y[q] = UINT32_MAX + time
          BY <4>2, <4>3, <5>1
        <5> QED
          BY <1>7, <5>2
      <4> QED
        BY <4>4, <4>5
    <3> QED
      BY <1>6, <3>1, <3>2
  <2> QED
    BY <1>7, <2>1, <2>2
<1>9. d.cur = y
  <2>1. d.cur \in [Stop -> Times] /\ y \in [Stop -> Times]
    BY <1>4, <1>6 DEF LayerType, Arrivals
  <2> QED
    BY <1>8, <2>1
<1> QED
  BY <1>9 DEF c, d, y, only

LEMMA ExactStartQuery ==
  ASSUME Scratch, ExactInv, StartQuery, Scratch'  PROVE  ExactInv'
<1>1. PICK s \in Stop, t \in Departures :
        LET c == Walked([cur |-> [Unreached EXCEPT ![s] = t],
                         marked |-> marked \cup {s}, list |-> << s >>], s, t)
        IN  /\ tau' = [j \in 0 .. max_rounds |-> IF j = 0 THEN c.cur ELSE Unreached]
            /\ marked' = c.marked /\ marked_list' = c.list
            /\ asked' = Append(asked, << s, t >>)
  BY DEF StartQuery
<1>2. marked = {} /\ Timetabled /\ asked \in Seq(Stop \X Departures)
  BY TimetableOK DEF StartQuery, Scratch, MarksInv, TypeOK
<1>3. /\ phase' = "round" /\ k' = 1 /\ rounds' = 0 /\ tt' = tt
  BY DEF StartQuery
<1>4. asked' # << >> /\ Last(asked') = << s, t >>
  <2>1. asked' = Append(asked, << s, t >>) /\ << s, t >> \in Stop \X Departures
    BY <1>1
  <2> QED
    BY <1>2, <2>1 DEF Last
<1>5. Exact' = AtMost(tt, max_rounds, s, t)
  BY <1>3, <1>4 DEF Exact
<1>6. ExactLayers(Exact', max_rounds, s, t)
  <2>1. t \in Times /\ max_rounds \in Nat
    BY DeparturesAssumption, SizeAssumption DEF Times
  <2> QED
    BY <1>2, <1>5, <2>1, AtMostFacts
<1> HIDE DEF Exact
<1>7. tau'[0] = Exact'[0]
  <2>1. Exact'[0] = AfterWalk(tt, OnlyAt(s, t))
    BY <1>6 DEF ExactLayers
  <2> DEFINE c == [cur |-> [Unreached EXCEPT ![s] = t], marked |-> {s}, list |-> << s >>]
  <2>2. tau' = [j \in 0 .. max_rounds |-> IF j = 0 THEN Walked(c, s, t).cur ELSE Unreached]
    BY <1>1, <1>2
  <2>3. Walked(c, s, t).cur = AfterWalk(tt, OnlyAt(s, t))
    BY <1>2, SourceExact
  <2> HIDE DEF c
  <2>4. 0 \in 0 .. max_rounds
    BY SizeAssumption
  <2> QED
    BY <2>1, <2>2, <2>3, <2>4
<1>8. Closed'
  BY <1>3 DEF ExactInv, Closed
<1> QED
  BY <1>3, <1>4, <1>7, <1>8 DEF ExactInv

(* A stop the last round did not improve has nothing to add: a ride from   *)
(* it was open a round ago.                                                *)
LEMMA UnmarkedAddsNothing ==
  ASSUME Scratch, ExactInv, phase = "round", NEW r \in Route,
         NEW m \in DOMAIN tt.routes[r].trips, NEW a \in DOMAIN tt.routes[r].stops,
         NEW b \in a + 1 .. Len(tt.routes[r].stops),
         Ready(Exact[k - 1], r, a, m), tt.routes[r].stops[a] \notin marked
  PROVE  Exact[k - 1][tt.routes[r].stops[b]] <= tt.routes[r].trips[m][b].arrival
<1> DEFINE u == tt.routes[r].stops[a]
           v == tt.routes[r].stops[b]
           x == tt.routes[r].trips[m][b].arrival
<1>1. /\ Timetabled /\ k \in 1 .. max_rounds /\ tau[k - 1] = Exact[k - 1]
      /\ max_rounds \in Nat
  BY RiddenFacts, SizeAssumption
<1>2. /\ b \in DOMAIN tt.routes[r].stops /\ a \in 1 .. b - 1
      /\ u \in Stop /\ v \in Stop /\ x \in Nat
  <2>1. PICK n \in Nat : n = Len(tt.routes[r].stops) /\ DOMAIN tt.routes[r].stops = 1 .. n
    BY <1>1, RouteFacts
  <2>2. a \in 1 .. n /\ b \in 1 .. n /\ a \in 1 .. b - 1
    BY <2>1
  <2>3. \A i \in DOMAIN tt.routes[r].stops : tt.routes[r].stops[i] \in Stop
    BY <1>1, RouteFacts
  <2>4. \A i \in DOMAIN tt.routes[r].stops : tt.routes[r].trips[m][i].arrival \in Nat
    BY <1>1, RouteFacts
  <2> QED
    BY <2>1, <2>2, <2>3, <2>4
<1>3. /\ asked # << >> /\ Closed /\ rounds = k - 1 /\ \A j \in 0 .. rounds : tau[j] = Exact[j]
  BY DEF ExactInv
<1>4. /\ \A p \in Stop : tau[k - 1][p] <= Before[p]
      /\ marked = {p \in Stop : tau[k - 1][p] < Before[p]}
  <2>1. MarksOK([cur |-> tau[k - 1], marked |-> marked, list |-> marked_list], Before)
    BY DEF Scratch, MarksInv, Written
  <2> QED
    BY <2>1 DEF MarksOK
<1>5. \A p \in Stop : Exact[k - 1][p] \in Nat /\ Exact[k - 1][p] <= UINT32_MAX
  BY <1>1, <1>3, ExactContext
<1> HIDE DEF Exact
<1>6. Exact[k - 1][u] # UINT32_MAX
  BY DEF Ready
<1>7. CASE k = 1
  <2>1. Before[u] = UINT32_MAX
    BY <1>2, <1>7 DEF Before, Written, Unreached, RAPTOR_UNREACHED
  <2> HIDE DEF u
  <2>2. ~ (tau[k - 1][u] < Before[u])
    BY <1>2, <1>4 DEF u
  <2>3. Exact[k - 1][u] < UINT32_MAX
    BY <1>1, <1>2, <1>5, <1>6 DEF Timetabled
  <2> QED
    BY <1>1, <2>1, <2>2, <2>3
<1>8. CASE k # 1
  <2>1. k - 1 \in 1 .. max_rounds /\ (k - 1) - 1 \in 0 .. rounds /\ k - 2 \in 0 .. max_rounds
        /\ (k - 1) - 1 = k - 2 /\ k - 1 # 0
    BY <1>1, <1>3, <1>8
  <2>2. Before = Exact[k - 2]
    BY <1>3, <2>1 DEF Before, Written
  <2> DEFINE old == Exact[k - 2]
             now == Exact[k - 1]
  <2>3. /\ old \in Arrivals /\ \A p \in Stop : old[p] \in Nat
        /\ now = AfterWalk(tt, AfterRide(tt, old))
    BY <1>3, <2>1, ExactContext
  <2>4. now[u] = old[u]
    <3>1. now[u] <= old[u] /\ ~ (now[u] < old[u])
      BY <1>1, <1>2, <1>4, <2>2
    <3> HIDE DEF u, now, old
    <3> QED
      BY <1>2, <1>5, <2>3, <3>1 DEF now
  <2>5. RideTo(old, v, x)
    <3>1. Ready(old, r, a, m)
      BY <2>4 DEF Ready
    <3> HIDE DEF old
    <3> QED
      BY <1>2, <3>1 DEF RideTo
  <2> DEFINE y == AfterRide(tt, old)
  <2> HIDE DEF old, now
  <2>6. y \in Arrivals /\ y[v] <= x
    BY <1>1, <1>2, <2>3, <2>5, AfterRideFacts
  <2> HIDE DEF y
  <2>7. now[v] <= y[v] /\ now \in Arrivals
    BY <1>1, <1>2, <2>3, <2>6, AfterWalkFacts DEF y
  <2>8. now[v] \in Nat /\ y[v] \in Nat
    BY <1>1, <1>2, <2>6, <2>7, LayerTimes DEF Timetabled
  <2>9. now[v] <= x
    <3> HIDE DEF v, x
    <3> QED
      BY <1>2, <2>6, <2>7, <2>8
  <2> QED
    BY <2>9 DEF now
<1> QED
  BY <1>7, <1>8

LEMMA ExactBeginRound ==
  ASSUME Scratch, ExactInv, BeginRound, Scratch'  PROVE  ExactInv'
<1> DEFINE q0 == [pos |-> queue_pos, list |-> << >>]
           q == FoldLeft(QueuedFrom, q0, marked_list)
<1>1. /\ phase = "round" /\ phase' = "scan" /\ TypeOK
      /\ tau' = [tau EXCEPT ![k] = tau[k - 1]] /\ queue_pos' = q.pos
      /\ UNCHANGED << tt, rounds, hit_round_cap, k, walkers, asked >>
  BY DEF BeginRound, Scratch
<1>2. /\ Timetabled /\ k \in 1 .. max_rounds /\ tau[k - 1] = Exact[k - 1]
      /\ \A p \in Stop : /\ Ridden[p] \in Nat /\ tau[k][p] \in Nat
                         /\ Exact[k][p] \in Nat /\ Exact[k - 1][p] \in Nat
      /\ \A p \in Stop : Ridden[p] <= Exact[k - 1][p]
  BY <1>1, RiddenFacts
<1>3. rounds = k - 1 /\ asked # << >> /\ Closed /\ \A j \in 0 .. rounds : tau[j] = Exact[j]
  BY <1>1 DEF ExactInv
<1>4. Exact' = Exact /\ Ridden' = Ridden /\ Closed'
  BY <1>1, <1>3 DEF Exact, Ridden, Closed
<1> HIDE DEF Exact
<1>5. tau'[k] = Exact[k - 1] /\ \A j \in 0 .. rounds : tau'[j] = tau[j]
  <2>1. k \in 0 .. max_rounds /\ k \notin 0 .. rounds /\ 0 .. rounds \subseteq 0 .. max_rounds
    BY <1>2, <1>3, SizeAssumption
  <2>2. tau \in [0 .. max_rounds -> Arrivals]
    BY <1>1 DEF TypeOK
  <2> QED
    BY <1>1, <1>2, <2>1, <2>2
<1>6. \A p \in marked : \A r \in Route : Queues(q, p, r)
  <2>1. q0 \in QueueType /\ marked_list \in Seq(Stop)
    BY <1>1 DEF TypeOK, QueueType
  <2>2. Range(marked_list) = marked
    BY <1>1 DEF Scratch, MarksInv, MarksOK
  <2> HIDE DEF q0
  <2> QED
    BY <1>2, <2>1, <2>2, QueueFacts
<1> HIDE DEF q
<1>7. ASSUME NEW r \in Route, NEW m \in DOMAIN tt.routes[r].trips,
             NEW a \in DOMAIN tt.routes[r].stops,
             NEW b \in a + 1 .. Len(tt.routes[r].stops), Ready(Exact[k - 1], r, a, m)
      PROVE  \/ queue_pos'[r] # NOT_QUEUED /\ queue_pos'[r] <= a
             \/ tau'[k][tt.routes[r].stops[b]] <= tt.routes[r].trips[m][b].arrival
  <2>1. CASE tt.routes[r].stops[a] \in marked
    <3>1. a \in 1 .. Len(tt.routes[r].stops)
      BY <1>2, RouteFacts, SMTT(30)
    <3>2. Queues(q, tt.routes[r].stops[a], r)
      BY <1>6, <2>1
    <3> QED
      BY <1>1, <3>1, <3>2 DEF Queues, QueuesUpTo
  <2>2. CASE tt.routes[r].stops[a] \notin marked
    BY <1>1, <1>5, <1>7, <2>2, UnmarkedAddsNothing
  <2> QED
    BY <2>1, <2>2
<1>8. ScanInv'
  BY <1>1, <1>2, <1>4, <1>5, <1>7, SMTT(30) DEF ScanInv, Waiting, Ready, Route
<1> QED
  BY <1>1, <1>3, <1>4, <1>5, <1>8 DEF ExactInv

LEMMA ExactScanRoute ==
  ASSUME Scratch, ExactInv, ScanRoute, Scratch'  PROVE  ExactInv'
<1> DEFINE r0 == Head(queue_list)
           start == queue_pos[r0]
           c == Scanned(Layer, tau[k - 1], r0, start)
<1>1. /\ phase = "scan" /\ queue_list # << >> /\ TypeOK
      /\ tau' = [tau EXCEPT ![k] = c.cur]
      /\ queue_pos' = [queue_pos EXCEPT ![r0] = NOT_QUEUED]
      /\ UNCHANGED << tt, rounds, hit_round_cap, k, walkers, phase, asked >>
  BY DEF ScanRoute, Scratch
<1>2. /\ Timetabled /\ k \in 1 .. max_rounds /\ tau[k - 1] = Exact[k - 1]
      /\ \A p \in Stop : Ridden[p] \in Nat /\ tau[k][p] \in Nat
      /\ \A p \in Stop : \A x : RideTo(Exact[k - 1], p, x) => Ridden[p] <= x
  BY <1>1, RiddenFacts
<1>3. /\ rounds = k - 1 /\ asked # << >> /\ Closed /\ \A j \in 0 .. rounds : tau[j] = Exact[j]
      /\ ScanInv
  BY <1>1 DEF ExactInv
<1>4. Exact' = Exact /\ Ridden' = Ridden /\ Closed'
  BY <1>1, <1>3 DEF Exact, Ridden, Closed
<1> HIDE DEF Exact
<1>5. /\ r0 \in Route /\ start \in DOMAIN tt.routes[r0].stops
      /\ Layer \in LayerType /\ Layer.cur = tau[k] /\ tau[k - 1] \in Arrivals
  BY <1>1, InRound, HeadFacts DEF Layer
<1> HIDE DEF r0
<1>6. /\ c \in LayerType /\ ScanLayer(Layer, tau[k - 1], c)
      /\ ScanDone(tau[k - 1], r0, start, Len(tt.routes[r0].stops), Len(tt.routes[r0].stops), c)
  BY <1>2, <1>5, ScannedFacts
<1> HIDE DEF c
<1>7. tau'[k] = c.cur /\ \A j \in 0 .. rounds : tau'[j] = tau[j]
  <2>1. k \in 0 .. max_rounds /\ k \notin 0 .. rounds /\ 0 .. rounds \subseteq 0 .. max_rounds
    BY <1>2, <1>3, SizeAssumption
  <2>2. tau \in [0 .. max_rounds -> Arrivals]
    BY <1>1 DEF TypeOK
  <2> QED
    BY <1>1, <2>1, <2>2
<1>8. \A p \in Stop : c.cur[p] \in Nat /\ c.cur[p] <= tau[k][p]
  BY <1>2, <1>5, <1>6, LayerTimes DEF ScanLayer, Timetabled
<1>9. ASSUME NEW p \in Stop  PROVE  Ridden[p] <= c.cur[p]
  <2>1. c.cur[p] = tau[k][p] \/ RideTo(Exact[k - 1], p, c.cur[p])
    BY <1>2, <1>5, <1>6 DEF ScanLayer
  <2>2. Ridden[p] <= tau[k][p]
    BY <1>3 DEF ScanInv
  <2> QED
    BY <1>2, <2>1, <2>2
<1>10. ASSUME NEW r \in Route, NEW m \in DOMAIN tt.routes[r].trips,
              NEW a \in DOMAIN tt.routes[r].stops,
              NEW b \in a + 1 .. Len(tt.routes[r].stops), Ready(Exact[k - 1], r, a, m)
       PROVE  \/ queue_pos'[r] # NOT_QUEUED /\ queue_pos'[r] <= a
              \/ c.cur[tt.routes[r].stops[b]] <= tt.routes[r].trips[m][b].arrival
  <2> DEFINE v == tt.routes[r].stops[b]
             x == tt.routes[r].trips[m][b].arrival
  <2>1. PICK n \in Nat : n = Len(tt.routes[r].stops) /\ DOMAIN tt.routes[r].stops = 1 .. n
    BY <1>2, RouteFacts
  <2>2. b \in 1 .. n /\ a \in 1 .. n
    BY <2>1
  <2>3. v \in Stop /\ x \in Nat
    <3>1. \A i \in DOMAIN tt.routes[r].stops : tt.routes[r].stops[i] \in Stop
      BY <1>2, RouteFacts
    <3>2. \A i \in DOMAIN tt.routes[r].stops : tt.routes[r].trips[m][i].arrival \in Nat
      BY <1>2, RouteFacts
    <3> QED
      BY <2>1, <2>2, <3>1, <3>2
  <2>4. Waiting(r, a) \/ tau[k][v] <= x
    BY <1>3, <1>10 DEF ScanInv
  <2>5. CASE tau[k][v] <= x
    <3> HIDE DEF v, x
    <3>1. c.cur[v] <= x
      BY <1>2, <1>8, <2>3, <2>5
    <3> QED
      BY <3>1 DEF v, x
  <2>6. CASE Waiting(r, a) /\ r # r0
    <3>1. queue_pos'[r] = queue_pos[r]
      BY <1>1, <1>5, <2>6 DEF TypeOK
    <3> QED
      BY <2>6, <3>1 DEF Waiting
  <2>7. CASE Waiting(r, a) /\ r = r0
    <3>1. start \in 1 .. n /\ start <= a
      BY <1>5, <2>1, <2>7 DEF Waiting
    <3>2. a \in start .. n
      BY <2>2, <3>1
    <3> QED
      BY <1>2, <1>6, <1>10, <2>1, <2>7, <3>2 DEF ScanDone
  <2> QED
    BY <2>4, <2>5, <2>6, <2>7
<1>11. ScanInv'
  BY <1>1, <1>4, <1>7, <1>9, <1>10, SMTT(30) DEF ScanInv, Waiting, Ready, Route
<1> QED
  BY <1>1, <1>3, <1>4, <1>7, <1>11 DEF ExactInv

(* When the queue is empty the layer is what one more ride allows, so that *)
(* the walks begin from it.                                                *)
LEMMA ExactBeginWalks ==
  ASSUME Scratch, ExactInv, BeginWalks, Scratch'  PROVE  ExactInv'
<1>1. /\ phase = "scan" /\ queue_list = << >> /\ walkers' = marked_list /\ phase' = "walk"
      /\ UNCHANGED << tt, tau, rounds, hit_round_cap, k, marked, marked_list,
                      queue_pos, queue_list, asked >>
  BY DEF BeginWalks
<1>2. /\ Timetabled /\ k \in 1 .. max_rounds /\ tau[k - 1] = Exact[k - 1]
      /\ \A p \in Stop : /\ Ridden[p] \in Nat /\ tau[k][p] \in Nat
                         /\ Exact[k][p] \in Nat /\ Exact[k - 1][p] \in Nat
      /\ \A p \in Stop : Ridden[p] <= Exact[k - 1][p] /\ Exact[k][p] <= Ridden[p]
      /\ \A p \in Stop : Ridden[p] = Exact[k - 1][p] \/ RideTo(Exact[k - 1], p, Ridden[p])
      /\ WalkedOut(Exact[k - 1])
  BY <1>1, RiddenFacts
<1>3. /\ rounds = k - 1 /\ asked # << >> /\ Closed /\ \A j \in 0 .. rounds : tau[j] = Exact[j]
      /\ ScanInv
  BY <1>1 DEF ExactInv
<1>4. Exact' = Exact /\ Ridden' = Ridden /\ Closed'
  BY <1>1, <1>3 DEF Exact, Ridden, Closed
<1> HIDE DEF Exact
<1>5. /\ \A p \in Stop : tau[k][p] <= tau[k - 1][p]
      /\ marked = {p \in Stop : tau[k][p] < tau[k - 1][p]}
      /\ Range(marked_list) = marked
  <2>1. MarksOK(Layer, tau[k - 1])
    BY <1>1, InRound
  <2> QED
    BY <2>1 DEF MarksOK, Layer
<1>6. \A r \in Route : queue_pos[r] = NOT_QUEUED
  <2>1. QueueOK(Queue) /\ Queue.pos = queue_pos /\ Queue.list = << >>
    BY <1>1 DEF Scratch, QueueInv, Queue
  <2> QED
    BY <2>1 DEF QueueOK, Range
<1>7. ASSUME NEW p \in Stop  PROVE  tau[k][p] <= Ridden[p]
  <2>1. CASE Ridden[p] = Exact[k - 1][p]
    BY <1>2, <1>5, <2>1
  <2>2. CASE RideTo(Exact[k - 1], p, Ridden[p])
    <3>1. PICK r \in Route : \E m \in DOMAIN tt.routes[r].trips, b \in DOMAIN tt.routes[r].stops :
            /\ tt.routes[r].stops[b] = p
            /\ Ridden[p] = tt.routes[r].trips[m][b].arrival
            /\ \E a \in 1 .. b - 1 : Ready(Exact[k - 1], r, a, m)
      BY <2>2 DEF RideTo
    <3>2. PICK m \in DOMAIN tt.routes[r].trips, b \in DOMAIN tt.routes[r].stops :
            /\ tt.routes[r].stops[b] = p
            /\ Ridden[p] = tt.routes[r].trips[m][b].arrival
            /\ \E a \in 1 .. b - 1 : Ready(Exact[k - 1], r, a, m)
      BY <3>1
    <3>3. PICK a \in 1 .. b - 1 : Ready(Exact[k - 1], r, a, m)
      BY <3>2
    <3>4. a \in DOMAIN tt.routes[r].stops /\ b \in a + 1 .. Len(tt.routes[r].stops)
      <4>1. PICK n \in Nat : n = Len(tt.routes[r].stops) /\ DOMAIN tt.routes[r].stops = 1 .. n
        BY <1>2, RouteFacts
      <4>2. b \in 1 .. n
        BY <4>1
      <4>3. a \in 1 .. n /\ b \in a + 1 .. n
        BY <4>2
      <4> QED
        BY <4>1, <4>3
    <3>5. ~ Waiting(r, a)
      BY <1>6 DEF Waiting
    <3> QED
      BY <1>3, <3>2, <3>3, <3>4, <3>5 DEF ScanInv
  <2> QED
    BY <1>2, <2>1, <2>2
<1>8. ASSUME NEW p \in Stop  PROVE  Exact[k][p] <= tau[k][p]
  <2>1. Ridden[p] <= tau[k][p]
    BY <1>3 DEF ScanInv
  <2> QED
    BY <1>2, <2>1
<1>9. ASSUME NEW u \in Stop, NEW w \in Range(tt.transfers[u])
      PROVE  u \in Range(marked_list) \/ tau[k][w.destination] <= Ridden[u] + w.travel_time
  <2>1. PICK v \in Stop, time \in Nat : v = w.destination /\ time = w.travel_time
    BY <1>2, TransfersOut
  <2>2. ASSUME u \notin marked  PROVE  tau[k][v] <= Ridden[u] + time
    <3>1. Ridden[u] = Exact[k - 1][u]
      <4>1. ~ (tau[k][u] < tau[k - 1][u]) /\ tau[k][u] <= Ridden[u] /\ Ridden[u] <= Exact[k - 1][u]
        BY <1>2, <1>5, <1>7, <2>2
      <4> QED
        BY <1>2, <4>1
    <3>2. Exact[k - 1][v] <= Exact[k - 1][u] + time
      BY <1>2, <2>1 DEF WalkedOut
    <3>3. tau[k][v] <= Exact[k - 1][v]
      BY <1>2, <1>5
    <3> QED
      BY <1>2, <3>1, <3>2, <3>3
  <2> QED
    BY <1>5, <2>1, <2>2
<1>10. WalkInv'
  BY <1>1, <1>4, <1>7, <1>8, <1>9 DEF WalkInv
<1> QED
  BY <1>1, <1>3, <1>4, <1>10 DEF ExactInv

LEMMA ExactWalkFrom ==
  ASSUME Scratch, ExactInv, WalkFrom, Scratch'  PROVE  ExactInv'
<1> DEFINE p0 == Head(walkers)
           base == tau[k][p0]
           c == Walked(Layer, p0, base)
<1>1. /\ phase = "walk" /\ walkers # << >> /\ TypeOK
      /\ tau' = [tau EXCEPT ![k] = c.cur] /\ walkers' = Tail(walkers)
      /\ UNCHANGED << tt, rounds, hit_round_cap, k, queue_pos, queue_list, phase, asked >>
  BY DEF WalkFrom, Scratch
<1>2. /\ Timetabled /\ k \in 1 .. max_rounds
      /\ \A p \in Stop : /\ Ridden[p] \in Nat /\ tau[k][p] \in Nat /\ Exact[k][p] \in Nat
      /\ WalkedOut(Exact[k])
  BY <1>1, RiddenFacts
<1>3. /\ rounds = k - 1 /\ asked # << >> /\ Closed /\ \A j \in 0 .. rounds : tau[j] = Exact[j]
      /\ WalkInv
  BY <1>1 DEF ExactInv
<1>4. Exact' = Exact /\ Ridden' = Ridden /\ Closed'
  BY <1>1, <1>3 DEF Exact, Ridden, Closed
<1> HIDE DEF Exact
<1>5. /\ p0 \in Stop /\ Range(walkers) = {p0} \cup Range(Tail(walkers))
      /\ Layer \in LayerType /\ Layer.cur = tau[k]
  BY <1>1, InRound, HeadTailFacts DEF TypeOK, Layer
<1> HIDE DEF p0
<1>6. base \in Nat
  BY <1>2, <1>5
<1> DEFINE ts == tt.transfers[p0]
<1>7. /\ c \in LayerType
      /\ \A q \in Stop : c.cur[q] <= tau[k][q]
      /\ \A j \in 1 .. Len(ts) : c.cur[ts[j].destination] <= base + ts[j].travel_time
      /\ \A q \in Stop : \/ c.cur[q] = tau[k][q]
                         \/ \E w \in Range(ts) : /\ w.destination = q
                                                 /\ c.cur[q] = base + w.travel_time
  <2>1. c \in LayerType /\ WalkedUpTo(Layer, p0, base, Len(ts), c)
    <3> HIDE DEF base
    <3> QED
      BY <1>2, <1>5, <1>6, WalkedFacts
  <2> HIDE DEF base, c
  <2> QED
    BY <1>5, <2>1 DEF WalkedUpTo
<1> HIDE DEF c
<1>8. tau'[k] = c.cur /\ \A j \in 0 .. rounds : tau'[j] = tau[j]
  <2>1. k \in 0 .. max_rounds /\ k \notin 0 .. rounds /\ 0 .. rounds \subseteq 0 .. max_rounds
    BY <1>2, <1>3, SizeAssumption
  <2>2. tau \in [0 .. max_rounds -> Arrivals]
    BY <1>1 DEF TypeOK
  <2> QED
    BY <1>1, <2>1, <2>2
<1>9. \A p \in Stop : c.cur[p] \in Nat
  BY <1>2, <1>7, LayerTimes DEF Timetabled
<1>10. ASSUME NEW w \in Range(ts)  PROVE  c.cur[w.destination] <= base + w.travel_time
  <2>1. ts \in Seq(TransferEdge)
    BY <1>2, <1>5, TransfersOut
  <2> HIDE DEF ts
  <2> QED
    BY <1>7, <2>1 DEF Range
<1>11. \A p \in Stop : Exact[k][p] <= tau[k][p] /\ tau[k][p] <= Ridden[p]
  BY <1>3 DEF WalkInv
<1>12. ASSUME NEW p \in Stop  PROVE  Exact[k][p] <= c.cur[p] /\ c.cur[p] <= Ridden[p]
  <2>1. CASE c.cur[p] = tau[k][p]
    BY <1>11, <2>1
  <2>2. CASE \E w \in Range(ts) : w.destination = p /\ c.cur[p] = base + w.travel_time
    <3>1. PICK w \in Range(ts) : w.destination = p /\ c.cur[p] = base + w.travel_time
      BY <2>2
    <3>2. PICK time \in Nat : time = w.travel_time
      BY <1>2, <1>5, TransfersOut
    <3>3. Exact[k][p] <= Exact[k][p0] + time
      BY <1>2, <1>5, <3>1, <3>2 DEF WalkedOut
    <3>4. Exact[k][p0] <= base
      BY <1>5, <1>11
    <3>5. Exact[k][p] <= c.cur[p]
      <4>1. c.cur[p] = base + time /\ Exact[k][p] \in Nat /\ Exact[k][p0] \in Nat
        BY <1>2, <1>5, <3>1, <3>2
      <4> HIDE DEF base
      <4> QED
        BY <1>6, <3>3, <3>4, <4>1
    <3>6. c.cur[p] <= Ridden[p]
      BY <1>2, <1>7, <1>9, <1>11
    <3> QED
      BY <3>5, <3>6
  <2> QED
    BY <1>7, <2>1, <2>2
<1>13. ASSUME NEW u \in Stop, NEW w \in Range(tt.transfers[u])
       PROVE  \/ u \in Range(Tail(walkers))
              \/ c.cur[w.destination] <= Ridden[u] + w.travel_time
  <2>1. PICK v \in Stop, time \in Nat : v = w.destination /\ time = w.travel_time
    BY <1>2, TransfersOut
  <2>2. u \in Range(walkers) \/ tau[k][v] <= Ridden[u] + time
    BY <1>3, <2>1 DEF WalkInv
  <2>3. CASE tau[k][v] <= Ridden[u] + time
    <3>1. c.cur[v] <= Ridden[u] + time
      BY <1>2, <1>7, <1>9, <2>3
    <3> QED
      BY <2>1, <3>1
  <2>4. CASE u = p0
    <3>1. c.cur[v] <= base + time /\ base <= Ridden[u]
      BY <1>10, <1>11, <2>1, <2>4
    <3>2. c.cur[v] <= Ridden[u] + time
      <4> HIDE DEF base
      <4> QED
        BY <1>2, <1>6, <1>9, <3>1
    <3> QED
      BY <2>1, <3>2
  <2> QED
    BY <1>5, <2>2, <2>3, <2>4
<1>14. WalkInv'
  BY <1>1, <1>4, <1>8, <1>12, <1>13 DEF WalkInv
<1> QED
  BY <1>1, <1>3, <1>4, <1>8, <1>14 DEF ExactInv

(* With no stop left to walk from the layer is exact.                      *)
LEMMA LayerDone ==
  ASSUME Scratch, ExactInv, phase = "walk", walkers = << >>
  PROVE  tau[k] = Exact[k]
<1>1. TypeOK
  BY DEF Scratch
<1>2. /\ Timetabled /\ k \in 1 .. max_rounds
      /\ \A p \in Stop : /\ Ridden[p] \in Nat /\ tau[k][p] \in Nat /\ Exact[k][p] \in Nat
      /\ \A p \in Stop : Exact[k][p] = Ridden[p] \/ WalkTo(Ridden, p, Exact[k][p])
  BY RiddenFacts
<1>3. asked # << >> /\ WalkInv
  BY DEF ExactInv
<1>4. Exact[k] \in Arrivals /\ tau[k] \in Arrivals
  <2>1. k \in 0 .. max_rounds
    BY <1>2
  <2> QED
    BY <1>1, <1>3, <2>1, ExactContext DEF TypeOK
<1> HIDE DEF Exact
<1>5. ASSUME NEW p \in Stop  PROVE  tau[k][p] = Exact[k][p]
  <2>1. Exact[k][p] <= tau[k][p] /\ tau[k][p] <= Ridden[p]
    BY <1>3 DEF WalkInv
  <2>2. CASE Exact[k][p] = Ridden[p]
    BY <1>2, <2>1, <2>2
  <2>3. CASE WalkTo(Ridden, p, Exact[k][p])
    <3>1. PICK u \in Stop : \E w \in Range(tt.transfers[u]) :
            w.destination = p /\ Exact[k][p] = Ridden[u] + w.travel_time
      BY <2>3 DEF WalkTo
    <3>2. PICK w \in Range(tt.transfers[u]) :
            w.destination = p /\ Exact[k][p] = Ridden[u] + w.travel_time
      BY <3>1
    <3>3. Range(walkers) = {}
      BY DEF Range
    <3>4. tau[k][w.destination] <= Ridden[u] + w.travel_time
      BY <1>3, <3>3 DEF WalkInv
    <3>5. tau[k][p] <= Exact[k][p]
      BY <3>2, <3>4
    <3> QED
      BY <1>2, <2>1, <3>5
  <2> QED
    BY <1>2, <2>2, <2>3
<1> QED
  BY <1>4, <1>5 DEF Arrivals

LEMMA ExactEndRound ==
  ASSUME Scratch, ExactInv, EndRound, Scratch'  PROVE  ExactInv'
<1>1. /\ phase = "walk" /\ walkers = << >> /\ TypeOK
      /\ UNCHANGED << tt, tau, queue_pos, queue_list, walkers, asked >>
  BY DEF EndRound, Scratch
<1>2. k \in 1 .. max_rounds /\ tau[k] = Exact[k]
  BY <1>1, InRound, LayerDone
<1>3. /\ rounds = k - 1 /\ asked # << >> /\ Closed /\ \A j \in 0 .. rounds : tau[j] = Exact[j]
  BY <1>1 DEF ExactInv
<1>4. Exact' = Exact /\ Closed'
  BY <1>1, <1>3 DEF Exact, Closed
<1> HIDE DEF Exact
<1>5. ASSUME NEW j \in 0 .. k  PROVE  tau[j] = Exact[j]
  <2>1. j = k \/ j \in 0 .. rounds
    BY <1>2, <1>3
  <2> QED
    BY <1>2, <1>3, <2>1
<1>6. CASE EndQuery /\ rounds' \in {rounds, k}
  <2>1. phase' = "idle"
    BY <1>6 DEF EndQuery
  <2>2. \A j \in 0 .. rounds' : tau'[j] = Exact'[j]
    BY <1>1, <1>3, <1>4, <1>5, <1>6
  <2> QED
    BY <1>4, <2>1, <2>2 DEF ExactInv
<1>7. CASE rounds' = k /\ k' = k + 1 /\ phase' = "round"
  <2>1. rounds' = k' - 1 /\ asked' # << >>
    BY <1>1, <1>2, <1>3, <1>7
  <2>2. \A j \in 0 .. rounds' : tau'[j] = Exact'[j]
    BY <1>1, <1>4, <1>5, <1>7
  <2> QED
    BY <1>4, <1>7, <2>1, <2>2 DEF ExactInv
<1> QED
  BY <1>6, <1>7 DEF EndRound

LEMMA ExactStep ==
  ASSUME Scratch, ExactInv, [Next]_vars, Scratch'  PROVE  ExactInv'
<1>1. CASE StartQuery
  BY <1>1, ExactStartQuery
<1>2. CASE BeginRound
  BY <1>2, ExactBeginRound
<1>3. CASE ScanRoute
  BY <1>3, ExactScanRoute
<1>4. CASE BeginWalks
  BY <1>4, ExactBeginWalks
<1>5. CASE WalkFrom
  BY <1>5, ExactWalkFrom
<1>6. CASE EndRound
  BY <1>6, ExactEndRound
<1>7. CASE UNCHANGED vars
  <2>1. Exact' = Exact /\ Ridden' = Ridden /\ Route' = Route
    BY <1>7 DEF vars, Exact, Ridden, Route
  <2>2. ScanInv' <=> ScanInv
    BY <1>7, <2>1 DEF vars, ScanInv, Waiting, Ready
  <2>3. WalkInv' <=> WalkInv
    BY <1>7, <2>1 DEF vars, WalkInv
  <2> QED
    BY <1>7, <2>1, <2>2, <2>3 DEF vars, ExactInv, Closed
<1> QED
  BY <1>1, <1>2, <1>3, <1>4, <1>5, <1>6, <1>7 DEF Next, Search

(* Where the footpaths are closed, no query of run leaves the invariant of *)
(* exactness.                                                              *)
THEOREM RaptorExact == Spec /\ Closed => [](Scratch /\ ExactInv)
<1>1. Init /\ Closed => ExactInv
  BY DEF Init, Fresh, ExactInv
<1> QED
  BY <1>1, ScratchInit, ScratchStep, ExactStep, PTL DEF Spec

(* The rounds at which an arrival strictly improves are those that beat    *)
(* every round before.                                                     *)
LEMMA ImprovingRounds ==
  ASSUME Scratch, ExactInv, phase = "idle", asked # << >>, NEW p \in Stop
  PROVE  frontier_size(p) = Cardinality({j \in 0 .. rounds :
                              /\ Exact[j][p] # UINT32_MAX
                              /\ \A i \in 0 .. j - 1 : Exact[i][p] > Exact[j][p]})
<1>1. /\ max_rounds \in Nat /\ rounds \in 0 .. max_rounds
      /\ \A j \in 0 .. rounds : tau[j] = Exact[j]
  BY SizeAssumption DEF Scratch, TypeOK, ExactInv
<1>2. /\ \A j \in 0 .. max_rounds : Exact[j][p] \in Nat
      /\ \A j \in 0 .. max_rounds : \A i \in 0 .. j : Exact[j][p] <= Exact[i][p]
  BY ExactContext
<1> HIDE DEF Exact
<1>3. ASSUME NEW j \in 0 .. rounds
      PROVE  (j > 0 => tau[j][p] # tau[j - 1][p])
               <=> \A i \in 0 .. j - 1 : Exact[i][p] > Exact[j][p]
  <2>1. j \in 0 .. max_rounds /\ tau[j] = Exact[j]
    BY <1>1
  <2>2. CASE j = 0
    BY <2>2
  <2>3. CASE j # 0
    <3>1. j - 1 \in 0 .. j /\ j - 1 \in 0 .. rounds /\ j - 1 \in 0 .. max_rounds /\ j - 1 \in 0 .. j - 1
      BY <1>1, <2>3
    <3>2. tau[j - 1] = Exact[j - 1]
      BY <1>1, <3>1
    <3>3. Exact[j][p] <= Exact[j - 1][p]
      BY <1>2, <2>1, <3>1
    <3>4. ASSUME NEW i \in 0 .. j - 1
          PROVE  Exact[j - 1][p] <= Exact[i][p] /\ i \in 0 .. max_rounds
      BY <1>1, <1>2, <3>1, <3>4
    <3>5. ASSUME Exact[j - 1][p] # Exact[j][p], NEW i \in 0 .. j - 1
          PROVE  Exact[i][p] > Exact[j][p]
      <4>1. Exact[j - 1][p] <= Exact[i][p] /\ Exact[i][p] \in Nat
        BY <1>2, <3>4
      <4> QED
        BY <1>2, <2>1, <3>1, <3>3, <3>5, <4>1
    <3>6. ASSUME \A i \in 0 .. j - 1 : Exact[i][p] > Exact[j][p]
          PROVE  Exact[j - 1][p] # Exact[j][p]
      BY <1>2, <2>1, <3>1, <3>6
    <3>7. j > 0
      BY <2>3
    <3> QED
      BY <2>1, <3>2, <3>5, <3>6, <3>7
  <2> QED
    BY <2>2, <2>3
<1>4. {j \in 0 .. rounds : tau[j][p] # RAPTOR_UNREACHED /\ (j > 0 => tau[j][p] # tau[j - 1][p])}
        = {j \in 0 .. rounds : /\ Exact[j][p] # UINT32_MAX
                               /\ \A i \in 0 .. j - 1 : Exact[i][p] > Exact[j][p]}
  BY <1>1, <1>3 DEF RAPTOR_UNREACHED
<1> QED
  BY <1>4 DEF frontier_size

LEMMA ExactLayersExact == Scratch /\ ExactInv => LayersExact
<1>1. ASSUME Scratch, ExactInv, asked # << >>
      PROVE  /\ \A j \in 0 .. (IF phase = "idle" THEN rounds ELSE k - 1) : tau[j] = Exact[j]
             /\ phase \in {"scan", "walk"} => \A p \in Stop : tau[k][p] >= Exact[k][p]
             /\ phase = "idle" =>
                  \A p \in Stop :
                    frontier_size(p) = Cardinality({j \in 0 .. rounds :
                                          /\ Exact[j][p] # UINT32_MAX
                                          /\ \A i \in 0 .. j - 1 : Exact[i][p] > Exact[j][p]})
  <2>1. \A j \in 0 .. (IF phase = "idle" THEN rounds ELSE k - 1) : tau[j] = Exact[j]
    BY <1>1 DEF ExactInv
  <2>2. ASSUME phase = "scan", NEW p \in Stop  PROVE  tau[k][p] >= Exact[k][p]
    <3>1. /\ Ridden[p] \in Nat /\ tau[k][p] \in Nat /\ Exact[k][p] \in Nat
          /\ Exact[k][p] <= Ridden[p]
      BY <1>1, <2>2, RiddenFacts
    <3>2. Ridden[p] <= tau[k][p]
      BY <1>1, <2>2 DEF ExactInv, ScanInv
    <3> QED
      BY <3>1, <3>2
  <2>3. ASSUME phase = "walk", NEW p \in Stop  PROVE  tau[k][p] >= Exact[k][p]
    <3>1. tau[k][p] \in Nat /\ Exact[k][p] \in Nat
      BY <1>1, <2>3, RiddenFacts
    <3>2. Exact[k][p] <= tau[k][p]
      BY <1>1, <2>3 DEF ExactInv, WalkInv
    <3> QED
      BY <3>1, <3>2
  <2> QED
    BY <1>1, <2>1, <2>2, <2>3, ImprovingRounds
<1> QED
  BY <1>1, Zenon DEF LayersExact, Exact

(* Where the footpaths are closed, as RaptorBuilder makes them, every      *)
(* finished round of every query is the earliest arrival by at most so     *)
(* many trips, and frontier_size counts the trade-offs.                    *)
THEOREM RaptorLayersExact ==
  Spec /\ transfers_are_transitively_closed(tt) => []LayersExact
<1>1. transfers_are_transitively_closed(tt) => Closed
  BY DEF Closed
<1> QED
  BY <1>1, ExactLayersExact, RaptorExact, PTL

-----------------------------------------------------------------------------
(* The earliest arrivals on a graph: NumStops relaxations reach the        *)
(* greatest arrivals that no edge and no walk forbids.                     *)
Rideable(g) ==
  /\ UINT32_MAX \in Nat
  /\ \A u \in Stop : \A e \in Range(g.edges[u]) :
       e.departure_time \in Nat /\ e.travel_time \in Nat \ {0}
  /\ \A u \in Stop : \A w \in Range(g.transfers[u]) :
       w.destination \in Stop /\ w.travel_time \in Nat \ {0}

(* From u, reached when at says, one edge or walk reaches v at x.          *)
StepFrom(g, at, u, v, x) ==
  \/ \E e \in Range(g.edges[u]) :
       /\ e.destination = v /\ at[u] # UINT32_MAX /\ at[u] <= e.departure_time
       /\ x = e.departure_time + e.travel_time
  \/ \E w \in Range(g.transfers[u]) : w.destination = v /\ x = at[u] + w.travel_time

LEMMA StepFromFacts ==
  ASSUME NEW g, Rideable(g), NEW at \in Arrivals, NEW u \in Stop, NEW v, NEW x,
         StepFrom(g, at, u, v, x)
  PROVE  /\ x \in Nat /\ at[u] < x
         /\ \A H \in Arrivals : H[u] <= at[u] => \E y \in Nat : y <= x /\ StepFrom(g, H, u, v, y)
<1>1. at[u] \in Nat /\ at[u] <= UINT32_MAX /\ UINT32_MAX \in Nat
  BY LayerTimes DEF Rideable
<1>2. \A H \in Arrivals : H[u] \in Nat /\ H[u] <= UINT32_MAX
  BY LayerTimes DEF Rideable
<1>3. CASE \E e \in Range(g.edges[u]) :
             /\ e.destination = v /\ at[u] # UINT32_MAX /\ at[u] <= e.departure_time
             /\ x = e.departure_time + e.travel_time
  <2>1. PICK e \in Range(g.edges[u]) :
             /\ e.destination = v /\ at[u] # UINT32_MAX /\ at[u] <= e.departure_time
             /\ x = e.departure_time + e.travel_time
    BY <1>3
  <2>2. e.departure_time \in Nat /\ e.travel_time \in Nat \ {0}
    BY DEF Rideable
  <2>3. x \in Nat /\ at[u] < x
    BY <1>1, <2>1, <2>2
  <2>4. ASSUME NEW H \in Arrivals, H[u] <= at[u]
        PROVE  \E y \in Nat : y <= x /\ StepFrom(g, H, u, v, y)
    <3>1. H[u] # UINT32_MAX /\ H[u] <= e.departure_time
      BY <1>1, <1>2, <2>1, <2>2, <2>4
    <3>2. StepFrom(g, H, u, v, x)
      BY <2>1, <3>1 DEF StepFrom
    <3> QED
      BY <2>3, <3>2
  <2> QED
    BY <2>3, <2>4
<1>4. CASE \E w \in Range(g.transfers[u]) : w.destination = v /\ x = at[u] + w.travel_time
  <2>1. PICK w \in Range(g.transfers[u]) : w.destination = v /\ x = at[u] + w.travel_time
    BY <1>4
  <2>2. PICK d \in Nat \ {0} : d = w.travel_time
    BY DEF Rideable
  <2>3. x \in Nat /\ at[u] < x
    BY <1>1, <2>1, <2>2
  <2>4. ASSUME NEW H \in Arrivals, H[u] <= at[u]
        PROVE  \E y \in Nat : y <= x /\ StepFrom(g, H, u, v, y)
    <3>1. PICK y \in Nat : y = H[u] + d
      BY <1>2
    <3>2. y <= x
      BY <1>1, <1>2, <2>1, <2>2, <2>4, <3>1
    <3>3. StepFrom(g, H, u, v, y)
      BY <2>1, <2>2, <3>1 DEF StepFrom
    <3> QED
      BY <3>2, <3>3
  <2> QED
    BY <2>3, <2>4
<1> QED
  BY <1>3, <1>4 DEF StepFrom

LEMMA RelaxationFacts ==
  ASSUME NEW g, Rideable(g), NEW at \in Arrivals
  PROVE  LET y == Relaxation(g, at)
         IN  /\ y \in Arrivals
             /\ \A v \in Stop : y[v] <= at[v]
             /\ \A u, v \in Stop : \A x : StepFrom(g, at, u, v, x) => y[v] <= x
             /\ \A v \in Stop : y[v] = at[v] \/ \E u \in Stop : StepFrom(g, at, u, v, y[v])
<1> DEFINE ridden(v) ==
             UNION {{e.departure_time + e.travel_time :
                       e \in {x \in Range(g.edges[u]) :
                                /\ x.destination = v /\ at[u] # UINT32_MAX
                                /\ at[u] <= x.departure_time}} : u \in Stop}
           walked(v) ==
             UNION {{at[u] + w.travel_time :
                       w \in {x \in Range(g.transfers[u]) : x.destination = v}} : u \in Stop}
           reached(v) == ridden(v) \cup walked(v)
           y == Relaxation(g, at)
<1>1. UINT32_MAX \in Nat /\ \A u \in Stop : at[u] \in Nat /\ at[u] <= UINT32_MAX
  BY LayerTimes DEF Rideable
<1>2. ASSUME NEW v \in Stop, NEW x
      PROVE  x \in reached(v) <=> \E u \in Stop : StepFrom(g, at, u, v, x)
  <2>1. x \in ridden(v) <=>
          \E u \in Stop : \E e \in Range(g.edges[u]) :
            /\ e.destination = v /\ at[u] # UINT32_MAX /\ at[u] <= e.departure_time
            /\ x = e.departure_time + e.travel_time
    OBVIOUS
  <2>2. x \in walked(v) <=>
          \E u \in Stop : \E w \in Range(g.transfers[u]) :
            w.destination = v /\ x = at[u] + w.travel_time
    OBVIOUS
  <2> HIDE DEF ridden, walked
  <2> QED
    BY <2>1, <2>2 DEF StepFrom
<1>3. y = [v \in Stop |-> LeastTime({at[v]} \cup reached(v))]
  <2>1. \A v \in Stop : {at[v]} \cup ridden(v) \cup walked(v) = {at[v]} \cup reached(v)
    OBVIOUS
  <2>2. y = [v \in Stop |-> LeastTime({at[v]} \cup ridden(v) \cup walked(v))]
    BY DEF Relaxation
  <2> HIDE DEF ridden, walked, reached, y
  <2> QED
    BY <2>1, <2>2
<1> HIDE DEF reached, y
<1>4. ASSUME NEW v \in Stop  PROVE  {at[v]} \cup reached(v) \in SUBSET Nat
  <2>1. \A u \in Stop : \A x : StepFrom(g, at, u, v, x) => x \in Nat
    BY StepFromFacts
  <2> QED
    BY <1>1, <1>2, <2>1
<1>5. ASSUME NEW v \in Stop
      PROVE  /\ y[v] \in Times /\ y[v] <= at[v]
             /\ \A x \in reached(v) : y[v] <= x
             /\ y[v] = at[v] \/ y[v] \in reached(v)
  <2> DEFINE S == {at[v]} \cup reached(v)
  <2>1. S \in SUBSET Nat /\ y[v] = LeastTime(S)
    BY <1>3, <1>4
  <2>2. at[v] \in S /\ \A x \in S : x = at[v] \/ x \in reached(v)
    OBVIOUS
  <2>3. \A x \in reached(v) : x \in S
    OBVIOUS
  <2> HIDE DEF S
  <2>4. y[v] \in Times /\ (\A x \in S : y[v] <= x) /\ (y[v] \in S \/ y[v] = UINT32_MAX)
    BY <1>1, <2>1, LeastTimeFacts
  <2>5. y[v] = UINT32_MAX => y[v] = at[v]
    BY <1>1, <2>2, <2>4
  <2> QED
    BY <2>2, <2>3, <2>4, <2>5
<1>6. y \in Arrivals
  BY <1>3, <1>5 DEF Arrivals
<1> QED
  BY <1>2, <1>5, <1>6 DEF y

LEMMA EarliestLayers ==
  ASSUME NEW g, Rideable(g), NEW s \in Stop, NEW t \in Times, NumStops \in Nat
  PROVE  \E after : /\ EarliestArrivals(g, s, t) = after[NumStops]
                    /\ \A n \in 0 .. NumStops : after[n] \in Arrivals
                    /\ after[0] = OnlyAt(s, t)
                    /\ \A n \in 1 .. NumStops : after[n] = Relaxation(g, after[n - 1])
<1> DEFINE base == OnlyAt(s, t)
           next(at) == Relaxation(g, at)
           step == [j \in 1 .. NumStops |-> [at \in Arrivals |-> next(at)]]
           eq(f) == [n \in 0 .. NumStops |-> IF n = 0 THEN base ELSE next(f[n - 1])]
           F == CHOOSE f : f = eq(f)
<1>1. EarliestArrivals(g, s, t) = F[NumStops]
  BY DEF EarliestArrivals
<1>2. base \in Arrivals
  BY DEF OnlyAt, Arrivals, Times, Rideable
<1>3. \A at \in Arrivals : next(at) \in Arrivals
  BY RelaxationFacts
<1> HIDE DEF base, next
<1>4. /\ step \in [1 .. NumStops -> [Arrivals -> Arrivals]]
      /\ \A j \in 1 .. NumStops, at \in Arrivals : step[j][at] = next(at)
  BY <1>3
<1> HIDE DEF step
<1>5. PICK h : h \in Iterations(NumStops, Arrivals, base, step)
  BY <1>2, <1>4, RunExists
<1>6. /\ h \in [0 .. NumStops -> Arrivals] /\ h[0] = base
      /\ \A j \in 1 .. NumStops : h[j - 1] \in Arrivals /\ h[j] = next(h[j - 1])
  <2>1. h \in [0 .. NumStops -> Arrivals] /\ h[0] = base /\ \A j \in 1 .. NumStops : h[j] = step[j][h[j - 1]]
    BY <1>5 DEF Iterations
  <2>2. \A j \in 1 .. NumStops : h[j - 1] \in Arrivals
    BY <2>1
  <2> QED
    BY <1>4, <2>1, <2>2
<1>7. h = eq(h)
  BY <1>6
<1>8. F = eq(F)
  BY <1>7
<1> HIDE DEF F
<1>9. F[0] = base /\ \A j \in 1 .. NumStops : F[j] = next(F[j - 1])
  BY <1>8
<1> DEFINE Fine == {j \in 0 .. NumStops : F[j] \in Arrivals}
<1>10. 0 .. NumStops \subseteq Fine
  <2>1. 0 \in Fine
    BY <1>2, <1>9
  <2>2. ASSUME NEW j \in 0 .. NumStops - 1, j \in Fine  PROVE  j + 1 \in Fine
    <3>1. j + 1 \in 1 .. NumStops /\ (j + 1) - 1 = j /\ F[j] \in Arrivals
      BY <2>2
    <3>2. F[j + 1] = next(F[j])
      BY <1>9, <3>1
    <3> QED
      BY <1>3, <3>1, <3>2
  <2> HIDE DEF Fine
  <2> QED
    BY <2>1, <2>2, UpTo
<1> QED
  BY <1>1, <1>9, <1>10 DEF base, next

(* What no edge and no walk forbids.                                       *)
Permitted(g, s, t) ==
  {H \in Arrivals : /\ H[s] <= t
                    /\ \A u, v \in Stop : \A x : StepFrom(g, H, u, v, x) => H[v] <= x}

LEMMA PermittedStaysBelow ==
  ASSUME NEW g, Rideable(g), NEW s, NEW t, NEW H \in Permitted(g, s, t),
         NEW at \in Arrivals, \A v \in Stop : H[v] <= at[v]
  PROVE  \A v \in Stop : H[v] <= Relaxation(g, at)[v]
<1>1. H \in Arrivals /\ \A v \in Stop : H[v] \in Nat
  BY LayerTimes DEF Permitted, Rideable
<1> SUFFICES ASSUME NEW v \in Stop  PROVE  H[v] <= Relaxation(g, at)[v]
  OBVIOUS
<1> DEFINE x == Relaxation(g, at)[v]
<1>2. x = at[v] \/ \E u \in Stop : StepFrom(g, at, u, v, x)
  BY RelaxationFacts
<1> HIDE DEF x
<1>3. ASSUME NEW u \in Stop, StepFrom(g, at, u, v, x)  PROVE  H[v] <= x
  <2>1. x \in Nat /\ \E y \in Nat : y <= x /\ StepFrom(g, H, u, v, y)
    BY <1>1, <1>3, StepFromFacts
  <2>2. PICK y \in Nat : y <= x /\ StepFrom(g, H, u, v, y)
    BY <2>1
  <2>3. H[v] <= y
    BY <2>2 DEF Permitted
  <2> QED
    BY <1>1, <2>1, <2>2, <2>3
<1> QED
  BY <1>2, <1>3 DEF x

(* The greatest of them, stop by stop.                                     *)
Greatest(g, s, t) == [v \in Stop |-> Max({H[v] : H \in Permitted(g, s, t)})]

LEMMA GreatestFacts ==
  ASSUME NEW g, Rideable(g), NEW s \in Stop, NEW t \in Times
  PROVE  /\ Greatest(g, s, t) \in Permitted(g, s, t)
         /\ \A H \in Permitted(g, s, t) : \A v \in Stop : H[v] <= Greatest(g, s, t)[v]
<1> DEFINE P == Permitted(g, s, t)
           D == Greatest(g, s, t)
           zero == [v \in Stop |-> 0]
<1>1. UINT32_MAX \in Nat /\ t \in Nat /\ P \subseteq Arrivals
  BY DEF Rideable, Times, Permitted
<1>2. zero \in P
  <2>1. zero \in Arrivals
    BY <1>1 DEF Arrivals, Times
  <2>2. zero[s] <= t
    BY <1>1
  <2>3. ASSUME NEW u \in Stop, NEW v \in Stop, NEW x, StepFrom(g, zero, u, v, x)
        PROVE  zero[v] <= x
    <3>1. x \in Nat
      BY <2>1, <2>3, StepFromFacts
    <3> QED
      BY <3>1
  <2> QED
    BY <2>1, <2>2, <2>3 DEF Permitted
<1>3. ASSUME NEW v \in Stop
      PROVE  /\ D[v] \in Times
             /\ \E H \in P : D[v] = H[v]
             /\ \A H \in P : H[v] <= D[v]
  <2> DEFINE S == {H[v] : H \in P}
  <2>1. S \in SUBSET (0 .. UINT32_MAX) /\ S # {}
    <3>1. \A H \in P : H[v] \in 0 .. UINT32_MAX
      BY <1>1 DEF Arrivals, Times
    <3> HIDE DEF P, zero
    <3> QED
      BY <1>2, <3>1
  <2>2. D[v] = Max(S)
    BY DEF Greatest
  <2> HIDE DEF S
  <2>3. Max(S) \in S /\ \A i \in S : i <= Max(S)
    BY <1>1, <2>1, MaxIsGreatest
  <2> HIDE DEF P, D
  <2>4. \A H \in P : H[v] \in S
    BY DEF S
  <2>5. \E H \in P : D[v] = H[v]
    BY <2>2, <2>3 DEF S
  <2> QED
    BY <2>1, <2>2, <2>3, <2>4, <2>5 DEF Times
<1>4. D \in Arrivals
  <2>1. D = [v \in Stop |-> D[v]]
    BY DEF Greatest
  <2> HIDE DEF D
  <2> QED
    BY <1>3, <2>1 DEF Arrivals
<1>5. D[s] <= t
  <2>1. PICK H \in P : D[s] = H[s]
    BY <1>3
  <2> QED
    BY <2>1 DEF Permitted
<1>6. ASSUME NEW u \in Stop, NEW v \in Stop, NEW x, StepFrom(g, D, u, v, x)  PROVE  D[v] <= x
  <2> HIDE DEF D
  <2>1. PICK H \in P : D[v] = H[v]
    BY <1>3
  <2>2. H \in Arrivals /\ H[u] <= D[u] /\ H[v] \in Nat
    BY <1>1, <1>3, LayerTimes
  <2>3. x \in Nat
    BY <1>4, <1>6, StepFromFacts
  <2>4. PICK y \in Nat : y <= x /\ StepFrom(g, H, u, v, y)
    BY <1>4, <1>6, <2>2, StepFromFacts
  <2>5. H[v] <= y
    BY <2>4 DEF Permitted
  <2> QED
    BY <2>1, <2>2, <2>3, <2>4, <2>5
<1>7. D \in P
  BY <1>4, <1>5, <1>6 DEF Permitted
<1> QED
  BY <1>3, <1>7

(* It is attained: a stop reached at all is the source, or one edge or     *)
(* walk away from a stop reached sooner.                                   *)
LEMMA GreatestIsAttained ==
  ASSUME NEW g, Rideable(g), NEW s \in Stop, NEW t \in Times,
         NEW v \in Stop, Greatest(g, s, t)[v] # UINT32_MAX
  PROVE  LET D == Greatest(g, s, t)
         IN  \/ v = s /\ D[v] = t
             \/ \E u \in Stop : D[u] < D[v] /\ StepFrom(g, D, u, v, D[v])
<1> DEFINE D == Greatest(g, s, t)
<1>1. D \in Permitted(g, s, t) /\ \A H \in Permitted(g, s, t) : \A z \in Stop : H[z] <= D[z]
  BY GreatestFacts
<1>2. D[v] # UINT32_MAX
  OBVIOUS
<1> HIDE DEF D
<1>3. /\ D \in Arrivals /\ D[s] <= t
      /\ \A u, z \in Stop : \A x : StepFrom(g, D, u, z, x) => D[z] <= x
  BY <1>1 DEF Permitted
<1>4. UINT32_MAX \in Nat /\ t \in Nat /\ \A z \in Stop : D[z] \in Nat /\ D[z] <= UINT32_MAX
  BY <1>3, LayerTimes DEF Rideable, Times
<1>5. \A u \in Stop : StepFrom(g, D, u, v, D[v]) => D[u] < D[v]
  BY <1>3, StepFromFacts
<1>6. SUFFICES ASSUME ~ (v = s /\ D[v] = t), \A u \in Stop : ~ StepFrom(g, D, u, v, D[v])
               PROVE  FALSE
  BY <1>5 DEF D
<1> DEFINE R == [D EXCEPT ![v] = D[v] + 1]
<1>7. /\ R \in Arrivals /\ R[v] = D[v] + 1 /\ \A z \in Stop \ {v} : R[z] = D[z]
  <2>1. D[v] + 1 \in Times
    BY <1>2, <1>4 DEF Times
  <2> QED
    BY <1>3, <2>1 DEF Arrivals
<1> HIDE DEF R
<1>8. \A z \in Stop : D[z] <= R[z]
  BY <1>4, <1>7
<1>9. R[s] <= t
  <2>1. CASE v = s
    BY <1>3, <1>4, <1>6, <1>7, <2>1
  <2>2. CASE v # s
    BY <1>3, <1>7, <2>2
  <2> QED
    BY <2>1, <2>2
<1>10. ASSUME NEW u \in Stop, NEW z \in Stop, NEW x, StepFrom(g, R, u, z, x)  PROVE  R[z] <= x
  <2>1. x \in Nat
    BY <1>7, <1>10, StepFromFacts
  <2>2. PICK y \in Nat : y <= x /\ StepFrom(g, D, u, z, y)
    BY <1>3, <1>7, <1>8, <1>10, StepFromFacts
  <2>3. D[z] <= y
    BY <1>3, <2>2
  <2>4. CASE z = v
    <3>1. y # D[v]
      BY <1>6, <2>2, <2>4
    <3> QED
      BY <1>4, <1>7, <2>1, <2>2, <2>3, <2>4, <3>1
  <2>5. CASE z # v
    BY <1>4, <1>7, <2>1, <2>2, <2>3, <2>5
  <2> QED
    BY <2>4, <2>5
<1>11. R \in Permitted(g, s, t)
  BY <1>7, <1>9, <1>10 DEF Permitted
<1>12. R[v] <= D[v]
  BY <1>1, <1>11
<1> QED
  BY <1>4, <1>7, <1>12

(* A stop with n stops sooner is right after n relaxations.                *)
LEMMA EarliestIsGreatest ==
  ASSUME NEW g, Rideable(g), NEW s \in Stop, NEW t \in Times, NumStops \in Nat
  PROVE  /\ EarliestArrivals(g, s, t) \in Permitted(g, s, t)
         /\ \A H \in Permitted(g, s, t) : \A v \in Stop : H[v] <= EarliestArrivals(g, s, t)[v]
<1> DEFINE D == Greatest(g, s, t)
           Sooner(v) == {u \in Stop : D[u] < D[v]}
<1>1. PICK after : /\ EarliestArrivals(g, s, t) = after[NumStops]
                   /\ \A n \in 0 .. NumStops : after[n] \in Arrivals
                   /\ after[0] = OnlyAt(s, t)
                   /\ \A n \in 1 .. NumStops : after[n] = Relaxation(g, after[n - 1])
  BY EarliestLayers
<1>2. D \in Permitted(g, s, t) /\ \A H \in Permitted(g, s, t) : \A v \in Stop : H[v] <= D[v]
  BY GreatestFacts
<1>3. ASSUME NEW v \in Stop, D[v] # UINT32_MAX
      PROVE  (v = s /\ D[v] = t) \/ \E u \in Stop : D[u] < D[v] /\ StepFrom(g, D, u, v, D[v])
  BY <1>3, GreatestIsAttained
<1> HIDE DEF D
<1>4. D \in Arrivals /\ D[s] <= t
  BY <1>2 DEF Permitted
<1>5. UINT32_MAX \in Nat /\ t \in Nat /\ t <= UINT32_MAX /\ \A v \in Stop : D[v] \in Nat /\ D[v] <= UINT32_MAX
  BY <1>4, LayerTimes DEF Rideable, Times
<1>6. \A n \in 0 .. NumStops : \A v \in Stop : after[n][v] \in Nat /\ after[n][v] <= UINT32_MAX
  BY <1>1, <1>5, LayerTimes
<1>7. \A n \in 0 .. NumStops - 1 :
        /\ n + 1 \in 1 .. NumStops /\ n \in 0 .. NumStops /\ n + 1 \in 0 .. NumStops
        /\ after[n + 1] = Relaxation(g, after[n])
  <2> SUFFICES ASSUME NEW n \in 0 .. NumStops - 1
               PROVE  n + 1 \in 1 .. NumStops /\ n \in 0 .. NumStops /\ n + 1 \in 0 .. NumStops
                      /\ after[n + 1] = Relaxation(g, after[n])
    OBVIOUS
  <2>1. n + 1 \in 1 .. NumStops /\ (n + 1) - 1 = n
    OBVIOUS
  <2> QED
    BY <1>1, <2>1
<1>8. \A n \in 0 .. NumStops : \A v \in Stop : D[v] <= after[n][v]
  <2> DEFINE Fine == {n \in 0 .. NumStops : \A v \in Stop : D[v] <= after[n][v]}
  <2>1. 0 \in Fine
    <3>1. \A v \in Stop : after[0][v] = IF v = s THEN t ELSE UINT32_MAX
      BY <1>1 DEF OnlyAt
    <3> QED
      BY <1>4, <1>5, <3>1
  <2>2. ASSUME NEW n \in 0 .. NumStops - 1, n \in Fine  PROVE  n + 1 \in Fine
    <3>1. after[n] \in Arrivals /\ \A v \in Stop : D[v] <= after[n][v]
      BY <1>1, <1>7, <2>2
    <3>2. \A v \in Stop : D[v] <= Relaxation(g, after[n])[v]
      BY <1>2, <3>1, PermittedStaysBelow
    <3> QED
      BY <1>7, <3>2
  <2> HIDE DEF Fine
  <2>3. 0 .. NumStops \subseteq Fine
    BY <2>1, <2>2, UpTo
  <2> QED
    BY <2>3 DEF Fine
<1>9. \A v \in Stop : IsFiniteSet(Sooner(v)) /\ Cardinality(Sooner(v)) \in Nat /\ Cardinality(Sooner(v)) <= NumStops
  <2> SUFFICES ASSUME NEW v \in Stop
               PROVE  IsFiniteSet(Sooner(v)) /\ Cardinality(Sooner(v)) \in Nat /\ Cardinality(Sooner(v)) <= NumStops
    OBVIOUS
  <2>1. IsFiniteSet(Stop) /\ Cardinality(Stop) = NumStops
    <3>1. /\ IsFiniteSet(0 .. NumStops - 1)
          /\ Cardinality(0 .. NumStops - 1) = IF 0 > NumStops - 1 THEN 0 ELSE NumStops - 1 - 0 + 1
      BY FS_Interval
    <3> QED
      BY <3>1 DEF Stop
  <2>2. Sooner(v) \in SUBSET Stop
    OBVIOUS
  <2>3. IsFiniteSet(Sooner(v)) /\ Cardinality(Sooner(v)) <= Cardinality(Stop)
    BY ONLY <2>1, <2>2, FS_Subset
  <2> QED
    BY <2>1, <2>3, FS_CardinalityType
<1>10. ASSUME NEW u \in Stop, NEW v \in Stop, D[u] < D[v]
       PROVE  Cardinality(Sooner(u)) < Cardinality(Sooner(v))
  <2>1. u \notin Sooner(u) /\ Sooner(u) \cup {u} \in SUBSET Sooner(v)
    BY <1>5, <1>10
  <2>2. Cardinality(Sooner(u) \cup {u}) = Cardinality(Sooner(u)) + 1
    BY <1>9, <2>1, FS_AddElement
  <2>3. IsFiniteSet(Sooner(v))
    BY <1>9
  <2>4. Cardinality(Sooner(u) \cup {u}) <= Cardinality(Sooner(v))
    BY ONLY <2>1, <2>3, FS_Subset
  <2>5. Cardinality(Sooner(u)) \in Nat /\ Cardinality(Sooner(v)) \in Nat
    BY <1>9
  <2> HIDE DEF Sooner
  <2> QED
    BY <2>2, <2>4, <2>5
<1> HIDE DEF Sooner
<1>11. \A n \in 0 .. NumStops : \A v \in Stop : Cardinality(Sooner(v)) <= n => after[n][v] <= D[v]
  <2> DEFINE Fine == {n \in 0 .. NumStops : \A v \in Stop : Cardinality(Sooner(v)) <= n => after[n][v] <= D[v]}
  <2>1. 0 \in Fine
    <3> SUFFICES ASSUME NEW v \in Stop, Cardinality(Sooner(v)) <= 0  PROVE  after[0][v] <= D[v]
      OBVIOUS
    <3>1. CASE D[v] = UINT32_MAX
      BY <1>5, <1>6, <3>1
    <3>2. CASE D[v] # UINT32_MAX
      <4>1. \A u \in Stop : ~ (D[u] < D[v])
        BY <1>9, <1>10
      <4>2. v = s /\ D[v] = t
        BY <1>3, <3>2, <4>1
      <4> QED
        BY <1>1, <1>5, <4>2 DEF OnlyAt
    <3> QED
      BY <3>1, <3>2
  <2>2. ASSUME NEW n \in 0 .. NumStops - 1, n \in Fine  PROVE  n + 1 \in Fine
    <3>1. /\ n + 1 \in 0 .. NumStops /\ n \in 0 .. NumStops /\ after[n] \in Arrivals
          /\ after[n + 1] = Relaxation(g, after[n])
      BY <1>1, <1>7
    <3>2. \A v \in Stop : Cardinality(Sooner(v)) <= n => after[n][v] <= D[v]
      BY <2>2
    <3>3. /\ \A v \in Stop : after[n + 1][v] <= after[n][v]
          /\ \A u, v \in Stop : \A x : StepFrom(g, after[n], u, v, x) => after[n + 1][v] <= x
      BY <3>1, RelaxationFacts
    <3> SUFFICES ASSUME NEW v \in Stop, Cardinality(Sooner(v)) <= n + 1  PROVE  after[n + 1][v] <= D[v]
      BY <3>1
    <3>4. CASE D[v] = UINT32_MAX
      BY <1>5, <1>6, <3>1, <3>4
    <3>5. CASE v = s /\ D[v] = t
      <4> DEFINE Held == {m \in 0 .. NumStops : after[m][s] <= t}
      <4>1. 0 \in Held
        BY <1>1, <1>5 DEF OnlyAt
      <4>2. ASSUME NEW m \in 0 .. NumStops - 1, m \in Held  PROVE  m + 1 \in Held
        <5>1. after[m + 1][s] <= after[m][s]
          BY <1>1, <1>7, RelaxationFacts
        <5> QED
          BY <1>5, <1>6, <1>7, <4>2, <5>1
      <4> HIDE DEF Held
      <4>3. 0 .. NumStops \subseteq Held
        BY <4>1, <4>2, UpTo
      <4> QED
        BY <3>1, <3>5, <4>3 DEF Held
    <3>6. CASE \E u \in Stop : D[u] < D[v] /\ StepFrom(g, D, u, v, D[v])
      <4>1. PICK u \in Stop : D[u] < D[v] /\ StepFrom(g, D, u, v, D[v])
        BY <3>6
      <4>2. Cardinality(Sooner(u)) <= n
        BY <1>9, <1>10, <4>1
      <4>3. after[n][u] <= D[u]
        BY <3>2, <4>2
      <4>4. PICK y \in Nat : y <= D[v] /\ StepFrom(g, after[n], u, v, y)
        BY <1>4, <3>1, <4>1, <4>3, StepFromFacts
      <4>5. after[n + 1][v] <= y
        BY <3>3, <4>4
      <4> QED
        BY <1>5, <1>6, <3>1, <4>4, <4>5
    <3> QED
      BY <1>3, <3>4, <3>5, <3>6
  <2> HIDE DEF Fine
  <2>3. 0 .. NumStops \subseteq Fine
    BY <2>1, <2>2, UpTo
  <2> QED
    BY <2>3 DEF Fine
<1>12. \A v \in Stop : after[NumStops][v] = D[v]
  <2> SUFFICES ASSUME NEW v \in Stop  PROVE  after[NumStops][v] = D[v]
    OBVIOUS
  <2>1. NumStops \in 0 .. NumStops
    OBVIOUS
  <2> QED
    BY <1>5, <1>6, <1>8, <1>9, <1>11, <2>1
<1>13. after[NumStops] = D
  <2>1. NumStops \in 0 .. NumStops
    OBVIOUS
  <2> QED
    BY <1>1, <1>4, <1>12, <2>1 DEF Arrivals
<1> QED
  BY <1>1, <1>2, <1>13

-----------------------------------------------------------------------------
(* The two structures of the gate.                                         *)
Gated ==
  /\ Scratch
  /\ feed \in Feeds
  /\ graph = build_with_transfers(feed, gate_objective(feed))
  /\ timetable = build(feed) /\ tt = timetable

LEMMA GatedFacts ==
  ASSUME Gated
  PROVE  /\ Timetabled /\ UINT32_MAX > 0 /\ NumStops \in Nat /\ WellFormed(feed)
         /\ tt = build(feed) /\ tt.routes = Routes(Runs(feed))
         /\ \A u \in Stop : graph.edges[u] = edges_of(feed, gate_objective(feed), u)
<1>1. Timetabled /\ feed \in Feeds
  BY TimetableOK DEF Gated, Scratch
<1> QED
  BY <1>1, FeedIsBounded, Sizes DEF Gated, build, build_with_transfers

LEMMA GateWalks ==
  ASSUME Gated, NEW u \in Stop
  PROVE  /\ WalksFrom(feed, u) = Range(Walkable(feed, u))
         /\ \A w \in WalksFrom(feed, u) : w.destination \in Stop /\ w.travel_time \in Nat \ {0}
         /\ Range(graph.transfers[u]) \subseteq WalksFrom(feed, u)
         /\ Runs(feed) # {} => Range(graph.transfers[u]) = WalksFrom(feed, u)
<1> DEFINE f == feed
<1>1. WellFormed(f) /\ graph.transfers[u] = IF f.stop_times = {} THEN << >> ELSE transfers_of(f, u)
  BY GatedFacts DEF Gated, build_with_transfers
<1> HIDE DEF f
<1>2. Range(transfers_of(f, u)) = WalksFrom(f, u) /\ Range(Walkable(f, u)) = WalksFrom(f, u)
  BY <1>1, TransfersOfFacts, WalkableFacts
<1>3. \A w \in WalksFrom(f, u) : w.destination \in Stop /\ w.travel_time \in Nat \ {0}
  <2>1. Walkable(f, u) \in Seq(Walk)
    BY <1>1, WalkableFacts
  <2>2. Range(Walkable(f, u)) \subseteq Walk
    BY <2>1 DEF Range
  <2> QED
    BY <1>2, <2>2 DEF Walk
<1>4. f.stop_times = {} => Runs(f) = {}
  BY DEF Runs, Trips
<1>5. Range(<< >>) = {}
  BY DEF Range
<1> QED
  BY <1>1, <1>2, <1>3, <1>4, <1>5 DEF f

(* Every connection of a trip is an edge, and every edge one of a trip.    *)
LEMMA ConnectionIsEdge ==
  ASSUME Gated, NEW r \in Route, NEW m \in DOMAIN tt.routes[r].trips,
         NEW i \in 1 .. Len(tt.routes[r].stops) - 1
  PROVE  \E e \in Range(graph.edges[tt.routes[r].stops[i]]) :
           /\ e.departure_time = tt.routes[r].trips[m][i].departure
           /\ e.destination = tt.routes[r].stops[i + 1]
           /\ e.departure_time + e.travel_time = tt.routes[r].trips[m][i + 1].arrival
<1> DEFINE route == tt.routes[r]
           times == route.trips[m]
           c == << route.stops[i], times[i].departure, route.stops[i + 1], times[i + 1].arrival >>
<1>1. c \in TripConnections(route.stops, times)
  BY DEF TripConnections
<1>2. route \in Range(tt.routes) /\ times \in Range(route.trips)
  BY DEF Range, Route
<1>3. c \in TimetableConnections
  <2>1. tt = timetable
    BY DEF Gated
  <2>2. \E x \in Range(timetable.routes) : \E y \in Range(x.trips) : c \in TripConnections(x.stops, y)
    <3> HIDE DEF c, times, route
    <3> QED
      BY <1>1, <1>2, <2>1
  <2> HIDE DEF c
  <2> QED
    BY <2>2 DEF TimetableConnections
<1>4. GraphConnections = TimetableConnections
  BY GatedFacts, NetworkOfFeed DEF Gated
<1>5. PICK u \in Stop : \E e \in Range(graph.edges[u]) :
        c = << u, e.departure_time, e.destination, e.departure_time + e.travel_time >>
  <2> HIDE DEF c
  <2> QED
    BY <1>3, <1>4 DEF GraphConnections
<1> QED
  BY <1>5

LEMMA EdgeIsOfTrip ==
  ASSUME Gated, NEW u \in Stop, NEW e \in Range(graph.edges[u])
  PROVE  \E r \in Route : \E m \in DOMAIN tt.routes[r].trips, i \in 1 .. Len(tt.routes[r].stops) - 1 :
           /\ tt.routes[r].stops[i] = u /\ tt.routes[r].trips[m][i].departure = e.departure_time
           /\ tt.routes[r].stops[i + 1] = e.destination
           /\ tt.routes[r].trips[m][i + 1].arrival = e.departure_time + e.travel_time
<1> DEFINE c == << u, e.departure_time, e.destination, e.departure_time + e.travel_time >>
<1>1. c \in GraphConnections
  BY DEF GraphConnections
<1>2. GraphConnections = TimetableConnections /\ tt = timetable
  BY GatedFacts, NetworkOfFeed DEF Gated
<1> HIDE DEF c
<1>3. PICK route \in Range(tt.routes) : \E t \in Range(route.trips) : c \in TripConnections(route.stops, t)
  BY <1>1, <1>2 DEF TimetableConnections
<1>4. PICK r \in Route : route = tt.routes[r]
  BY DEF Range, Route
<1>5. PICK m \in DOMAIN route.trips : c \in TripConnections(route.stops, route.trips[m])
  BY <1>3 DEF Range
<1>6. PICK i \in 1 .. Len(route.stops) - 1 :
        c = << route.stops[i], route.trips[m][i].departure, route.stops[i + 1], route.trips[m][i + 1].arrival >>
  BY <1>5 DEF TripConnections
<1> QED
  BY <1>4, <1>6 DEF c

LEMMA GateGraph ==
  ASSUME Gated
  PROVE  /\ Rideable(graph)
         /\ \A u \in Stop : \A e \in Range(graph.edges[u]) : e.departure_time < UINT32_MAX
<1> DEFINE f == feed
           o == gate_objective(feed)
<1>1. UINT32_MAX \in Nat /\ WellFormed(f) /\ \A u \in Stop : graph.edges[u] = edges_of(f, o, u)
  BY GatedFacts DEF Timetabled
<1> HIDE DEF f, o
<1>2. ASSUME NEW u \in Stop, NEW e \in Range(graph.edges[u])
      PROVE  /\ e.departure_time \in Nat /\ e.travel_time \in Nat \ {0}
             /\ e.departure_time < UINT32_MAX
  <2>1. PICK s \in {x \in Segments(f) : EdgeAdmitted(x[1], x[2]) /\ x[1].stop = u} : e = EdgeOf(o, s)
    BY <1>1, <1>2, EdgesOfFacts
  <2>2. s \in StopTimeRecords \X StopTimeRecords /\ EdgeAdmitted(s[1], s[2])
    BY <1>1, <2>1, SegmentsFacts
  <2>3. PICK a \in StopTimeRecords, b \in StopTimeRecords : a = s[1] /\ b = s[2]
    BY <2>2
  <2>4. /\ a.departure_time \in 0 .. UINT32_MAX /\ b.arrival_time \in 0 .. UINT32_MAX
        /\ a.departure_time # UINT32_MAX /\ b.arrival_time >= a.departure_time
    BY <2>2, <2>3 DEF StopTimeRecords, EdgeAdmitted
  <2>5. /\ e.departure_time = a.departure_time
        /\ e.travel_time = AtLeastOneSecond(b.arrival_time - a.departure_time)
    BY <2>1, <2>3 DEF EdgeOf
  <2>6. AtLeastOneSecond(b.arrival_time - a.departure_time) \in Nat \ {0}
    BY <1>1, <2>4 DEF AtLeastOneSecond
  <2> QED
    BY <1>1, <2>4, <2>5, <2>6
<1>3. \A u \in Stop : \A w \in Range(graph.transfers[u]) :
        w.destination \in Stop /\ w.travel_time \in Nat \ {0}
  BY GateWalks
<1> QED
  BY <1>1, <1>2, <1>3 DEF Rideable

(* What no edge and no walk of the graph forbids, no ride and no footpath  *)
(* of the timetable does: a ride is a chain of edges, a footpath one of    *)
(* walks.                                                                  *)
LEMMA PermittedRides ==
  ASSUME Gated, NEW s, NEW t, NEW H \in Permitted(graph, s, t),
         NEW r \in Route, NEW m \in DOMAIN tt.routes[r].trips,
         NEW b \in DOMAIN tt.routes[r].stops, NEW a \in 1 .. b - 1,
         H[tt.routes[r].stops[a]] <= tt.routes[r].trips[m][a].departure
  PROVE  H[tt.routes[r].stops[b]] <= tt.routes[r].trips[m][b].arrival
<1> DEFINE stops == tt.routes[r].stops
           times == tt.routes[r].trips[m]
<1>1. Timetabled /\ tt = build(feed) /\ WellFormed(feed)
  BY GatedFacts
<1>2. stops \in Seq(Stop) /\ \A i \in DOMAIN stops : times[i].arrival \in Nat /\ times[i].departure \in Nat
  BY <1>1, RouteFacts
<1>3. PICK len \in Nat : len = Len(stops) /\ DOMAIN stops = 1 .. len
  <2>1. Len(stops) \in Nat /\ DOMAIN stops = 1 .. Len(stops)
    BY <1>2
  <2> QED
    BY <2>1
<1>4. \A i \in 2 .. len - 1 : times[i].arrival <= times[i].departure
  <2>1. tt.routes[r] \in Range(build(feed).routes) /\ times \in Range(tt.routes[r].trips)
    BY <1>1 DEF Range, Route
  <2> QED
    BY <1>1, <1>3, <2>1, RidesOfFeed
<1>5. b \in 1 .. len /\ a \in 1 .. len - 1 /\ a < b
  BY <1>3
<1>6. H \in Arrivals /\ \A v \in Stop : H[v] \in Nat
  BY <1>1, LayerTimes DEF Permitted, Timetabled
<1>7. \A i \in 1 .. len : stops[i] \in Stop
  BY <1>2, <1>3
<1>8. ASSUME NEW i \in 1 .. len - 1, H[stops[i]] <= times[i].departure
      PROVE  H[stops[i + 1]] <= times[i + 1].arrival
  <2>1. PICK e \in Range(graph.edges[stops[i]]) :
          /\ e.departure_time = times[i].departure /\ e.destination = stops[i + 1]
          /\ e.departure_time + e.travel_time = times[i + 1].arrival
    BY <1>3, ConnectionIsEdge
  <2>2. i \in 1 .. len /\ i + 1 \in 1 .. len
    OBVIOUS
  <2>3. e.departure_time < UINT32_MAX /\ e.departure_time \in Nat
    BY <1>7, <2>2, GateGraph DEF Rideable
  <2>4. H[stops[i]] # UINT32_MAX /\ H[stops[i]] <= e.departure_time
    BY <1>1, <1>6, <1>7, <1>8, <2>1, <2>2, <2>3 DEF Timetabled
  <2>5. StepFrom(graph, H, stops[i], stops[i + 1], times[i + 1].arrival)
    BY <2>1, <2>4 DEF StepFrom
  <2> QED
    BY <1>7, <2>2, <2>5 DEF Permitted
<1> HIDE DEF stops, times
<1> DEFINE Fine == {n \in 0 .. len : n > a /\ n <= len => H[stops[n]] <= times[n].arrival}
<1>9. 0 \in Fine
  BY <1>5
<1>10. ASSUME NEW n \in 0 .. len - 1, n \in Fine  PROVE  n + 1 \in Fine
  <2> SUFFICES ASSUME n + 1 > a  PROVE  H[stops[n + 1]] <= times[n + 1].arrival
    OBVIOUS
  <2>1. CASE n = a
    BY <1>5, <1>8, <2>1 DEF stops, times
  <2>2. CASE n # a
    <3>1. n > a /\ n \in 2 .. len - 1 /\ n \in 1 .. len - 1 /\ n \in 1 .. len
      BY <1>5, <2>2
    <3>2. H[stops[n]] <= times[n].arrival /\ times[n].arrival <= times[n].departure
      BY <1>4, <1>10, <3>1
    <3>3. H[stops[n]] <= times[n].departure
      BY <1>2, <1>3, <1>6, <1>7, <3>1, <3>2
    <3> QED
      BY <1>8, <3>1, <3>3
  <2> QED
    BY <2>1, <2>2
<1> HIDE DEF Fine
<1>11. 0 .. len \subseteq Fine
  BY <1>9, <1>10, UpTo
<1> QED
  BY <1>5, <1>11 DEF Fine, stops, times

LEMMA GateFootpaths ==
  ASSUME Gated, NEW u \in Stop
  PROVE  Range(tt.transfers[u])
           = IF Runs(feed) = {} THEN {} ELSE {FootpathTo(feed, u, v) : v \in Touched(feed, u)}
<1> DEFINE f == feed
<1>1. UINT32_MAX > 0 /\ WellFormed(f) /\ tt = build(f)
  BY GatedFacts
<1> HIDE DEF f
<1>2. tt.transfers[u] = IF Runs(f) = {} THEN << >> ELSE Footpaths(f, u)
  BY <1>1 DEF build
<1>3. Range(Footpaths(f, u)) = {FootpathTo(f, u, v) : v \in Touched(f, u)}
  BY <1>1, FootpathFacts
<1>4. Range(<< >>) = {}
  BY DEF Range
<1> QED
  BY <1>2, <1>3, <1>4 DEF f

LEMMA PermittedWalks ==
  ASSUME Gated, NEW s, NEW t, NEW H \in Permitted(graph, s, t),
         NEW u \in Stop, NEW w \in Range(tt.transfers[u])
  PROVE  H[w.destination] <= H[u] + w.travel_time
<1> DEFINE f == feed
<1>1. Timetabled /\ UINT32_MAX > 0 /\ WellFormed(f)
  BY GatedFacts
<1>2. Runs(f) # {} /\ \E v \in Touched(f, u) : w = FootpathTo(f, u, v)
  BY GateFootpaths
<1>3. H \in Arrivals /\ H \in [Stop -> Nat]
  BY <1>1 DEF Permitted, Arrivals, Times, Timetabled
<1>4. \A p \in Stop : \A x \in Range(Walkable(f, p)) : H[x.destination] <= H[p] + x.travel_time
  <2> SUFFICES ASSUME NEW p \in Stop, NEW x \in Range(Walkable(f, p))
               PROVE  H[x.destination] <= H[p] + x.travel_time
    OBVIOUS
  <2>1. x \in Range(graph.transfers[p]) /\ x.destination \in Stop
    BY <1>2, GateWalks
  <2>2. StepFrom(graph, H, p, x.destination, H[p] + x.travel_time)
    BY <2>1 DEF StepFrom
  <2> QED
    BY <2>1, <2>2 DEF Permitted
<1> HIDE DEF f
<1>5. H \in Potentials(f)
  BY <1>3, <1>4 DEF Potentials
<1>6. PICK v \in Touched(f, u) : w = FootpathTo(f, u, v)
  BY <1>2
<1>7. v \in Stop /\ Searched(f, u)[v] # UINT32_MAX /\ w.destination = v /\ w.travel_time = Searched(f, u)[v]
  BY <1>6 DEF Touched, FootpathTo
<1>8. Searched(f, u)[v] \in 0 .. UINT32_MAX
  BY <1>1, <1>7, SearchedFacts
<1>9. Searched(f, u)[v] < UINT32_MAX
  BY <1>1, <1>7, <1>8 DEF Timetabled
<1>10. H[v] <= H[u] + Searched(f, u)[v]
  BY <1>1, <1>5, <1>7, <1>9, SearchedFacts
<1> QED
  BY <1>7, <1>10

-----------------------------------------------------------------------------
(* No layer of the query is earlier than the graph allows.                 *)
Sound ==
  asked # << >> =>
    \A H \in Permitted(graph, Last(asked)[1], Last(asked)[2]) :
      \A j \in 0 .. max_rounds : \A p \in Stop : H[p] <= tau[j][p]

LEMMA PermittedBelowRides ==
  ASSUME Gated, NEW s, NEW t, NEW H \in Permitted(graph, s, t),
         NEW at \in Arrivals, \A v \in Stop : H[v] <= at[v], NEW p \in Stop, NEW x,
         RideTo(at, p, x) \/ WalkTo(at, p, x)
  PROVE  H[p] <= x
<1>1. Timetabled /\ H \in Arrivals
  BY GatedFacts DEF Permitted
<1>2. \A v \in Stop : H[v] \in Nat /\ at[v] \in Nat
  BY <1>1, LayerTimes DEF Timetabled
<1>3. CASE RideTo(at, p, x)
  <2>1. PICK r \in Route : \E m \in DOMAIN tt.routes[r].trips, b \in DOMAIN tt.routes[r].stops :
          /\ tt.routes[r].stops[b] = p /\ x = tt.routes[r].trips[m][b].arrival
          /\ \E a \in 1 .. b - 1 : Ready(at, r, a, m)
    BY <1>3 DEF RideTo
  <2>2. PICK m \in DOMAIN tt.routes[r].trips, b \in DOMAIN tt.routes[r].stops :
          /\ tt.routes[r].stops[b] = p /\ x = tt.routes[r].trips[m][b].arrival
          /\ \E a \in 1 .. b - 1 : Ready(at, r, a, m)
    BY <2>1
  <2>3. PICK a \in 1 .. b - 1 : at[tt.routes[r].stops[a]] <= tt.routes[r].trips[m][a].departure
    BY <2>2 DEF Ready
  <2>4. /\ tt.routes[r].stops \in Seq(Stop)
        /\ \A i \in DOMAIN tt.routes[r].stops : tt.routes[r].trips[m][i].departure \in Nat
    BY <1>1, RouteFacts
  <2>5. a \in DOMAIN tt.routes[r].stops
    <3>1. PICK n \in Nat : DOMAIN tt.routes[r].stops = 1 .. n
      BY <2>4
    <3>2. b \in 1 .. n
      BY <3>1
    <3>3. a \in 1 .. n
      BY <3>2
    <3> QED
      BY <3>1, <3>3
  <2>6. tt.routes[r].stops[a] \in Stop /\ tt.routes[r].trips[m][a].departure \in Nat
    BY <2>4, <2>5
  <2>7. H[tt.routes[r].stops[a]] <= tt.routes[r].trips[m][a].departure
    BY <1>2, <2>3, <2>6
  <2> QED
    BY <2>2, <2>7, PermittedRides
<1>4. CASE WalkTo(at, p, x)
  <2>1. PICK u \in Stop : \E w \in Range(tt.transfers[u]) :
          w.destination = p /\ x = at[u] + w.travel_time
    BY <1>4 DEF WalkTo
  <2>2. PICK w \in Range(tt.transfers[u]) : w.destination = p /\ x = at[u] + w.travel_time
    BY <2>1
  <2>3. PICK time \in Nat : time = w.travel_time
    BY <1>1, TransfersOut
  <2>4. H[p] <= H[u] + time
    BY <2>2, <2>3, PermittedWalks
  <2> QED
    BY <1>2, <2>2, <2>3, <2>4
<1> QED
  BY <1>3, <1>4

(* A step that writes only what a layer holds, or what one ride or one     *)
(* walk makes of it.                                                       *)
LEMMA SoundKept ==
  ASSUME Gated, Sound, asked' = asked, graph' = graph,
         \A j \in 0 .. max_rounds, p \in Stop : \E i \in 0 .. max_rounds :
           \/ tau'[j][p] = tau[i][p]
           \/ RideTo(tau[i], p, tau'[j][p]) \/ WalkTo(tau[i], p, tau'[j][p])
  PROVE  Sound'
<1> SUFFICES ASSUME asked # << >>,
                    NEW H \in Permitted(graph, Last(asked)[1], Last(asked)[2]),
                    NEW j \in 0 .. max_rounds, NEW p \in Stop
             PROVE  H[p] <= tau'[j][p]
  BY DEF Sound
<1>1. PICK i \in 0 .. max_rounds :
        \/ tau'[j][p] = tau[i][p]
        \/ RideTo(tau[i], p, tau'[j][p]) \/ WalkTo(tau[i], p, tau'[j][p])
  OBVIOUS
<1>2. tau[i] \in Arrivals /\ \A v \in Stop : H[v] <= tau[i][v]
  BY DEF Gated, Scratch, TypeOK, Sound
<1>3. CASE tau'[j][p] = tau[i][p]
  BY <1>2, <1>3
<1>4. CASE RideTo(tau[i], p, tau'[j][p]) \/ WalkTo(tau[i], p, tau'[j][p])
  BY <1>2, <1>4, PermittedBelowRides
<1> QED
  BY <1>1, <1>3, <1>4

LEMMA SoundStartQuery ==
  ASSUME Gated, Gated', graph' = graph, StartQuery  PROVE  Sound'
<1>1. PICK s \in Stop, t \in Departures :
        LET c == Walked([cur |-> [Unreached EXCEPT ![s] = t],
                         marked |-> marked \cup {s}, list |-> << s >>], s, t)
        IN  /\ tau' = [j \in 0 .. max_rounds |-> IF j = 0 THEN c.cur ELSE Unreached]
            /\ asked' = Append(asked, << s, t >>)
  BY DEF StartQuery
<1>2. marked = {} /\ Timetabled /\ tt' = tt /\ asked \in Seq(Stop \X Departures)
  BY GatedFacts DEF Gated, Scratch, MarksInv, StartQuery, TypeOK
<1>3. tau' = [j \in 0 .. max_rounds |->
                IF j = 0 THEN AfterWalk(tt, OnlyAt(s, t)) ELSE Unreached]
  <2>1. marked \cup {s} = {s}
    BY <1>2
  <2> QED
    BY <1>1, <1>2, <2>1, SourceExact
<1>4. Last(asked') = << s, t >>
  BY <1>1, <1>2 DEF Last
<1>5. t \in Times /\ OnlyAt(s, t) \in Arrivals
  BY <1>2, DeparturesAssumption DEF OnlyAt, Arrivals, Times, Timetabled
<1> SUFFICES ASSUME NEW H \in Permitted(graph, s, t), NEW j \in 0 .. max_rounds, NEW p \in Stop
             PROVE  H[p] <= tau'[j][p]
  BY <1>4 DEF Sound
<1>6. H \in Arrivals /\ H[s] <= t /\ \A v \in Stop : H[v] \in Nat /\ H[v] <= UINT32_MAX
  BY DEF Permitted, Arrivals, Times
<1>7. CASE j = 0
  <2>1. \A v \in Stop : H[v] <= OnlyAt(s, t)[v]
    BY <1>6 DEF OnlyAt
  <2> DEFINE y == AfterWalk(tt, OnlyAt(s, t))
  <2>2. y[p] = OnlyAt(s, t)[p] \/ WalkTo(OnlyAt(s, t), p, y[p])
    BY <1>2, <1>5, AfterWalkFacts
  <2>3. tau'[j] = y
    BY <1>3, <1>7
  <2> HIDE DEF y
  <2>4. CASE y[p] = OnlyAt(s, t)[p]
    BY <2>1, <2>3, <2>4
  <2>5. CASE WalkTo(OnlyAt(s, t), p, y[p])
    BY <1>5, <2>1, <2>3, <2>5, PermittedBelowRides
  <2> QED
    BY <2>2, <2>4, <2>5
<1>8. CASE j # 0
  BY <1>3, <1>6, <1>8 DEF Unreached, RAPTOR_UNREACHED
<1> QED
  BY <1>7, <1>8

(* Every action of a round is such a step.                                 *)
LEMMA SoundSearch ==
  ASSUME Gated, Sound, graph' = graph, Search  PROVE  Sound'
<1>1. Scratch /\ Timetabled /\ asked' = asked /\ tau \in [0 .. max_rounds -> Arrivals]
  BY GatedFacts DEF Gated, Scratch, TypeOK, Search, BeginRound, ScanRoute, BeginWalks,
                    WalkFrom, EndRound
<1>2. CASE UNCHANGED tau
  BY <1>1, <1>2, SoundKept
<1>3. CASE BeginRound
  <2>1. k - 1 \in 0 .. max_rounds /\ tau' = [tau EXCEPT ![k] = tau[k - 1]]
    BY <1>1, <1>3, InRound DEF BeginRound
  <2>2. ASSUME NEW j \in 0 .. max_rounds
        PROVE  \E i \in 0 .. max_rounds : tau'[j] = tau[i]
    BY <1>1, <2>1
  <2>3. \A j \in 0 .. max_rounds, p \in Stop :
          \E i \in 0 .. max_rounds : tau'[j][p] = tau[i][p]
    BY <2>2
  <2> QED
    BY <1>1, <2>3, SoundKept
<1>4. ASSUME NEW cur, tau' = [tau EXCEPT ![k] = cur], k \in 0 .. max_rounds,
             NEW i \in 0 .. max_rounds,
             \A p \in Stop : cur[p] = tau[k][p] \/ RideTo(tau[i], p, cur[p])
                                                \/ WalkTo(tau[i], p, cur[p])
      PROVE  Sound'
  <2>1. tau'[k] = cur /\ \A j \in 0 .. max_rounds : j # k => tau'[j] = tau[j]
    BY <1>1, <1>4
  <2>2. ASSUME NEW j \in 0 .. max_rounds, NEW p \in Stop
        PROVE  \E h \in 0 .. max_rounds :
                 \/ tau'[j][p] = tau[h][p]
                 \/ RideTo(tau[h], p, tau'[j][p]) \/ WalkTo(tau[h], p, tau'[j][p])
    <3>1. CASE j # k
      BY <2>1, <3>1
    <3>2. CASE j = k
      BY <1>4, <2>1, <3>2
    <3> QED
      BY <3>1, <3>2
  <2> QED
    BY <1>1, <2>2, SoundKept
<1>5. CASE ScanRoute
  <2> DEFINE r == Head(queue_list)
             c == Scanned(Layer, tau[k - 1], r, queue_pos[r])
  <2>1. phase = "scan" /\ queue_list # << >> /\ tau' = [tau EXCEPT ![k] = c.cur]
    BY <1>5 DEF ScanRoute
  <2>2. /\ k \in 0 .. max_rounds /\ k - 1 \in 0 .. max_rounds /\ tau[k - 1] \in Arrivals
        /\ Layer \in LayerType /\ Layer.cur = tau[k]
    BY <1>1, <2>1, InRound DEF Layer
  <2>3. r \in Route /\ queue_pos[r] \in DOMAIN tt.routes[r].stops
    BY <1>1, <2>1, HeadFacts
  <2> HIDE DEF r
  <2>4. ScanLayer(Layer, tau[k - 1], c)
    BY <1>1, <2>2, <2>3, ScannedFacts
  <2> HIDE DEF c
  <2>5. \A p \in Stop : c.cur[p] = tau[k][p] \/ RideTo(tau[k - 1], p, c.cur[p])
    BY <2>2, <2>4 DEF ScanLayer
  <2> QED
    BY <1>4, <2>1, <2>2, <2>5
<1>6. CASE WalkFrom
  <2> DEFINE p0 == Head(walkers)
             base == tau[k][p0]
             c == Walked(Layer, p0, base)
  <2>1. phase = "walk" /\ walkers # << >> /\ tau' = [tau EXCEPT ![k] = c.cur]
    BY <1>6 DEF WalkFrom
  <2>2. /\ k \in 0 .. max_rounds /\ tau[k] \in Arrivals
        /\ Layer \in LayerType /\ Layer.cur = tau[k]
    BY <1>1, <2>1, InRound DEF Layer
  <2>3. p0 \in Stop /\ walkers \in Seq(Stop)
    BY <1>1, <2>1, HeadTailFacts DEF Scratch, TypeOK
  <2> HIDE DEF p0
  <2>4. base \in Nat
    BY <1>1, <2>2, <2>3, LayerTimes DEF Timetabled
  <2>5. WalkedUpTo(Layer, p0, base, Len(tt.transfers[p0]), c)
    <3> HIDE DEF base
    <3> QED
      BY <1>1, <2>2, <2>3, <2>4, WalkedFacts
  <2> HIDE DEF c
  <2>6. ASSUME NEW p \in Stop  PROVE  c.cur[p] = tau[k][p] \/ WalkTo(tau[k], p, c.cur[p])
    <3>1. c.cur[p] = tau[k][p]
            \/ \E w \in Range(tt.transfers[p0]) : w.destination = p /\ c.cur[p] = base + w.travel_time
      <4> HIDE DEF base
      <4> QED
        BY <2>2, <2>5 DEF WalkedUpTo
    <3> QED
      BY <2>3, <3>1 DEF WalkTo
  <2> QED
    BY <1>4, <2>1, <2>2, <2>6
<1> QED
  BY <1>2, <1>3, <1>5, <1>6 DEF Search, BeginWalks, EndRound

-----------------------------------------------------------------------------
(* A query that ends below its cap ends because a round changed nothing.   *)
Ended ==
  phase = "idle" /\ asked # << >> /\ ~ hit_round_cap
    => rounds + 1 \in 1 .. max_rounds /\ Exact[rounds + 1] = Exact[rounds]

LEMMA EndedStep ==
  ASSUME Scratch, ExactInv, Ended, [Next]_vars  PROVE  Ended'
<1>1. CASE StartQuery \/ BeginRound \/ ScanRoute \/ BeginWalks \/ WalkFrom
  <2>1. phase' # "idle"
    BY <1>1 DEF StartQuery, BeginRound, ScanRoute, BeginWalks, WalkFrom
  <2> QED
    BY <2>1 DEF Ended
<1>2. CASE UNCHANGED vars
  <2>1. Exact' = Exact
    BY <1>2 DEF vars, Exact
  <2> QED
    BY <1>2, <2>1 DEF vars, Ended
<1>3. CASE EndRound
  <2> SUFFICES ASSUME phase' = "idle", ~ hit_round_cap'
               PROVE  rounds' + 1 \in 1 .. max_rounds /\ Exact'[rounds' + 1] = Exact'[rounds']
    BY DEF Ended
  <2>1. /\ phase = "walk" /\ walkers = << >> /\ UNCHANGED << tt, tau, asked >>
        /\ max_rounds \in Nat
    BY <1>3, SizeAssumption DEF EndRound
  <2>2. /\ k \in 1 .. max_rounds /\ tau[k] \in Arrivals /\ tau[k - 1] \in Arrivals
        /\ MarksOK(Layer, tau[k - 1])
    BY <2>1, InRound
  <2>3. rounds = k - 1 /\ tau[k] = Exact[k] /\ tau[k - 1] = Exact[k - 1]
    <3>1. rounds = k - 1 /\ asked # << >> /\ \A j \in 0 .. rounds : tau[j] = Exact[j]
      BY <2>1 DEF ExactInv
    <3>2. rounds \in 0 .. rounds
      BY <2>2, <3>1
    <3> QED
      BY <2>1, <3>1, <3>2, LayerDone
  <2>4. Exact' = Exact
    BY <2>1 DEF Exact
  <2>5. marked_list = << >> /\ rounds' = rounds
    <3>1. CASE marked_list = << >> /\ EndQuery /\ UNCHANGED << rounds, hit_round_cap >>
      BY <3>1
    <3>2. CASE ~ RoundsLeft /\ hit_round_cap' = AtCap
      <4>1. AtCap
        BY <2>1, <2>2, <3>2 DEF RoundsLeft, AtCap
      <4> QED
        BY <3>2, <4>1, Zenon
    <3>3. CASE phase' = "round"
      BY <3>3
    <3> QED
      BY <1>3, <3>1, <3>2, <3>3 DEF EndRound
  <2>6. tau[k] = tau[k - 1]
    <3>1. {p \in Stop : tau[k][p] < tau[k - 1][p]} = {}
      BY <2>2, <2>5 DEF MarksOK, Layer, Range
    <3>2. \A p \in Stop : tau[k][p] <= tau[k - 1][p]
      BY <2>2 DEF MarksOK, Layer
    <3>3. \A p \in Stop : tau[k][p] \in Nat /\ tau[k - 1][p] \in Nat
      BY <2>2, LayerTimes, TimetableOK DEF Scratch, Timetabled
    <3>4. \A p \in Stop : tau[k][p] = tau[k - 1][p]
      BY <3>1, <3>2, <3>3
    <3> QED
      BY <2>2, <3>4 DEF Arrivals
  <2> HIDE DEF Exact
  <2>7. rounds' + 1 = k
    BY <2>2, <2>3, <2>5
  <2> QED
    BY <2>2, <2>3, <2>4, <2>5, <2>6, <2>7
<1> QED
  BY <1>1, <1>2, <1>3 DEF Next, Search

(* The arrivals such a query ends with, no edge and no walk of the graph   *)
(* improves.                                                               *)
LEMMA EndedIsPermitted ==
  ASSUME Gated, ExactInv, Ended, phase = "idle", asked # << >>, ~ hit_round_cap,
         tt.routes # << >>
  PROVE  tau[rounds] \in Permitted(graph, Last(asked)[1], Last(asked)[2])
<1> DEFINE y == tau[rounds]
           s == Last(asked)[1]
           t == Last(asked)[2]
<1>1. Scratch /\ Timetabled /\ max_rounds \in Nat /\ Closed
  BY GatedFacts, SizeAssumption DEF Gated, ExactInv
<1>2. /\ rounds + 1 \in 1 .. max_rounds /\ Exact[rounds + 1] = Exact[rounds]
      /\ rounds \in 0 .. max_rounds /\ y = Exact[rounds]
  <2>1. rounds \in 0 .. max_rounds /\ rounds \in 0 .. rounds
    BY <1>1 DEF Scratch, TypeOK
  <2> QED
    BY <2>1 DEF Ended, ExactInv
<1>3. s \in Stop /\ t \in Times
  <2>1. Last(asked) \in Stop \X Departures
    BY <1>1 DEF Scratch, TypeOK, Last
  <2>2. s \in Stop /\ t \in Departures
    BY <2>1
  <2>3. Departures \subseteq Times
    BY DeparturesAssumption DEF Times
  <2> QED
    BY <2>2, <2>3
<1>4. /\ y \in Arrivals /\ y = AfterWalk(tt, AfterRide(tt, y)) /\ WalkedOut(y)
      /\ Exact[0] \in Arrivals /\ \A p \in Stop : y[p] <= Exact[0][p]
  <2>1. 0 \in 0 .. rounds /\ 0 \in 0 .. max_rounds /\ (rounds + 1) - 1 = rounds
    BY <1>1, <1>2
  <2> HIDE DEF Exact, y
  <2>2. Exact[rounds + 1] = AfterWalk(tt, AfterRide(tt, Exact[(rounds + 1) - 1]))
    BY <1>1, <1>2, ExactContext
  <2> QED
    BY <1>1, <1>2, <2>1, <2>2, ExactContext
<1>5. \A p \in Stop : y[p] \in Nat /\ y[p] <= UINT32_MAX
  BY <1>4 DEF Arrivals, Times
<1>6. y[s] <= t
  <2>1. Exact[0] = AfterWalk(tt, OnlyAt(s, t))
    BY <1>1, <1>3, AtMostFacts DEF Exact, ExactLayers
  <2>2. OnlyAt(s, t) \in Arrivals /\ OnlyAt(s, t)[s] = t
    BY <1>1, <1>3 DEF OnlyAt, Arrivals, Times, Timetabled
  <2>3. Exact[0][s] <= t
    BY <1>1, <1>3, <2>1, <2>2, AfterWalkFacts
  <2>4. Exact[0][s] \in Nat /\ t \in Nat
    BY <1>3, <1>4 DEF Arrivals, Times
  <2> HIDE DEF Exact, y, s, t
  <2> QED
    BY <1>3, <1>4, <1>5, <2>3, <2>4
<1> HIDE DEF y, s, t, Exact
<1>7. \A v \in Stop : \A x : RideTo(y, v, x) => y[v] <= x
  <2> SUFFICES ASSUME NEW v \in Stop, NEW x, RideTo(y, v, x)  PROVE  y[v] <= x
    OBVIOUS
  <2> DEFINE z == AfterRide(tt, y)
  <2>1. z \in Arrivals /\ z[v] <= x
    BY <1>1, <1>4, AfterRideFacts
  <2>2. y[v] <= z[v]
    <3> HIDE DEF z
    <3>1. AfterWalk(tt, z)[v] <= z[v]
      BY <1>1, <2>1, AfterWalkFacts
    <3> QED
      BY <1>4, <3>1 DEF z
  <2>3. x \in Nat
    <3>1. PICK r \in Route : \E m \in DOMAIN tt.routes[r].trips, b \in DOMAIN tt.routes[r].stops :
            x = tt.routes[r].trips[m][b].arrival
      BY DEF RideTo
    <3>2. \A m \in DOMAIN tt.routes[r].trips : \A i \in DOMAIN tt.routes[r].stops :
            tt.routes[r].trips[m][i].arrival \in Nat
      BY <1>1, RouteFacts
    <3> QED
      BY <3>1, <3>2
  <2> HIDE DEF z
  <2>4. z[v] \in Nat
    BY <2>1 DEF Arrivals, Times
  <2> QED
    BY <1>5, <2>1, <2>2, <2>3, <2>4
<1>8. ASSUME NEW u \in Stop, NEW e \in Range(graph.edges[u]), e.destination \in Stop,
             y[u] # UINT32_MAX, y[u] <= e.departure_time
      PROVE  y[e.destination] <= e.departure_time + e.travel_time
  <2>1. PICK r \in Route :
          \E m \in DOMAIN tt.routes[r].trips, i \in 1 .. Len(tt.routes[r].stops) - 1 :
            /\ tt.routes[r].stops[i] = u /\ tt.routes[r].trips[m][i].departure = e.departure_time
            /\ tt.routes[r].stops[i + 1] = e.destination
            /\ tt.routes[r].trips[m][i + 1].arrival = e.departure_time + e.travel_time
    BY EdgeIsOfTrip
  <2>2. PICK m \in DOMAIN tt.routes[r].trips, i \in 1 .. Len(tt.routes[r].stops) - 1 :
            /\ tt.routes[r].stops[i] = u /\ tt.routes[r].trips[m][i].departure = e.departure_time
            /\ tt.routes[r].stops[i + 1] = e.destination
            /\ tt.routes[r].trips[m][i + 1].arrival = e.departure_time + e.travel_time
    BY <2>1
  <2>3. Ready(y, r, i, m)
    BY <1>8, <2>2 DEF Ready
  <2>4. i + 1 \in DOMAIN tt.routes[r].stops /\ i \in 1 .. (i + 1) - 1
    <3>1. PICK n \in Nat : n = Len(tt.routes[r].stops) /\ DOMAIN tt.routes[r].stops = 1 .. n
      BY <1>1, RouteFacts
    <3>2. i \in 1 .. n - 1
      BY <3>1
    <3>3. i + 1 \in 1 .. n /\ i \in 1 .. (i + 1) - 1
      BY <3>2
    <3> QED
      BY <3>1, <3>3
  <2>5. RideTo(y, e.destination, e.departure_time + e.travel_time)
    BY <2>2, <2>3, <2>4 DEF RideTo
  <2> QED
    BY <1>7, <1>8, <2>5
<1>9. ASSUME NEW u \in Stop, NEW w \in Range(graph.transfers[u])
      PROVE  y[w.destination] <= y[u] + w.travel_time
  <2> DEFINE f == feed
             v == w.destination
             d == Searched(f, u)
  <2>1. /\ WellFormed(f) /\ UINT32_MAX > 0 /\ UINT32_MAX \in Nat /\ Runs(f) # {}
    BY <1>1, GatedFacts, RoutesComeFromRuns DEF Timetabled
  <2>2. w \in Range(Walkable(f, u)) /\ v \in Stop /\ w.travel_time \in Nat \ {0}
    BY GateWalks
  <2> HIDE DEF f
  <2>3. d \in [Stop -> 0 .. UINT32_MAX] /\ d[u] = 0 /\ d[v] <= w.travel_time
    BY <2>1, <2>2, SearchedFacts
  <2> HIDE DEF d
  <2>4. d[v] \in 0 .. UINT32_MAX
    BY <2>2, <2>3
  <2>5. CASE w.travel_time >= UINT32_MAX
    BY <1>5, <2>1, <2>2, <2>5
  <2>6. CASE w.travel_time < UINT32_MAX /\ v = u
    BY <1>5, <2>2, <2>6
  <2>7. CASE w.travel_time < UINT32_MAX /\ v # u
    <3>1. d[v] # UINT32_MAX
      BY <2>1, <2>2, <2>3, <2>4, <2>7
    <3>2. v \in Touched(f, u)
      BY <2>2, <2>7, <3>1 DEF Touched, d
    <3>3. FootpathTo(f, u, v) \in Range(tt.transfers[u])
      BY <2>1, <3>2, GateFootpaths DEF f
    <3>4. FootpathTo(f, u, v).destination = v /\ FootpathTo(f, u, v).travel_time = d[v]
      BY DEF FootpathTo, d
    <3>5. y[v] <= y[u] + d[v]
      BY <1>4, <3>3, <3>4 DEF WalkedOut
    <3> QED
      BY <1>5, <2>2, <2>3, <2>4, <3>5
  <2> QED
    BY <2>1, <2>2, <2>5, <2>6, <2>7
<1>10. \A u, v \in Stop : \A x : StepFrom(graph, y, u, v, x) => y[v] <= x
  BY <1>8, <1>9 DEF StepFrom
<1> QED
  BY <1>4, <1>6, <1>10 DEF Permitted, y, s, t

-----------------------------------------------------------------------------
(* The inductive invariant of the gate.                                    *)
GateInv == Gated /\ Sound /\ (Closed => ExactInv /\ Ended)

LEMMA GateInvInit == ASSUME GateInit  PROVE  GateInv
<1>1. feed \in Feeds /\ timetable = build(feed) /\ tt = timetable /\ Fresh
      /\ graph = build_with_transfers(feed, gate_objective(feed))
  BY DEF GateInit
<1>2. WellBuilt(tt)
  BY <1>1, FeedIsBounded, BuildIsWellBuilt
<1>3. Gated
  BY <1>1, <1>2, ScratchFresh DEF Gated
<1> QED
  BY <1>1, <1>3 DEF GateInv, Fresh, Sound, ExactInv, Ended

LEMMA GateInvStep == ASSUME GateInv, [GateNext]_gateVars  PROVE  GateInv'
<1>1. Gated /\ Sound /\ Scratch /\ [Next]_vars /\ UNCHANGED << feed, graph, timetable >>
  BY DEF GateInv, Gated, GateNext, gateVars, vars, buildVars
<1>2. tt' = tt
  BY <1>1 DEF vars, Next, Search, StartQuery, BeginRound, ScanRoute, BeginWalks, WalkFrom, EndRound
<1>3. Scratch'
  BY <1>1, ScratchStep
<1>4. Gated'
  BY <1>1, <1>2, <1>3 DEF Gated
<1>5. Sound'
  <2>1. CASE StartQuery
    BY <1>1, <1>4, <2>1, SoundStartQuery
  <2>2. CASE Search
    BY <1>1, <2>2, SoundSearch
  <2>3. CASE UNCHANGED vars
    BY <1>1, <2>3 DEF vars, Sound
  <2> QED
    BY <1>1, <2>1, <2>2, <2>3 DEF Next
<1>6. ASSUME Closed'  PROVE  ExactInv' /\ Ended'
  <2>1. Closed
    BY <1>2, <1>6 DEF Closed
  <2>2. ExactInv /\ Ended
    BY <2>1 DEF GateInv
  <2> QED
    BY <1>1, <1>3, <2>2, ExactStep, EndedStep
<1> QED
  BY <1>4, <1>5, <1>6 DEF GateInv

LEMMA GateInvAgrees == ASSUME GateInv  PROVE  EngineAgrees
<1> SUFFICES ASSUME phase = "idle", asked # << >>, tt.routes # << >>
             PROVE  LET earliest == EarliestArrivals(graph, Last(asked)[1], Last(asked)[2])
                    IN  \A p \in Stop :
                          /\ best(p) >= earliest[p]
                          /\ ~ hit_round_cap /\ Closed => best(p) = earliest[p]
  BY DEF EngineAgrees, Answered, Closed
<1> DEFINE s == Last(asked)[1]
           t == Last(asked)[2]
           e == EarliestArrivals(graph, s, t)
           y == tau[rounds]
<1>1. Gated /\ Scratch /\ Timetabled /\ max_rounds \in Nat /\ NumStops \in Nat
  BY GatedFacts, SizeAssumption DEF GateInv, Gated
<1>2. s \in Stop /\ t \in Times
  <2>1. Last(asked) \in Stop \X Departures
    BY <1>1 DEF Scratch, TypeOK, Last
  <2>2. s \in Stop /\ t \in Departures
    BY <2>1
  <2>3. Departures \subseteq Times
    BY DeparturesAssumption DEF Times
  <2> QED
    BY <2>2, <2>3
<1>3. rounds \in 0 .. max_rounds /\ y \in Arrivals
  BY <1>1 DEF Scratch, TypeOK
<1>4. /\ e \in Permitted(graph, s, t)
      /\ \A H \in Permitted(graph, s, t) : \A v \in Stop : H[v] <= e[v]
  <2> HIDE DEF s, t
  <2> QED
    BY <1>1, <1>2, GateGraph, EarliestIsGreatest
<1>5. \A p \in Stop : y[p] \in Nat /\ e[p] \in Nat
  BY <1>3, <1>4 DEF Permitted, Arrivals, Times
<1>6. \A p \in Stop : e[p] <= y[p]
  BY <1>3, <1>4 DEF GateInv, Sound
<1>7. ASSUME ~ hit_round_cap, Closed  PROVE  \A p \in Stop : y[p] <= e[p]
  <2>1. y \in Permitted(graph, s, t)
    BY <1>1, <1>7, EndedIsPermitted DEF GateInv
  <2> HIDE DEF s, t, e, y
  <2> QED
    BY <1>4, <2>1
<1>8. \A p \in Stop : best(p) = y[p]
  BY DEF best
<1> HIDE DEF e, y
<1>9. \A p \in Stop : y[p] >= e[p] /\ (~ hit_round_cap /\ Closed => y[p] = e[p])
  BY <1>5, <1>6, <1>7
<1> QED
  BY <1>8, <1>9 DEF e, s, t

(* Whatever feed the gate reads: an answer of RAPTOR on the timetable is   *)
(* never earlier than the graph of the same feed allows, and one that did  *)
(* not hit its round cap, over closed footpaths, is the earliest arrival   *)
(* on the graph, at every stop and to the second (raptor_bench.cpp, "Under *)
(* those settings the two algorithms solve an identical problem").         *)
THEOREM EngineAgreesHolds == GateSpec => []EngineAgrees
BY GateInvInit, GateInvStep, GateInvAgrees, PTL DEF GateSpec

(* And on what the gate builds, whatever the feed: the scratch, the marks  *)
(* and, over closed footpaths, every round.                                *)
THEOREM GateRounds ==
  GateSpec => [](/\ ScratchClean /\ MarksAreImprovements
                 /\ transfers_are_transitively_closed(tt) => LayersExact)
<1>1. GateInv => /\ ScratchClean /\ MarksAreImprovements
                 /\ transfers_are_transitively_closed(tt) => LayersExact
  BY ScratchIsClean, ScratchMarksImprove, ExactLayersExact DEF GateInv, Gated, Closed
<1> QED
  BY <1>1, GateInvInit, GateInvStep, PTL DEF GateSpec

=============================================================================
