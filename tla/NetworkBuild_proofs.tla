------------------------- MODULE NetworkBuild_proofs -------------------------
(***************************************************************************)
(* Proofs about both builders: what RaptorBuilder builds is what Raptor    *)
(* needs, and what GraphBuilder builds of the same feed has the same       *)
(* connections and walks.                                                  *)
(***************************************************************************)
EXTENDS NetworkBuild, Lemmas

-----------------------------------------------------------------------------
(* Sorting.  A strict total order puts each element of a finite set in one *)
(* place, the number of elements before it.                                *)
StrictOrder(before, S) ==
  /\ \A x \in S : << x, x >> \notin before
  /\ \A x, y \in S : x # y => << x, y >> \in before \/ << y, x >> \in before
  /\ \A x, y, z \in S : << x, y >> \in before /\ << y, z >> \in before => << x, z >> \in before

LEMMA OrderTakesAll ==
  ASSUME NEW S, IsFiniteSet(S), NEW before, StrictOrder(before, S)
  PROVE  /\ Cardinality(S) \in Nat
         /\ InOrderOf(S, before) \in [1 .. Cardinality(S) -> S]
         /\ \A x \in S : \E i \in 1 .. Cardinality(S) : InOrderOf(S, before)[i] = x
         /\ \A i, j \in 1 .. Cardinality(S) :
              i < j => << InOrderOf(S, before)[i], InOrderOf(S, before)[j] >> \in before
<1> DEFINE n == Cardinality(S)
           Earlier(x) == {y \in S : << y, x >> \in before}
           rank == [x \in S |-> Cardinality(Earlier(x))]
<1>1. n \in Nat
  BY FS_CardinalityType
<1>2. ASSUME NEW x \in S
      PROVE  IsFiniteSet(Earlier(x)) /\ rank[x] \in 0 .. n - 1
  <2>1. Earlier(x) \subseteq S /\ x \notin Earlier(x)
    BY DEF StrictOrder
  <2>2. IsFiniteSet(Earlier(x)) /\ Cardinality(Earlier(x)) <= n /\ Cardinality(Earlier(x)) # n
    BY <2>1, FS_Subset
  <2>3. Cardinality(Earlier(x)) \in Nat
    BY <2>2, FS_CardinalityType
  <2> QED
    BY <1>1, <2>2, <2>3
<1> HIDE DEF n
<1>0. \A x \in S : rank[x] \in Nat
  <2> SUFFICES ASSUME NEW x \in S  PROVE  rank[x] \in Nat
    OBVIOUS
  <2>1. rank[x] \in 0 .. n - 1
    BY <1>2
  <2> HIDE DEF rank
  <2> QED
    BY <1>1, <2>1
<1>3. ASSUME NEW x \in S, NEW y \in S, << x, y >> \in before
      PROVE  rank[x] < rank[y]
  <2>1. Earlier(x) \subseteq Earlier(y) /\ x \in Earlier(y) /\ x \notin Earlier(x)
    BY <1>3 DEF StrictOrder
  <2>2. IsFiniteSet(Earlier(y)) /\ rank[x] \in Nat /\ rank[y] \in Nat
    BY <1>0, <1>2
  <2>3. Cardinality(Earlier(x)) <= Cardinality(Earlier(y)) /\ Cardinality(Earlier(x)) # Cardinality(Earlier(y))
    BY <2>1, <2>2, FS_Subset
  <2> QED
    BY <2>2, <2>3
<1>4. \A x, y \in S : rank[x] = rank[y] => x = y
  <2> SUFFICES ASSUME NEW x \in S, NEW y \in S, x # y  PROVE  rank[x] # rank[y]
    OBVIOUS
  <2>1. rank[x] < rank[y] \/ rank[y] < rank[x]
    BY <1>3 DEF StrictOrder
  <2>2. rank[x] \in Nat /\ rank[y] \in Nat
    BY <1>0
  <2> HIDE DEF rank
  <2> QED
    BY <2>1, <2>2
<1> DEFINE taken == {rank[x] : x \in S}
<1>5. taken \subseteq 0 .. n - 1
  BY <1>2
<1>6. rank \in Bijection(S, taken)
  BY <1>4 DEF Bijection, Injection, Surjection, IsInjective
<1>7. IsFiniteSet(taken) /\ Cardinality(taken) = n
  BY <1>6, FS_Bijection DEF ExistsBijection, n
<1>8. IsFiniteSet(0 .. n - 1) /\ Cardinality(0 .. n - 1) = n
  BY <1>1, FS_Interval
<1>9. taken = 0 .. n - 1
  BY <1>5, <1>7, <1>8, FS_Subset
<1> HIDE DEF taken
<1> DEFINE s == InOrderOf(S, before)
<1>10. s = [i \in 1 .. n |-> CHOOSE x \in S : Cardinality(Earlier(x)) = i - 1]
  BY DEF InOrderOf, n
<1>11. ASSUME NEW i \in 1 .. n
       PROVE  s[i] \in S /\ rank[s[i]] = i - 1
  <2>1. i - 1 \in taken
    BY <1>1, <1>9
  <2>2. \E x \in S : Cardinality(Earlier(x)) = i - 1
    BY <2>1 DEF taken
  <2>3. s[i] = CHOOSE x \in S : Cardinality(Earlier(x)) = i - 1
    BY <1>10
  <2>4. s[i] \in S /\ Cardinality(Earlier(s[i])) = i - 1
    BY <2>2, <2>3
  <2> QED
    BY <2>4
<1> HIDE DEF rank
<1>12. s \in [1 .. n -> S]
  BY <1>10, <1>11
<1>13. ASSUME NEW x \in S
       PROVE  \E i \in 1 .. n : s[i] = x
  <2>1. rank[x] \in 0 .. n - 1
    BY <1>2
  <2>2. rank[x] + 1 \in 1 .. n /\ (rank[x] + 1) - 1 = rank[x]
    BY <1>1, <2>1
  <2>3. rank[s[rank[x] + 1]] = rank[x] /\ s[rank[x] + 1] \in S
    BY <1>11, <2>2
  <2> QED
    BY <1>4, <2>2, <2>3
<1>14. ASSUME NEW i \in 1 .. n, NEW j \in 1 .. n, i < j
       PROVE  << s[i], s[j] >> \in before
  <2>1. s[i] \in S /\ s[j] \in S /\ rank[s[i]] = i - 1 /\ rank[s[j]] = j - 1
    BY <1>11
  <2>2. s[i] # s[j] /\ ~ (rank[s[j]] < rank[s[i]])
    BY <1>1, <1>14, <2>1
  <2> QED
    BY <1>3, <2>1, <2>2 DEF StrictOrder
<1> QED
  BY <1>1, <1>12, <1>13, <1>14 DEF n

-----------------------------------------------------------------------------
(* The records of a trip in order.                                         *)
LEMMA Sizes == NumStops \in Nat /\ UINT32_MAX \in Nat
BY SizesAssumption

LEMMA RecordTypes ==
  ASSUME NEW r \in StopTimeRecords
  PROVE  /\ r.trip_id \in Nat /\ r.stop_sequence \in Nat /\ r.stop \in 0 .. NumStops
         /\ r.arrival_time \in Nat /\ r.departure_time \in Nat
         /\ r.stop # Unresolved => r.stop \in Stop
<1>1. /\ r.trip_id \in Nat /\ r.stop_sequence \in Nat /\ r.stop \in 0 .. NumStops
      /\ r.arrival_time \in 0 .. UINT32_MAX /\ r.departure_time \in 0 .. UINT32_MAX
  BY DEF StopTimeRecords
<1> QED
  BY <1>1, Sizes DEF Stop, Unresolved

LEMMA RecordsInOrder ==
  ASSUME NEW f, WellFormed(f), NEW t \in Trips(f)
  PROVE  LET own == {r \in f.stop_times : r.trip_id = t}
         IN  /\ Cardinality(own) \in Nat \ {0}
             /\ TripRecords(f, t) \in [1 .. Cardinality(own) -> own]
             /\ \A x \in own : \E i \in 1 .. Cardinality(own) : TripRecords(f, t)[i] = x
             /\ \A i, j \in 1 .. Cardinality(own) :
                  i < j => TripRecords(f, t)[i].stop_sequence < TripRecords(f, t)[j].stop_sequence
<1> DEFINE own == {r \in f.stop_times : r.trip_id = t}
           before == {p \in own \X own : p[1].stop_sequence < p[2].stop_sequence}
<1>1. IsFiniteSet(own) /\ own \subseteq f.stop_times /\ own # {}
  <2>1. own \subseteq f.stop_times /\ own # {}
    BY DEF Trips
  <2> QED
    BY <2>1, FS_Subset DEF WellFormed
<1>2. \A x \in own : x.stop_sequence \in Nat
  BY DEF WellFormed, StopTimeRecords
<1>3. \A x, y \in own : x # y => x.stop_sequence # y.stop_sequence
  BY DEF WellFormed
<1>4. StrictOrder(before, own)
  BY <1>2, <1>3 DEF StrictOrder
<1>5. TripRecords(f, t) = InOrderOf(own, before)
  BY DEF TripRecords, Sorted
<1>6. Cardinality(own) \in Nat \ {0}
  BY <1>1, FS_CardinalityType, FS_EmptySet
<1> HIDE DEF own, before
<1> DEFINE s == InOrderOf(own, before)
<1>7. /\ s \in [1 .. Cardinality(own) -> own]
      /\ \A x \in own : \E i \in 1 .. Cardinality(own) : s[i] = x
      /\ \A i, j \in 1 .. Cardinality(own) : i < j => << s[i], s[j] >> \in before
  <2>1. IsFiniteSet(own) /\ StrictOrder(before, own)
    BY <1>1, <1>4
  <2> HIDE DEF s
  <2>2. /\ InOrderOf(own, before) \in [1 .. Cardinality(own) -> own]
        /\ \A x \in own : \E i \in 1 .. Cardinality(own) : InOrderOf(own, before)[i] = x
        /\ \A i, j \in 1 .. Cardinality(own) :
             i < j => << InOrderOf(own, before)[i], InOrderOf(own, before)[j] >> \in before
    BY ONLY <2>1, OrderTakesAll
  <2> QED
    BY <2>2 DEF s
<1>8. \A i, j \in 1 .. Cardinality(own) : i < j => s[i].stop_sequence < s[j].stop_sequence
  BY <1>7 DEF before
<1> QED
  BY <1>5, <1>6, <1>7, <1>8 DEF own

LEMMA RecordsAreSequence ==
  ASSUME NEW f, WellFormed(f), NEW t \in Trips(f)
  PROVE  /\ TripRecords(f, t) \in Seq(StopTimeRecords)
         /\ Len(TripRecords(f, t)) \in Nat \ {0}
         /\ \A i \in 1 .. Len(TripRecords(f, t)) : TripRecords(f, t)[i].trip_id = t
<1> DEFINE own == {r \in f.stop_times : r.trip_id = t}
<1>1. own \subseteq StopTimeRecords /\ \A r \in own : r.trip_id = t
  BY DEF WellFormed
<1> HIDE DEF own
<1>2. Cardinality(own) \in Nat \ {0} /\ TripRecords(f, t) \in [1 .. Cardinality(own) -> own]
  BY RecordsInOrder DEF own
<1> QED
  BY <1>1, <1>2

-----------------------------------------------------------------------------
(* Cutting a trip into runs.  A run is at its inner stops until after it   *)
(* arrived, and the connections of the runs are the admitted segments.     *)
RawRun == [stops : Seq(Stop), times : Seq(StopTime)]
UsableRun ==
  {r \in RawRun : /\ Len(r.stops) = Len(r.times) /\ Len(r.stops) >= 2
                  /\ \A i \in 2 .. Len(r.stops) - 1 :
                       r.times[i].arrival <= r.times[i].departure}
Cut == [run : RawRun, runs : Seq(UsableRun)]

ConnectionsOf(run) == TripConnections(run.stops, run.times)
Carried(c) ==
  ConnectionsOf(c.run) \cup UNION {ConnectionsOf(r) : r \in Range(c.runs)}
Connection(from, to) ==
  << from.stop, from.departure_time, to.stop, Max2(to.arrival_time, from.departure_time + 1) >>
AdmittedUpTo(rs, k) ==
  {Connection(rs[j], rs[j + 1]) : j \in {i \in 1 .. k : SegmentAdmitted(rs[i], rs[i + 1])}}

(* The run that is open at record k + 1 can be ridden on.                  *)
OpenAt(run, r) ==
  /\ run \in UsableRun
  /\ LET n == Len(run.stops)
     IN  /\ run.stops[n] = r.stop
         /\ run.times[n].departure = r.departure_time
         /\ run.times[n].arrival <= run.times[n].departure
CutOK(rs, k, c) ==
  /\ c \in Cut
  /\ c.run = NoRun \/ OpenAt(c.run, rs[k + 1])
  /\ Carried(c) = AdmittedUpTo(rs, k)

(* A longer run has one connection more.                                   *)
LEMMA ConnectionAdded ==
  ASSUME NEW stops \in Seq(Stop), NEW times \in Seq(StopTime), NEW v \in Stop, NEW x \in StopTime,
         Len(stops) = Len(times), Len(stops) >= 1
  PROVE  TripConnections(Append(stops, v), Append(times, x))
           = TripConnections(stops, times)
               \cup {<< stops[Len(stops)], times[Len(stops)].departure, v, x.arrival >>}
<1> DEFINE n == Len(stops)
           s == Append(stops, v)
           t == Append(times, x)
           Link(i) == << s[i], t[i].departure, s[i + 1], t[i + 1].arrival >>
<1>1. n \in Nat /\ n >= 1 /\ Len(s) = n + 1 /\ Len(times) = n
  OBVIOUS
<1>2. /\ \A i \in 1 .. n : s[i] = stops[i] /\ t[i] = times[i]
      /\ s[n + 1] = v /\ t[n + 1] = x
  BY <1>1
<1>3. TripConnections(s, t) = {Link(i) : i \in 1 .. n}
  BY <1>1 DEF TripConnections
<1> HIDE DEF s, t, n
<1>4. 1 .. n = (1 .. n - 1) \cup {n}
  BY <1>1
<1>5. \A i \in 1 .. n - 1 : i \in 1 .. n /\ i + 1 \in 1 .. n
  BY <1>1
<1>6. \A i \in 1 .. n - 1 :
        Link(i) = << stops[i], times[i].departure, stops[i + 1], times[i + 1].arrival >>
  BY <1>2, <1>5
<1>7. TripConnections(stops, times) = {Link(i) : i \in 1 .. n - 1}
  BY <1>6, ZenonT(30) DEF TripConnections, n
<1>8. n \in 1 .. n
  BY <1>1
<1>9. Link(n) = << stops[n], times[n].departure, v, x.arrival >>
  BY <1>2, <1>8
<1> HIDE DEF Link
<1>10. {Link(i) : i \in 1 .. n} = {Link(i) : i \in 1 .. n - 1} \cup {Link(n)}
  BY <1>4
<1> QED
  BY <1>3, <1>7, <1>9, <1>10 DEF s, t, n

LEMMA NoConnections == ConnectionsOf(NoRun) = {}
BY DEF ConnectionsOf, NoRun, TripConnections

LEMMA RangeOfAppend ==
  ASSUME NEW S, NEW s \in Seq(S), NEW x \in S
  PROVE  Range(Append(s, x)) = Range(s) \cup {x}
<1> DEFINE t == Append(s, x)
<1>1. /\ DOMAIN s = 1 .. Len(s) /\ DOMAIN t = 1 .. Len(s) + 1 /\ Len(s) \in Nat
      /\ \A i \in 1 .. Len(s) : t[i] = s[i]
      /\ t[Len(s) + 1] = x
  OBVIOUS
<1> HIDE DEF t
<1>2. 1 .. Len(s) + 1 = (1 .. Len(s)) \cup {Len(s) + 1}
  BY <1>1
<1> QED
  BY <1>1, <1>2 DEF Range, t

(* Closing a run keeps what was carried.                                   *)
LEMMA CloseKeeps ==
  ASSUME NEW c \in Cut, c.run = NoRun \/ c.run \in UsableRun
  PROVE  Close(c) \in Cut /\ Close(c).run = NoRun /\ Carried(Close(c)) = Carried(c)
<1>1. NoRun \in RawRun
  BY DEF NoRun, RawRun
<1>2. CASE c.run = NoRun
  <2>1. ~ IsOpen(c) /\ Close(c) = [run |-> NoRun, runs |-> c.runs]
    BY <1>2 DEF IsOpen, Close, NoRun
  <2> QED
    BY <1>1, <1>2, <2>1 DEF Cut, Carried
<1>3. CASE c.run \in UsableRun
  <2>1. IsOpen(c)
    BY <1>3 DEF IsOpen, UsableRun, RawRun
  <2>2. Close(c) = [run |-> NoRun, runs |-> Append(c.runs, c.run)]
    BY <2>1 DEF Close
  <2>3. c.runs \in Seq(UsableRun) /\ Append(c.runs, c.run) \in Seq(UsableRun)
    BY <1>3 DEF Cut
  <2>4. Range(Append(c.runs, c.run)) = Range(c.runs) \cup {c.run}
    BY <1>3, <2>3, RangeOfAppend
  <2> QED
    BY <1>1, <2>2, <2>3, <2>4, NoConnections DEF Cut, Carried
<1> QED
  BY <1>2, <1>3

(* A run ready to be extended from a record.                               *)
ReadyAt(run, r) ==
  /\ run \in RawRun
  /\ Len(run.stops) = Len(run.times) /\ Len(run.stops) >= 1
  /\ LET n == Len(run.stops)
     IN  /\ run.stops[n] = r.stop
         /\ run.times[n].departure = r.departure_time
  /\ \A i \in 2 .. Len(run.stops) : run.times[i].arrival <= run.times[i].departure

LEMMA OpenedIsReady ==
  ASSUME NEW c \in Cut, NEW from \in StopTimeRecords,
         c.run = NoRun \/ OpenAt(c.run, from), from.stop # Unresolved
  PROVE  /\ Opened(c, from) \in [run : RawRun, runs : Seq(UsableRun)]
         /\ Opened(c, from).runs = c.runs
         /\ ReadyAt(Opened(c, from).run, from)
         /\ ConnectionsOf(Opened(c, from).run) = ConnectionsOf(c.run)
<1>1. CASE c.run = NoRun
  <2> DEFINE x == [arrival |-> from.departure_time, departure |-> from.departure_time]
             run == [stops |-> << from.stop >>, times |-> << x >>]
  <2>1. ~ IsOpen(c)
    BY <1>1 DEF IsOpen, NoRun
  <2>2. Opened(c, from) = [c EXCEPT !.run = run]
    BY <2>1 DEF Opened
  <2>3. from.stop \in Stop /\ x \in StopTime
    BY Sizes DEF StopTimeRecords, Stop, Unresolved, StopTime
  <2>4. << from.stop >> \in Seq(Stop) /\ << x >> \in Seq(StopTime)
    BY <2>3
  <2>5. run \in RawRun
    BY <2>4 DEF RawRun
  <2>6. Opened(c, from).run = run /\ Opened(c, from).runs = c.runs
         /\ Opened(c, from) \in [run : RawRun, runs : Seq(UsableRun)]
    BY <2>2, <2>5 DEF Cut
  <2>7. ReadyAt(run, from)
    BY <2>5 DEF ReadyAt
  <2>8. ConnectionsOf(run) = {}
    BY DEF ConnectionsOf, TripConnections
  <2> QED
    BY <1>1, <2>6, <2>7, <2>8, NoConnections
<1>2. CASE OpenAt(c.run, from)
  <2>1. IsOpen(c)
    BY <1>2 DEF IsOpen, OpenAt, UsableRun, RawRun
  <2>2. Opened(c, from) = c
    BY <2>1 DEF Opened
  <2>3. ReadyAt(c.run, from)
    <3>1. /\ c.run \in RawRun /\ Len(c.run.stops) = Len(c.run.times) /\ Len(c.run.stops) >= 2
          /\ \A i \in 2 .. Len(c.run.stops) - 1 :
               c.run.times[i].arrival <= c.run.times[i].departure
      BY <1>2 DEF OpenAt, UsableRun
    <3>2. Len(c.run.stops) \in Nat
      BY <3>1 DEF RawRun
    <3>3. \A i \in 2 .. Len(c.run.stops) :
            i = Len(c.run.stops) \/ i \in 2 .. Len(c.run.stops) - 1
      BY <3>2
    <3>4. \A i \in 2 .. Len(c.run.stops) : c.run.times[i].arrival <= c.run.times[i].departure
      BY <1>2, <3>1, <3>3 DEF OpenAt
    <3> QED
      BY <1>2, <3>1, <3>2, <3>4 DEF ReadyAt, OpenAt
  <2> QED
    BY <2>2, <2>3 DEF Cut
<1> QED
  BY <1>1, <1>2

LEMMA AdmittedGrows ==
  ASSUME NEW rs, NEW k \in Nat \ {0}
  PROVE  /\ SegmentAdmitted(rs[k], rs[k + 1]) =>
              AdmittedUpTo(rs, k) = AdmittedUpTo(rs, k - 1) \cup {Connection(rs[k], rs[k + 1])}
         /\ ~ SegmentAdmitted(rs[k], rs[k + 1]) => AdmittedUpTo(rs, k) = AdmittedUpTo(rs, k - 1)
<1> DEFINE Admitted(i) == SegmentAdmitted(rs[i], rs[i + 1])
           Link(i) == Connection(rs[i], rs[i + 1])
<1>1. 1 .. k = (1 .. k - 1) \cup {k}
  OBVIOUS
<1>2. /\ AdmittedUpTo(rs, k) = {Link(j) : j \in {i \in 1 .. k : Admitted(i)}}
      /\ AdmittedUpTo(rs, k - 1) = {Link(j) : j \in {i \in 1 .. k - 1 : Admitted(i)}}
  BY DEF AdmittedUpTo
<1> HIDE DEF Admitted, Link
<1>3. /\ Admitted(k) => {i \in 1 .. k : Admitted(i)} = {i \in 1 .. k - 1 : Admitted(i)} \cup {k}
      /\ ~ Admitted(k) => {i \in 1 .. k : Admitted(i)} = {i \in 1 .. k - 1 : Admitted(i)}
  BY ONLY <1>1
<1>4. /\ Admitted(k) => AdmittedUpTo(rs, k) = AdmittedUpTo(rs, k - 1) \cup {Link(k)}
      /\ ~ Admitted(k) => AdmittedUpTo(rs, k) = AdmittedUpTo(rs, k - 1)
  BY ONLY <1>2, <1>3
<1> QED
  BY <1>4 DEF Admitted, Link

LEMMA ExtendedKeeps ==
  ASSUME NEW rs \in Seq(StopTimeRecords), NEW k \in 1 .. Len(rs) - 1, NEW c, CutOK(rs, k - 1, c)
  PROVE  CutOK(rs, k, Extended(c, rs[k], rs[k + 1]))
<1> DEFINE from == rs[k]
           to == rs[k + 1]
<1>1. /\ k \in Nat \ {0} /\ (k - 1) + 1 = k
      /\ from \in StopTimeRecords /\ to \in StopTimeRecords
  OBVIOUS
<1>2. c \in Cut /\ (c.run = NoRun \/ OpenAt(c.run, from)) /\ Carried(c) = AdmittedUpTo(rs, k - 1)
  BY <1>1 DEF CutOK
<1>3. CASE ~ SegmentAdmitted(from, to)
  <2>1. Extended(c, from, to) = Close(c)
    BY <1>3 DEF Extended
  <2>2. c.run = NoRun \/ c.run \in UsableRun
    BY <1>2 DEF OpenAt
  <2>3. Close(c) \in Cut /\ Close(c).run = NoRun /\ Carried(Close(c)) = Carried(c)
    BY <1>2, <2>2, CloseKeeps
  <2>4. AdmittedUpTo(rs, k) = AdmittedUpTo(rs, k - 1)
    BY <1>1, <1>3, AdmittedGrows
  <2> QED
    BY <1>2, <2>1, <2>3, <2>4 DEF CutOK
<1>4. CASE SegmentAdmitted(from, to)
  <2> DEFINE arr == Max2(to.arrival_time, from.departure_time + 1)
             through == to.departure_time # UINT32_MAX /\ to.departure_time >= arr
             o == Opened(c, from)
             x == [arrival |-> arr, departure |-> IF through THEN to.departure_time ELSE arr]
             run == [stops |-> Append(o.run.stops, to.stop), times |-> Append(o.run.times, x)]
             longer == [o EXCEPT !.run = run]
  <2>1. from.stop # Unresolved /\ to.stop # Unresolved
    BY <1>4 DEF SegmentAdmitted
  <2>2. to.stop \in Stop /\ arr \in Nat /\ to.departure_time \in Nat /\ x \in StopTime
    <3>1. /\ to.departure_time \in Nat /\ to.arrival_time \in Nat /\ from.departure_time \in Nat
      BY <1>1, RecordTypes
    <3>2. to.stop \in Stop
      BY <1>1, <2>1, RecordTypes
    <3>3. arr \in Nat
      BY <3>1 DEF Max2
    <3>4. x \in StopTime
      BY <3>1, <3>3 DEF StopTime
    <3> QED
      BY <3>1, <3>2, <3>3, <3>4
  <2>3. Extended(c, from, to) = IF through THEN longer ELSE Close(longer)
    BY <1>4 DEF Extended
  <2>4. /\ o \in [run : RawRun, runs : Seq(UsableRun)] /\ o.runs = c.runs
        /\ ReadyAt(o.run, from) /\ ConnectionsOf(o.run) = ConnectionsOf(c.run)
    BY <1>1, <1>2, <2>1, OpenedIsReady
  <2> HIDE DEF o, x
  <2> DEFINE n == Len(o.run.stops)
  <2>5. /\ o.run.stops \in Seq(Stop) /\ o.run.times \in Seq(StopTime) /\ n = Len(o.run.times)
        /\ n \in Nat /\ n >= 1
        /\ o.run.stops[n] = from.stop /\ o.run.times[n].departure = from.departure_time
        /\ \A i \in 2 .. n : o.run.times[i].arrival <= o.run.times[i].departure
    BY <2>4 DEF ReadyAt, RawRun
  <2>6. /\ run.stops \in Seq(Stop) /\ run.times \in Seq(StopTime)
        /\ Len(run.stops) = n + 1 /\ Len(run.times) = n + 1
        /\ run.stops[n + 1] = to.stop /\ run.times[n + 1] = x
        /\ \A i \in 1 .. n : run.times[i] = o.run.times[i]
    <3> DEFINE ss == o.run.stops
               ts == o.run.times
    <3>1. run.stops = Append(ss, to.stop) /\ run.times = Append(ts, x)
      OBVIOUS
    <3>2. /\ ss \in Seq(Stop) /\ ts \in Seq(StopTime) /\ Len(ss) = n /\ Len(ts) = n /\ n \in Nat
          /\ to.stop \in Stop /\ x \in StopTime
      BY <2>2, <2>5
    <3> HIDE DEF ss, ts, n, run
    <3>3. /\ Append(ss, to.stop) \in Seq(Stop) /\ Append(ts, x) \in Seq(StopTime)
          /\ Len(Append(ss, to.stop)) = n + 1 /\ Len(Append(ts, x)) = n + 1
          /\ Append(ss, to.stop)[n + 1] = to.stop /\ Append(ts, x)[n + 1] = x
          /\ \A i \in 1 .. n : Append(ts, x)[i] = ts[i]
      BY <3>2, SMTT(30)
    <3> QED
      BY <3>1, <3>3 DEF ts
  <2>7. ConnectionsOf(run) = ConnectionsOf(o.run) \cup {Connection(from, to)}
    <3>1. ConnectionsOf(run)
            = TripConnections(o.run.stops, o.run.times)
                \cup {<< o.run.stops[n], o.run.times[n].departure, to.stop, x.arrival >>}
      <4> DEFINE ss == o.run.stops
                 ts == o.run.times
      <4>1. run.stops = Append(ss, to.stop) /\ run.times = Append(ts, x)
        OBVIOUS
      <4>2. ss \in Seq(Stop) /\ ts \in Seq(StopTime) /\ Len(ss) = Len(ts) /\ Len(ss) >= 1
        BY <2>5
      <4> HIDE DEF ss, ts, run
      <4>3. TripConnections(Append(ss, to.stop), Append(ts, x))
              = TripConnections(ss, ts)
                  \cup {<< ss[Len(ss)], ts[Len(ss)].departure, to.stop, x.arrival >>}
        BY <2>2, <4>2, ConnectionAdded
      <4> QED
        BY <4>1, <4>3 DEF ConnectionsOf, ss, ts
    <3>2. x.arrival = arr
      BY DEF x
    <3> QED
      BY <2>5, <3>1, <3>2 DEF ConnectionsOf, Connection
  <2> HIDE DEF run
  <2>8. run \in UsableRun
    <3>1. run \in RawRun
      BY <2>6 DEF RawRun, run
    <3>2. \A i \in 2 .. (n + 1) - 1 : i \in 1 .. n /\ i \in 2 .. n
      BY <2>5
    <3>3. \A i \in 2 .. (n + 1) - 1 : run.times[i].arrival <= run.times[i].departure
      BY <2>5, <2>6, <3>2
    <3>4. n + 1 >= 2
      BY <2>5
    <3> QED
      BY <2>6, <3>1, <3>3, <3>4 DEF UsableRun
  <2>9. longer.run = run /\ longer.runs = c.runs /\ longer \in Cut
    BY <2>4, <2>8 DEF Cut, UsableRun
  <2>10. Carried(longer) = AdmittedUpTo(rs, k)
    <3>1. Carried(longer) = Carried(c) \cup {Connection(from, to)}
      BY <2>4, <2>7, <2>9 DEF Carried
    <3> QED
      BY <1>1, <1>2, <1>4, <3>1, AdmittedGrows
  <2> HIDE DEF longer
  <2>11. CASE through
    <3>1. OpenAt(run, to)
      BY <2>2, <2>5, <2>6, <2>8, <2>11 DEF OpenAt, x
    <3> QED
      BY <2>3, <2>9, <2>10, <2>11, <3>1 DEF CutOK
  <2>12. CASE ~ through
    <3>1. Close(longer) \in Cut /\ Close(longer).run = NoRun /\ Carried(Close(longer)) = Carried(longer)
      BY <2>8, <2>9, CloseKeeps
    <3> QED
      BY <2>3, <2>10, <2>12, <3>1 DEF CutOK
  <2> QED
    BY <2>11, <2>12
<1> QED
  BY <1>3, <1>4

(* The recursion of RunsOf, whose values are cuts.                         *)
IsCutting(rs, cut) ==
  cut = [k \in 0 .. Len(rs) - 1 |->
           IF k = 0 THEN [run |-> NoRun, runs |-> << >>]
           ELSE Extended(cut[k - 1], rs[k], rs[k + 1])]

LEMMA NothingCut ==
  ASSUME NEW rs
  PROVE  CutOK(rs, 0, [run |-> NoRun, runs |-> << >>])
<1> DEFINE c == [run |-> NoRun, runs |-> << >>]
<1>1. c \in Cut /\ c.run = NoRun /\ c.runs = << >>
  BY DEF Cut, NoRun, RawRun
<1>2. Range(c.runs) = {}
  BY <1>1 DEF Range
<1>3. Carried(c) = {}
  BY <1>1, <1>2, NoConnections DEF Carried
<1>4. AdmittedUpTo(rs, 0) = {}
  BY DEF AdmittedUpTo
<1> HIDE DEF c
<1> QED
  BY <1>1, <1>3, <1>4 DEF CutOK, c

LEMMA CuttingIsOK ==
  ASSUME NEW rs \in Seq(StopTimeRecords), Len(rs) >= 1, NEW cut, IsCutting(rs, cut)
  PROVE  \A k \in 0 .. Len(rs) - 1 : CutOK(rs, k, cut[k])
<1> DEFINE n == Len(rs) - 1
           Fine == {k \in 0 .. n : CutOK(rs, k, cut[k])}
<1>1. n \in Nat
  OBVIOUS
<1>2. \A k \in 0 .. n : cut[k] = IF k = 0 THEN [run |-> NoRun, runs |-> << >>]
                                 ELSE Extended(cut[k - 1], rs[k], rs[k + 1])
  BY DEF IsCutting
<1>3. 0 \in Fine
  BY <1>1, <1>2, NothingCut
<1>4. ASSUME NEW k \in 0 .. n - 1, k \in Fine  PROVE  k + 1 \in Fine
  <2>1. k + 1 \in 1 .. n /\ (k + 1) - 1 = k /\ k + 1 # 0 /\ k + 1 \in 0 .. n
    BY <1>1
  <2>2. CutOK(rs, (k + 1) - 1, cut[k])
    BY <1>4, <2>1
  <2>3. cut[k + 1] = Extended(cut[k], rs[k + 1], rs[(k + 1) + 1])
    BY <1>2, <2>1
  <2>4. CutOK(rs, k + 1, Extended(cut[k], rs[k + 1], rs[(k + 1) + 1]))
    BY <2>1, <2>2, ExtendedKeeps
  <2> QED
    BY <2>1, <2>3, <2>4
<1> HIDE DEF Fine, n
<1>5. 0 .. n \subseteq Fine
  BY <1>1, <1>3, <1>4, UpTo
<1> QED
  BY <1>5 DEF Fine, n

LEMMA CuttingExists ==
  ASSUME NEW rs \in Seq(StopTimeRecords), Len(rs) >= 1
  PROVE  \E cut : IsCutting(rs, cut)
<1> DEFINE n == Len(rs) - 1
           base == [run |-> NoRun, runs |-> << >>]
           step == [k \in 1 .. n |-> [c \in Cut |->
                      IF CutOK(rs, k - 1, c) THEN Extended(c, rs[k], rs[k + 1]) ELSE base]]
<1>1. n \in Nat
  OBVIOUS
<1>2. CutOK(rs, 0, base) /\ base \in Cut
  BY NothingCut DEF CutOK
<1>3. ASSUME NEW k \in 1 .. n, NEW c \in Cut, CutOK(rs, k - 1, c)
      PROVE  CutOK(rs, k, Extended(c, rs[k], rs[k + 1])) /\ Extended(c, rs[k], rs[k + 1]) \in Cut
  BY <1>3, ExtendedKeeps DEF CutOK
<1> HIDE DEF base
<1>4. step \in [1 .. n -> [Cut -> Cut]]
  BY <1>2, <1>3
<1>5. /\ \A k \in 1 .. n, c \in Cut :
           CutOK(rs, k - 1, c) => step[k][c] = Extended(c, rs[k], rs[k + 1])
  OBVIOUS
<1> HIDE DEF step, n
<1>6. PICK g : g \in Iterations(n, Cut, base, step)
  BY <1>1, <1>2, <1>4, RunExists
<1>7. g \in [0 .. n -> Cut] /\ g[0] = base /\ \A k \in 1 .. n : g[k] = step[k][g[k - 1]]
  BY <1>6 DEF Iterations
<1> DEFINE Fine == {k \in 0 .. n : CutOK(rs, k, g[k])}
<1>8. 0 \in Fine
  BY <1>1, <1>2, <1>7
<1>9. ASSUME NEW k \in 0 .. n - 1, k \in Fine  PROVE  k + 1 \in Fine
  <2>1. k + 1 \in 1 .. n /\ (k + 1) - 1 = k /\ k + 1 \in 0 .. n
    BY <1>1
  <2>2. g[k + 1] = step[k + 1][g[k]] /\ g[k] \in Cut /\ CutOK(rs, (k + 1) - 1, g[k])
    BY <1>7, <1>9, <2>1
  <2>3. CutOK(rs, k + 1, g[k + 1])
    BY <1>3, <1>5, <2>1, <2>2
  <2> QED
    BY <2>1, <2>3
<1> HIDE DEF Fine
<1>10. 0 .. n \subseteq Fine
  BY <1>1, <1>8, <1>9, UpTo
<1>11. ASSUME NEW k \in 0 .. n
       PROVE  g[k] = IF k = 0 THEN base ELSE Extended(g[k - 1], rs[k], rs[k + 1])
  <2>1. CASE k = 0
    BY <1>7, <2>1
  <2>2. CASE k # 0
    <3>1. k \in 1 .. n /\ k - 1 \in 0 .. n
      BY <1>1, <2>2
    <3>2. CutOK(rs, k - 1, g[k - 1]) /\ g[k - 1] \in Cut
      BY <1>7, <1>10, <3>1 DEF Fine
    <3> QED
      BY <1>5, <1>7, <2>2, <3>1, <3>2
  <2> QED
    BY <2>1, <2>2
<1>12. g = [k \in 0 .. n |-> IF k = 0 THEN base ELSE Extended(g[k - 1], rs[k], rs[k + 1])]
  BY <1>7, <1>11
<1> QED
  BY <1>12 DEF IsCutting, n, base

(* The runs of a trip are usable and have the admitted segments.           *)
LEMMA RunsOfTrip ==
  ASSUME NEW rs \in Seq(StopTimeRecords), Len(rs) >= 1
  PROVE  /\ RunsOf(rs) \in Seq(UsableRun)
         /\ UNION {ConnectionsOf(r) : r \in Range(RunsOf(rs))} = AdmittedUpTo(rs, Len(rs) - 1)
<1> DEFINE cut == CHOOSE cut : IsCutting(rs, cut)
           n == Len(rs) - 1
<1>1. IsCutting(rs, cut)
  BY CuttingExists
<1>2. RunsOf(rs) = Close(cut[n]).runs
  BY DEF RunsOf, IsCutting
<1> HIDE DEF cut
<1>3. n \in 0 .. n
  OBVIOUS
<1>4. CutOK(rs, n, cut[n])
  BY <1>1, <1>3, CuttingIsOK
<1>5. cut[n] \in Cut /\ (cut[n].run = NoRun \/ cut[n].run \in UsableRun)
        /\ Carried(cut[n]) = AdmittedUpTo(rs, n)
  BY <1>4 DEF CutOK, OpenAt
<1>6. Close(cut[n]) \in Cut /\ Close(cut[n]).run = NoRun /\ Carried(Close(cut[n])) = AdmittedUpTo(rs, n)
  BY <1>5, CloseKeeps
<1>7. Close(cut[n]).runs \in Seq(UsableRun)
  BY <1>6 DEF Cut
<1>8. UNION {ConnectionsOf(r) : r \in Range(Close(cut[n]).runs)} = AdmittedUpTo(rs, n)
  BY <1>6, NoConnections DEF Carried
<1> QED
  BY <1>2, <1>7, <1>8

-----------------------------------------------------------------------------
(* The runs of all trips.                                                  *)
LEMMA ImageIsFinite ==
  ASSUME NEW n \in Nat, NEW F, DOMAIN F = 1 .. n
  PROVE  IsFiniteSet({F[k] : k \in 1 .. n})
<1> DEFINE g == [k \in 1 .. n |-> F[k]]
           T == {F[k] : k \in 1 .. n}
<1>1. g \in Surjection(1 .. n, T)
  BY DEF Surjection
<1>2. IsFiniteSet(1 .. n)
  BY FS_Interval
<1> QED
  BY <1>1, <1>2, FS_Surjection

LEMMA UnionIsFinite ==
  ASSUME NEW S, IsFiniteSet(S), NEW F, \A x \in S : IsFiniteSet(F[x])
  PROVE  IsFiniteSet(UNION {F[x] : x \in S})
<1> DEFINE n == Cardinality(S)
<1>1. n \in Nat /\ ExistsBijection(1 .. n, S)
  BY FS_CardinalityType
<1>2. PICK e \in Bijection(1 .. n, S) : TRUE
  BY <1>1 DEF ExistsBijection
<1>3. e \in [1 .. n -> S] /\ \A x \in S : \E i \in 1 .. n : e[i] = x
  BY DEF Bijection, Injection, Surjection
<1> DEFINE Upto(k) == UNION {F[e[i]] : i \in 1 .. k}
           Fine == {k \in 0 .. n : IsFiniteSet(Upto(k))}
<1> HIDE DEF n
<1>4. 0 \in Fine
  <2>1. Upto(0) = {}
    OBVIOUS
  <2> QED
    BY <1>1, <2>1, FS_EmptySet
<1>5. ASSUME NEW k \in 0 .. n - 1, k \in Fine  PROVE  k + 1 \in Fine
  <2>1. 1 .. k + 1 = (1 .. k) \cup {k + 1} /\ k + 1 \in 1 .. n /\ k + 1 \in 0 .. n
    BY <1>1
  <2>2. Upto(k + 1) = Upto(k) \cup F[e[k + 1]]
    BY <2>1
  <2>3. IsFiniteSet(Upto(k)) /\ IsFiniteSet(F[e[k + 1]])
    BY <1>3, <1>5, <2>1
  <2>4. IsFiniteSet(Upto(k) \cup F[e[k + 1]])
    BY ONLY <2>3, FS_Union
  <2> QED
    BY <2>1, <2>2, <2>4
<1> HIDE DEF Fine
<1>6. 0 .. n \subseteq Fine
  BY <1>1, <1>4, <1>5, UpTo
<1>7. IsFiniteSet(Upto(n))
  BY <1>1, <1>6 DEF Fine
<1>8. Upto(n) = UNION {F[x] : x \in S}
  BY <1>3
<1> QED
  BY <1>7, <1>8

Member == [trip_id : Nat, nth : Nat, run : UsableRun]
AdmittedOf(f, t) == AdmittedUpTo(TripRecords(f, t), Len(TripRecords(f, t)) - 1)
MembersOf(f, t) ==
  LET runs == RunsOf(TripRecords(f, t))
  IN  {[trip_id |-> t, nth |-> k, run |-> runs[k]] : k \in DOMAIN runs}

LEMMA TripsAreNatural ==
  ASSUME NEW f, WellFormed(f)
  PROVE  Trips(f) \subseteq Nat /\ IsFiniteSet(Trips(f))
<1> DEFINE g == [r \in f.stop_times |-> r.trip_id]
<1>1. g \in Surjection(f.stop_times, Trips(f))
  BY DEF Surjection, Trips
<1>2. IsFiniteSet(Trips(f))
  BY <1>1, FS_Surjection DEF WellFormed
<1>3. Trips(f) \subseteq Nat
  BY RecordTypes DEF Trips, WellFormed
<1> QED
  BY <1>2, <1>3

LEMMA MembersOfTrip ==
  ASSUME NEW f, WellFormed(f), NEW t \in Trips(f)
  PROVE  /\ MembersOf(f, t) \subseteq Member /\ IsFiniteSet(MembersOf(f, t))
         /\ \A m \in MembersOf(f, t) : m.trip_id = t
         /\ \A a, b \in MembersOf(f, t) : a.nth = b.nth => a = b
         /\ UNION {ConnectionsOf(m.run) : m \in MembersOf(f, t)} = AdmittedOf(f, t)
<1> DEFINE rs == TripRecords(f, t)
           runs == RunsOf(rs)
<1>1. rs \in Seq(StopTimeRecords) /\ Len(rs) >= 1
  BY RecordsAreSequence
<1>2. /\ runs \in Seq(UsableRun)
      /\ UNION {ConnectionsOf(r) : r \in Range(runs)} = AdmittedOf(f, t)
  BY <1>1, RunsOfTrip DEF AdmittedOf
<1> HIDE DEF runs, rs
<1>3. DOMAIN runs = 1 .. Len(runs) /\ Len(runs) \in Nat /\ \A k \in DOMAIN runs : runs[k] \in UsableRun
  BY <1>2
<1>4. MembersOf(f, t) = {[trip_id |-> t, nth |-> k, run |-> runs[k]] : k \in DOMAIN runs}
  BY DEF MembersOf, runs, rs
<1>5. t \in Nat
  BY TripsAreNatural
<1>6. MembersOf(f, t) \subseteq Member
  BY <1>3, <1>4, <1>5 DEF Member
<1>7. IsFiniteSet(MembersOf(f, t))
  <2> DEFINE F == [k \in 1 .. Len(runs) |-> [trip_id |-> t, nth |-> k, run |-> runs[k]]]
  <2>1. MembersOf(f, t) = {F[k] : k \in 1 .. Len(runs)} /\ DOMAIN F = 1 .. Len(runs)
    BY <1>3, <1>4
  <2> HIDE DEF F
  <2> QED
    BY <1>3, <2>1, ImageIsFinite
<1>8. UNION {ConnectionsOf(m.run) : m \in MembersOf(f, t)}
        = UNION {ConnectionsOf(r) : r \in Range(runs)}
  <2>1. Range(runs) = {runs[k] : k \in DOMAIN runs}
    BY DEF Range
  <2>2. \A m \in MembersOf(f, t) : \E k \in DOMAIN runs : m.run = runs[k]
    BY <1>4
  <2>3. \A k \in DOMAIN runs : \E m \in MembersOf(f, t) : m.run = runs[k]
    <3> SUFFICES ASSUME NEW k \in DOMAIN runs
                 PROVE  \E m \in MembersOf(f, t) : m.run = runs[k]
      OBVIOUS
    <3>1. [trip_id |-> t, nth |-> k, run |-> runs[k]] \in MembersOf(f, t)
      BY <1>4
    <3> QED
      BY <3>1
  <2> QED
    BY <2>1, <2>2, <2>3
<1> QED
  BY <1>2, <1>4, <1>6, <1>7, <1>8

LEMMA RunsAreMembers ==
  ASSUME NEW f, WellFormed(f)
  PROVE  /\ Runs(f) \subseteq Member /\ IsFiniteSet(Runs(f))
         /\ \A a, b \in Runs(f) : a.trip_id = b.trip_id /\ a.nth = b.nth => a = b
         /\ UNION {ConnectionsOf(m.run) : m \in Runs(f)} = UNION {AdmittedOf(f, t) : t \in Trips(f)}
<1>1. Runs(f) = UNION {MembersOf(f, t) : t \in Trips(f)}
  BY DEF Runs, MembersOf
<1>2. IsFiniteSet(Runs(f))
  <2> DEFINE F == [t \in Trips(f) |-> MembersOf(f, t)]
  <2>1. IsFiniteSet(Trips(f)) /\ \A t \in Trips(f) : IsFiniteSet(F[t])
    BY TripsAreNatural, MembersOfTrip
  <2>2. Runs(f) = UNION {F[t] : t \in Trips(f)}
    BY <1>1
  <2> HIDE DEF F
  <2> QED
    BY <2>1, <2>2, UnionIsFinite
<1>3. Runs(f) \subseteq Member
  BY <1>1, MembersOfTrip
<1>4. ASSUME NEW a \in Runs(f), NEW b \in Runs(f), a.trip_id = b.trip_id, a.nth = b.nth
      PROVE  a = b
  <2>1. PICK t \in Trips(f) : a \in MembersOf(f, t)
    BY <1>1
  <2>2. PICK u \in Trips(f) : b \in MembersOf(f, u)
    BY <1>1
  <2>3. t = u
    BY <1>4, <2>1, <2>2, MembersOfTrip
  <2> QED
    BY <1>4, <2>1, <2>2, <2>3, MembersOfTrip
<1>5. UNION {ConnectionsOf(m.run) : m \in Runs(f)} = UNION {AdmittedOf(f, t) : t \in Trips(f)}
  <2>1. ASSUME NEW x \in UNION {ConnectionsOf(m.run) : m \in Runs(f)}
        PROVE  x \in UNION {AdmittedOf(f, t) : t \in Trips(f)}
    <3>1. PICK m \in Runs(f) : x \in ConnectionsOf(m.run)
      OBVIOUS
    <3>2. PICK t \in Trips(f) : m \in MembersOf(f, t)
      BY <1>1
    <3>3. x \in AdmittedOf(f, t)
      BY <3>1, <3>2, MembersOfTrip
    <3> QED
      BY <3>3
  <2>2. ASSUME NEW x \in UNION {AdmittedOf(f, t) : t \in Trips(f)}
        PROVE  x \in UNION {ConnectionsOf(m.run) : m \in Runs(f)}
    <3>1. PICK t \in Trips(f) : x \in AdmittedOf(f, t)
      OBVIOUS
    <3>2. PICK m \in MembersOf(f, t) : x \in ConnectionsOf(m.run)
      BY <3>1, MembersOfTrip
    <3> QED
      BY <1>1, <3>2
  <2> QED
    BY <2>1, <2>2
<1> QED
  BY <1>2, <1>3, <1>4, <1>5

-----------------------------------------------------------------------------
(* Runs of one pattern are totally ordered by their times.                 *)
EarlierAt(ta, tb, s) ==
  /\ \A r \in 1 .. s - 1 : ta[r] = tb[r]
  /\ \/ ta[s].departure < tb[s].departure
     \/ ta[s].departure = tb[s].departure /\ ta[s].arrival < tb[s].arrival
EarlierTimes(ta, tb) == \E s \in DOMAIN ta : EarlierAt(ta, tb, s)

LEMMA TimesAreOrdered ==
  ASSUME NEW n \in Nat, NEW ta \in [1 .. n -> StopTime], NEW tb \in [1 .. n -> StopTime]
  PROVE  /\ ~ EarlierTimes(ta, ta)
         /\ ta # tb => EarlierTimes(ta, tb) \/ EarlierTimes(tb, ta)
         /\ \A tc \in [1 .. n -> StopTime] :
              EarlierTimes(ta, tb) /\ EarlierTimes(tb, tc) => EarlierTimes(ta, tc)
<1>1. \A t \in [1 .. n -> StopTime] : \A i \in 1 .. n :
        t[i].departure \in Nat /\ t[i].arrival \in Nat
  BY DEF StopTime
<1>2. ~ EarlierTimes(ta, ta)
  BY <1>1 DEF EarlierTimes, EarlierAt
<1>3. ASSUME ta # tb  PROVE  EarlierTimes(ta, tb) \/ EarlierTimes(tb, ta)
  <2> DEFINE differ == {i \in 1 .. n : ta[i] # tb[i]}
  <2>1. differ # {} /\ differ \in SUBSET Nat
    BY <1>3
  <2>2. PICK s \in differ : \A i \in differ : s <= i
    <3> HIDE DEF differ
    <3> QED
      BY ONLY <2>1, LeastNatural
  <2>3. s \in 1 .. n /\ ta[s] # tb[s] /\ ta[s] \in StopTime /\ tb[s] \in StopTime
    BY <2>2
  <2>4. \A r \in 1 .. s - 1 : ta[r] = tb[r]
    BY <2>2, <2>3
  <2>5. ta[s].departure # tb[s].departure \/ ta[s].arrival # tb[s].arrival
    BY <2>3 DEF StopTime
  <2>6. EarlierAt(ta, tb, s) \/ EarlierAt(tb, ta, s)
    BY <1>1, <2>3, <2>4, <2>5, SMTT(30) DEF EarlierAt
  <2>7. s \in DOMAIN ta /\ s \in DOMAIN tb
    BY <2>3
  <2> QED
    BY <2>6, <2>7 DEF EarlierTimes
<1>4. ASSUME NEW tc \in [1 .. n -> StopTime], EarlierTimes(ta, tb), EarlierTimes(tb, tc)
      PROVE  EarlierTimes(ta, tc)
  <2>1. PICK s \in 1 .. n : EarlierAt(ta, tb, s)
    BY <1>4 DEF EarlierTimes
  <2>2. PICK q \in 1 .. n : EarlierAt(tb, tc, q)
    BY <1>4 DEF EarlierTimes
  <2>3. CASE s < q
    <3>1. tb[s] = tc[s] /\ \A r \in 1 .. s - 1 : tb[r] = tc[r]
      BY <2>2, <2>3 DEF EarlierAt
    <3>2. EarlierAt(ta, tc, s)
      BY <2>1, <3>1 DEF EarlierAt
    <3> QED
      BY <3>2 DEF EarlierTimes
  <2>4. CASE q < s
    <3>1. ta[q] = tb[q] /\ \A r \in 1 .. q - 1 : ta[r] = tb[r]
      BY <2>1, <2>4 DEF EarlierAt
    <3>2. EarlierAt(ta, tc, q)
      BY <2>2, <3>1 DEF EarlierAt
    <3> QED
      BY <3>2 DEF EarlierTimes
  <2>5. CASE s = q
    <3>1. \A r \in 1 .. s - 1 : ta[r] = tc[r]
      BY <2>1, <2>2, <2>5 DEF EarlierAt
    <3>2. /\ ta[s].departure \in Nat /\ tb[s].departure \in Nat /\ tc[s].departure \in Nat
          /\ ta[s].arrival \in Nat /\ tb[s].arrival \in Nat /\ tc[s].arrival \in Nat
      BY <1>1
    <3>3. EarlierAt(ta, tc, s)
      BY <2>1, <2>2, <2>5, <3>1, <3>2 DEF EarlierAt
    <3> QED
      BY <3>3 DEF EarlierTimes
  <2> QED
    BY <2>3, <2>4, <2>5
<1> QED
  BY <1>2, <1>3, <1>4

LEMMA MembersAreOrdered ==
  ASSUME NEW M \in SUBSET Member, NEW p, \A m \in M : m.run.stops = p,
         \A a, b \in M : a.trip_id = b.trip_id /\ a.nth = b.nth => a = b
  PROVE  StrictOrder({q \in M \X M : SortsBefore(q[1], q[2])}, M)
<1> DEFINE n == Len(p)
           T == [1 .. n -> StopTime]
<1>1. ASSUME NEW m \in M
      PROVE  m.run.times \in T /\ m.trip_id \in Nat /\ m.nth \in Nat /\ n \in Nat
  <2>1. m.run \in UsableRun /\ m.trip_id \in Nat /\ m.nth \in Nat
    BY DEF Member
  <2>2. m.run.times \in Seq(StopTime) /\ Len(m.run.times) = n /\ n \in Nat
    BY <2>1 DEF UsableRun, RawRun
  <2> QED
    BY <2>1, <2>2
<1>2. \A a, b \in M :
        SortsBefore(a, b) <=>
          \/ EarlierTimes(a.run.times, b.run.times)
          \/ a.run.times = b.run.times /\ a.trip_id < b.trip_id
          \/ a.run.times = b.run.times /\ a.trip_id = b.trip_id /\ a.nth < b.nth
  BY DEF SortsBefore, EarlierTimes, EarlierAt
<1> HIDE DEF n
<1>3. \A a \in M : ~ SortsBefore(a, a)
  BY <1>1, <1>2, TimesAreOrdered
<1>4. ASSUME NEW a \in M, NEW b \in M, a # b
      PROVE  SortsBefore(a, b) \/ SortsBefore(b, a)
  <2>1. CASE a.run.times = b.run.times
    <3>1. a.trip_id # b.trip_id \/ a.nth # b.nth
      BY <1>4
    <3> QED
      BY <1>1, <1>2, <2>1, <3>1
  <2>2. CASE a.run.times # b.run.times
    <3>1. n \in Nat /\ a.run.times \in T /\ b.run.times \in T
      BY <1>1
    <3>2. EarlierTimes(a.run.times, b.run.times) \/ EarlierTimes(b.run.times, a.run.times)
      BY <2>2, <3>1, TimesAreOrdered
    <3> QED
      BY <1>2, <3>2
  <2> QED
    BY <2>1, <2>2
<1>5. ASSUME NEW a \in M, NEW b \in M, NEW c \in M, SortsBefore(a, b), SortsBefore(b, c)
      PROVE  SortsBefore(a, c)
  <2>1. CASE EarlierTimes(a.run.times, b.run.times) /\ EarlierTimes(b.run.times, c.run.times)
    <3>1. n \in Nat /\ a.run.times \in T /\ b.run.times \in T /\ c.run.times \in T
      BY <1>1
    <3>2. \A ta, tb, tc \in T :
            EarlierTimes(ta, tb) /\ EarlierTimes(tb, tc) => EarlierTimes(ta, tc)
      <4> SUFFICES ASSUME NEW ta \in T, NEW tb \in T, NEW tc \in T,
                          EarlierTimes(ta, tb), EarlierTimes(tb, tc)
                   PROVE  EarlierTimes(ta, tc)
        OBVIOUS
      <4> QED
        BY <3>1, TimesAreOrdered
    <3>3. EarlierTimes(a.run.times, c.run.times)
      BY <2>1, <3>1, <3>2
    <3> QED
      BY <1>2, <3>3
  <2>2. CASE a.run.times = b.run.times \/ b.run.times = c.run.times
    BY <1>1, <1>2, <1>5, <2>2
  <2> QED
    BY <1>2, <1>5, <2>1, <2>2
<1> QED
  BY <1>3, <1>4, <1>5 DEF StrictOrder

-----------------------------------------------------------------------------
(* Bins: in each one every trip is no later than all that come after it,   *)
(* because each newcomer was compared with the last and "no later" is      *)
(* transitive.                                                             *)
TripsOf(n) ==
  {t \in Seq(StopTime) : Len(t) = n /\ \A i \in 2 .. n - 1 : t[i].arrival <= t[i].departure}
NoneOvertakes(trips) ==
  \A a, b \in DOMAIN trips : a < b => no_later_than(trips[a], trips[b])
Bin(n) == {trips \in Seq(TripsOf(n)) : Len(trips) >= 1 /\ NoneOvertakes(trips)}

LEMMA BinGrows ==
  ASSUME NEW n \in Nat, NEW bin \in Bin(n), NEW t \in TripsOf(n), no_later_than(Last(bin), t)
  PROVE  Append(bin, t) \in Bin(n)
<1> DEFINE m == Len(bin)
           longer == Append(bin, t)
<1>1. bin \in Seq(TripsOf(n)) /\ m \in Nat /\ m >= 1 /\ NoneOvertakes(bin)
  BY DEF Bin
<1>2. Last(bin) = bin[m]
  BY DEF Last
<1>3. /\ longer \in Seq(TripsOf(n)) /\ Len(longer) = m + 1 /\ DOMAIN longer = 1 .. m + 1
      /\ DOMAIN bin = 1 .. m
      /\ \A i \in 1 .. m : longer[i] = bin[i] /\ bin[i] \in TripsOf(n)
      /\ longer[m + 1] = t
  BY <1>1
<1> HIDE DEF longer, m
<1>4. ASSUME NEW x \in TripsOf(n), NEW y \in TripsOf(n), NEW z \in TripsOf(n),
             no_later_than(x, y), no_later_than(y, z)
      PROVE  no_later_than(x, z)
  <2>1. /\ DOMAIN x = 1 .. n /\ DOMAIN y = 1 .. n
        /\ \A i \in 1 .. n : /\ x[i].arrival \in Nat /\ y[i].arrival \in Nat /\ z[i].arrival \in Nat
                              /\ x[i].departure \in Nat /\ y[i].departure \in Nat
                              /\ z[i].departure \in Nat
    <3>1. \A w \in TripsOf(n) : DOMAIN w = 1 .. n /\ \A i \in 1 .. n : w[i] \in StopTime
      BY DEF TripsOf
    <3> QED
      BY <3>1 DEF StopTime
  <2>2. ASSUME NEW i \in 1 .. n
        PROVE  x[i].arrival <= z[i].arrival /\ x[i].departure <= z[i].departure
    <3>1. /\ x[i].arrival <= y[i].arrival /\ y[i].arrival <= z[i].arrival
          /\ x[i].departure <= y[i].departure /\ y[i].departure <= z[i].departure
      BY <1>4, <2>1 DEF no_later_than
    <3> QED
      BY <2>1, <3>1
  <2> QED
    BY <2>1, <2>2 DEF no_later_than
<1>5. ASSUME NEW a \in 1 .. m + 1, NEW b \in 1 .. m + 1, a < b
      PROVE  no_later_than(longer[a], longer[b])
  <2>1. a \in 1 .. m
    BY <1>1, <1>5
  <2>2. CASE b \in 1 .. m
    BY <1>1, <1>3, <1>5, <2>1, <2>2 DEF NoneOvertakes
  <2>3. CASE b = m + 1
    <3>1. a = m \/ no_later_than(bin[a], bin[m])
      BY <1>1, <1>3, <2>1 DEF NoneOvertakes
    <3>2. bin[a] \in TripsOf(n) /\ bin[m] \in TripsOf(n) /\ no_later_than(bin[m], t)
      BY <1>1, <1>2, <1>3, <2>1
    <3>3. no_later_than(bin[a], t)
      BY <1>4, <3>1, <3>2
    <3> QED
      BY <1>3, <2>1, <2>3, <3>3
  <2> QED
    BY <1>1, <2>2, <2>3
<1>6. NoneOvertakes(longer)
  BY <1>3, <1>5 DEF NoneOvertakes
<1>7. Len(longer) >= 1
  BY <1>1, <1>3
<1> QED
  BY <1>3, <1>6, <1>7 DEF Bin, longer

TripsIn(bins) == UNION {Range(bins[b]) : b \in DOMAIN bins}

LEMMA PlacedFacts ==
  ASSUME NEW n \in Nat, NEW bins \in Seq(Bin(n)), NEW t \in TripsOf(n)
  PROVE  /\ Placed(bins, t) \in Seq(Bin(n))
         /\ TripsIn(Placed(bins, t)) = TripsIn(bins) \cup {t}
<1>1. CASE Fits(bins, t) = {}
  <2>1. Placed(bins, t) = Append(bins, << t >>)
    BY <1>1 DEF Placed
  <2>2. << t >> \in Bin(n)
    <3>1. << t >> \in Seq(TripsOf(n)) /\ Len(<< t >>) = 1 /\ DOMAIN << t >> = 1 .. 1
      OBVIOUS
    <3> QED
      BY <3>1 DEF Bin, NoneOvertakes
  <2>3. Append(bins, << t >>) \in Seq(Bin(n))
    BY <2>2
  <2> DEFINE m == Len(bins)
             more == Append(bins, << t >>)
  <2>4. /\ m \in Nat /\ DOMAIN bins = 1 .. m /\ DOMAIN more = 1 .. m + 1
        /\ \A b \in 1 .. m : more[b] = bins[b]
        /\ more[m + 1] = << t >>
    BY <2>2
  <2>5. Range(<< t >>) = {t}
    BY DEF Range
  <2> HIDE DEF more, m
  <2>6. 1 .. m + 1 = (1 .. m) \cup {m + 1}
    BY <2>4
  <2>7. TripsIn(more) = TripsIn(bins) \cup {t}
    BY <2>4, <2>5, <2>6 DEF TripsIn
  <2> QED
    BY <2>1, <2>3, <2>7 DEF more
<1>2. CASE Fits(bins, t) # {}
  <2> DEFINE at == Min(Fits(bins, t))
  <2>1. Fits(bins, t) \in SUBSET Nat /\ DOMAIN bins = 1 .. Len(bins)
    BY DEF Fits
  <2>2. at \in Fits(bins, t)
    BY <1>2, <2>1, MinIsLeast
  <2> HIDE DEF at
  <2>3. at \in DOMAIN bins /\ no_later_than(Last(bins[at]), t)
    BY <2>2 DEF Fits
  <2> DEFINE longer == Append(bins[at], t)
             more == [bins EXCEPT ![at] = longer]
  <2>4. Placed(bins, t) = more
    BY <1>2 DEF Placed, at
  <2>5. bins[at] \in Bin(n)
    BY <2>3
  <2>6. longer \in Bin(n)
    BY <2>3, <2>5, BinGrows
  <2>7. more \in Seq(Bin(n))
    <3> HIDE DEF longer
    <3> QED
      BY <2>3, <2>6
  <2>8. Range(longer) = Range(bins[at]) \cup {t}
    <3>1. bins[at] \in Seq(TripsOf(n))
      BY <2>5 DEF Bin
    <3> QED
      BY <3>1, RangeOfAppend
  <2> HIDE DEF longer
  <2>9. DOMAIN more = DOMAIN bins /\ more[at] = longer
         /\ \A b \in DOMAIN bins : b # at => more[b] = bins[b]
    BY <2>3
  <2> HIDE DEF more
  <2>10. TripsIn(more) = TripsIn(bins) \cup {t}
    BY <2>3, <2>8, <2>9 DEF TripsIn
  <2> QED
    BY <2>4, <2>7, <2>10
<1> QED
  BY <1>1, <1>2

LEMMA AllPlaced ==
  ASSUME NEW n \in Nat, NEW M, \A m \in M : m.run.times \in TripsOf(n),
         NEW members \in Seq(M)
  PROVE  LET bins == FoldLeft(LAMBDA bs, m : Placed(bs, m.run.times), << >>, members)
         IN  /\ bins \in Seq(Bin(n))
             /\ TripsIn(bins) = {members[i].run.times : i \in DOMAIN members}
<1> DEFINE op(bs, m) == Placed(bs, m.run.times)
           S == Seq(Bin(n))
           base == << >>
<1>1. PICK N \in Nat : N = Len(members) /\ DOMAIN members = 1 .. N
  OBVIOUS
<1> DEFINE step == [i \in 1 .. N |-> [x \in S |-> op(x, members[i])]]
           Good == [i \in 0 .. N |-> {x \in S : TripsIn(x) = {members[j].run.times : j \in 1 .. i}}]
           eq(f) == [t \in SUBSET (1 .. N) |->
                       IF t = {} THEN base ELSE op(f[t \ {Max(t)}], members[Max(t)])]
           F == CHOOSE f : f = eq(f)
           bins == FoldLeft(LAMBDA bs, m : Placed(bs, m.run.times), << >>, members)
<1>2. bins = F[1 .. N]
  BY <1>1 DEF FoldLeft, MapThenFoldSet
<1>3. \A i \in 1 .. N : members[i].run.times \in TripsOf(n)
  BY <1>1
<1>4. ASSUME NEW i \in 1 .. N, NEW x \in S
      PROVE  op(x, members[i]) \in S /\ TripsIn(op(x, members[i])) = TripsIn(x) \cup {members[i].run.times}
  BY <1>3, PlacedFacts
<1> HIDE DEF op, S
<1>5. step \in [1 .. N -> [S -> S]]
  BY <1>4
<1>6. \A i \in 1 .. N, x \in S : step[i][x] = op(x, members[i])
  OBVIOUS
<1> HIDE DEF step
<1>7. base \in S
  BY DEF S
<1> HIDE DEF base
<1>8. PICK f : f \in Folds(N, S, base, step)
  BY <1>5, <1>7, FoldExists
<1>9. \A t \in SUBSET (1 .. N) : t # {} => Max(t) \in 1 .. N
  BY MaxInUpTo
<1>10. f = eq(f)
  BY <1>6, <1>8, <1>9 DEF Folds
<1>11. F = eq(F)
  BY <1>10
<1> HIDE DEF F
<1>12. IsFold(F, N, S, base, step)
  BY <1>6, <1>9, <1>11 DEF IsFold
<1>13. base \in Good[0]
  <2>1. TripsIn(base) = {}
    BY DEF TripsIn, base
  <2>2. {members[j].run.times : j \in 1 .. 0} = {}
    OBVIOUS
  <2> QED
    BY <1>1, <1>7, <2>1, <2>2
<1>14. \A i \in 1 .. N : \A x \in S : x \in Good[i - 1] => step[i][x] \in Good[i]
  <2> SUFFICES ASSUME NEW i \in 1 .. N, NEW x \in S, x \in Good[i - 1]
               PROVE  step[i][x] \in Good[i]
    OBVIOUS
  <2>1. i \in 0 .. N /\ i - 1 \in 0 .. N /\ 1 .. i = (1 .. i - 1) \cup {i}
    OBVIOUS
  <2>2. TripsIn(x) = {members[j].run.times : j \in 1 .. i - 1}
    BY <2>1
  <2>3. step[i][x] \in S /\ TripsIn(step[i][x]) = TripsIn(x) \cup {members[i].run.times}
    BY <1>4, <1>6
  <2>4. {members[j].run.times : j \in 1 .. i}
          = {members[j].run.times : j \in 1 .. i - 1} \cup {members[i].run.times}
    BY ONLY <2>1
  <2> QED
    BY <2>1, <2>2, <2>3, <2>4
<1> HIDE DEF Good
<1>15. F[1 .. N] \in S /\ F[1 .. N] \in Good[N]
  <2> HIDE DEF bins, eq
  <2>1. N \in Nat /\ base \in S /\ step \in [1 .. N -> [S -> S]] /\ base \in Good[0]
    BY <1>5, <1>7, <1>13
  <2> QED
    BY ONLY <1>12, <1>14, <2>1, FoldKeeps, SMTT(30)
<1>16. TripsIn(F[1 .. N]) = {members[i].run.times : i \in 1 .. N}
  BY <1>15 DEF Good
<1> HIDE DEF bins
<1> QED
  BY <1>1, <1>2, <1>15, <1>16 DEF S, bins

-----------------------------------------------------------------------------
(* Flattening a sequence of sequences.                                     *)
IsFlattening(ss, flatten) ==
  flatten = [i \in 1 .. Len(ss) |-> IF i = 1 THEN ss[i] ELSE flatten[i - 1] \o ss[i]]

LEMMA FlattenFacts ==
  ASSUME NEW T, NEW ss \in Seq(Seq(T))
  PROVE  /\ FlattenSeq(ss) \in Seq(T)
         /\ Range(FlattenSeq(ss)) = UNION {Range(ss[i]) : i \in DOMAIN ss}
<1>1. CASE Len(ss) = 0
  <2>1. FlattenSeq(ss) = << >> /\ ss = << >>
    BY <1>1 DEF FlattenSeq
  <2> QED
    BY <2>1 DEF Range
<1>2. CASE Len(ss) # 0
  <2> DEFINE n == Len(ss)
             S == Seq(T)
             empty == << >>
             step == [i \in 1 .. n |-> [x \in S |-> x \o ss[i]]]
             flatten == CHOOSE h : IsFlattening(ss, h)
  <2>1. n \in Nat \ {0} /\ DOMAIN ss = 1 .. n /\ \A i \in 1 .. n : ss[i] \in S
    BY <1>2
  <2>2. FlattenSeq(ss) = flatten[n]
    BY <1>2 DEF FlattenSeq, IsFlattening
  <2> HIDE DEF flatten
  <2>3. step \in [1 .. n -> [S -> S]] /\ empty \in S
    BY <2>1
  <2>4. \A i \in 1 .. n, x \in S : step[i][x] = x \o ss[i]
    OBVIOUS
  <2>5. \A i \in 1 .. n : empty \o ss[i] = ss[i]
    BY <2>1
  <2> HIDE DEF S, empty, step, n
  <2>6. PICK g : g \in Iterations(n, S, empty, step)
    <3>1. n \in Nat /\ empty \in S /\ step \in [1 .. n -> [S -> S]]
      BY <2>1, <2>3
    <3>2. Iterations(n, S, empty, step) # {}
      BY ONLY <3>1, RunExists
    <3> QED
      BY <3>2
  <2>7. g \in [0 .. n -> S] /\ g[0] = empty /\ \A i \in 1 .. n : g[i] = step[i][g[i - 1]]
    BY <2>6 DEF Iterations
  <2>8. ASSUME NEW i \in 1 .. n
        PROVE  g[i] = (IF i = 1 THEN ss[i] ELSE g[i - 1] \o ss[i]) /\ i - 1 \in 0 .. n
    <3>1. i - 1 \in 0 .. n /\ g[i - 1] \in S
      BY <2>1, <2>7
    <3>2. g[i] = g[i - 1] \o ss[i]
      BY <2>4, <2>7, <3>1
    <3>3. CASE i = 1
      <4>1. g[i - 1] = empty
        BY <2>7, <3>3
      <4> QED
        BY <2>5, <3>1, <3>2, <3>3, <4>1
    <3> QED
      BY <3>1, <3>2, <3>3
  <2> DEFINE h == [i \in 1 .. n |-> g[i]]
  <2>9. IsFlattening(ss, h)
    <3>1. ASSUME NEW i \in 1 .. n
          PROVE  h[i] = IF i = 1 THEN ss[i] ELSE h[i - 1] \o ss[i]
      <4>1. CASE i = 1
        BY <2>8, <4>1
      <4>2. CASE i # 1
        <5>1. i - 1 \in 1 .. n
          BY <2>1, <4>2
        <5> QED
          BY <2>8, <4>2, <5>1
      <4> QED
        BY <4>1, <4>2
    <3>2. h = [i \in 1 .. n |-> h[i]]
      OBVIOUS
    <3> HIDE DEF h
    <3> QED
      BY <3>1, <3>2 DEF IsFlattening, n
  <2> HIDE DEF h
  <2>10. IsFlattening(ss, flatten)
    BY <2>9 DEF flatten
  <2>11. \A i \in 1 .. n : flatten[i] = IF i = 1 THEN ss[i] ELSE flatten[i - 1] \o ss[i]
    BY <2>10 DEF IsFlattening, n
  <2> DEFINE Fine == {i \in 0 .. n :
                        i = 0 \/ (flatten[i] \in S /\ Range(flatten[i]) = UNION {Range(ss[j]) : j \in 1 .. i})}
  <2>12. 0 \in Fine
    BY <2>1
  <2>13. ASSUME NEW i \in 0 .. n - 1, i \in Fine  PROVE  i + 1 \in Fine
    <3>1. i + 1 \in 1 .. n /\ i + 1 \in 0 .. n /\ (i + 1) - 1 = i /\ 1 .. i + 1 = (1 .. i) \cup {i + 1}
      BY <2>1
    <3>2. CASE i = 0
      <4>1. flatten[1] = ss[1] /\ ss[1] \in S
        BY <2>1, <2>11, <3>1, <3>2
      <4>2. UNION {Range(ss[j]) : j \in 1 .. 1} = Range(ss[1])
        OBVIOUS
      <4> QED
        BY <3>1, <3>2, <4>1, <4>2
    <3>3. CASE i # 0
      <4>1. flatten[i] \in S /\ Range(flatten[i]) = UNION {Range(ss[j]) : j \in 1 .. i}
        BY <2>13, <3>3
      <4>2. flatten[i + 1] = flatten[i] \o ss[i + 1] /\ ss[i + 1] \in S
        <5>1. flatten[i + 1] = IF i + 1 = 1 THEN ss[i + 1] ELSE flatten[(i + 1) - 1] \o ss[i + 1]
          BY <2>11, <3>1
        <5>2. i + 1 # 1
          BY <3>3
        <5> QED
          BY <2>1, <3>1, <5>1, <5>2
      <4>3. flatten[i + 1] \in S /\ Range(flatten[i + 1]) = Range(flatten[i]) \cup Range(ss[i + 1])
        <5>1. ASSUME NEW a \in Seq(T), NEW b \in Seq(T)
              PROVE  a \o b \in Seq(T) /\ Range(a \o b) = Range(a) \cup Range(b)
          <6> DEFINE c == a \o b
          <6>1. /\ DOMAIN a = 1 .. Len(a) /\ DOMAIN b = 1 .. Len(b) /\ DOMAIN c = 1 .. Len(a) + Len(b)
                /\ Len(a) \in Nat /\ Len(b) \in Nat
                /\ \A j \in 1 .. Len(a) : c[j] = a[j]
                /\ \A j \in Len(a) + 1 .. Len(a) + Len(b) : c[j] = b[j - Len(a)]
            OBVIOUS
          <6>2. c \in Seq(T)
            OBVIOUS
          <6> HIDE DEF c
          <6>3. \A j \in 1 .. Len(a) : j \in 1 .. Len(a) + Len(b)
            BY <6>1
          <6>4. \A j \in 1 .. Len(b) : /\ j + Len(a) \in Len(a) + 1 .. Len(a) + Len(b)
                                       /\ j + Len(a) \in 1 .. Len(a) + Len(b)
                                       /\ (j + Len(a)) - Len(a) = j
            BY <6>1
          <6>5. \A j \in 1 .. Len(a) + Len(b) : j \in 1 .. Len(a) \/ j - Len(a) \in 1 .. Len(b)
            BY <6>1
          <6>6. \A j \in 1 .. Len(a) + Len(b) : j \in 1 .. Len(a) \/ j \in Len(a) + 1 .. Len(a) + Len(b)
            BY <6>1
          <6>7. ASSUME NEW x \in Range(c)  PROVE  x \in Range(a) \cup Range(b)
            BY <6>1, <6>5, <6>6 DEF Range
          <6>8. ASSUME NEW x \in Range(a)  PROVE  x \in Range(c)
            BY <6>1, <6>3 DEF Range
          <6>9. ASSUME NEW x \in Range(b)  PROVE  x \in Range(c)
            <7>1. PICK j \in 1 .. Len(b) : b[j] = x
              BY <6>1 DEF Range
            <7>2. c[j + Len(a)] = x /\ j + Len(a) \in DOMAIN c
              BY <6>1, <6>4, <7>1
            <7> QED
              BY <7>2 DEF Range
          <6> QED
            BY <6>2, <6>7, <6>8, <6>9 DEF c
        <5> QED
          BY <4>1, <4>2, <5>1 DEF S
      <4> QED
        BY <3>1, <3>3, <4>1, <4>3
    <3> QED
      BY <3>2, <3>3
  <2> HIDE DEF Fine
  <2>14. 0 .. n \subseteq Fine
    BY <2>1, <2>12, <2>13, UpTo
  <2>15. flatten[n] \in S /\ Range(flatten[n]) = UNION {Range(ss[j]) : j \in 1 .. n}
    <3>1. n \in 0 .. n /\ n # 0
      BY <2>1
    <3> QED
      BY <2>14, <3>1 DEF Fine
  <2> QED
    BY <2>1, <2>2, <2>15 DEF S
<1> QED
  BY <1>1, <1>2
-----------------------------------------------------------------------------
(* Patterns are totally ordered: the first position that tells two apart   *)
(* decides, the end of a pattern before any stop.                          *)
At(p, i) == IF i \in 1 .. Len(p) THEN p[i] + 1 ELSE 0
FirstLower(p, q, i) == At(p, i) < At(q, i) /\ \A j \in 1 .. i - 1 : At(p, j) = At(q, j)
Lower(p, q) == \E i \in Nat \ {0} : FirstLower(p, q, i)

LEMMA AtPlaces ==
  ASSUME NEW p \in Seq(Stop)
  PROVE  /\ Len(p) \in Nat /\ DOMAIN p = 1 .. Len(p)
         /\ \A i \in 1 .. Len(p) : p[i] \in Nat
         /\ \A i \in Nat : At(p, i) \in Nat
<1>1. Len(p) \in Nat /\ DOMAIN p = 1 .. Len(p) /\ \A i \in 1 .. Len(p) : p[i] \in Stop
  OBVIOUS
<1>2. \A x \in Stop : x \in Nat
  BY Sizes DEF Stop
<1> QED
  BY <1>1, <1>2 DEF At

LEMMA PatternBeforeIsLower ==
  ASSUME NEW p \in Seq(Stop), NEW q \in Seq(Stop)
  PROVE  PatternBefore(p, q) <=> Lower(p, q)
<1> DEFINE m == Len(p)
           n == Len(q)
<1>1. /\ m \in Nat /\ DOMAIN p = 1 .. m /\ \A i \in 1 .. m : p[i] \in Nat
      /\ n \in Nat /\ DOMAIN q = 1 .. n /\ \A i \in 1 .. n : q[i] \in Nat
  BY AtPlaces
<1>2. \A i \in Nat \ {0} : /\ At(p, i) = IF i <= m THEN p[i] + 1 ELSE 0
                           /\ At(q, i) = IF i <= n THEN q[i] + 1 ELSE 0
  BY <1>1 DEF At
<1>3. ASSUME NEW k \in Nat, k <= m, k <= n
      PROVE  SubSeq(p, 1, k) = SubSeq(q, 1, k) <=> \A j \in 1 .. k : p[j] = q[j]
  <2>1. SubSeq(p, 1, k) = [j \in 1 .. k |-> p[j]] /\ SubSeq(q, 1, k) = [j \in 1 .. k |-> q[j]]
    <3>1. \A x \in Seq(Stop) : k <= Len(x) => SubSeq(x, 1, k) = [j \in 1 .. k |-> x[j]]
      OBVIOUS
    <3> QED
      BY <1>3, <3>1
  <2> QED
    BY <2>1
<1>0. m = Len(p) /\ n = Len(q) /\ p = [j \in DOMAIN p |-> p[j]] /\ q = [j \in DOMAIN q |-> q[j]]
  OBVIOUS
<1> HIDE DEF m, n
<1>4. ASSUME PatternBefore(p, q)  PROVE  Lower(p, q)
  <2>1. CASE IsStrictPrefix(p, q)
    <3>1. m <= n /\ SubSeq(p, 1, m) = SubSeq(q, 1, m) /\ p # q
      BY <1>0, <2>1 DEF IsStrictPrefix, IsPrefix
    <3>2. \A j \in 1 .. m : p[j] = q[j]
      BY <1>1, <1>3, <3>1
    <3>3. m # n
      <4>1. SUFFICES ASSUME m = n  PROVE  p = q
        BY <3>1
      <4>2. DOMAIN p = DOMAIN q /\ \A j \in DOMAIN p : p[j] = q[j]
        BY <1>1, <3>2, <4>1
      <4> QED
        BY ONLY <1>0, <4>2
    <3>4. FirstLower(p, q, m + 1)
      <4>1. m + 1 \in Nat \ {0} /\ m + 1 <= n /\ ~ (m + 1 <= m) /\ q[m + 1] \in Nat
        BY <1>1, <3>1, <3>3
      <4>2. At(p, m + 1) < At(q, m + 1)
        BY <1>2, <4>1
      <4>3. ASSUME NEW j \in 1 .. (m + 1) - 1  PROVE  At(p, j) = At(q, j)
        <5>1. j \in 1 .. m /\ j \in Nat \ {0} /\ j <= m /\ j <= n
          BY <1>1, <3>1
        <5> QED
          BY <1>2, <3>2, <5>1
      <4> QED
        BY <4>2, <4>3 DEF FirstLower
    <3> QED
      BY <1>1, <3>4 DEF Lower
  <2>2. CASE \E i \in DOMAIN p \cap DOMAIN q : p[i] < q[i] /\ SubSeq(p, 1, i - 1) = SubSeq(q, 1, i - 1)
    <3>1. PICK i \in DOMAIN p \cap DOMAIN q : p[i] < q[i] /\ SubSeq(p, 1, i - 1) = SubSeq(q, 1, i - 1)
      BY <2>2
    <3>2. i \in Nat \ {0} /\ i <= m /\ i <= n /\ i - 1 \in Nat /\ i - 1 <= m /\ i - 1 <= n
          /\ p[i] \in Nat /\ q[i] \in Nat
      BY <1>1
    <3>3. \A j \in 1 .. i - 1 : p[j] = q[j]
      BY <1>3, <3>1, <3>2
    <3>4. At(p, i) < At(q, i)
      BY <1>2, <3>1, <3>2
    <3>5. ASSUME NEW j \in 1 .. i - 1  PROVE  At(p, j) = At(q, j)
      <4>1. j \in Nat \ {0} /\ j <= m /\ j <= n
        BY <1>1, <3>2
      <4> QED
        BY <1>2, <3>3, <4>1
    <3> QED
      BY <3>2, <3>4, <3>5 DEF Lower, FirstLower
  <2> QED
    BY <1>4, <2>1, <2>2 DEF PatternBefore
<1>5. ASSUME Lower(p, q)  PROVE  PatternBefore(p, q)
  <2>1. PICK i \in Nat \ {0} : At(p, i) < At(q, i) /\ \A j \in 1 .. i - 1 : At(p, j) = At(q, j)
    BY <1>5 DEF Lower, FirstLower
  <2>2. i <= n
    BY <1>1, <1>2, <2>1
  <2>3. CASE i <= m
    <3>1. i - 1 \in Nat /\ i - 1 <= m /\ i - 1 <= n /\ i \in DOMAIN p \cap DOMAIN q
      BY <1>1, <2>2, <2>3
    <3>2. p[i] < q[i]
      BY <1>1, <1>2, <2>1, <2>2, <2>3, <3>1
    <3>3. ASSUME NEW j \in 1 .. i - 1  PROVE  p[j] = q[j]
      <4>1. j \in Nat \ {0} /\ j <= m /\ j <= n /\ p[j] \in Nat /\ q[j] \in Nat
        BY <1>1, <2>2, <2>3
      <4>2. At(p, j) = p[j] + 1 /\ At(q, j) = q[j] + 1 /\ At(p, j) = At(q, j)
        BY <1>2, <2>1, <4>1
      <4> QED
        BY <4>1, <4>2
    <3>4. SubSeq(p, 1, i - 1) = SubSeq(q, 1, i - 1)
      BY <1>3, <3>1, <3>3
    <3> QED
      BY <3>1, <3>2, <3>4 DEF PatternBefore
  <2>4. CASE ~ (i <= m)
    <3>1. m <= n /\ m # n
      BY <1>1, <2>2, <2>4
    <3>2. ASSUME NEW j \in 1 .. m  PROVE  p[j] = q[j]
      <4>1. j \in 1 .. i - 1 /\ j \in Nat \ {0} /\ j <= m /\ j <= n /\ p[j] \in Nat /\ q[j] \in Nat
        BY <1>1, <2>4, <3>1
      <4>2. At(p, j) = p[j] + 1 /\ At(q, j) = q[j] + 1 /\ At(p, j) = At(q, j)
        BY <1>2, <2>1, <4>1
      <4> QED
        BY <4>1, <4>2
    <3>3. SubSeq(p, 1, m) = SubSeq(q, 1, m)
      BY <1>1, <1>3, <3>1, <3>2
    <3>4. p # q
      BY <1>0, <3>1
    <3> QED
      BY <1>0, <3>1, <3>3, <3>4 DEF PatternBefore, IsStrictPrefix, IsPrefix
  <2> QED
    BY <2>3, <2>4
<1> QED
  BY <1>4, <1>5

LEMMA PatternsAreOrdered ==
  ASSUME NEW P \in SUBSET Seq(Stop)
  PROVE  StrictOrder({q \in P \X P : PatternBefore(q[1], q[2])}, P)
<1>1. \A p \in P : \A i \in Nat : At(p, i) \in Nat
  BY AtPlaces
<1>2. \A p, q \in P : PatternBefore(p, q) <=> Lower(p, q)
  BY PatternBeforeIsLower
<1>3. \A p \in P : ~ Lower(p, p)
  BY <1>1 DEF Lower, FirstLower
<1>4. ASSUME NEW p \in P, NEW q \in P, p # q  PROVE  Lower(p, q) \/ Lower(q, p)
  <2> DEFINE apart == {i \in Nat \ {0} : At(p, i) # At(q, i)}
  <2>1. apart # {}
    <3>1. /\ Len(p) \in Nat /\ DOMAIN p = 1 .. Len(p) /\ \A i \in 1 .. Len(p) : p[i] \in Nat
          /\ Len(q) \in Nat /\ DOMAIN q = 1 .. Len(q) /\ \A i \in 1 .. Len(q) : q[i] \in Nat
          /\ p \in Seq(Stop) /\ q \in Seq(Stop)
      BY AtPlaces
    <3>2. CASE Len(p) = Len(q)
      <4>1. PICK i \in 1 .. Len(p) : p[i] # q[i]
        BY <1>4, <3>1, <3>2
      <4>2. At(p, i) = p[i] + 1 /\ At(q, i) = q[i] + 1 /\ i \in Nat \ {0} /\ p[i] \in Nat /\ q[i] \in Nat
        BY <3>1, <3>2 DEF At
      <4>3. At(p, i) # At(q, i)
        BY <4>1, <4>2
      <4> QED
        BY <4>2, <4>3
    <3>3. CASE Len(p) < Len(q)
      <4>1. At(p, Len(q)) = 0 /\ At(q, Len(q)) = q[Len(q)] + 1 /\ q[Len(q)] \in Nat /\ Len(q) \in Nat \ {0}
        BY <3>1, <3>3 DEF At
      <4>2. At(p, Len(q)) # At(q, Len(q))
        BY <4>1
      <4> QED
        BY <4>1, <4>2
    <3>4. CASE Len(q) < Len(p)
      <4>1. At(q, Len(p)) = 0 /\ At(p, Len(p)) = p[Len(p)] + 1 /\ p[Len(p)] \in Nat /\ Len(p) \in Nat \ {0}
        BY <3>1, <3>4 DEF At
      <4>2. At(p, Len(p)) # At(q, Len(p))
        BY <4>1
      <4> QED
        BY <4>1, <4>2
    <3> QED
      <4>1. \A a, b \in Nat : a = b \/ a < b \/ b < a
        OBVIOUS
      <4>2. Len(p) = Len(q) \/ Len(p) < Len(q) \/ Len(q) < Len(p)
        BY <3>1, <4>1
      <4> HIDE DEF apart
      <4> QED
        BY <3>2, <3>3, <3>4, <4>2
  <2>2. PICK i \in apart : \A j \in apart : i <= j
    <3>1. apart \in SUBSET Nat
      OBVIOUS
    <3> HIDE DEF apart
    <3> QED
      BY <2>1, <3>1, LeastNatural
  <2>3. \A j \in 1 .. i - 1 : At(p, j) = At(q, j)
    <3>1. \A j \in 1 .. i - 1 : j \in Nat \ {0} /\ ~ (i <= j)
      OBVIOUS
    <3> QED
      BY <2>2, <3>1
  <2>4. At(p, i) \in Nat /\ At(q, i) \in Nat /\ At(p, i) # At(q, i) /\ i \in Nat \ {0}
    BY <1>1
  <2>5. At(p, i) < At(q, i) \/ At(q, i) < At(p, i)
    BY <2>4
  <2> QED
    BY <2>3, <2>4, <2>5 DEF Lower, FirstLower
<1>5. ASSUME NEW p \in P, NEW q \in P, NEW r \in P, Lower(p, q), Lower(q, r)  PROVE  Lower(p, r)
  <2>1. PICK i \in Nat \ {0} : At(p, i) < At(q, i) /\ \A j \in 1 .. i - 1 : At(p, j) = At(q, j)
    BY <1>5 DEF Lower, FirstLower
  <2>2. PICK k \in Nat \ {0} : At(q, k) < At(r, k) /\ \A j \in 1 .. k - 1 : At(q, j) = At(r, j)
    BY <1>5 DEF Lower, FirstLower
  <2>3. \A j \in Nat : At(p, j) \in Nat /\ At(q, j) \in Nat /\ At(r, j) \in Nat
    BY <1>1
  <2>4. CASE i <= k
    <3>1. At(p, i) < At(r, i)
      <4>1. i = k \/ i \in 1 .. k - 1
        BY <2>4
      <4> QED
        <5>1. CASE i = k
          BY <2>1, <2>2, <2>3, <5>1
        <5>2. CASE i \in 1 .. k - 1
          <6>1. At(q, i) = At(r, i)
            BY <2>2, <5>2
          <6> QED
            BY <2>1, <6>1
        <5> QED
          BY <4>1, <5>1, <5>2
    <3>2. \A j \in 1 .. i - 1 : At(p, j) = At(r, j)
      <4>1. \A j \in 1 .. i - 1 : j \in 1 .. k - 1
        BY <2>4
      <4> QED
        BY <2>1, <2>2, <4>1
    <3> QED
      BY <3>1, <3>2 DEF Lower, FirstLower
  <2>5. CASE k < i
    <3>1. k \in 1 .. i - 1 /\ At(p, k) < At(r, k)
      <4>1. k \in 1 .. i - 1
        BY <2>5
      <4> QED
        BY <2>1, <2>2, <4>1
    <3>2. \A j \in 1 .. k - 1 : At(p, j) = At(r, j)
      <4>1. \A j \in 1 .. k - 1 : j \in 1 .. i - 1
        BY <2>5
      <4> QED
        BY <2>1, <2>2, <4>1
    <3> QED
      BY <3>1, <3>2 DEF Lower, FirstLower
  <2> QED
    BY <2>4, <2>5
<1> QED
  BY <1>2, <1>3, <1>4, <1>5 DEF StrictOrder

-----------------------------------------------------------------------------
(* The routes: a pattern's runs are all placed, every pattern is taken.    *)
GoodRoute ==
  {r \in [stops : Seq(Stop), trips : Seq(Seq(StopTime))] : r.trips \in Bin(Len(r.stops))}
RouteConnections(r) == UNION {TripConnections(r.stops, t) : t \in Range(r.trips)}

(* No two runs have the same trip and place.                               *)
Distinct(M) == \A a, b \in M : a.trip_id = b.trip_id /\ a.nth = b.nth => a = b

LEMMA RoutesOfPattern ==
  ASSUME NEW M \in SUBSET Member, IsFiniteSet(M), Distinct(M), NEW p \in Seq(Stop)
  PROVE  /\ RoutesOf(p, M) \in Seq(GoodRoute)
         /\ UNION {RouteConnections(r) : r \in Range(RoutesOf(p, M))}
              = UNION {ConnectionsOf(m.run) : m \in {x \in M : x.run.stops = p}}
<1> DEFINE S == {m \in M : m.run.stops = p}
           members == Sorted(S, SortsBefore)
           bins == FoldLeft(LAMBDA bs, m : Placed(bs, m.run.times), << >>, members)
           n == Len(p)
           routes == RoutesOf(p, M)
<1>1. routes = [b \in DOMAIN bins |-> [stops |-> p, trips |-> bins[b]]]
  BY DEF RoutesOf
<1>2. S \in SUBSET Member /\ IsFiniteSet(S) /\ \A m \in S : m.run.stops = p
  <2>1. S \subseteq M
    OBVIOUS
  <2> QED
    BY <2>1, FS_Subset
<1>3. n \in Nat /\ \A m \in S : m.run.times \in TripsOf(n)
  <2>1. n \in Nat
    OBVIOUS
  <2>2. ASSUME NEW m \in S  PROVE  m.run.times \in TripsOf(n)
    <3>1. m.run \in UsableRun /\ m.run.stops = p
      BY <1>2 DEF Member
    <3> QED
      BY <3>1 DEF UsableRun, RawRun, TripsOf
  <2> QED
    BY <2>1, <2>2
<1>4. StrictOrder({q \in S \X S : SortsBefore(q[1], q[2])}, S)
  <2>1. \A a, b \in S : a.trip_id = b.trip_id /\ a.nth = b.nth => a = b
    BY DEF Distinct
  <2> HIDE DEF S
  <2> QED
    BY <1>2, <2>1, MembersAreOrdered
<1>5. members \in Seq(S) /\ Range(members) = S
  <2> DEFINE before == {q \in S \X S : SortsBefore(q[1], q[2])}
             N == Cardinality(S)
  <2>1. members = InOrderOf(S, before)
    BY DEF Sorted
  <2> HIDE DEF before, S
  <2>2. /\ N \in Nat /\ members \in [1 .. N -> S]
        /\ \A x \in S : \E i \in 1 .. N : members[i] = x
    <3>1. IsFiniteSet(S) /\ StrictOrder(before, S)
      BY <1>2, <1>4 DEF before
    <3> QED
      BY ONLY <2>1, <3>1, OrderTakesAll
  <2> HIDE DEF members, N
  <2>3. members \in Seq(S)
    BY <2>2
  <2> QED
    BY <2>2, <2>3 DEF Range
<1>6. bins \in Seq(Bin(n)) /\ TripsIn(bins) = {members[i].run.times : i \in DOMAIN members}
  <2> HIDE DEF members, S, n
  <2> QED
    BY <1>3, <1>5, AllPlaced
<1> HIDE DEF bins
<1>7. TripsIn(bins) = {m.run.times : m \in S}
  <2> HIDE DEF members, S
  <2> QED
    BY <1>5, <1>6 DEF Range
<1>8. routes \in Seq(GoodRoute)
  <2>1. ASSUME NEW b \in DOMAIN bins
        PROVE  [stops |-> p, trips |-> bins[b]] \in GoodRoute
    <3>1. bins[b] \in Bin(n)
      BY <1>6
    <3>2. bins[b] \in Seq(Seq(StopTime))
      <4>1. bins[b] \in Seq(TripsOf(n))
        BY <3>1 DEF Bin
      <4>2. TripsOf(n) \subseteq Seq(StopTime)
        BY DEF TripsOf
      <4> HIDE DEF n
      <4> QED
        BY <4>1, <4>2
    <3> QED
      BY <3>1, <3>2 DEF GoodRoute
  <2>2. DOMAIN bins = 1 .. Len(bins) /\ Len(bins) \in Nat
    BY <1>6
  <2> HIDE DEF routes
  <2> QED
    BY <1>1, <2>1, <2>2
<1>9. UNION {RouteConnections(r) : r \in Range(routes)} = UNION {TripConnections(p, t) : t \in TripsIn(bins)}
  <2>1. Range(routes) = {[stops |-> p, trips |-> bins[b]] : b \in DOMAIN bins}
    BY <1>1 DEF Range
  <2>2. \A b \in DOMAIN bins :
          RouteConnections([stops |-> p, trips |-> bins[b]])
            = UNION {TripConnections(p, t) : t \in Range(bins[b])}
    BY DEF RouteConnections
  <2> HIDE DEF routes
  <2>3. \A x : x \in UNION {RouteConnections(r) : r \in Range(routes)}
                 <=> \E b \in DOMAIN bins : \E t \in Range(bins[b]) : x \in TripConnections(p, t)
    <3> DEFINE route(b) == [stops |-> p, trips |-> bins[b]]
    <3>1. Range(routes) = {route(b) : b \in DOMAIN bins}
      BY <2>1
    <3>2. \A b \in DOMAIN bins : \A x : x \in RouteConnections(route(b))
                                         <=> \E t \in Range(bins[b]) : x \in TripConnections(p, t)
      BY <2>2
    <3> HIDE DEF route
    <3>3. \A x : x \in UNION {RouteConnections(r) : r \in Range(routes)}
                   <=> \E b \in DOMAIN bins : x \in RouteConnections(route(b))
      BY <3>1
    <3> QED
      BY <3>2, <3>3
  <2>4. \A x : x \in UNION {TripConnections(p, t) : t \in TripsIn(bins)}
                 <=> \E b \in DOMAIN bins : \E t \in Range(bins[b]) : x \in TripConnections(p, t)
    BY DEF TripsIn
  <2> QED
    BY <2>3, <2>4
<1>10. UNION {TripConnections(p, t) : t \in TripsIn(bins)} = UNION {ConnectionsOf(m.run) : m \in S}
  <2>1. \A m \in S : ConnectionsOf(m.run) = TripConnections(p, m.run.times)
    BY DEF ConnectionsOf
  <2> HIDE DEF S
  <2> QED
    BY <1>7, <2>1
<1> QED
  BY <1>8, <1>9, <1>10

LEMMA RoutesFacts ==
  ASSUME NEW M \in SUBSET Member, IsFiniteSet(M), Distinct(M)
  PROVE  /\ Routes(M) \in Seq(GoodRoute)
         /\ UNION {RouteConnections(r) : r \in Range(Routes(M))}
              = UNION {ConnectionsOf(m.run) : m \in M}
<1> DEFINE P == {m.run.stops : m \in M}
           N == Cardinality(P)
           sorted == Sorted(P, PatternBefore)
           ss == [i \in 1 .. N |-> RoutesOf(sorted[i], M)]
           Of(p) == UNION {ConnectionsOf(m.run) : m \in {x \in M : x.run.stops = p}}
<1>1. Routes(M) = FlattenSeq(ss)
  BY DEF Routes
<1>2. P \in SUBSET Seq(Stop) /\ IsFiniteSet(P)
  <2>1. P \in SUBSET Seq(Stop)
    BY DEF Member, UsableRun, RawRun
  <2>2. IsFiniteSet(P)
    <3> DEFINE F == [m \in M |-> {m.run.stops}]
    <3>1. \A m \in M : IsFiniteSet(F[m])
      BY FS_Singleton
    <3>2. P = UNION {F[m] : m \in M}
      OBVIOUS
    <3> HIDE DEF F, P
    <3> QED
      BY <3>1, <3>2, UnionIsFinite
  <2> QED
    BY <2>1, <2>2
<1>3. /\ N \in Nat /\ sorted \in [1 .. N -> P]
      /\ \A p \in P : \E i \in 1 .. N : sorted[i] = p
  <2> DEFINE before == {q \in P \X P : PatternBefore(q[1], q[2])}
  <2>1. sorted = InOrderOf(P, before)
    BY DEF Sorted
  <2> HIDE DEF P
  <2>2. StrictOrder(before, P)
    BY <1>2, PatternsAreOrdered
  <2> HIDE DEF before
  <2> QED
    BY <1>2, <2>1, <2>2, OrderTakesAll
<1>4. \A p \in P : /\ RoutesOf(p, M) \in Seq(GoodRoute)
                   /\ UNION {RouteConnections(r) : r \in Range(RoutesOf(p, M))} = Of(p)
  <2> HIDE DEF P
  <2> QED
    BY <1>2, RoutesOfPattern
<1> HIDE DEF sorted, N
<1>5. ss \in Seq(Seq(GoodRoute)) /\ DOMAIN ss = 1 .. N /\ \A i \in 1 .. N : ss[i] = RoutesOf(sorted[i], M)
  <2> HIDE DEF P
  <2>1. \A i \in 1 .. N : RoutesOf(sorted[i], M) \in Seq(GoodRoute)
    BY <1>3, <1>4
  <2> QED
    BY <1>3, <2>1
<1> HIDE DEF ss
<1>6. /\ FlattenSeq(ss) \in Seq(GoodRoute)
      /\ Range(FlattenSeq(ss)) = UNION {Range(ss[i]) : i \in DOMAIN ss}
  BY <1>5, FlattenFacts
<1>7. UNION {RouteConnections(r) : r \in Range(FlattenSeq(ss))} = UNION {Of(p) : p \in P}
  <2> DEFINE R == Range(FlattenSeq(ss))
  <2>1. R = UNION {Range(RoutesOf(p, M)) : p \in P}
    <3> HIDE DEF P
    <3>1. R = UNION {Range(RoutesOf(sorted[i], M)) : i \in 1 .. N}
      BY <1>5, <1>6
    <3> QED
      BY <1>3, <3>1
  <2> HIDE DEF R, Of, P
  <2>2. \A x : x \in UNION {RouteConnections(r) : r \in R}
                 <=> \E p \in P : \E r \in Range(RoutesOf(p, M)) : x \in RouteConnections(r)
    BY <2>1
  <2>3. \A p \in P : \A x : (x \in Of(p)) <=> \E r \in Range(RoutesOf(p, M)) : x \in RouteConnections(r)
    BY <1>4
  <2>4. \A x : x \in UNION {RouteConnections(r) : r \in R} <=> x \in UNION {Of(p) : p \in P}
    BY <2>2, <2>3
  <2> QED
    BY <2>4 DEF R
<1>8. UNION {Of(p) : p \in P} = UNION {ConnectionsOf(m.run) : m \in M}
  <2>1. \A m \in M : m.run.stops \in P
    OBVIOUS
  <2>2. \A p \in P : \A x : x \in Of(p) <=> \E m \in M : m.run.stops = p /\ x \in ConnectionsOf(m.run)
    OBVIOUS
  <2> HIDE DEF P, Of
  <2>3. \A x : x \in UNION {Of(p) : p \in P} <=> \E m \in M : x \in ConnectionsOf(m.run)
    BY <2>1, <2>2
  <2> QED
    BY <2>3 DEF Of
<1> QED
  BY <1>1, <1>6, <1>7, <1>8

-----------------------------------------------------------------------------
(* The edges of the graph: one for each admitted segment of a trip.        *)
SegmentsOf(f, t) ==
  {<< TripRecords(f, t)[k], TripRecords(f, t)[k + 1] >> : k \in 1 .. Len(TripRecords(f, t)) - 1}

LEMMA SegmentsOfTrip ==
  ASSUME NEW f, WellFormed(f), NEW t \in Trips(f)
  PROVE  /\ IsFiniteSet(SegmentsOf(f, t))
         /\ SegmentsOf(f, t) \subseteq f.stop_times \X f.stop_times
         /\ \A a \in SegmentsOf(f, t) : a[1].trip_id = t
         /\ \A a, b \in SegmentsOf(f, t) : a[1] = b[1] => a = b
<1> DEFINE own == {r \in f.stop_times : r.trip_id = t}
           n == Cardinality(own)
           rs == TripRecords(f, t)
<1>1. /\ n \in Nat \ {0} /\ rs \in [1 .. n -> own]
      /\ \A i, j \in 1 .. n : i < j => rs[i].stop_sequence < rs[j].stop_sequence
  BY RecordsInOrder
<1>2. \A i \in 1 .. n : rs[i] \in f.stop_times /\ rs[i].trip_id = t /\ rs[i].stop_sequence \in Nat
  BY <1>1 DEF WellFormed, StopTimeRecords
<1>3. \A i, j \in 1 .. n : rs[i] = rs[j] => i = j
  <2> HIDE DEF own, n, rs
  <2>1. ASSUME NEW i \in 1 .. n, NEW j \in 1 .. n, rs[i] = rs[j], i < j  PROVE  FALSE
    BY <1>1, <1>2, <2>1
  <2> QED
    BY <1>1, <2>1
<1>4. Len(rs) = n
  <2> HIDE DEF own, n, rs
  <2> QED
    BY <1>1
<1> DEFINE F == [k \in 1 .. n - 1 |-> << rs[k], rs[k + 1] >>]
<1>5. SegmentsOf(f, t) = {F[k] : k \in 1 .. n - 1}
  <2> HIDE DEF n
  <2> QED
    BY <1>4 DEF SegmentsOf
<1>6. n - 1 \in Nat /\ DOMAIN F = 1 .. n - 1
  BY <1>1
<1>7. \A k \in 1 .. n - 1 : F[k] = << rs[k], rs[k + 1] >> /\ k \in 1 .. n /\ k + 1 \in 1 .. n
  BY <1>1
<1> HIDE DEF F, own, n, rs
<1>8. IsFiniteSet({F[k] : k \in 1 .. n - 1})
  BY ONLY <1>6, ImageIsFinite
<1>9. \A s \in SegmentsOf(f, t) : \E k \in 1 .. n - 1 : s = F[k]
  BY <1>5
<1>10. SegmentsOf(f, t) \subseteq f.stop_times \X f.stop_times
       /\ \A a \in SegmentsOf(f, t) : a[1].trip_id = t
  <2> SUFFICES ASSUME NEW s \in SegmentsOf(f, t)
               PROVE  s \in f.stop_times \X f.stop_times /\ s[1].trip_id = t
    OBVIOUS
  <2>1. PICK k \in 1 .. n - 1 : s = F[k]
    BY <1>9
  <2>2. s = << rs[k], rs[k + 1] >> /\ rs[k] \in f.stop_times /\ rs[k + 1] \in f.stop_times
        /\ rs[k].trip_id = t
    BY <1>2, <1>7, <2>1
  <2> QED
    BY <2>2
<1>11. ASSUME NEW a \in SegmentsOf(f, t), NEW b \in SegmentsOf(f, t), a[1] = b[1]  PROVE  a = b
  <2>1. PICK i \in 1 .. n - 1 : a = F[i]
    BY <1>9
  <2>2. PICK j \in 1 .. n - 1 : b = F[j]
    BY <1>9
  <2>3. rs[i] = rs[j] /\ i \in 1 .. n /\ j \in 1 .. n
    BY <1>7, <1>11, <2>1, <2>2
  <2>4. i = j
    BY <1>3, <2>3
  <2> QED
    BY <2>1, <2>2, <2>4
<1> QED
  BY <1>5, <1>8, <1>10, <1>11

LEMMA SegmentsFacts ==
  ASSUME NEW f, WellFormed(f)
  PROVE  /\ IsFiniteSet(Segments(f))
         /\ Segments(f) \subseteq StopTimeRecords \X StopTimeRecords
         /\ \A a, b \in Segments(f) :
              a[1].trip_id = b[1].trip_id /\ a[1].stop_sequence = b[1].stop_sequence => a = b
<1> DEFINE F == [t \in Trips(f) |-> SegmentsOf(f, t)]
<1>1. Segments(f) = UNION {F[t] : t \in Trips(f)}
  BY DEF Segments, SegmentsOf
<1>2. \A t \in Trips(f) : IsFiniteSet(F[t])
  BY SegmentsOfTrip
<1>3. IsFiniteSet(Trips(f))
  BY TripsAreNatural
<1>4. \A s \in Segments(f) : \E t \in Trips(f) : s \in SegmentsOf(f, t)
  BY DEF Segments, SegmentsOf
<1> HIDE DEF F
<1>5. IsFiniteSet(UNION {F[t] : t \in Trips(f)})
  BY ONLY <1>2, <1>3, UnionIsFinite
<1>6. f.stop_times \subseteq StopTimeRecords
      /\ \A a, b \in f.stop_times : a.trip_id = b.trip_id /\ a.stop_sequence = b.stop_sequence => a = b
  BY DEF WellFormed
<1>7. Segments(f) \subseteq f.stop_times \X f.stop_times
  BY <1>4, SegmentsOfTrip
<1>8. ASSUME NEW a \in Segments(f), NEW b \in Segments(f),
             a[1].trip_id = b[1].trip_id, a[1].stop_sequence = b[1].stop_sequence
      PROVE  a = b
  <2>1. a[1] \in f.stop_times /\ b[1] \in f.stop_times
    BY <1>7
  <2>2. a[1] = b[1]
    BY <1>6, <1>8, <2>1
  <2>3. PICK t \in Trips(f) : a \in SegmentsOf(f, t)
    BY <1>4
  <2>4. PICK u \in Trips(f) : b \in SegmentsOf(f, u)
    BY <1>4
  <2>5. t = u
    BY <2>2, <2>3, <2>4, SegmentsOfTrip
  <2> QED
    BY <2>2, <2>3, <2>4, <2>5, SegmentsOfTrip
<1> QED
  BY <1>1, <1>5, <1>6, <1>7, <1>8

(* The clamps of the two builders are one.                                 *)
LEMMA EdgeIsConnection ==
  ASSUME NEW s \in StopTimeRecords \X StopTimeRecords, EdgeAdmitted(s[1], s[2]), NEW o
  PROVE  LET e == EdgeOf(o, s)
         IN  /\ e.departure_time \in Nat /\ e.destination \in Nat /\ e.travel_time \in Nat
             /\ << s[1].stop, e.departure_time, e.destination, e.departure_time + e.travel_time >>
                  = Connection(s[1], s[2])
<1> DEFINE e == EdgeOf(o, s)
           d == s[1].departure_time
           a == s[2].arrival_time
<1>1. s[1] \in StopTimeRecords /\ s[2] \in StopTimeRecords
  OBVIOUS
<1>2. d \in Nat /\ a \in Nat /\ a >= d /\ s[2].stop \in Nat
  <2>1. d \in Nat /\ a \in Nat /\ s[2].stop \in 0 .. NumStops
    BY <1>1, RecordTypes
  <2>2. a >= d
    BY DEF EdgeAdmitted
  <2> QED
    BY <2>1, <2>2, Sizes
<1>3. e.departure_time = d /\ e.destination = s[2].stop /\ e.travel_time = AtLeastOneSecond(a - d)
  BY DEF EdgeOf
<1> HIDE DEF e, d, a
<1>4. AtLeastOneSecond(a - d) \in Nat /\ d + AtLeastOneSecond(a - d) = Max2(a, d + 1)
  BY <1>2 DEF AtLeastOneSecond, Max2
<1> QED
  BY <1>2, <1>3, <1>4 DEF Connection, e, d, a

(* The edges out of u: one for each admitted segment that begins there, in *)
(* order of departure.                                                     *)
SegmentsFrom(f, u) == {x \in Segments(f) : EdgeAdmitted(x[1], x[2]) /\ x[1].stop = u}

LEMMA EdgesInOrder ==
  ASSUME NEW f, WellFormed(f), NEW o, NEW u \in Stop
  PROVE  LET n == Cardinality(SegmentsFrom(f, u))
             es == edges_of(f, o, u)
         IN  /\ IsFiniteSet(SegmentsFrom(f, u)) /\ n \in Nat
             /\ Len(es) = n /\ DOMAIN es = 1 .. n
             /\ \A i \in 1 .. n : \E s \in SegmentsFrom(f, u) : es[i] = EdgeOf(o, s)
             /\ \A s \in SegmentsFrom(f, u) : \E i \in 1 .. n : es[i] = EdgeOf(o, s)
             /\ \A i, j \in 1 .. n : i <= j => es[i].departure_time <= es[j].departure_time
             /\ \A i \in 1 .. n : es[i].departure_time \in Nat
<1> DEFINE out == {x \in Segments(f) : EdgeAdmitted(x[1], x[2]) /\ x[1].stop = u}
           Before(a, b) ==
             LET ea == EdgeOf(o, a)
                 eb == EdgeOf(o, b)
             IN  IF ea # eb THEN EdgeBefore(ea, eb)
                 ELSE \/ a[1].trip_id < b[1].trip_id
                      \/ a[1].trip_id = b[1].trip_id /\ a[1].stop_sequence < b[1].stop_sequence
           before == {p \in out \X out : Before(p[1], p[2])}
           n == Cardinality(out)
           sorted == Sorted(out, Before)
<1>1. edges_of(f, o, u) = [i \in DOMAIN sorted |-> EdgeOf(o, sorted[i])]
  BY DEF edges_of
<1>2. IsFiniteSet(out) /\ out \subseteq Segments(f)
  <2>1. out \subseteq Segments(f)
    OBVIOUS
  <2> QED
    BY <2>1, SegmentsFacts, FS_Subset
<1>3. \A a \in out : a[1].trip_id \in Nat /\ a[1].stop_sequence \in Nat
  BY SegmentsFacts, RecordTypes
<1>4. \A a, b \in out : a # b => a[1].trip_id # b[1].trip_id \/ a[1].stop_sequence # b[1].stop_sequence
  BY SegmentsFacts
<1> DEFINE E == {EdgeOf(o, a) : a \in out}
<1>5. \A e \in E : e.departure_time \in Nat /\ e.destination \in Nat /\ e.travel_time \in Nat
  BY SegmentsFacts, EdgeIsConnection
<1>6. \A e, g \in E : e.departure_time = g.departure_time /\ e.destination = g.destination
                      /\ e.travel_time = g.travel_time => e = g
  <2> SUFFICES ASSUME NEW a \in out, NEW b \in out,
                      EdgeOf(o, a).departure_time = EdgeOf(o, b).departure_time,
                      EdgeOf(o, a).destination = EdgeOf(o, b).destination,
                      EdgeOf(o, a).travel_time = EdgeOf(o, b).travel_time
               PROVE  EdgeOf(o, a) = EdgeOf(o, b)
    OBVIOUS
  <2> QED
    BY DEF EdgeOf
<1>7. /\ \A e \in E : ~ EdgeBefore(e, e)
      /\ \A e, g \in E : e # g => EdgeBefore(e, g) \/ EdgeBefore(g, e)
      /\ \A e, g, h \in E : EdgeBefore(e, g) /\ EdgeBefore(g, h) => EdgeBefore(e, h)
  <2> HIDE DEF E
  <2> QED
    BY <1>5, <1>6 DEF EdgeBefore
<1>8. \A a \in out : EdgeOf(o, a) \in E
  OBVIOUS
<1> HIDE DEF out, E
<1>9. \A a \in out : ~ Before(a, a)
  BY <1>3
<1>10. \A a, b \in out : a # b => Before(a, b) \/ Before(b, a)
  BY <1>3, <1>4, <1>7, <1>8
<1>11. \A a, b, c \in out : Before(a, b) /\ Before(b, c) => Before(a, c)
  <2> SUFFICES ASSUME NEW a \in out, NEW b \in out, NEW c \in out, Before(a, b), Before(b, c)
               PROVE  Before(a, c)
    OBVIOUS
  <2>1. EdgeOf(o, a) \in E /\ EdgeOf(o, b) \in E /\ EdgeOf(o, c) \in E
    BY <1>8
  <2>2. CASE EdgeOf(o, a) # EdgeOf(o, b) /\ EdgeOf(o, b) # EdgeOf(o, c)
    <3>1. EdgeBefore(EdgeOf(o, a), EdgeOf(o, b)) /\ EdgeBefore(EdgeOf(o, b), EdgeOf(o, c))
      BY <2>2
    <3>2. EdgeBefore(EdgeOf(o, a), EdgeOf(o, c))
      BY <1>7, <2>1, <3>1
    <3>3. EdgeOf(o, a) # EdgeOf(o, c)
      BY <1>7, <2>1, <3>2
    <3> QED
      BY <3>2, <3>3
  <2>3. CASE EdgeOf(o, a) = EdgeOf(o, b) /\ EdgeOf(o, b) = EdgeOf(o, c)
    BY <1>3, <2>3
  <2>4. CASE EdgeOf(o, a) = EdgeOf(o, b) /\ EdgeOf(o, b) # EdgeOf(o, c)
    BY <2>4
  <2>5. CASE EdgeOf(o, a) # EdgeOf(o, b) /\ EdgeOf(o, b) = EdgeOf(o, c)
    BY <2>5
  <2> QED
    BY <2>2, <2>3, <2>4, <2>5
<1>12. sorted = InOrderOf(out, before)
  BY DEF Sorted
<1>13. StrictOrder(before, out)
  <2>1. \A a, b \in out : << a, b >> \in before <=> Before(a, b)
    OBVIOUS
  <2> HIDE DEF before, Before
  <2> QED
    BY <1>9, <1>10, <1>11, <2>1 DEF StrictOrder
<1> HIDE DEF before, sorted, n, Before
<1>14. /\ n \in Nat /\ sorted \in [1 .. n -> out]
       /\ \A x \in out : \E i \in 1 .. n : sorted[i] = x
       /\ \A i, j \in 1 .. n : i < j => << sorted[i], sorted[j] >> \in before
  <2>1. IsFiniteSet(out)
    BY <1>2
  <2> QED
    BY ONLY <1>12, <1>13, <2>1, OrderTakesAll DEF n
<1>15. /\ DOMAIN edges_of(f, o, u) = 1 .. n /\ Len(edges_of(f, o, u)) = n
       /\ \A i \in 1 .. n : edges_of(f, o, u)[i] = EdgeOf(o, sorted[i]) /\ sorted[i] \in out
  BY <1>1, <1>14
<1>16. \A i \in 1 .. n : edges_of(f, o, u)[i].departure_time \in Nat
  BY <1>5, <1>8, <1>15
<1>17. \A a, b \in out : << a, b >> \in before =>
         EdgeOf(o, a).departure_time <= EdgeOf(o, b).departure_time
  <2> SUFFICES ASSUME NEW a \in out, NEW b \in out, << a, b >> \in before
               PROVE  EdgeOf(o, a).departure_time <= EdgeOf(o, b).departure_time
    OBVIOUS
  <2>1. Before(a, b)
    BY DEF before
  <2>2. CASE EdgeOf(o, a) = EdgeOf(o, b)
    BY <1>5, <1>8, <2>2
  <2>3. CASE EdgeOf(o, a) # EdgeOf(o, b)
    <3>1. EdgeBefore(EdgeOf(o, a), EdgeOf(o, b))
      BY <2>1, <2>3 DEF Before
    <3> QED
      BY <1>5, <1>8, <3>1 DEF EdgeBefore
  <2> QED
    BY <2>2, <2>3
<1>18. ASSUME NEW i \in 1 .. n, NEW j \in 1 .. n, i <= j
       PROVE  edges_of(f, o, u)[i].departure_time <= edges_of(f, o, u)[j].departure_time
  <2>1. CASE i = j
    BY <1>16, <2>1
  <2>2. CASE i < j
    BY <1>14, <1>15, <1>17, <2>2
  <2> QED
    BY <1>14, <1>18, <2>1, <2>2
<1>19. out = SegmentsFrom(f, u) /\ n = Cardinality(SegmentsFrom(f, u))
  BY DEF out, n, SegmentsFrom
<1> HIDE DEF SegmentsFrom
<1> QED
  BY <1>2, <1>14, <1>15, <1>16, <1>18, <1>19

LEMMA EdgesOfFacts ==
  ASSUME NEW f, WellFormed(f), NEW o, NEW u \in Stop
  PROVE  Range(edges_of(f, o, u))
           = {EdgeOf(o, s) : s \in {x \in Segments(f) : EdgeAdmitted(x[1], x[2]) /\ x[1].stop = u}}
<1>1. Range(edges_of(f, o, u)) = {EdgeOf(o, s) : s \in SegmentsFrom(f, u)}
  <2> DEFINE es == edges_of(f, o, u)
             n == Cardinality(SegmentsFrom(f, u))
  <2>1. /\ DOMAIN es = 1 .. n
        /\ \A i \in 1 .. n : \E s \in SegmentsFrom(f, u) : es[i] = EdgeOf(o, s)
        /\ \A s \in SegmentsFrom(f, u) : \E i \in 1 .. n : es[i] = EdgeOf(o, s)
    BY EdgesInOrder
  <2> HIDE DEF es, n
  <2>2. Range(es) = {EdgeOf(o, s) : s \in SegmentsFrom(f, u)}
    BY <2>1 DEF Range
  <2> QED
    BY <2>2 DEF es
<1> QED
  BY <1>1 DEF SegmentsFrom

(* The admission rules of the two builders are one.                        *)
LEMMA ConnectionsOfGraph ==
  ASSUME NEW f, WellFormed(f), NEW o
  PROVE  UNION {{<< u, e.departure_time, e.destination, e.departure_time + e.travel_time >> :
                   e \in Range(edges_of(f, o, u))} : u \in Stop}
           = UNION {AdmittedOf(f, t) : t \in Trips(f)}
<1> DEFINE Out(u) == {x \in Segments(f) : EdgeAdmitted(x[1], x[2]) /\ x[1].stop = u}
           Tuple(u, e) == << u, e.departure_time, e.destination, e.departure_time + e.travel_time >>
           left == UNION {{Tuple(u, e) : e \in Range(edges_of(f, o, u))} : u \in Stop}
           admitted == {x \in Segments(f) : EdgeAdmitted(x[1], x[2])}
<1>1. \A u \in Stop : Range(edges_of(f, o, u)) = {EdgeOf(o, s) : s \in Out(u)}
  BY EdgesOfFacts
<1>2. \A s \in admitted : s[1].stop \in Stop /\ Tuple(s[1].stop, EdgeOf(o, s)) = Connection(s[1], s[2])
  <2> SUFFICES ASSUME NEW s \in admitted
               PROVE  s[1].stop \in Stop /\ Tuple(s[1].stop, EdgeOf(o, s)) = Connection(s[1], s[2])
    OBVIOUS
  <2>1. s \in StopTimeRecords \X StopTimeRecords /\ EdgeAdmitted(s[1], s[2])
    BY SegmentsFacts
  <2>2. s[1] \in StopTimeRecords /\ s[1].stop # Unresolved
    BY <2>1 DEF EdgeAdmitted
  <2> QED
    BY <2>1, <2>2, RecordTypes, EdgeIsConnection
<1>3. \A u \in Stop : \A s \in Out(u) : s \in admitted /\ s[1].stop = u
  OBVIOUS
<1>4. \A s \in admitted : s \in Out(s[1].stop)
  OBVIOUS
<1> HIDE DEF Out, admitted
<1>5. left = {Connection(s[1], s[2]) : s \in admitted}
  <2>1. \A x : x \in left <=> \E u \in Stop : \E s \in Out(u) : x = Tuple(u, EdgeOf(o, s))
    <3> HIDE DEF Tuple
    <3> QED
      BY <1>1
  <2> HIDE DEF left, Tuple
  <2>2. \A x : x \in left <=> \E s \in admitted : x = Connection(s[1], s[2])
    BY <1>2, <1>3, <1>4, <2>1
  <2> QED
    BY <2>2
<1>6. \A t \in Trips(f) : \A x :
        x \in AdmittedOf(f, t) <=> \E s \in SegmentsOf(f, t) : EdgeAdmitted(s[1], s[2]) /\ x = Connection(s[1], s[2])
  <2> SUFFICES ASSUME NEW t \in Trips(f), NEW x
               PROVE  x \in AdmittedOf(f, t)
                        <=> \E s \in SegmentsOf(f, t) : EdgeAdmitted(s[1], s[2]) /\ x = Connection(s[1], s[2])
    OBVIOUS
  <2> DEFINE rs == TripRecords(f, t)
             n == Len(rs) - 1
  <2>1. \A a, b : SegmentAdmitted(a, b) <=> EdgeAdmitted(a, b)
    BY DEF SegmentAdmitted, EdgeAdmitted
  <2>2. x \in AdmittedOf(f, t)
          <=> \E k \in 1 .. n : SegmentAdmitted(rs[k], rs[k + 1]) /\ x = Connection(rs[k], rs[k + 1])
    BY DEF AdmittedOf, AdmittedUpTo
  <2>3. SegmentsOf(f, t) = {<< rs[k], rs[k + 1] >> : k \in 1 .. n}
    BY DEF SegmentsOf
  <2> HIDE DEF rs, n
  <2>4. (\E s \in SegmentsOf(f, t) : EdgeAdmitted(s[1], s[2]) /\ x = Connection(s[1], s[2]))
          <=> \E k \in 1 .. n : EdgeAdmitted(rs[k], rs[k + 1]) /\ x = Connection(rs[k], rs[k + 1])
    <3> DEFINE pair(k) == << rs[k], rs[k + 1] >>
    <3>1. SegmentsOf(f, t) = {pair(k) : k \in 1 .. n}
      BY <2>3
    <3>2. \A k \in 1 .. n : pair(k)[1] = rs[k] /\ pair(k)[2] = rs[k + 1]
      OBVIOUS
    <3> HIDE DEF pair
    <3> QED
      BY <3>1, <3>2
  <2> QED
    BY <2>1, <2>2, <2>4
<1>7. Segments(f) = UNION {SegmentsOf(f, t) : t \in Trips(f)}
  BY DEF Segments, SegmentsOf
<1>8. \A x : x \in {Connection(s[1], s[2]) : s \in admitted} <=> x \in UNION {AdmittedOf(f, t) : t \in Trips(f)}
  BY <1>6, <1>7 DEF admitted
<1>9. left = UNION {AdmittedOf(f, t) : t \in Trips(f)}
  <2> HIDE DEF left
  <2> QED
    BY <1>5, <1>8
<1> QED
  BY <1>9

-----------------------------------------------------------------------------
(* What has been built was built from the feed.                            *)
BuiltFromFeed ==
  /\ feed \in Feeds
  /\ graph # NotBuilt => \E o \in Objectives : graph = build_with_transfers(feed, o)
  /\ Built => graph # NotBuilt /\ timetable = build(feed)

LEMMA BuiltFromFeedHolds == BuildSpec => []BuiltFromFeed
<1>1. BuildInit => BuiltFromFeed
  BY DEF BuildInit, BuiltFromFeed, Built
<1>2. BuiltFromFeed /\ [BuildNext]_buildVars => BuiltFromFeed'
  <2> SUFFICES ASSUME BuiltFromFeed, [BuildNext]_buildVars  PROVE  BuiltFromFeed'
    OBVIOUS
  <2>1. CASE BuildGraph
    BY <2>1 DEF BuiltFromFeed, Built, BuildGraph
  <2>2. CASE BuildTimetable
    BY <2>2 DEF BuiltFromFeed, Built, BuildTimetable
  <2>3. CASE UNCHANGED buildVars
    BY <2>3 DEF BuiltFromFeed, Built, buildVars
  <2> QED
    BY <2>1, <2>2, <2>3 DEF BuildNext
<1> QED
  BY <1>1, <1>2, PTL DEF BuildSpec

LEMMA FeedIsWellFormed ==
  ASSUME NEW f \in Feeds
  PROVE  WellFormed(f)
BY FeedsAssumption

LEMMA RunsAreDistinct ==
  ASSUME NEW f, WellFormed(f)
  PROVE  Runs(f) \in SUBSET Member /\ IsFiniteSet(Runs(f)) /\ Distinct(Runs(f))
BY RunsAreMembers DEF Distinct

(* The connections of the two structures built from one feed.              *)
LEMMA NetworkOfFeed ==
  ASSUME WellFormed(feed), NEW o, graph = build_with_transfers(feed, o), timetable = build(feed)
  PROVE  GraphConnections = TimetableConnections
<1> DEFINE f == feed
<1>1. \A u \in Stop : graph.edges[u] = edges_of(f, o, u)
  BY DEF build_with_transfers
<1>2. timetable.routes = Routes(Runs(f))
  BY DEF build
<1>3. WellFormed(f)
  OBVIOUS
<1> HIDE DEF f
<1>4. GraphConnections = UNION {AdmittedOf(f, t) : t \in Trips(f)}
  <2>1. GraphConnections
          = UNION {{<< u, e.departure_time, e.destination, e.departure_time + e.travel_time >> :
                      e \in Range(edges_of(f, o, u))} : u \in Stop}
    BY <1>1 DEF GraphConnections
  <2> QED
    BY <1>3, <2>1, ConnectionsOfGraph
<1>5. TimetableConnections = UNION {RouteConnections(r) : r \in Range(Routes(Runs(f)))}
  BY <1>2 DEF TimetableConnections, RouteConnections
<1>6. UNION {RouteConnections(r) : r \in Range(Routes(Runs(f)))} = UNION {ConnectionsOf(m.run) : m \in Runs(f)}
  BY <1>3, RunsAreDistinct, RoutesFacts
<1> QED
  BY <1>3, <1>4, <1>5, <1>6, RunsAreMembers

LEMMA SameNetworkOfBuilt == BuiltFromFeed => SameNetwork
<1> SUFFICES ASSUME BuiltFromFeed, Built  PROVE  GraphConnections = TimetableConnections
  BY DEF SameNetwork
<1>1. WellFormed(feed) /\ timetable = build(feed)
  BY FeedIsWellFormed DEF BuiltFromFeed
<1>2. PICK o \in Objectives : graph = build_with_transfers(feed, o)
  BY DEF BuiltFromFeed
<1> QED
  BY <1>1, <1>2, NetworkOfFeed

(* Graph and timetable of a feed carry the same connections: every segment *)
(* both builders admit, and no other (RaptorBuilder::build, stages a to c).*)
THEOREM SameNetworkHolds == BuildSpec => []SameNetwork
BY SameNetworkOfBuilt, BuiltFromFeedHolds, PTL

(* The trips of the routes built from a feed.                              *)
LEMMA RidesOfFeed ==
  ASSUME NEW f, WellFormed(f), NEW r \in Range(build(f).routes)
  PROVE  /\ r \in GoodRoute
         /\ r.stops \in Seq(Stop) /\ r.trips \in Seq(TripsOf(Len(r.stops))) /\ NoneOvertakes(r.trips)
         /\ \A a \in DOMAIN r.trips : DOMAIN r.trips[a] = DOMAIN r.stops
         /\ \A t \in Range(r.trips) : \A i \in 2 .. Len(r.stops) - 1 : t[i].arrival <= t[i].departure
<1>1. build(f).routes = Routes(Runs(f))
  BY DEF build
<1>2. Routes(Runs(f)) \in Seq(GoodRoute)
  BY RunsAreDistinct, RoutesFacts
<1>3. r \in GoodRoute
  BY <1>1, <1>2 DEF Range
<1>4. r.stops \in Seq(Stop) /\ r.trips \in Seq(TripsOf(Len(r.stops))) /\ NoneOvertakes(r.trips)
  BY <1>3 DEF GoodRoute, Bin
<1>5. \A a \in DOMAIN r.trips : DOMAIN r.trips[a] = DOMAIN r.stops
  <2>1. \A a \in DOMAIN r.trips : r.trips[a] \in Seq(StopTime) /\ Len(r.trips[a]) = Len(r.stops)
    BY <1>4 DEF TripsOf
  <2> QED
    BY <1>4, <2>1
<1>6. \A t \in Range(r.trips) : \A i \in 2 .. Len(r.stops) - 1 : t[i].arrival <= t[i].departure
  <2>1. \A n : \A t \in TripsOf(n) : \A i \in 2 .. n - 1 : t[i].arrival <= t[i].departure
    BY DEF TripsOf
  <2>2. \A t \in Range(r.trips) : t \in TripsOf(Len(r.stops))
    BY <1>4 DEF Range
  <2> QED
    BY <2>1, <2>2
<1> QED
  BY <1>3, <1>4, <1>5, <1>6

LEMMA TripsNeverOvertakeOfBuilt == BuiltFromFeed => TripsNeverOvertake
<1> SUFFICES ASSUME BuiltFromFeed, Built, NEW r \in Range(timetable.routes)
             PROVE  /\ \A a, b \in DOMAIN r.trips :
                         a < b => \A i \in DOMAIN r.stops :
                                    /\ r.trips[a][i].arrival <= r.trips[b][i].arrival
                                    /\ r.trips[a][i].departure <= r.trips[b][i].departure
                    /\ \A t \in Range(r.trips) : \A i \in 2 .. Len(r.stops) - 1 :
                         t[i].arrival <= t[i].departure
  BY DEF TripsNeverOvertake
<1>1. WellFormed(feed) /\ timetable = build(feed)
  BY FeedIsWellFormed DEF BuiltFromFeed
<1>2. /\ NoneOvertakes(r.trips)
      /\ \A a \in DOMAIN r.trips : DOMAIN r.trips[a] = DOMAIN r.stops
      /\ \A t \in Range(r.trips) : \A i \in 2 .. Len(r.stops) - 1 : t[i].arrival <= t[i].departure
  BY <1>1, RidesOfFeed
<1> QED
  BY <1>2 DEF NoneOvertakes, no_later_than

(* No trip of a route overtakes a later one, however far apart they are,   *)
(* and none leaves an inner stop before it has arrived (the @post of       *)
(* RaptorBuilder::build, can_ride_through).                                *)
THEOREM TripsNeverOvertakeHolds == BuildSpec => []TripsNeverOvertake
BY TripsNeverOvertakeOfBuilt, BuiltFromFeedHolds, PTL

-----------------------------------------------------------------------------
(* The walks out of a stop, as both builders take them from the feed.      *)
Walk == [destination : Stop, travel_time : Nat \ {0}]
WalkOf(t) == [destination |-> t.to_stop, travel_time |-> AtLeastOneSecond(t.min_transfer_time)]
KeptFrom(f, u) == {i \in DOMAIN f.transfers : /\ f.transfers[i].from_stop = u
                                              /\ f.transfers[i].to_stop # Unresolved
                                              /\ f.transfers[i].to_stop # u}
WalksFrom(f, u) == {WalkOf(f.transfers[i]) : i \in KeptFrom(f, u)}

LEMMA KeptFacts ==
  ASSUME NEW f, WellFormed(f), NEW u \in Stop
  PROVE  /\ IsFiniteSet(KeptFrom(f, u)) /\ KeptFrom(f, u) \in SUBSET DOMAIN f.transfers
         /\ DOMAIN f.transfers = 1 .. Len(f.transfers) /\ Len(f.transfers) \in Nat
         /\ \A i \in KeptFrom(f, u) : WalkOf(f.transfers[i]) \in Walk /\ f.transfers[i].to_stop # u
<1>1. f.transfers \in Seq(TransferRecords)
  BY DEF WellFormed
<1>2. DOMAIN f.transfers = 1 .. Len(f.transfers) /\ Len(f.transfers) \in Nat
  BY <1>1
<1>3. KeptFrom(f, u) \in SUBSET DOMAIN f.transfers
  BY DEF KeptFrom
<1>4. IsFiniteSet(KeptFrom(f, u))
  <2>1. IsFiniteSet(DOMAIN f.transfers)
    BY <1>2, FS_Interval
  <2> QED
    BY <1>3, <2>1, FS_Subset
<1>5. ASSUME NEW i \in KeptFrom(f, u)
      PROVE  WalkOf(f.transfers[i]) \in Walk /\ f.transfers[i].to_stop # u
  <2>1. f.transfers[i] \in TransferRecords
    BY <1>1, <1>3
  <2>2. f.transfers[i].to_stop \in 0 .. NumStops /\ f.transfers[i].min_transfer_time \in Nat
    BY <2>1 DEF TransferRecords
  <2>3. f.transfers[i].to_stop # Unresolved /\ f.transfers[i].to_stop # u
    BY DEF KeptFrom
  <2>4. f.transfers[i].to_stop \in Stop
    BY <2>2, <2>3, Sizes DEF Stop, Unresolved
  <2>5. AtLeastOneSecond(f.transfers[i].min_transfer_time) \in Nat \ {0}
    BY <2>2 DEF AtLeastOneSecond
  <2> QED
    BY <2>3, <2>4, <2>5 DEF WalkOf, Walk
<1> QED
  BY <1>2, <1>3, <1>4, <1>5

LEMMA WalkableFacts ==
  ASSUME NEW f, WellFormed(f), NEW u \in Stop
  PROVE  /\ Walkable(f, u) \in Seq(Walk)
         /\ Len(Walkable(f, u)) = Cardinality(KeptFrom(f, u))
         /\ Range(Walkable(f, u)) = WalksFrom(f, u)
<1> DEFINE kept == KeptFrom(f, u)
           before == {p \in kept \X kept : p[1] < p[2]}
           n == Cardinality(kept)
           sorted == Sorted(kept, <)
<1>1. Walkable(f, u) = [i \in DOMAIN sorted |-> WalkOf(f.transfers[sorted[i]])]
  BY DEF Walkable, KeptFrom, WalkOf, AtLeastOneSecond
<1>2. /\ IsFiniteSet(kept) /\ kept \in SUBSET Nat
      /\ \A i \in kept : WalkOf(f.transfers[i]) \in Walk
  BY KeptFacts
<1>3. sorted = InOrderOf(kept, before)
  BY DEF Sorted
<1> HIDE DEF kept
<1>4. StrictOrder(before, kept)
  BY <1>2 DEF StrictOrder
<1> HIDE DEF before, sorted, n
<1>5. /\ n \in Nat /\ sorted \in [1 .. n -> kept]
      /\ \A x \in kept : \E i \in 1 .. n : sorted[i] = x
  <2>1. IsFiniteSet(kept)
    BY <1>2
  <2> QED
    BY ONLY <1>3, <1>4, <2>1, OrderTakesAll DEF n
<1>6. DOMAIN sorted = 1 .. n
  BY <1>5
<1>7. Walkable(f, u) \in Seq(Walk) /\ Len(Walkable(f, u)) = n
  <2> DEFINE walk == [i \in 1 .. n |-> WalkOf(f.transfers[sorted[i]])]
  <2>1. \A i \in 1 .. n : walk[i] \in Walk
    BY <1>2, <1>5
  <2>2. Walkable(f, u) = walk /\ DOMAIN walk = 1 .. n
    BY <1>1, <1>6
  <2>3. walk \in [1 .. n -> Walk]
    BY <2>1
  <2> HIDE DEF walk
  <2> QED
    BY <1>5, <2>2, <2>3
<1>8. Range(Walkable(f, u)) = {WalkOf(f.transfers[i]) : i \in kept}
  BY <1>1, <1>5, <1>6 DEF Range
<1> QED
  BY <1>7, <1>8 DEF WalksFrom, n, kept

LEMMA TransfersOfFacts ==
  ASSUME NEW f, WellFormed(f), NEW u \in Stop
  PROVE  Range(transfers_of(f, u)) = WalksFrom(f, u)
<1> DEFINE kept == {i \in DOMAIN f.transfers : TransferAdmitted(f.transfers[i])
                                               /\ f.transfers[i].from_stop = u}
           Before(i, j) == IF f.transfers[i].to_stop = f.transfers[j].to_stop THEN i < j
                           ELSE f.transfers[i].to_stop < f.transfers[j].to_stop
           before == {p \in kept \X kept : Before(p[1], p[2])}
           n == Cardinality(kept)
           sorted == Sorted(kept, Before)
<1>1. transfers_of(f, u) = [i \in DOMAIN sorted |-> WalkOf(f.transfers[sorted[i]])]
  BY DEF transfers_of, WalkOf
<1>2. kept = KeptFrom(f, u)
  <2>1. u # Unresolved
    BY Sizes DEF Stop, Unresolved
  <2> QED
    BY <2>1 DEF KeptFrom, TransferAdmitted
<1>3. sorted = InOrderOf(kept, before)
  BY DEF Sorted
<1> HIDE DEF kept
<1>4. IsFiniteSet(kept) /\ kept \in SUBSET Nat /\ \A i \in kept : f.transfers[i].to_stop \in Nat
  <2>1. \A i \in kept : WalkOf(f.transfers[i]) \in Walk
    BY <1>2, KeptFacts
  <2>2. \A i \in kept : f.transfers[i].to_stop \in Nat
    BY <2>1, Sizes DEF WalkOf, Walk, Stop
  <2> QED
    BY <1>2, <2>2, KeptFacts
<1>5. StrictOrder(before, kept)
  BY <1>4 DEF StrictOrder
<1> HIDE DEF before, sorted, n
<1>6. /\ n \in Nat /\ sorted \in [1 .. n -> kept]
      /\ \A x \in kept : \E i \in 1 .. n : sorted[i] = x
  <2>1. IsFiniteSet(kept)
    BY <1>4
  <2> QED
    BY ONLY <1>3, <1>5, <2>1, OrderTakesAll DEF n
<1>7. DOMAIN sorted = 1 .. n
  BY <1>6
<1>8. Range(transfers_of(f, u)) = {WalkOf(f.transfers[i]) : i \in kept}
  BY <1>1, <1>6, <1>7 DEF Range
<1> QED
  BY <1>2, <1>8 DEF WalksFrom
-----------------------------------------------------------------------------
(* Relaxing some walks: what has become of the search after the first k.   *)
SearchState == [dist : [Stop -> 0 .. UINT32_MAX], queue : Seq(Stop), settled : Nat]
RelaxedUpTo(c, d, ws, k) ==
  {r \in SearchState :
     /\ r.settled = c.settled
     /\ \A v \in Stop : r.dist[v] <= c.dist[v]
     /\ \A j \in 1 .. k : r.dist[ws[j].destination] <= d + ws[j].travel_time
     /\ \A v \in Stop :
          \/ r.dist[v] = c.dist[v]
          \/ v \in Range(r.queue)
             /\ \E j \in 1 .. k : ws[j].destination = v /\ r.dist[v] = d + ws[j].travel_time
     /\ Range(c.queue) \subseteq Range(r.queue)
     /\ \A v \in Range(r.queue) : v \in Range(c.queue) \/ r.dist[v] < c.dist[v]
     /\ Len(r.queue) <= Len(c.queue) + k
     /\ (\A j \in 1 .. k : c.dist[ws[j].destination] <= d + ws[j].travel_time) => r = c}

LEMMA RelaxedGoesOn ==
  ASSUME NEW c \in SearchState, NEW d \in Nat, NEW ws, NEW i \in Nat \ {0},
         \A j \in 1 .. i : ws[j] \in Walk,
         NEW r \in RelaxedUpTo(c, d, ws, i - 1)
  PROVE  Relaxed(r, d, ws[i]) \in RelaxedUpTo(c, d, ws, i)
<1> DEFINE w == ws[i]
           v == w.destination
           e == d + w.travel_time
           r2 == Relaxed(r, d, w)
<1>0. 1 .. i = (1 .. i - 1) \cup {i} /\ i - 1 \in Nat /\ i \in 1 .. i
  OBVIOUS
<1>1. /\ r \in SearchState /\ r.settled = c.settled
      /\ \A x \in Stop : r.dist[x] <= c.dist[x]
      /\ \A j \in 1 .. i - 1 : r.dist[ws[j].destination] <= d + ws[j].travel_time
      /\ \A x \in Stop :
           \/ r.dist[x] = c.dist[x]
           \/ x \in Range(r.queue)
              /\ \E j \in 1 .. i - 1 : ws[j].destination = x /\ r.dist[x] = d + ws[j].travel_time
      /\ Range(c.queue) \subseteq Range(r.queue)
      /\ \A x \in Range(r.queue) : x \in Range(c.queue) \/ r.dist[x] < c.dist[x]
      /\ Len(r.queue) <= Len(c.queue) + (i - 1)
      /\ (\A j \in 1 .. i - 1 : c.dist[ws[j].destination] <= d + ws[j].travel_time) => r = c
  BY DEF RelaxedUpTo
<1>2. v \in Stop /\ w.travel_time \in Nat \ {0} /\ e \in Nat
  BY <1>0 DEF Walk
<1>3. /\ r.dist \in [Stop -> 0 .. UINT32_MAX] /\ r.queue \in Seq(Stop) /\ r.settled \in Nat
      /\ c.dist \in [Stop -> 0 .. UINT32_MAX] /\ c.queue \in Seq(Stop)
      /\ r = [dist |-> r.dist, queue |-> r.queue, settled |-> r.settled]
  BY <1>1 DEF SearchState
<1>4. \A x \in Stop : r.dist[x] \in Nat /\ c.dist[x] \in Nat /\ r.dist[x] <= UINT32_MAX
  <2>1. \A x \in Stop : r.dist[x] \in 0 .. UINT32_MAX /\ c.dist[x] \in 0 .. UINT32_MAX
    BY <1>3
  <2> QED
    BY <2>1, Sizes
<1>5. Len(r.queue) \in Nat /\ Len(c.queue) \in Nat
  BY <1>3
<1>6. CASE ~ (e < r.dist[v])
  <2>1. r2 = r
    BY <1>6 DEF Relaxed
  <2>2. \A j \in 1 .. i : r.dist[ws[j].destination] <= d + ws[j].travel_time
    BY <1>0, <1>1, <1>2, <1>4, <1>6
  <2>3. Len(r.queue) <= Len(c.queue) + i
    BY <1>1, <1>5
  <2>4. \A j \in 1 .. i - 1 : j \in 1 .. i
    OBVIOUS
  <2> HIDE DEF w, v, e, r2
  <2>5. r \in RelaxedUpTo(c, d, ws, i)
    BY <1>1, <2>2, <2>3, <2>4 DEF RelaxedUpTo
  <2> QED
    BY <2>1, <2>5 DEF r2, w
<1>7. CASE e < r.dist[v]
  <2>1. r2 = [r EXCEPT !.dist[v] = e, !.queue = Append(@, v)]
    BY <1>7 DEF Relaxed
  <2> HIDE DEF w, v, e, r2
  <2> DEFINE dist2 == [r.dist EXCEPT ![v] = e]
             queue2 == Append(r.queue, v)
  <2>2. r2.dist = dist2 /\ r2.queue = queue2 /\ r2.settled = r.settled
        /\ r2 = [dist |-> dist2, queue |-> queue2, settled |-> r.settled]
    BY <1>3, <2>1
  <2>3. dist2 \in [Stop -> 0 .. UINT32_MAX]
    <3>1. e \in 0 .. UINT32_MAX
      BY <1>2, <1>4, <1>7, Sizes
    <3> QED
      BY <1>3, <3>1
  <2>4. dist2[v] = e /\ \A x \in Stop : x # v => dist2[x] = r.dist[x]
    BY <1>2, <1>3
  <2>5. queue2 \in Seq(Stop) /\ Len(queue2) = Len(r.queue) + 1
    BY <1>2, <1>3
  <2>6. Range(queue2) = Range(r.queue) \cup {v}
    BY <1>2, <1>3, RangeOfAppend
  <2> HIDE DEF dist2, queue2
  <2>7. r2 \in SearchState /\ r2.settled = c.settled
    BY <1>1, <1>3, <2>2, <2>3, <2>5 DEF SearchState
  <2>8. \A x \in Stop : r2.dist[x] <= r.dist[x] /\ r2.dist[x] <= c.dist[x] /\ r2.dist[x] \in Nat
    <3> SUFFICES ASSUME NEW x \in Stop
                 PROVE  r2.dist[x] <= r.dist[x] /\ r2.dist[x] <= c.dist[x] /\ r2.dist[x] \in Nat
      OBVIOUS
    <3>1. r.dist[x] \in Nat /\ c.dist[x] \in Nat /\ r.dist[x] <= c.dist[x]
      BY <1>1, <1>4
    <3>2. CASE x = v
      BY <1>2, <1>7, <2>2, <2>4, <3>1, <3>2
    <3>3. CASE x # v
      BY <2>2, <2>4, <3>1, <3>3
    <3> QED
      BY <3>2, <3>3
  <2>9. ASSUME NEW j \in 1 .. i  PROVE  r2.dist[ws[j].destination] <= d + ws[j].travel_time
    <3>1. CASE j = i
      BY <1>2, <2>2, <2>4, <3>1 DEF w, v, e
    <3>2. CASE j \in 1 .. i - 1
      <4>1. r.dist[ws[j].destination] <= d + ws[j].travel_time
        BY <1>1, <3>2
      <4>2. CASE ws[j].destination = v
        <5>1. r2.dist[ws[j].destination] = e /\ e < r.dist[v] /\ r.dist[v] <= d + ws[j].travel_time
          BY <1>7, <2>2, <2>4, <4>1, <4>2
        <5>2. d + ws[j].travel_time \in Nat
          BY DEF Walk
        <5> QED
          BY <1>2, <1>4, <5>1, <5>2
      <4>3. CASE ws[j].destination # v
        <5>1. r2.dist[ws[j].destination] = r.dist[ws[j].destination]
          BY <1>3, <2>2, <4>3 DEF dist2
        <5> QED
          BY <4>1, <5>1
      <4> QED
        BY <4>2, <4>3
    <3> QED
      BY <1>0, <3>1, <3>2
  <2>10. ASSUME NEW x \in Stop, r2.dist[x] # c.dist[x]
         PROVE  /\ x \in Range(r2.queue)
                /\ \E j \in 1 .. i : ws[j].destination = x /\ r2.dist[x] = d + ws[j].travel_time
    <3>1. CASE x = v
      <4>1. i \in 1 .. i /\ ws[i].destination = x /\ r2.dist[x] = d + ws[i].travel_time
        BY <1>2, <2>2, <2>4, <3>1 DEF w, v, e
      <4> QED
        BY <2>2, <2>6, <3>1, <4>1
    <3>2. CASE x # v
      <4>1. r2.dist[x] = r.dist[x]
        BY <2>2, <2>4, <3>2
      <4>2. x \in Range(r.queue)
            /\ \E j \in 1 .. i - 1 : ws[j].destination = x /\ r.dist[x] = d + ws[j].travel_time
        BY <1>1, <2>10, <4>1
      <4> QED
        BY <1>0, <2>2, <2>6, <4>1, <4>2
    <3> QED
      BY <3>1, <3>2
  <2>11. Range(c.queue) \subseteq Range(r2.queue)
    BY <1>1, <2>2, <2>6
  <2>12. ASSUME NEW x \in Range(r2.queue)  PROVE  x \in Range(c.queue) \/ r2.dist[x] < c.dist[x]
    <3>1. x = v \/ x \in Range(r.queue)
      BY <2>2, <2>6
    <3>2. CASE x = v
      <4>1. r2.dist[x] = e /\ e < r.dist[v] /\ r.dist[v] <= c.dist[v] /\ r.dist[v] \in Nat /\ c.dist[v] \in Nat
        BY <1>1, <1>2, <1>4, <1>7, <2>2, <2>4, <3>2
      <4> QED
        BY <1>2, <3>2, <4>1
    <3>3. CASE x # v
      <4>1. x \in Range(r.queue) /\ x \in Stop
        BY <1>3, <3>1, <3>3 DEF Range
      <4>2. r2.dist[x] = r.dist[x]
        BY <2>2, <2>4, <3>3, <4>1
      <4> QED
        BY <1>1, <4>1, <4>2
    <3> QED
      BY <3>2, <3>3
  <2>13. Len(r2.queue) <= Len(c.queue) + i
    BY <1>1, <1>5, <2>2, <2>5
  <2>14. ~ \A j \in 1 .. i : c.dist[ws[j].destination] <= d + ws[j].travel_time
    <3> SUFFICES ASSUME \A j \in 1 .. i : c.dist[ws[j].destination] <= d + ws[j].travel_time
                 PROVE  FALSE
      OBVIOUS
    <3>1. r = c
      BY <1>0, <1>1
    <3>2. c.dist[v] <= e
      BY <1>0 DEF v, e, w
    <3> QED
      BY <1>2, <1>4, <1>7, <3>1, <3>2
  <2>15. r2 \in RelaxedUpTo(c, d, ws, i)
    BY <2>7, <2>8, <2>9, <2>10, <2>11, <2>12, <2>13, <2>14 DEF RelaxedUpTo
  <2> QED
    BY <2>15 DEF r2, w
<1> QED
  BY <1>6, <1>7

LEMMA NothingRelaxed ==
  ASSUME NEW c \in SearchState, NEW d, NEW ws
  PROVE  c \in RelaxedUpTo(c, d, ws, 0)
<1>1. c.dist \in [Stop -> 0 .. UINT32_MAX] /\ c.queue \in Seq(Stop)
  BY DEF SearchState
<1>2. \A v \in Stop : c.dist[v] <= c.dist[v]
  <2>1. \A v \in Stop : c.dist[v] \in 0 .. UINT32_MAX
    BY <1>1
  <2>2. \A x \in 0 .. UINT32_MAX : x <= x
    BY Sizes
  <2> QED
    BY <2>1, <2>2
<1>3. Len(c.queue) <= Len(c.queue) + 0
  BY <1>1
<1> QED
  BY <1>2, <1>3 DEF RelaxedUpTo

LEMMA AllRelaxed ==
  ASSUME NEW c \in SearchState, NEW d \in Nat, NEW ws \in Seq(Walk)
  PROVE  FoldLeft(LAMBDA x, w : Relaxed(x, d, w), c, ws) \in RelaxedUpTo(c, d, ws, Len(ws))
<1> DEFINE op(x, w) == Relaxed(x, d, w)
           S == SearchState
<1>1. PICK N \in Nat : N = Len(ws) /\ DOMAIN ws = 1 .. N
  OBVIOUS
<1> DEFINE step == [i \in 1 .. N |-> [x \in S |-> op(x, ws[i])]]
           Good == [i \in 0 .. N |-> RelaxedUpTo(c, d, ws, i)]
           eq(f) == [t \in SUBSET (1 .. N) |->
                       IF t = {} THEN c ELSE op(f[t \ {Max(t)}], ws[Max(t)])]
           F == CHOOSE f : f = eq(f)
           all == FoldLeft(LAMBDA x, w : Relaxed(x, d, w), c, ws)
<1>2. all = F[1 .. N]
  BY <1>1 DEF FoldLeft, MapThenFoldSet
<1>3. \A i \in 1 .. N : ws[i] \in Walk
  BY <1>1
<1>4. ASSUME NEW i \in 1 .. N, NEW x \in S  PROVE  op(x, ws[i]) \in S
  <2> DEFINE one == << ws[i] >>
  <2>1. one[1] = ws[i] /\ \A j \in 1 .. 1 : one[j] \in Walk
    BY <1>3
  <2> HIDE DEF one
  <2>2. x \in RelaxedUpTo(x, d, one, 1 - 1)
    BY NothingRelaxed
  <2>3. Relaxed(x, d, one[1]) \in RelaxedUpTo(x, d, one, 1)
    BY <2>1, <2>2, RelaxedGoesOn
  <2> QED
    BY <2>1, <2>3 DEF RelaxedUpTo
<1>5. ASSUME NEW i \in 1 .. N, NEW x \in RelaxedUpTo(c, d, ws, i - 1)
      PROVE  op(x, ws[i]) \in RelaxedUpTo(c, d, ws, i)
  <2>1. i \in Nat \ {0} /\ \A j \in 1 .. i : ws[j] \in Walk
    BY <1>3
  <2> QED
    BY <2>1, RelaxedGoesOn
<1> HIDE DEF op, S
<1>6. step \in [1 .. N -> [S -> S]]
  BY <1>4
<1>7. \A i \in 1 .. N, x \in S : step[i][x] = op(x, ws[i])
  OBVIOUS
<1>8. \A i \in 0 .. N : Good[i] = RelaxedUpTo(c, d, ws, i)
  OBVIOUS
<1> HIDE DEF step, Good
<1>9. c \in S
  BY DEF S
<1>10. PICK f : f \in Folds(N, S, c, step)
  BY <1>6, <1>9, FoldExists
<1>11. \A t \in SUBSET (1 .. N) : t # {} => Max(t) \in 1 .. N
  BY MaxInUpTo
<1>12. f = eq(f)
  BY <1>7, <1>10, <1>11 DEF Folds
<1>13. F = eq(F)
  BY <1>12
<1> HIDE DEF F
<1>14. IsFold(F, N, S, c, step)
  BY <1>7, <1>11, <1>13 DEF IsFold
<1>15. c \in Good[0]
  BY <1>8, NothingRelaxed
<1>16. \A i \in 1 .. N : \A x \in S : x \in Good[i - 1] => step[i][x] \in Good[i]
  <2> SUFFICES ASSUME NEW i \in 1 .. N, NEW x \in S, x \in Good[i - 1]
               PROVE  step[i][x] \in Good[i]
    OBVIOUS
  <2>1. i \in 0 .. N /\ i - 1 \in 0 .. N
    OBVIOUS
  <2> QED
    BY <1>5, <1>7, <1>8, <2>1
<1>17. F[1 .. N] \in S /\ F[1 .. N] \in Good[N]
  <2>1. N \in Nat
    OBVIOUS
  <2> QED
    BY ONLY <1>6, <1>9, <1>14, <1>15, <1>16, <2>1, FoldKeeps, SMTT(40)
<1>18. N \in 0 .. N
  OBVIOUS
<1> HIDE DEF all
<1>19. all \in RelaxedUpTo(c, d, ws, Len(ws))
  BY <1>1, <1>2, <1>8, <1>17, <1>18
<1> QED
  BY <1>19 DEF all

-----------------------------------------------------------------------------
(* One pop: the nearest stop of the queue leaves it, once.                 *)
FirstNearest(c, i) ==
  \A j \in DOMAIN c.queue :
    \/ c.dist[c.queue[i]] < c.dist[c.queue[j]]
    \/ c.dist[c.queue[i]] = c.dist[c.queue[j]] /\ i <= j
LeftOf(c, at) ==
  [c EXCEPT !.queue = Front([c.queue EXCEPT ![at] = Last(c.queue)]), !.settled = @ + 1]

LEMMA NearestExists ==
  ASSUME NEW c \in SearchState, c.queue # << >>
  PROVE  \E i \in DOMAIN c.queue : FirstNearest(c, i)
<1> DEFINE D == DOMAIN c.queue
           key == [i \in D |-> c.dist[c.queue[i]]]
           keys == {key[i] : i \in D}
<1>1. /\ c.queue \in Seq(Stop) /\ D = 1 .. Len(c.queue) /\ Len(c.queue) \in Nat /\ D # {}
      /\ c.dist \in [Stop -> 0 .. UINT32_MAX]
  <2>1. c.queue \in Seq(Stop) /\ c.dist \in [Stop -> 0 .. UINT32_MAX]
    BY DEF SearchState
  <2>2. Len(c.queue) \in Nat /\ Len(c.queue) # 0 /\ DOMAIN c.queue = 1 .. Len(c.queue)
    BY <2>1
  <2>3. 1 \in 1 .. Len(c.queue)
    BY <2>2
  <2> QED
    BY <2>1, <2>2, <2>3
<1>2. D \in SUBSET Nat /\ \A i \in D : key[i] \in Nat
  <2>1. \A i \in D : c.queue[i] \in Stop
    BY <1>1
  <2>2. \A i \in D : key[i] \in 0 .. UINT32_MAX
    BY <1>1, <2>1
  <2> QED
    BY <1>1, <2>2, Sizes
<1> HIDE DEF D, key
<1>3. PICK k \in keys : \A l \in keys : k <= l
  <2>1. keys \in SUBSET Nat /\ keys # {}
    BY <1>1, <1>2
  <2> HIDE DEF keys
  <2> QED
    BY <2>1, LeastNatural
<1> DEFINE first == {i \in D : key[i] = k}
<1>4. PICK i \in first : \A j \in first : i <= j
  <2>1. first \in SUBSET Nat /\ first # {}
    BY <1>2
  <2> HIDE DEF first
  <2> QED
    BY <2>1, LeastNatural
<1>5. \A j \in D : key[i] < key[j] \/ (key[i] = key[j] /\ i <= j)
  <2> SUFFICES ASSUME NEW j \in D  PROVE  key[i] < key[j] \/ (key[i] = key[j] /\ i <= j)
    OBVIOUS
  <2>1. key[i] = k /\ k <= key[j] /\ i \in D
    BY <1>3
  <2>2. CASE key[j] = k
    BY <1>4, <2>1, <2>2
  <2>3. CASE key[j] # k
    BY <1>2, <2>1, <2>3
  <2> QED
    BY <2>2, <2>3
<1>6. i \in D
  OBVIOUS
<1> QED
  BY <1>5, <1>6 DEF FirstNearest, D, key

LEMMA LeftFacts ==
  ASSUME NEW c \in SearchState, NEW at \in DOMAIN c.queue
  PROVE  /\ LeftOf(c, at) \in SearchState
         /\ LeftOf(c, at).dist = c.dist /\ LeftOf(c, at).settled = c.settled + 1
         /\ Len(LeftOf(c, at).queue) = Len(c.queue) - 1
         /\ Range(c.queue) = Range(LeftOf(c, at).queue) \cup {c.queue[at]}
<1> DEFINE q == c.queue
           n == Len(q)
           q2 == [q EXCEPT ![at] = Last(q)]
           q3 == Front(q2)
<1>1. /\ q \in Seq(Stop) /\ n \in Nat /\ DOMAIN q = 1 .. n /\ at \in 1 .. n
      /\ c.dist \in [Stop -> 0 .. UINT32_MAX] /\ c.settled \in Nat
      /\ c = [dist |-> c.dist, queue |-> q, settled |-> c.settled]
  BY DEF SearchState
<1>2. n >= 1 /\ n \in 1 .. n /\ \A i \in 1 .. n : q[i] \in Stop
  BY <1>1
<1>3. LeftOf(c, at) = [dist |-> c.dist, queue |-> q3, settled |-> c.settled + 1]
  <2>1. LeftOf(c, at) = [c EXCEPT !.queue = q3, !.settled = @ + 1]
    BY DEF LeftOf
  <2> HIDE DEF q3
  <2> QED
    BY <1>1, <2>1
<1> HIDE DEF q, n
<1>4. Last(q) = q[n]
  BY DEF Last, n
<1>5. /\ q2 \in Seq(Stop) /\ Len(q2) = n
      /\ \A i \in 1 .. n : q2[i] = IF i = at THEN q[n] ELSE q[i]
  <2>1. q2 = [i \in 1 .. n |-> IF i = at THEN q[n] ELSE q[i]]
    BY <1>1, <1>4
  <2> HIDE DEF q2
  <2>2. \A i \in 1 .. n : (IF i = at THEN q[n] ELSE q[i]) \in Stop
    BY <1>2
  <2> QED
    <3>1. q2 \in [1 .. n -> Stop]
      BY <2>1, <2>2
    <3>2. q2 \in Seq(Stop) /\ Len(q2) = n
      BY <1>1, <3>1, SMTT(30)
    <3> QED
      BY <2>1, <3>2
<1> HIDE DEF q2
<1>6. q3 = [i \in 1 .. n - 1 |-> q2[i]]
  <2>1. q3 = SubSeq(q2, 1, n - 1)
    BY <1>5 DEF Front
  <2> HIDE DEF q3
  <2>2. SubSeq(q2, 1, n - 1) = [i \in 1 .. n - 1 |-> q2[i]]
    BY <1>1, <1>2, <1>5
  <2> QED
    BY <2>1, <2>2
<1> HIDE DEF q3
<1>7. q3 \in Seq(Stop) /\ Len(q3) = n - 1 /\ DOMAIN q3 = 1 .. n - 1
  <2>1. \A i \in 1 .. n - 1 : q2[i] \in Stop
    BY <1>1, <1>2, <1>5
  <2>2. n - 1 \in Nat
    BY <1>1, <1>2
  <2> QED
    BY <1>6, <2>1, <2>2
<1>8. Range(q) = Range(q3) \cup {q[at]}
  <2>1. ASSUME NEW x \in Range(q)  PROVE  x \in Range(q3) \cup {q[at]}
    <3>1. PICK i \in 1 .. n : q[i] = x
      BY <1>1 DEF Range
    <3>2. CASE i = at
      BY <3>1, <3>2
    <3>3. CASE i # at /\ i # n
      <4>1. i \in 1 .. n - 1 /\ q2[i] = x
        BY <1>1, <1>5, <3>1, <3>3
      <4> QED
        BY <1>6, <1>7, <4>1 DEF Range
    <3>4. CASE i # at /\ i = n
      <4>1. at \in 1 .. n - 1 /\ q2[at] = x
        BY <1>1, <1>5, <3>1, <3>4
      <4> QED
        BY <1>6, <1>7, <4>1 DEF Range
    <3> QED
      BY <3>2, <3>3, <3>4
  <2>2. ASSUME NEW x \in Range(q3)  PROVE  x \in Range(q)
    <3>1. PICK i \in 1 .. n - 1 : q3[i] = x
      BY <1>7 DEF Range
    <3>2. i \in 1 .. n /\ q2[i] = x
      BY <1>1, <1>6, <3>1
    <3> QED
      BY <1>1, <1>2, <1>5, <3>2 DEF Range
  <2>3. q[at] \in Range(q)
    BY <1>1 DEF Range
  <2> QED
    BY <2>1, <2>2, <2>3
<1>9. LeftOf(c, at) \in SearchState
  BY <1>1, <1>3, <1>7 DEF SearchState
<1> QED
  BY <1>3, <1>7, <1>8, <1>9 DEF q, n

(* What is left of the queue when u has been popped.                       *)
PoppedTo(c, u, l) ==
  /\ l \in SearchState /\ l.dist = c.dist /\ l.settled = c.settled + 1
  /\ Len(l.queue) = Len(c.queue) - 1
  /\ u \in Range(c.queue) /\ Range(c.queue) = Range(l.queue) \cup {u}
  /\ \A v \in Range(c.queue) : c.dist[u] <= c.dist[v]

LEMMA PoppedFacts ==
  ASSUME NEW f, WellFormed(f), NEW c \in SearchState, c.queue # << >>
  PROVE  \E u \in Stop : \E l \in SearchState :
           /\ PoppedTo(c, u, l)
           /\ l.settled > kMaxComponentDegree => Popped(f, c) = [l EXCEPT !.queue = << >>]
           /\ ~ (l.settled > kMaxComponentDegree) =>
                Popped(f, c) \in RelaxedUpTo(l, c.dist[u], Walkable(f, u), Len(Walkable(f, u)))
<1> DEFINE at == CHOOSE i \in DOMAIN c.queue :
                   \A j \in DOMAIN c.queue :
                     \/ c.dist[c.queue[i]] < c.dist[c.queue[j]]
                     \/ c.dist[c.queue[i]] = c.dist[c.queue[j]] /\ i <= j
           u == c.queue[at]
           l == LeftOf(c, at)
           rest == FoldLeft(LAMBDA x, w : Relaxed(x, c.dist[u], w), l, Walkable(f, u))
<1>1. at \in DOMAIN c.queue /\ FirstNearest(c, at)
  BY NearestExists DEF FirstNearest
<1>2. Popped(f, c) = IF l.settled > kMaxComponentDegree THEN [l EXCEPT !.queue = << >>] ELSE rest
  BY DEF Popped, LeftOf
<1> HIDE DEF at
<1>3. c.queue \in Seq(Stop) /\ c.dist \in [Stop -> 0 .. UINT32_MAX]
  BY DEF SearchState
<1>4. u \in Stop /\ u \in Range(c.queue)
  BY <1>1, <1>3 DEF Range
<1>5. \A v \in Range(c.queue) : c.dist[u] <= c.dist[v]
  <2> SUFFICES ASSUME NEW j \in DOMAIN c.queue  PROVE  c.dist[u] <= c.dist[c.queue[j]]
    BY DEF Range
  <2>1. c.dist[u] < c.dist[c.queue[j]] \/ c.dist[u] = c.dist[c.queue[j]]
    BY <1>1 DEF FirstNearest
  <2>2. c.dist[u] \in Nat /\ c.dist[c.queue[j]] \in Nat
    <3>1. c.queue[j] \in Stop
      BY <1>3
    <3>2. c.dist[u] \in 0 .. UINT32_MAX /\ c.dist[c.queue[j]] \in 0 .. UINT32_MAX
      BY <1>3, <1>4, <3>1
    <3> QED
      BY <3>2, Sizes
  <2> QED
    BY <2>1, <2>2
<1>6. PoppedTo(c, u, l)
  BY <1>1, <1>4, <1>5, LeftFacts DEF PoppedTo
<1>7. c.dist[u] \in Nat
  <2>1. c.dist[u] \in 0 .. UINT32_MAX
    BY <1>3, <1>4
  <2> QED
    BY <2>1, Sizes
<1>8. Walkable(f, u) \in Seq(Walk)
  BY <1>4, WalkableFacts
<1>9. rest \in RelaxedUpTo(l, c.dist[u], Walkable(f, u), Len(Walkable(f, u)))
  <2> DEFINE d == c.dist[u]
             ws == Walkable(f, u)
  <2>1. l \in SearchState /\ d \in Nat /\ ws \in Seq(Walk)
    BY <1>6, <1>7, <1>8 DEF PoppedTo
  <2> HIDE DEF l, d, ws, u
  <2>2. FoldLeft(LAMBDA x, w : Relaxed(x, d, w), l, ws) \in RelaxedUpTo(l, d, ws, Len(ws))
    BY ONLY <2>1, AllRelaxed
  <2> QED
    BY <2>2 DEF d, ws, u
<1> HIDE DEF rest, l, u
<1>10. l \in SearchState
  BY <1>6 DEF PoppedTo
<1> QED
  BY <1>2, <1>4, <1>6, <1>9, <1>10

-----------------------------------------------------------------------------
(* What holds of any search for walks, cut short or not.  A potential is   *)
(* what no walk exceeds: the distances of any stop are one.                *)
Potentials(f) ==
  {G \in [Stop -> Nat] : \A u \in Stop : \A w \in Range(Walkable(f, u)) :
                           G[w.destination] <= G[u] + w.travel_time}
Begun(s) == [dist |-> [v \in Stop |-> IF v = s THEN 0 ELSE UINT32_MAX],
             queue |-> << s >>, settled |-> 0]
OnePop(f, c) == IF c.queue = << >> THEN c ELSE Popped(f, c)

Searching(f, s, n) ==
  {c \in SearchState :
     /\ c.dist[s] = 0
     /\ \A v \in Range(c.queue) : c.dist[v] < UINT32_MAX
     /\ n = 0 => c = Begun(s)
     /\ n # 0 => \A w \in Range(Walkable(f, s)) : c.dist[w.destination] <= w.travel_time
     /\ \A G \in Potentials(f) : \A v \in Stop :
          c.dist[v] < UINT32_MAX => G[v] <= G[s] + c.dist[v]}

LEMMA BegunIsSearching ==
  ASSUME NEW f, NEW s \in Stop, UINT32_MAX > 0
  PROVE  /\ Begun(s) \in Searching(f, s, 0)
         /\ Range(Begun(s).queue) = {s} /\ Begun(s).queue # << >>
         /\ Len(Begun(s).queue) = 1
<1> DEFINE c == Begun(s)
<1>1. /\ c.dist = [v \in Stop |-> IF v = s THEN 0 ELSE UINT32_MAX]
      /\ c.queue = << s >> /\ c.settled = 0
      /\ c = [dist |-> c.dist, queue |-> c.queue, settled |-> c.settled]
  BY DEF Begun
<1>2. c \in SearchState
  <2>1. c.dist \in [Stop -> 0 .. UINT32_MAX]
    BY <1>1, Sizes
  <2>2. c.queue \in Seq(Stop) /\ c.settled \in Nat
    BY <1>1
  <2> HIDE DEF c
  <2> QED
    BY <1>1, <2>1, <2>2 DEF SearchState
<1>3. Range(c.queue) = {s} /\ c.queue # << >> /\ Len(c.queue) = 1
  BY <1>1 DEF Range
<1>4. c.dist[s] = 0
  BY <1>1
<1>5. ASSUME NEW G \in Potentials(f), NEW v \in Stop, c.dist[v] < UINT32_MAX
      PROVE  G[v] <= G[s] + c.dist[v]
  <2>1. v = s
    BY <1>1, <1>5, Sizes
  <2>2. G[s] \in Nat
    BY DEF Potentials
  <2> QED
    BY <1>4, <2>1, <2>2
<1> HIDE DEF c
<1>6. c \in Searching(f, s, 0)
  BY <1>2, <1>3, <1>4, <1>5 DEF Searching, c
<1> QED
  BY <1>3, <1>6 DEF c

LEMMA PoppedKeepsSearching ==
  ASSUME NEW f, WellFormed(f), NEW s \in Stop, NEW n \in Nat,
         NEW c \in Searching(f, s, n), c.queue # << >>
  PROVE  Popped(f, c) \in Searching(f, s, n + 1)
<1> DEFINE r == Popped(f, c)
<1>1. /\ c \in SearchState /\ c.dist[s] = 0
      /\ \A v \in Range(c.queue) : c.dist[v] < UINT32_MAX
      /\ n = 0 => c = Begun(s)
      /\ n # 0 => \A w \in Range(Walkable(f, s)) : c.dist[w.destination] <= w.travel_time
      /\ \A G \in Potentials(f) : \A v \in Stop :
           c.dist[v] < UINT32_MAX => G[v] <= G[s] + c.dist[v]
  BY DEF Searching
<1>2. PICK u \in Stop, l \in SearchState :
        /\ PoppedTo(c, u, l)
        /\ l.settled > kMaxComponentDegree => r = [l EXCEPT !.queue = << >>]
        /\ ~ (l.settled > kMaxComponentDegree) =>
             r \in RelaxedUpTo(l, c.dist[u], Walkable(f, u), Len(Walkable(f, u)))
  BY <1>1, PoppedFacts
<1> HIDE DEF r
<1>3. /\ l.dist = c.dist /\ l.settled = c.settled + 1
      /\ u \in Range(c.queue) /\ Range(c.queue) = Range(l.queue) \cup {u}
  BY <1>2 DEF PoppedTo
<1>4. \A v \in Stop : c.dist[v] \in Nat /\ c.dist[v] <= UINT32_MAX
  <2>1. \A v \in Stop : c.dist[v] \in 0 .. UINT32_MAX
    BY <1>1 DEF SearchState
  <2> QED
    BY <2>1, Sizes
<1>5. c.dist[u] \in Nat /\ c.dist[u] < UINT32_MAX
  BY <1>1, <1>3, <1>4
<1>6. \A w \in Range(Walkable(f, u)) : w \in Walk
  BY WalkableFacts DEF Range
<1>7. CASE l.settled > kMaxComponentDegree
  <2>1. l = [dist |-> c.dist, queue |-> l.queue, settled |-> l.settled]
    BY <1>2, <1>3 DEF SearchState
  <2>2. r = [dist |-> c.dist, queue |-> << >>, settled |-> l.settled]
    BY <1>2, <1>7, <2>1
  <2>3. r \in SearchState /\ r.dist = c.dist /\ r.queue = << >>
    BY <1>1, <1>2, <2>2 DEF SearchState
  <2>4. n # 0
    <3>1. SUFFICES ASSUME n = 0  PROVE  FALSE
      OBVIOUS
    <3>2. c.settled = 0
      BY <1>1, <3>1 DEF Begun
    <3> QED
      BY <1>3, <1>7, <3>2, SizesAssumption
  <2> QED
    BY <1>1, <2>3, <2>4 DEF Searching, Range, r
<1>8. CASE ~ (l.settled > kMaxComponentDegree)
  <2> DEFINE d == c.dist[u]
             ws == Walkable(f, u)
             m == Len(ws)
  <2>1. /\ r \in SearchState
        /\ \A v \in Stop : r.dist[v] <= c.dist[v]
        /\ \A j \in 1 .. m : r.dist[ws[j].destination] <= d + ws[j].travel_time
        /\ \A v \in Stop :
             \/ r.dist[v] = c.dist[v]
             \/ \E j \in 1 .. m : ws[j].destination = v /\ r.dist[v] = d + ws[j].travel_time
        /\ \A v \in Range(r.queue) : v \in Range(l.queue) \/ r.dist[v] < c.dist[v]
    BY <1>2, <1>3, <1>8 DEF RelaxedUpTo
  <2>2. ws \in Seq(Walk) /\ m \in Nat /\ DOMAIN ws = 1 .. m
    BY WalkableFacts
  <2>3. \A v \in Stop : r.dist[v] \in Nat
    <3>1. \A v \in Stop : r.dist[v] \in 0 .. UINT32_MAX
      BY <2>1 DEF SearchState
    <3> QED
      BY <3>1, Sizes
  <2>4. r.dist[s] = 0
    BY <1>1, <2>1, <2>3
  <2>5. ASSUME NEW v \in Range(r.queue)  PROVE  r.dist[v] < UINT32_MAX
    <3>1. v \in Stop
      BY <2>1 DEF SearchState, Range
    <3>2. v \in Range(c.queue) \/ r.dist[v] < c.dist[v]
      BY <1>3, <2>1
    <3>3. c.dist[v] < UINT32_MAX \/ r.dist[v] < c.dist[v]
      BY <1>1, <3>2
    <3>4. r.dist[v] <= c.dist[v] /\ r.dist[v] \in Nat /\ c.dist[v] \in Nat /\ c.dist[v] <= UINT32_MAX
      BY <1>4, <2>1, <2>3, <3>1
    <3> QED
      BY <3>3, <3>4, Sizes
  <2>6. ASSUME NEW w \in Range(Walkable(f, s))  PROVE  r.dist[w.destination] <= w.travel_time
    <3>1. w \in Walk
      BY WalkableFacts DEF Range
    <3>2. w.destination \in Stop /\ w.travel_time \in Nat
      BY <3>1 DEF Walk
    <3>3. CASE n = 0
      <4>1. u = s
        BY <1>1, <1>3, <3>3 DEF Begun, Range
      <4>2. PICK j \in 1 .. m : w = ws[j]
        BY <2>2, <4>1 DEF Range
      <4>3. r.dist[w.destination] <= d + w.travel_time /\ d = 0
        BY <1>1, <2>1, <4>1, <4>2
      <4> QED
        BY <3>2, <4>3
    <3>4. CASE n # 0
      <4>1. c.dist[w.destination] <= w.travel_time /\ r.dist[w.destination] <= c.dist[w.destination]
        BY <1>1, <2>1, <3>2, <3>4
      <4> QED
        BY <1>4, <2>3, <3>2, <4>1
    <3> QED
      BY <3>3, <3>4
  <2>7. ASSUME NEW G \in Potentials(f), NEW v \in Stop, r.dist[v] < UINT32_MAX
        PROVE  G[v] <= G[s] + r.dist[v]
    <3>1. G \in [Stop -> Nat] /\ \A w \in Range(ws) : G[w.destination] <= G[u] + w.travel_time
      BY DEF Potentials
    <3>2. G[v] \in Nat /\ G[s] \in Nat /\ G[u] \in Nat
      BY <3>1
    <3>3. CASE r.dist[v] = c.dist[v]
      BY <1>1, <2>7, <3>3
    <3>4. CASE \E j \in 1 .. m : ws[j].destination = v /\ r.dist[v] = d + ws[j].travel_time
      <4>1. PICK j \in 1 .. m : ws[j].destination = v /\ r.dist[v] = d + ws[j].travel_time
        BY <3>4
      <4>2. ws[j] \in Walk /\ ws[j] \in Range(ws)
        BY <2>2 DEF Range
      <4>3. ws[j].travel_time \in Nat
        BY <4>2 DEF Walk
      <4>4. G[v] <= G[u] + ws[j].travel_time
        BY <3>1, <4>1, <4>2
      <4>5. G[u] <= G[s] + d
        BY <1>1, <1>5
      <4> HIDE DEF ws, d
      <4>6. d \in Nat
        BY <1>5 DEF d
      <4> QED
        BY <3>2, <4>1, <4>3, <4>4, <4>5, <4>6, SMTT(30)
    <3> QED
      BY <2>1, <3>3, <3>4
  <2>8. n + 1 # 0
    OBVIOUS
  <2> QED
    BY <2>1, <2>4, <2>5, <2>6, <2>7, <2>8 DEF Searching, r
<1> QED
  BY <1>7, <1>8
-----------------------------------------------------------------------------
(* What holds of a search that kMaxComponentDegree does not cut short.     *)
(* Between two pops the stops Done have their final distance, which no     *)
(* stop of the queue undercuts, and their walks have been relaxed.  A stop *)
(* popped again changes nothing, so the walks out of Done pay for all the  *)
(* pops.                                                                   *)
KeptOf(f, Done) == UNION {KeptFrom(f, u) : u \in Done}
Complete(f, longest, n) ==
  {c \in SearchState : \E Done \in SUBSET Stop :
     /\ c.queue # << >> => c.settled = n
     /\ \A v \in Stop : c.dist[v] < UINT32_MAX => v \in Done \/ v \in Range(c.queue)
     /\ \A u \in Done : c.dist[u] < UINT32_MAX /\ \A v \in Range(c.queue) : c.dist[u] <= c.dist[v]
     /\ \A u \in Done : \A w \in Range(Walkable(f, u)) : c.dist[w.destination] <= c.dist[u] + w.travel_time
     /\ c.settled + Len(c.queue) <= 1 + Cardinality(KeptOf(f, Done))
     /\ \A v \in Stop : c.dist[v] < UINT32_MAX => c.dist[v] <= longest * Cardinality(Done)}

LEMMA KeptOfFacts ==
  ASSUME NEW f, WellFormed(f), NEW Done \in SUBSET Stop
  PROVE  /\ IsFiniteSet(Done) /\ Cardinality(Done) \in Nat /\ Cardinality(Done) <= NumStops
         /\ IsFiniteSet(KeptOf(f, Done)) /\ Cardinality(KeptOf(f, Done)) \in Nat
         /\ Cardinality(KeptOf(f, Done)) <= Len(f.transfers)
         /\ \A u \in Stop \ Done :
              /\ Cardinality(Done \cup {u}) = Cardinality(Done) + 1
              /\ Cardinality(KeptOf(f, Done \cup {u}))
                   = Cardinality(KeptOf(f, Done)) + Cardinality(KeptFrom(f, u))
<1>1. IsFiniteSet(Stop) /\ Cardinality(Stop) = NumStops
  <2>1. 0 \in Int /\ NumStops - 1 \in Int
    BY Sizes
  <2>2. IsFiniteSet(0 .. NumStops - 1)
        /\ Cardinality(0 .. NumStops - 1) = IF 0 > NumStops - 1 THEN 0 ELSE (NumStops - 1) - 0 + 1
    BY ONLY <2>1, FS_Interval
  <2> QED
    BY <2>2, Sizes DEF Stop
<1>2. IsFiniteSet(Done) /\ Cardinality(Done) <= NumStops
  BY <1>1, FS_Subset
<1>3. Cardinality(Done) \in Nat
  BY <1>2, FS_CardinalityType
<1>4. DOMAIN f.transfers = 1 .. Len(f.transfers) /\ Len(f.transfers) \in Nat
  BY DEF WellFormed
<1>5. IsFiniteSet(1 .. Len(f.transfers)) /\ Cardinality(1 .. Len(f.transfers)) = Len(f.transfers)
  <2>1. 1 \in Int /\ Len(f.transfers) \in Int
    BY <1>4
  <2>2. IsFiniteSet(1 .. Len(f.transfers))
        /\ Cardinality(1 .. Len(f.transfers)) = IF 1 > Len(f.transfers) THEN 0 ELSE Len(f.transfers) - 1 + 1
    BY ONLY <2>1, FS_Interval
  <2> QED
    BY <1>4, <2>2
<1>6. KeptOf(f, Done) \subseteq 1 .. Len(f.transfers)
  BY <1>4 DEF KeptOf, KeptFrom
<1>7. IsFiniteSet(KeptOf(f, Done)) /\ Cardinality(KeptOf(f, Done)) <= Len(f.transfers)
  BY <1>5, <1>6, FS_Subset
<1>8. Cardinality(KeptOf(f, Done)) \in Nat
  BY <1>7, FS_CardinalityType
<1>9. ASSUME NEW u \in Stop \ Done
      PROVE  /\ Cardinality(Done \cup {u}) = Cardinality(Done) + 1
             /\ Cardinality(KeptOf(f, Done \cup {u}))
                  = Cardinality(KeptOf(f, Done)) + Cardinality(KeptFrom(f, u))
  <2>1. Cardinality(Done \cup {u}) = Cardinality(Done) + 1
    BY <1>2, FS_AddElement
  <2> DEFINE A == KeptOf(f, Done)
             B == KeptFrom(f, u)
  <2>2. KeptOf(f, Done \cup {u}) = A \cup B
    BY DEF KeptOf
  <2>3. A \cap B = {}
    BY DEF KeptOf, KeptFrom
  <2>4. IsFiniteSet(A) /\ IsFiniteSet(B)
    BY <1>7, KeptFacts
  <2>5. Cardinality(A) \in Nat /\ Cardinality(B) \in Nat
    BY <2>4, FS_CardinalityType
  <2> HIDE DEF A, B
  <2>6. Cardinality(A \cup B) = Cardinality(A) + Cardinality(B) - Cardinality(A \cap B)
    BY ONLY <2>4, FS_Union
  <2>7. Cardinality(A \cap B) = 0
    BY <2>3, FS_EmptySet
  <2>8. Cardinality(A \cup B) = Cardinality(A) + Cardinality(B)
    BY <2>5, <2>6, <2>7
  <2> QED
    BY <2>1, <2>2, <2>8 DEF A, B
<1> QED
  BY <1>2, <1>3, <1>7, <1>8, <1>9

LEMMA BegunIsComplete ==
  ASSUME NEW f, WellFormed(f), NEW s \in Stop, UINT32_MAX > 0, NEW longest \in Nat
  PROVE  Begun(s) \in Complete(f, longest, 0)
<1> DEFINE c == Begun(s)
<1>1. /\ c \in SearchState /\ Range(c.queue) = {s} /\ Len(c.queue) = 1
      /\ c.dist = [v \in Stop |-> IF v = s THEN 0 ELSE UINT32_MAX] /\ c.settled = 0
  BY BegunIsSearching DEF Searching, Begun
<1> HIDE DEF c
<1>2. \A v \in Stop : c.dist[v] < UINT32_MAX => v = s /\ c.dist[v] = 0
  BY <1>1, Sizes
<1>3. KeptOf(f, {}) = {} /\ Cardinality({}) = 0
  BY FS_EmptySet DEF KeptOf
<1>4. longest * 0 = 0
  OBVIOUS
<1>5. /\ c.settled + Len(c.queue) <= 1 + Cardinality(KeptOf(f, {}))
      /\ \A v \in Stop : c.dist[v] < UINT32_MAX => c.dist[v] <= longest * Cardinality({})
  BY <1>1, <1>2, <1>3, <1>4
<1>6. {} \in SUBSET Stop
  OBVIOUS
<1>7. c \in Complete(f, longest, 0)
  BY <1>1, <1>2, <1>5, <1>6 DEF Complete
<1> QED
  BY <1>7 DEF c

LEMMA WalksAreShort ==
  ASSUME NEW f, WellFormed(f), NEW longest \in Nat \ {0},
         \A t \in Range(f.transfers) : t.min_transfer_time <= longest,
         NEW u \in Stop, NEW w \in Range(Walkable(f, u))
  PROVE  w \in Walk /\ w.travel_time \in Nat \ {0} /\ w.destination \in Stop /\ w.travel_time <= longest
<1>1. w \in WalksFrom(f, u)
  BY WalkableFacts
<1>2. PICK i \in KeptFrom(f, u) : w = WalkOf(f.transfers[i])
  BY <1>1 DEF WalksFrom
<1>3. i \in DOMAIN f.transfers /\ w \in Walk
  BY <1>2, KeptFacts
<1>4. f.transfers[i] \in TransferRecords
  BY <1>3 DEF WellFormed
<1>5. f.transfers[i].min_transfer_time \in Nat /\ f.transfers[i].min_transfer_time <= longest
  BY <1>3, <1>4 DEF TransferRecords, Range
<1>6. w.travel_time <= longest
  BY <1>2, <1>5 DEF WalkOf, AtLeastOneSecond
<1> QED
  BY <1>3, <1>6 DEF Walk

LEMMA PoppedKeepsComplete ==
  ASSUME NEW f, WellFormed(f), Len(f.transfers) < kMaxComponentDegree,
         NEW longest \in Nat \ {0},
         \A t \in Range(f.transfers) : t.min_transfer_time <= longest,
         NEW s \in Stop, NEW n \in Nat,
         NEW c \in Searching(f, s, n), c \in Complete(f, longest, n), c.queue # << >>
  PROVE  Popped(f, c) \in Complete(f, longest, n + 1)
<1> DEFINE r == Popped(f, c)
<1>1. c \in SearchState /\ \A v \in Range(c.queue) : c.dist[v] < UINT32_MAX
  BY DEF Searching
<1>2. PICK Done \in SUBSET Stop :
        /\ c.settled = n
        /\ \A v \in Stop : c.dist[v] < UINT32_MAX => v \in Done \/ v \in Range(c.queue)
        /\ \A u \in Done : c.dist[u] < UINT32_MAX /\ \A v \in Range(c.queue) : c.dist[u] <= c.dist[v]
        /\ \A u \in Done : \A w \in Range(Walkable(f, u)) : c.dist[w.destination] <= c.dist[u] + w.travel_time
        /\ c.settled + Len(c.queue) <= 1 + Cardinality(KeptOf(f, Done))
        /\ \A v \in Stop : c.dist[v] < UINT32_MAX => c.dist[v] <= longest * Cardinality(Done)
  BY DEF Complete
<1>3. PICK u \in Stop, l \in SearchState :
        /\ PoppedTo(c, u, l)
        /\ ~ (l.settled > kMaxComponentDegree) =>
             r \in RelaxedUpTo(l, c.dist[u], Walkable(f, u), Len(Walkable(f, u)))
  BY <1>1, PoppedFacts
<1> HIDE DEF r
<1>4. /\ l.dist = c.dist /\ l.settled = c.settled + 1
      /\ Len(l.queue) = Len(c.queue) - 1
      /\ u \in Range(c.queue) /\ Range(c.queue) = Range(l.queue) \cup {u}
      /\ \A v \in Range(c.queue) : c.dist[u] <= c.dist[v]
  BY <1>3 DEF PoppedTo
<1>5. /\ c.dist \in [Stop -> 0 .. UINT32_MAX] /\ c.queue \in Seq(Stop) /\ c.settled \in Nat
      /\ Len(c.queue) \in Nat /\ Len(l.queue) \in Nat
  BY <1>1, <1>3 DEF SearchState
<1>6. \A v \in Stop : c.dist[v] \in Nat /\ c.dist[v] <= UINT32_MAX
  <2>1. \A v \in Stop : c.dist[v] \in 0 .. UINT32_MAX
    BY <1>5
  <2> QED
    BY <2>1, Sizes
<1>7. /\ Cardinality(Done) \in Nat /\ Cardinality(KeptOf(f, Done)) \in Nat
      /\ Cardinality(KeptOf(f, Done)) <= Len(f.transfers) /\ Len(f.transfers) \in Nat
      /\ u \notin Done =>
           /\ Cardinality(Done \cup {u}) = Cardinality(Done) + 1
           /\ Cardinality(KeptOf(f, Done \cup {u}))
                = Cardinality(KeptOf(f, Done)) + Cardinality(KeptFrom(f, u))
  BY KeptOfFacts, KeptFacts
<1>8. ~ (l.settled > kMaxComponentDegree)
  BY <1>2, <1>4, <1>5, <1>7, SizesAssumption
<1> DEFINE d == c.dist[u]
           ws == Walkable(f, u)
           m == Len(ws)
<1>9. /\ r \in SearchState /\ r.settled = l.settled
      /\ \A v \in Stop : r.dist[v] <= c.dist[v]
      /\ \A j \in 1 .. m : r.dist[ws[j].destination] <= d + ws[j].travel_time
      /\ \A v \in Stop :
           \/ r.dist[v] = c.dist[v]
           \/ v \in Range(r.queue)
              /\ \E j \in 1 .. m : ws[j].destination = v /\ r.dist[v] = d + ws[j].travel_time
      /\ Range(l.queue) \subseteq Range(r.queue)
      /\ \A v \in Range(r.queue) : v \in Range(l.queue) \/ r.dist[v] < c.dist[v]
      /\ Len(r.queue) <= Len(l.queue) + m
      /\ (\A j \in 1 .. m : c.dist[ws[j].destination] <= d + ws[j].travel_time) => r = l
  BY <1>3, <1>4, <1>8 DEF RelaxedUpTo
<1>10. /\ ws \in Seq(Walk) /\ m = Cardinality(KeptFrom(f, u)) /\ m \in Nat /\ DOMAIN ws = 1 .. m
       /\ \A w \in Range(ws) : /\ w \in Walk /\ w.travel_time \in Nat \ {0}
                               /\ w.destination \in Stop /\ w.travel_time <= longest
  BY WalkableFacts, WalksAreShort
<1>11. \A v \in Stop : r.dist[v] \in Nat
  <2>1. \A v \in Stop : r.dist[v] \in 0 .. UINT32_MAX
    BY <1>9 DEF SearchState
  <2> QED
    BY <2>1, Sizes
<1>12. d \in Nat /\ d < UINT32_MAX
  BY <1>1, <1>4, <1>6
<1> HIDE DEF d, ws, m
<1>13. CASE u \in Done
  <2>1. r = l
    <3>1. ASSUME NEW j \in 1 .. m  PROVE  c.dist[ws[j].destination] <= d + ws[j].travel_time
      <4>1. ws[j] \in Range(ws)
        BY <1>10 DEF Range
      <4> QED
        BY <1>2, <1>13, <4>1 DEF d, ws
    <3> QED
      BY <1>9, <3>1
  <2>2. r.dist = c.dist /\ r.settled = n + 1 /\ Range(r.queue) \subseteq Range(c.queue)
    BY <1>2, <1>4, <2>1
  <2>3. r.settled + Len(r.queue) <= 1 + Cardinality(KeptOf(f, Done))
    BY <1>2, <1>4, <1>5, <1>7, <2>1, SMTT(30)
  <2>4. \A v \in Stop : r.dist[v] < UINT32_MAX => v \in Done \/ v \in Range(r.queue)
    BY <1>2, <1>4, <1>13, <2>1
  <2> QED
    BY <1>2, <1>9, <2>2, <2>3, <2>4 DEF Complete, r
<1>14. CASE u \notin Done
  <2> DEFINE More == Done \cup {u}
  <2>1. /\ Cardinality(More) = Cardinality(Done) + 1
        /\ Cardinality(KeptOf(f, More)) = Cardinality(KeptOf(f, Done)) + m
    BY <1>7, <1>10, <1>14
  <2>2. \A x \in More : x \in Stop /\ c.dist[x] <= d /\ c.dist[x] < UINT32_MAX
    BY <1>2, <1>4, <1>6, <1>12 DEF d
  <2>3. \A x \in More : r.dist[x] = c.dist[x]
    <3> SUFFICES ASSUME NEW x \in More  PROVE  r.dist[x] = c.dist[x]
      OBVIOUS
    <3>1. x \in Stop /\ c.dist[x] <= d /\ c.dist[x] \in Nat /\ r.dist[x] <= c.dist[x]
      BY <1>6, <1>9, <2>2
    <3>2. ASSUME NEW j \in 1 .. m, r.dist[x] = d + ws[j].travel_time  PROVE  FALSE
      <4>1. ws[j] \in Range(ws)
        BY <1>10 DEF Range
      <4>2. ws[j].travel_time \in Nat \ {0}
        BY <1>10, <4>1
      <4> QED
        BY <1>12, <3>1, <3>2, <4>2
    <3> QED
      BY <1>9, <3>1, <3>2
  <2>4. \A v \in Stop : d <= c.dist[v] => d <= r.dist[v]
    <3> SUFFICES ASSUME NEW v \in Stop, d <= c.dist[v]  PROVE  d <= r.dist[v]
      OBVIOUS
    <3>1. CASE \E j \in 1 .. m : ws[j].destination = v /\ r.dist[v] = d + ws[j].travel_time
      <4>1. PICK j \in 1 .. m : r.dist[v] = d + ws[j].travel_time
        BY <3>1
      <4>2. ws[j] \in Range(ws)
        BY <1>10 DEF Range
      <4>3. ws[j].travel_time \in Nat
        BY <1>10, <4>2
      <4> QED
        BY <1>12, <4>1, <4>3
    <3> QED
      BY <1>9, <3>1
  <2>5. ASSUME NEW v \in Range(r.queue)  PROVE  v \in Stop /\ d <= r.dist[v]
    <3>1. v \in Stop
      BY <1>9 DEF SearchState, Range
    <3>2. CASE v \in Range(l.queue)
      <4>1. d <= c.dist[v]
        BY <1>4, <3>2 DEF d
      <4> QED
        BY <2>4, <3>1, <4>1
    <3>3. CASE r.dist[v] < c.dist[v]
      <4>1. r.dist[v] # c.dist[v]
        BY <1>6, <1>11, <3>1, <3>3
      <4>2. PICK j \in 1 .. m : r.dist[v] = d + ws[j].travel_time
        BY <1>9, <3>1, <4>1
      <4>3. ws[j] \in Range(ws)
        BY <1>10 DEF Range
      <4>4. ws[j].travel_time \in Nat
        BY <1>10, <4>3
      <4> QED
        BY <1>12, <3>1, <4>2, <4>4
    <3> QED
      BY <1>9, <3>2, <3>3
  <2>6. ASSUME NEW v \in Stop, r.dist[v] < UINT32_MAX  PROVE  v \in More \/ v \in Range(r.queue)
    <3>1. CASE r.dist[v] = c.dist[v]
      BY <1>2, <1>4, <1>9, <2>6, <3>1
    <3>2. CASE r.dist[v] # c.dist[v]
      BY <1>9, <3>2
    <3> QED
      BY <3>1, <3>2
  <2>7. ASSUME NEW x \in More
        PROVE  r.dist[x] < UINT32_MAX /\ \A v \in Range(r.queue) : r.dist[x] <= r.dist[v]
    <3>1. r.dist[x] = c.dist[x] /\ c.dist[x] <= d /\ c.dist[x] < UINT32_MAX /\ c.dist[x] \in Nat
      BY <1>6, <2>2, <2>3
    <3>2. \A v \in Range(r.queue) : r.dist[v] \in Nat /\ d <= r.dist[v]
      BY <1>11, <2>5
    <3> QED
      BY <1>12, <3>1, <3>2
  <2>8. ASSUME NEW x \in More, NEW w \in Range(Walkable(f, x))
        PROVE  r.dist[w.destination] <= r.dist[x] + w.travel_time
    <3>1. r.dist[x] = c.dist[x] /\ x \in Stop
      BY <2>2, <2>3
    <3>2. w.destination \in Stop /\ w.travel_time \in Nat
      BY <3>1, WalksAreShort
    <3>3. CASE x = u
      <4>1. PICK j \in 1 .. m : w = ws[j]
        BY <1>10, <3>3 DEF Range, ws
      <4>2. r.dist[w.destination] <= d + w.travel_time
        BY <1>9, <4>1
      <4> QED
        BY <3>1, <3>3, <4>2 DEF d
    <3>4. CASE x # u
      <4>1. c.dist[w.destination] <= c.dist[x] + w.travel_time /\ r.dist[w.destination] <= c.dist[w.destination]
        BY <1>2, <1>9, <3>2, <3>4
      <4> QED
        BY <1>6, <1>11, <3>1, <3>2, <4>1
    <3> QED
      BY <3>3, <3>4
  <2>9. r.settled + Len(r.queue) <= 1 + Cardinality(KeptOf(f, More))
    <3>1. Len(r.queue) \in Nat
      BY <1>9 DEF SearchState
    <3>2. /\ r.settled = c.settled + 1 /\ Len(r.queue) <= (Len(c.queue) - 1) + m
          /\ c.settled + Len(c.queue) <= 1 + Cardinality(KeptOf(f, Done))
          /\ Cardinality(KeptOf(f, More)) = Cardinality(KeptOf(f, Done)) + m
      BY <1>2, <1>4, <1>9, <2>1
    <3>3. /\ c.settled \in Nat /\ Len(c.queue) \in Nat /\ m \in Nat
          /\ Cardinality(KeptOf(f, Done)) \in Nat
      BY <1>5, <1>7, <1>10
    <3> DEFINE rq == Len(r.queue)
               cq == Len(c.queue)
               kd == Cardinality(KeptOf(f, Done))
               km == Cardinality(KeptOf(f, More))
               rs == r.settled
               cs == c.settled
               paid == m
    <3>4. rq \in Nat /\ cs \in Nat /\ cq \in Nat /\ paid \in Nat /\ kd \in Nat
      BY <3>1, <3>3
    <3>5. rs = cs + 1 /\ rq <= (cq - 1) + paid /\ cs + cq <= 1 + kd /\ km = kd + paid
      BY <3>2
    <3>6. ASSUME rs + rq <= 1 + km
          PROVE  r.settled + Len(r.queue) <= 1 + Cardinality(KeptOf(f, More))
      BY <3>6
    <3> HIDE DEF rq, cq, kd, km, rs, cs, paid
    <3>7. rs + rq <= 1 + km
      BY ONLY <3>4, <3>5
    <3> QED
      BY <3>6, <3>7, Zenon
  <2>10. longest * Cardinality(More) = longest * Cardinality(Done) + longest
         /\ longest * Cardinality(Done) \in Nat
    <3>1. \A a, b \in Nat : a * (b + 1) = a * b + a /\ a * b \in Nat
      OBVIOUS
    <3> QED
      BY <1>7, <2>1, <3>1
  <2>11. ASSUME NEW v \in Stop, r.dist[v] < UINT32_MAX  PROVE  r.dist[v] <= longest * Cardinality(More)
    <3> DEFINE a == longest * Cardinality(More)
               b == longest * Cardinality(Done)
    <3>1. a = b + longest /\ b \in Nat
      BY <2>10
    <3>2. d <= b
      BY <1>2, <1>12 DEF d
    <3> HIDE DEF a, b
    <3>3. CASE r.dist[v] = c.dist[v]
      <4>1. c.dist[v] <= b
        BY <1>2, <2>11, <3>3 DEF b
      <4> QED
        BY <1>11, <3>1, <3>3, <4>1 DEF a
    <3>4. CASE r.dist[v] # c.dist[v]
      <4>1. PICK j \in 1 .. m : r.dist[v] = d + ws[j].travel_time
        BY <1>9, <3>4
      <4>2. ws[j] \in Range(ws)
        BY <1>10 DEF Range
      <4>3. ws[j].travel_time \in Nat /\ ws[j].travel_time <= longest
        BY <1>10, <4>2
      <4>4. r.dist[v] <= a
        BY <1>12, <3>1, <3>2, <4>1, <4>3
      <4> QED
        BY <4>4 DEF a
    <3> QED
      BY <3>3, <3>4
  <2>12. More \in SUBSET Stop /\ r.settled = n + 1
    BY <1>2, <1>4, <1>9
  <2> HIDE DEF More
  <2>13. r \in Complete(f, longest, n + 1)
    BY <1>9, <2>6, <2>7, <2>8, <2>9, <2>11, <2>12 DEF Complete
  <2> QED
    BY <2>13 DEF r
<1> QED
  BY <1>13, <1>14

-----------------------------------------------------------------------------
(* All the pops of a search.                                               *)
IsSearch(f, s, popped) ==
  popped = [n \in 0 .. kMaxComponentDegree + 1 |->
              IF n = 0 THEN Begun(s)
              ELSE LET c == popped[n - 1] IN IF c.queue = << >> THEN c ELSE Popped(f, c)]

LEMMA PopKeepsState ==
  ASSUME NEW f, WellFormed(f), NEW c \in SearchState
  PROVE  OnePop(f, c) \in SearchState
<1>1. CASE c.queue = << >>
  BY <1>1 DEF OnePop
<1>2. CASE c.queue # << >>
  <2>1. PICK u \in Stop, l \in SearchState :
          /\ l.settled > kMaxComponentDegree => Popped(f, c) = [l EXCEPT !.queue = << >>]
          /\ ~ (l.settled > kMaxComponentDegree) =>
               Popped(f, c) \in RelaxedUpTo(l, c.dist[u], Walkable(f, u), Len(Walkable(f, u)))
    BY <1>2, PoppedFacts
  <2>2. [l EXCEPT !.queue = << >>] \in SearchState
    <3>1. << >> \in Seq(Stop)
      OBVIOUS
    <3>2. \A q \in Seq(Stop) : [l EXCEPT !.queue = q] \in SearchState
      BY DEF SearchState
    <3> QED
      BY <3>1, <3>2
  <2>3. Popped(f, c) \in SearchState
    BY <2>1, <2>2 DEF RelaxedUpTo
  <2> QED
    BY <1>2, <2>3 DEF OnePop
<1> QED
  BY <1>1, <1>2

LEMMA SearchExists ==
  ASSUME NEW f, WellFormed(f), NEW s \in Stop, UINT32_MAX > 0
  PROVE  \E popped : IsSearch(f, s, popped)
<1> DEFINE N == kMaxComponentDegree + 1
           S == SearchState
           base == Begun(s)
           step == [i \in 1 .. N |-> [c \in S |-> OnePop(f, c)]]
<1>1. N \in Nat
  BY SizesAssumption
<1>2. base \in S
  BY BegunIsSearching DEF Searching
<1>3. step \in [1 .. N -> [S -> S]]
  BY PopKeepsState
<1>4. \A i \in 1 .. N, c \in S : step[i][c] = OnePop(f, c)
  OBVIOUS
<1> HIDE DEF N, S, base, step
<1>5. PICK g : g \in Iterations(N, S, base, step)
  <2>1. Iterations(N, S, base, step) # {}
    BY ONLY <1>1, <1>2, <1>3, RunExists
  <2> QED
    BY <2>1
<1>6. g \in [0 .. N -> S] /\ g[0] = base /\ \A i \in 1 .. N : g[i] = step[i][g[i - 1]]
  BY <1>5 DEF Iterations
<1>7. ASSUME NEW n \in 0 .. N
      PROVE  g[n] = IF n = 0 THEN base ELSE OnePop(f, g[n - 1])
  <2>1. CASE n = 0
    BY <1>6, <2>1
  <2>2. CASE n # 0
    <3>1. n \in 1 .. N /\ n - 1 \in 0 .. N
      BY <1>1, <2>2
    <3> QED
      BY <1>4, <1>6, <2>2, <3>1
  <2> QED
    BY <2>1, <2>2
<1>8. g = [n \in 0 .. N |-> g[n]]
  BY <1>6
<1>9. IsSearch(f, s, g)
  BY <1>7, <1>8 DEF IsSearch, OnePop, base, N
<1> QED
  BY <1>9

LEMMA SearchPops ==
  ASSUME NEW f, WellFormed(f), NEW s \in Stop, UINT32_MAX > 0
  PROVE  \E popped :
           /\ Searched(f, s) = popped[kMaxComponentDegree + 1].dist
           /\ popped[0] = Begun(s)
           /\ \A n \in 0 .. kMaxComponentDegree : popped[n + 1] = OnePop(f, popped[n])
<1> DEFINE popped == CHOOSE p : IsSearch(f, s, p)
           K == kMaxComponentDegree
<1>1. IsSearch(f, s, popped)
  BY SearchExists
<1>2. Searched(f, s) = popped[K + 1].dist
  BY DEF Searched, IsSearch, Begun
<1> HIDE DEF popped
<1>3. K \in Nat \ {0}
  BY SizesAssumption
<1>4. \A n \in 0 .. K + 1 : popped[n] = IF n = 0 THEN Begun(s) ELSE OnePop(f, popped[n - 1])
  BY <1>1 DEF IsSearch, OnePop
<1> HIDE DEF K
<1>5. ASSUME NEW n \in 0 .. K  PROVE  popped[n + 1] = OnePop(f, popped[n])
  <2>1. n + 1 \in 0 .. K + 1 /\ n + 1 # 0 /\ (n + 1) - 1 = n
    BY <1>3
  <2>2. popped[n + 1] = IF n + 1 = 0 THEN Begun(s) ELSE OnePop(f, popped[(n + 1) - 1])
    BY <1>4, <2>1
  <2> QED
    BY <2>1, <2>2
<1>6. popped[0] = Begun(s)
  <2>1. 0 \in 0 .. K + 1
    BY <1>3
  <2> QED
    BY <1>4, <2>1
<1> QED
  BY <1>2, <1>5, <1>6 DEF K

LEMMA OnePopKeepsSearching ==
  ASSUME NEW f, WellFormed(f), NEW s \in Stop, NEW n \in Nat, NEW c \in Searching(f, s, n)
  PROVE  OnePop(f, c) \in Searching(f, s, n + 1)
<1>1. CASE c.queue = << >>
  <2>1. n # 0
    <3>1. Begun(s).queue # << >>
      BY DEF Begun
    <3> QED
      BY <1>1, <3>1 DEF Searching
  <2>2. n + 1 # 0
    OBVIOUS
  <2> QED
    BY <1>1, <2>1, <2>2 DEF Searching, OnePop
<1>2. CASE c.queue # << >>
  BY <1>2, PoppedKeepsSearching DEF OnePop
<1> QED
  BY <1>1, <1>2

LEMMA OnePopKeepsComplete ==
  ASSUME NEW f, WellFormed(f), Len(f.transfers) < kMaxComponentDegree,
         NEW longest \in Nat \ {0},
         \A t \in Range(f.transfers) : t.min_transfer_time <= longest,
         NEW s \in Stop, NEW n \in Nat, NEW c \in Searching(f, s, n), c \in Complete(f, longest, n)
  PROVE  OnePop(f, c) \in Complete(f, longest, n + 1)
<1>1. CASE c.queue = << >>
  BY <1>1 DEF Complete, OnePop
<1>2. CASE c.queue # << >>
  BY <1>2, PoppedKeepsComplete DEF OnePop
<1> QED
  BY <1>1, <1>2

(* What any search leaves, cut short or not.                               *)
LEMMA SearchedFacts ==
  ASSUME NEW f, WellFormed(f), NEW s \in Stop, UINT32_MAX > 0
  PROVE  /\ Searched(f, s) \in [Stop -> 0 .. UINT32_MAX] /\ Searched(f, s)[s] = 0
         /\ \A w \in Range(Walkable(f, s)) : Searched(f, s)[w.destination] <= w.travel_time
         /\ \A G \in Potentials(f) : \A v \in Stop :
              Searched(f, s)[v] < UINT32_MAX => G[v] <= G[s] + Searched(f, s)[v]
<1> DEFINE K == kMaxComponentDegree
<1>1. PICK popped : /\ Searched(f, s) = popped[K + 1].dist
                    /\ popped[0] = Begun(s)
                    /\ \A n \in 0 .. K : popped[n + 1] = OnePop(f, popped[n])
  BY SearchPops
<1>2. K \in Nat
  BY SizesAssumption
<1> DEFINE Fine == {n \in Nat : popped[n] \in Searching(f, s, n)}
<1> HIDE DEF K
<1>3. 0 \in Fine
  BY <1>1, BegunIsSearching
<1>4. \A n \in 0 .. (K + 1) - 1 : n \in Fine => n + 1 \in Fine
  <2> SUFFICES ASSUME NEW n \in 0 .. (K + 1) - 1, n \in Fine  PROVE  n + 1 \in Fine
    OBVIOUS
  <2>1. n \in Nat /\ n + 1 \in Nat /\ n \in 0 .. K
    BY <1>2
  <2>2. OnePop(f, popped[n]) \in Searching(f, s, n + 1)
    BY <2>1, OnePopKeepsSearching
  <2> QED
    BY <1>1, <2>1, <2>2
<1> HIDE DEF Fine
<1>5. K + 1 \in Nat /\ K + 1 # 0 /\ K + 1 \in 0 .. K + 1
  BY <1>2
<1>6. 0 .. K + 1 \subseteq Fine
  BY <1>3, <1>4, <1>5, UpTo
<1>7. popped[K + 1] \in Searching(f, s, K + 1)
  BY <1>5, <1>6 DEF Fine
<1> QED
  BY <1>1, <1>5, <1>7 DEF Searching, SearchState

(* What a search leaves that was not cut short: distances no walk improves.*)
LEMMA SearchedIsPotential ==
  ASSUME NEW f, WellFormed(f), Len(f.transfers) < kMaxComponentDegree,
         NEW longest \in Nat \ {0}, UINT32_MAX > 0,
         \A t \in Range(f.transfers) : t.min_transfer_time <= longest,
         NEW s \in Stop
  PROVE  /\ Searched(f, s) \in Potentials(f)
         /\ \A v \in Stop : Searched(f, s)[v] < UINT32_MAX => Searched(f, s)[v] <= longest * NumStops
<1> DEFINE K == kMaxComponentDegree
<1>1. PICK popped : /\ Searched(f, s) = popped[K + 1].dist
                    /\ popped[0] = Begun(s)
                    /\ \A n \in 0 .. K : popped[n + 1] = OnePop(f, popped[n])
  BY SearchPops
<1>2. K \in Nat /\ Len(f.transfers) < K /\ Len(f.transfers) \in Nat
  BY SizesAssumption DEF WellFormed
<1> DEFINE Fine == {n \in Nat : popped[n] \in Searching(f, s, n) /\ popped[n] \in Complete(f, longest, n)}
<1> HIDE DEF K
<1>3. 0 \in Fine
  BY <1>1, BegunIsSearching, BegunIsComplete
<1>4. \A n \in 0 .. (K + 1) - 1 : n \in Fine => n + 1 \in Fine
  <2> SUFFICES ASSUME NEW n \in 0 .. (K + 1) - 1, n \in Fine  PROVE  n + 1 \in Fine
    OBVIOUS
  <2>1. n \in Nat /\ n + 1 \in Nat /\ n \in 0 .. K
    BY <1>2
  <2>2. OnePop(f, popped[n]) \in Searching(f, s, n + 1)
    BY <2>1, OnePopKeepsSearching
  <2>3. OnePop(f, popped[n]) \in Complete(f, longest, n + 1)
    BY <2>1, OnePopKeepsComplete
  <2> QED
    BY <1>1, <2>1, <2>2, <2>3
<1> HIDE DEF Fine
<1>5. K + 1 \in Nat /\ K + 1 # 0 /\ K + 1 \in 0 .. K + 1
  BY <1>2
<1>6. 0 .. K + 1 \subseteq Fine
  BY <1>3, <1>4, <1>5, UpTo
<1> DEFINE c == popped[K + 1]
<1>7. c \in Complete(f, longest, K + 1)
  BY <1>5, <1>6 DEF Fine
<1> HIDE DEF c
<1>8. PICK Done \in SUBSET Stop :
        /\ c.queue # << >> => c.settled = K + 1
        /\ \A v \in Stop : c.dist[v] < UINT32_MAX => v \in Done \/ v \in Range(c.queue)
        /\ \A u \in Done : \A w \in Range(Walkable(f, u)) : c.dist[w.destination] <= c.dist[u] + w.travel_time
        /\ c.settled + Len(c.queue) <= 1 + Cardinality(KeptOf(f, Done))
        /\ \A v \in Stop : c.dist[v] < UINT32_MAX => c.dist[v] <= longest * Cardinality(Done)
  BY <1>7 DEF Complete
<1>9. c.dist \in [Stop -> 0 .. UINT32_MAX] /\ c.queue \in Seq(Stop) /\ c.settled \in Nat
  BY <1>7 DEF Complete, SearchState
<1>10. /\ Cardinality(Done) \in Nat /\ Cardinality(Done) <= NumStops
       /\ Cardinality(KeptOf(f, Done)) <= Len(f.transfers) /\ Cardinality(KeptOf(f, Done)) \in Nat
  BY KeptOfFacts
<1>11. c.queue = << >>
  <2> SUFFICES ASSUME c.queue # << >>  PROVE  FALSE
    OBVIOUS
  <2>1. Len(c.queue) \in Nat /\ Len(c.queue) # 0
    BY <1>9
  <2> QED
    BY <1>2, <1>8, <1>10, <2>1
<1>12. \A v \in Stop : c.dist[v] < UINT32_MAX => v \in Done
  BY <1>8, <1>11 DEF Range
<1>13. \A v \in Stop : c.dist[v] \in Nat /\ c.dist[v] <= UINT32_MAX
  <2>1. \A v \in Stop : c.dist[v] \in 0 .. UINT32_MAX
    BY <1>9
  <2> QED
    BY <2>1, Sizes
<1>14. ASSUME NEW u \in Stop, NEW w \in Range(Walkable(f, u))
       PROVE  c.dist[w.destination] <= c.dist[u] + w.travel_time
  <2>1. w.destination \in Stop /\ w.travel_time \in Nat
    BY WalksAreShort
  <2>2. CASE c.dist[u] < UINT32_MAX
    BY <1>8, <1>12, <2>2
  <2>3. CASE ~ (c.dist[u] < UINT32_MAX)
    BY <1>13, <2>1, <2>3, Sizes
  <2> QED
    BY <2>2, <2>3
<1>15. ASSUME NEW v \in Stop, c.dist[v] < UINT32_MAX  PROVE  c.dist[v] <= longest * NumStops
  <2>1. \A a, b, e \in Nat : b <= e => a * b <= a * e /\ a * b \in Nat /\ a * e \in Nat
    OBVIOUS
  <2>2. longest * Cardinality(Done) <= longest * NumStops /\ longest * Cardinality(Done) \in Nat
        /\ longest * NumStops \in Nat
    BY <1>10, <2>1, Sizes
  <2>3. c.dist[v] <= longest * Cardinality(Done)
    BY <1>8, <1>15
  <2> QED
    BY <1>13, <2>2, <2>3
<1>16. c.dist \in [Stop -> Nat]
  BY <1>9, <1>13
<1>17. c.dist \in Potentials(f)
  BY <1>14, <1>16 DEF Potentials
<1>18. Searched(f, s) = c.dist
  BY <1>1 DEF c
<1> QED
  BY <1>15, <1>17, <1>18

-----------------------------------------------------------------------------
(* The footpaths of a stop: each stop its search touched, once.            *)
Touched(f, s) == {v \in Stop \ {s} : Searched(f, s)[v] # UINT32_MAX}
FootpathTo(f, s, v) == [destination |-> v, travel_time |-> Searched(f, s)[v]]

LEMMA FootpathFacts ==
  ASSUME NEW f, WellFormed(f), NEW s \in Stop, UINT32_MAX > 0
  PROVE  /\ Footpaths(f, s) \in Seq(TransferEdge)
         /\ Range(Footpaths(f, s)) = {FootpathTo(f, s, v) : v \in Touched(f, s)}
<1> DEFINE S == Touched(f, s)
           before == {p \in S \X S : p[1] < p[2]}
           n == Cardinality(S)
           sorted == Sorted(S, <)
           paths == Footpaths(f, s)
<1>1. paths = [i \in DOMAIN sorted |-> FootpathTo(f, s, sorted[i])]
  BY DEF Footpaths, FootpathTo, Touched
<1>2. S \in SUBSET Stop /\ IsFiniteSet(S)
  <2>1. S \in SUBSET Stop
    BY DEF Touched
  <2>2. IsFiniteSet(Stop)
    <3>1. 0 \in Int /\ NumStops - 1 \in Int
      BY Sizes
    <3> QED
      BY <3>1, FS_Interval DEF Stop
  <2> QED
    BY <2>1, <2>2, FS_Subset
<1>3. \A v \in S : FootpathTo(f, s, v) \in TransferEdge
  <2>1. \A v \in Stop : Searched(f, s)[v] \in 0 .. UINT32_MAX
    BY SearchedFacts
  <2> QED
    BY <1>2, <2>1, Sizes DEF FootpathTo, TransferEdge
<1>4. sorted = InOrderOf(S, before)
  BY DEF Sorted
<1>5. \A v \in S : v \in Nat
  BY <1>2, Sizes DEF Stop
<1> HIDE DEF S
<1>6. StrictOrder(before, S)
  BY <1>5 DEF StrictOrder
<1> HIDE DEF before, sorted, n, paths
<1>7. /\ n \in Nat /\ sorted \in [1 .. n -> S]
      /\ \A x \in S : \E i \in 1 .. n : sorted[i] = x
  <2>1. IsFiniteSet(S)
    BY <1>2
  <2> QED
    BY ONLY <1>4, <1>6, <2>1, OrderTakesAll DEF n
<1>8. DOMAIN sorted = 1 .. n /\ \A i \in 1 .. n : sorted[i] \in S
  BY <1>7
<1>9. paths \in Seq(TransferEdge)
  <2> DEFINE g == [i \in 1 .. n |-> FootpathTo(f, s, sorted[i])]
  <2>1. g \in [1 .. n -> TransferEdge]
    BY <1>3, <1>8
  <2>2. paths = g
    BY <1>1, <1>8
  <2> HIDE DEF g
  <2> QED
    BY <1>7, <2>1, <2>2
<1>10. Range(paths) = {FootpathTo(f, s, v) : v \in S}
  BY <1>1, <1>7, <1>8 DEF Range
<1> QED
  BY <1>9, <1>10 DEF paths, S

(* The walks and footpaths of any feed are bounded.                        *)
Bounded(f, longest) ==
  /\ WellFormed(f)
  /\ longest \in Nat \ {0} /\ longest <= UINT32_MAX
  /\ 2 * NumStops * longest < UINT32_MAX
  /\ \A t \in Range(f.transfers) : t.min_transfer_time <= longest

LEMMA FeedIsBounded ==
  ASSUME NEW f \in Feeds
  PROVE  UINT32_MAX > 0 /\ WellFormed(f) /\ \E longest : Bounded(f, longest)
<1>1. PICK longest \in 1 .. UINT32_MAX :
        /\ 2 * NumStops * longest < UINT32_MAX
        /\ \A t \in Range(f.transfers) : t.min_transfer_time <= longest
  BY WalksAssumption
<1>2. longest \in Nat \ {0} /\ longest <= UINT32_MAX /\ UINT32_MAX > 0
  BY Sizes
<1> QED
  BY <1>1, <1>2, FeedsAssumption DEF Bounded

BuiltTransfers(f) == [s \in Stop |-> IF Runs(f) = {} THEN << >> ELSE Footpaths(f, s)]

LEMMA ClosureEstablishedOfBuilt == BuiltFromFeed => ClosureEstablished
<1> SUFFICES ASSUME BuiltFromFeed, Built, Len(feed.transfers) < kMaxComponentDegree
             PROVE  transfers_are_transitively_closed(timetable)
  BY DEF ClosureEstablished
<1> DEFINE f == feed
<1>1. f \in Feeds /\ timetable = build(f)
  BY DEF BuiltFromFeed
<1>2. PICK longest : Bounded(f, longest)
  BY <1>1, FeedIsBounded
<1>3. UINT32_MAX > 0 /\ WellFormed(f) /\ Len(f.transfers) < kMaxComponentDegree
  BY <1>1, FeedIsBounded
<1>4. timetable.transfers = BuiltTransfers(f)
  BY <1>1 DEF build, BuiltTransfers
<1>5. /\ longest \in Nat \ {0} /\ 2 * NumStops * longest < UINT32_MAX
      /\ \A t \in Range(f.transfers) : t.min_transfer_time <= longest
  BY <1>2 DEF Bounded
<1> HIDE DEF f
<1>6. ASSUME NEW p \in Stop, NEW a \in Range(timetable.transfers[p]),
             NEW b \in Range(timetable.transfers[a.destination]), b.destination # p
      PROVE  \E c \in Range(timetable.transfers[p]) :
               c.destination = b.destination /\ c.travel_time <= a.travel_time + b.travel_time
  <2>1. Runs(f) # {}
    <3> SUFFICES ASSUME Runs(f) = {}  PROVE  FALSE
      OBVIOUS
    <3>1. timetable.transfers[p] = << >>
      BY <1>4 DEF BuiltTransfers
    <3> QED
      BY <1>6, <3>1 DEF Range
  <2>2. \A s \in Stop : Range(timetable.transfers[s]) = {FootpathTo(f, s, v) : v \in Touched(f, s)}
    BY <1>3, <1>4, <2>1, FootpathFacts DEF BuiltTransfers
  <2>3. PICK v \in Touched(f, p) : a = FootpathTo(f, p, v)
    BY <2>2
  <2>4. a.destination = v /\ a.travel_time = Searched(f, p)[v] /\ v \in Stop /\ Searched(f, p)[v] # UINT32_MAX
    BY <2>3 DEF FootpathTo, Touched
  <2>5. PICK x \in Touched(f, v) : b = FootpathTo(f, v, x)
    BY <2>2, <2>4
  <2>6. b.destination = x /\ b.travel_time = Searched(f, v)[x] /\ x \in Stop /\ Searched(f, v)[x] # UINT32_MAX
    BY <2>5 DEF FootpathTo, Touched
  <2> DEFINE P == Searched(f, p)
             V == Searched(f, v)
  <2>7. P \in [Stop -> 0 .. UINT32_MAX] /\ V \in [Stop -> 0 .. UINT32_MAX]
    BY <1>3, <2>4, SearchedFacts
  <2>8. \A G \in Potentials(f) : V[x] < UINT32_MAX => G[x] <= G[v] + V[x]
    BY <1>3, <2>4, <2>6, SearchedFacts
  <2>9. P \in Potentials(f) /\ \A y \in Stop : P[y] < UINT32_MAX => P[y] <= longest * NumStops
    BY <1>3, <1>5, SearchedIsPotential
  <2>10. \A y \in Stop : V[y] < UINT32_MAX => V[y] <= longest * NumStops
    BY <1>3, <1>5, <2>4, SearchedIsPotential
  <2>11. P[v] # UINT32_MAX /\ V[x] # UINT32_MAX
    BY <2>4, <2>6
  <2> HIDE DEF P, V
  <2>12. /\ P[v] \in Nat /\ P[v] < UINT32_MAX /\ P[x] \in Nat /\ V[x] \in Nat /\ V[x] < UINT32_MAX
    <3>1. P[v] \in 0 .. UINT32_MAX /\ P[x] \in 0 .. UINT32_MAX /\ V[x] \in 0 .. UINT32_MAX
      BY <2>4, <2>6, <2>7
    <3> QED
      BY <2>11, <3>1, Sizes
  <2>13. P[x] <= P[v] + V[x]
    BY <2>8, <2>9, <2>12
  <2>14. P[x] < UINT32_MAX
    <3> DEFINE m == longest * NumStops
    <3>1. m \in Nat /\ 2 * NumStops * longest = m + m
      <4>1. \A i, j \in Nat : i * j \in Nat /\ 2 * j * i = i * j + i * j
        OBVIOUS
      <4> QED
        BY <1>5, <4>1, Sizes
    <3>2. P[v] <= m /\ V[x] <= m
      BY <2>4, <2>6, <2>9, <2>10, <2>12
    <3>3. m + m < UINT32_MAX
      BY <1>5, <3>1
    <3> HIDE DEF m
    <3> QED
      BY <2>12, <2>13, <3>1, <3>2, <3>3, Sizes
  <2>15. x # p
    BY <1>6, <2>6
  <2>16. x \in Touched(f, p)
    BY <2>6, <2>12, <2>14, <2>15, Sizes DEF Touched, P
  <2>17. FootpathTo(f, p, x) \in Range(timetable.transfers[p])
    BY <2>2, <2>16
  <2>18. FootpathTo(f, p, x).destination = x /\ FootpathTo(f, p, x).travel_time = P[x]
    BY DEF FootpathTo, P
  <2>19. a.travel_time = P[v] /\ b.travel_time = V[x]
    BY <2>4, <2>6 DEF P, V
  <2> QED
    BY <2>6, <2>13, <2>17, <2>18, <2>19
<1> QED
  BY <1>6 DEF transfers_are_transitively_closed

(* The check made at load time accepts what build returns when no search   *)
(* is cut short (RaptorBuilder::build, the closure of the footpaths).      *)
THEOREM ClosureEstablishedHolds == BuildSpec => []ClosureEstablished
BY ClosureEstablishedOfBuilt, BuiltFromFeedHolds, PTL

(* What build returns is what Raptor asks of a timetable.                  *)
LEMMA BuildIsWellBuilt ==
  ASSUME NEW f, WellFormed(f), UINT32_MAX > 0
  PROVE  WellBuilt(build(f))
<1> DEFINE b == build(f)
<1>1. b.routes = Routes(Runs(f)) /\ b.transfers = BuiltTransfers(f)
  BY DEF build, BuiltTransfers
<1> HIDE DEF b
<1>2. b.routes \in Seq(GoodRoute)
  BY <1>1, RunsAreDistinct, RoutesFacts
<1>3. b.transfers \in [Stop -> Seq(TransferEdge)]
  BY <1>1, FootpathFacts DEF BuiltTransfers
<1>4. b.routes \in Seq([stops : Seq(Stop), trips : Seq(Seq(StopTime))])
  <2> DEFINE T == [stops : Seq(Stop), trips : Seq(Seq(StopTime))]
  <2>1. GoodRoute \subseteq T
    BY DEF GoodRoute
  <2> HIDE DEF T
  <2>2. b.routes \in Seq(T)
    BY <1>2, <2>1
  <2> QED
    BY <2>2 DEF T
<1>5. ASSUME NEW r \in DOMAIN b.routes
      PROVE  LET trips == b.routes[r].trips
             IN  /\ \A m \in DOMAIN trips : Len(trips[m]) = Len(b.routes[r].stops)
                 /\ \A x, y \in DOMAIN trips : x < y => no_later_than(trips[x], trips[y])
  <2> DEFINE route == b.routes[r]
  <2>1. route \in GoodRoute
    BY <1>2
  <2> HIDE DEF route
  <2>2. route.trips \in Seq(TripsOf(Len(route.stops))) /\ NoneOvertakes(route.trips)
    BY <2>1 DEF GoodRoute, Bin
  <2>3. \A m \in DOMAIN route.trips : Len(route.trips[m]) = Len(route.stops)
    BY <2>2 DEF TripsOf
  <2> QED
    BY <2>2, <2>3 DEF NoneOvertakes, route
<1>6. WellBuilt(b)
  BY <1>3, <1>4, <1>5 DEF WellBuilt
<1> QED
  BY <1>6 DEF b

(* So the theorems of Raptor_proofs, which assume it of every timetable,   *)
(* are about what the builder returns (the @post of RaptorBuilder::build). *)
THEOREM TimetableIsWellBuilt == BuildSpec => [](Built => WellBuilt(timetable))
<1>1. BuiltFromFeed => (Built => WellBuilt(timetable))
  BY FeedIsBounded, BuildIsWellBuilt DEF BuiltFromFeed
<1> QED
  BY <1>1, BuiltFromFeedHolds, PTL
-----------------------------------------------------------------------------
(* The recurrence of the shortest walks.                                   *)
LeastWalk(walks, v) == LeastOf({t.travel_time : t \in {x \in walks : x.destination = v}})
IsThrough(direct, through) ==
  through = [n \in 0 .. NumStops |->
               IF n = 0 THEN direct
               ELSE [uv \in Stop \X Stop |->
                       Min({through[n - 1][uv],
                            Min({through[n - 1][<< uv[1], n - 1 >>] + through[n - 1][<< n - 1, uv[2] >>],
                                 UINT32_MAX})})]]
Distances == [Stop \X Stop -> 0 .. UINT32_MAX]
Via(x, n) ==
  [uv \in Stop \X Stop |->
     Min({x[uv], Min({x[<< uv[1], n - 1 >>] + x[<< n - 1, uv[2] >>], UINT32_MAX})})]

LEMMA MinOfTwo ==
  ASSUME NEW a \in Nat, NEW b \in Nat
  PROVE  Min({a, b}) = IF a <= b THEN a ELSE b
<1>1. {a, b} \in SUBSET Nat /\ {a, b} # {}
  OBVIOUS
<1>2. Min({a, b}) \in {a, b} /\ \A n \in {a, b} : Min({a, b}) <= n
  BY ONLY <1>1, MinIsLeast
<1> QED
  BY <1>2

LEMMA ViaFacts ==
  ASSUME NEW x \in Distances, NEW n \in 1 .. NumStops
  PROVE  /\ Via(x, n) \in Distances /\ n - 1 \in Stop
         /\ \A u, v \in Stop :
              /\ Via(x, n)[<< u, v >>] <= x[<< u, v >>]
              /\ Via(x, n)[<< u, v >>] <= x[<< u, n - 1 >>] + x[<< n - 1, v >>]
              /\ \/ Via(x, n)[<< u, v >>] = x[<< u, v >>]
                 \/ Via(x, n)[<< u, v >>] = x[<< u, n - 1 >>] + x[<< n - 1, v >>]
                 \/ Via(x, n)[<< u, v >>] = UINT32_MAX
<1>1. n - 1 \in Stop
  BY Sizes DEF Stop
<1>2. \A u, v \in Stop : x[<< u, v >>] \in Nat /\ x[<< u, v >>] <= UINT32_MAX
  <2>1. \A u, v \in Stop : x[<< u, v >>] \in 0 .. UINT32_MAX
    BY DEF Distances
  <2> QED
    <3>1. \A y \in 0 .. UINT32_MAX : y \in Nat /\ y <= UINT32_MAX
      BY Sizes
    <3> QED
      BY <2>1, <3>1
<1>3. ASSUME NEW u \in Stop, NEW v \in Stop
      PROVE  /\ Via(x, n)[<< u, v >>] \in 0 .. UINT32_MAX
             /\ Via(x, n)[<< u, v >>] <= x[<< u, v >>]
             /\ Via(x, n)[<< u, v >>] <= x[<< u, n - 1 >>] + x[<< n - 1, v >>]
             /\ \/ Via(x, n)[<< u, v >>] = x[<< u, v >>]
                \/ Via(x, n)[<< u, v >>] = x[<< u, n - 1 >>] + x[<< n - 1, v >>]
                \/ Via(x, n)[<< u, v >>] = UINT32_MAX
  <2> DEFINE a == x[<< u, v >>]
             p == x[<< u, n - 1 >>]
             q == x[<< n - 1, v >>]
             b == p + q
             e == Via(x, n)[<< u, v >>]
  <2>1. a \in Nat /\ a <= UINT32_MAX /\ b \in Nat
    <3>1. a \in Nat /\ a <= UINT32_MAX /\ p \in Nat /\ q \in Nat
      BY <1>1, <1>2
    <3> HIDE DEF a, p, q
    <3> QED
      BY <3>1
  <2>2. e = Min({a, Min({b, UINT32_MAX})})
    BY DEF Via
  <2> HIDE DEF a, b, p, q, e
  <2>3. Min({b, UINT32_MAX}) = IF b <= UINT32_MAX THEN b ELSE UINT32_MAX
    BY <2>1, Sizes, MinOfTwo
  <2>4. Min({b, UINT32_MAX}) \in Nat
    BY <2>1, <2>3, Sizes
  <2>5. e = IF a <= Min({b, UINT32_MAX}) THEN a ELSE Min({b, UINT32_MAX})
    BY <2>1, <2>2, <2>4, MinOfTwo
  <2>6. /\ e \in 0 .. UINT32_MAX /\ e <= a /\ e <= b
        /\ e = a \/ e = b \/ e = UINT32_MAX
    BY <2>1, <2>3, <2>5, Sizes
  <2> QED
    BY <2>6 DEF a, b, p, q, e
<1>4. Via(x, n) \in Distances
  <2>1. DOMAIN Via(x, n) = Stop \X Stop /\ Via(x, n) = [uv \in Stop \X Stop |-> Via(x, n)[uv]]
    BY DEF Via
  <2>2. \A uv \in Stop \X Stop : Via(x, n)[uv] \in 0 .. UINT32_MAX
    <3> SUFFICES ASSUME NEW u \in Stop, NEW v \in Stop  PROVE  Via(x, n)[<< u, v >>] \in 0 .. UINT32_MAX
      OBVIOUS
    <3> QED
      BY <1>3
  <2> QED
    BY <2>1, <2>2 DEF Distances
<1> QED
  BY <1>1, <1>3, <1>4

LEMMA ThroughExists ==
  ASSUME NEW direct \in Distances
  PROVE  \E through : IsThrough(direct, through)
<1> DEFINE N == NumStops
           S == Distances
           step == [i \in 1 .. N |-> [x \in S |-> Via(x, i)]]
<1>1. N \in Nat
  BY Sizes
<1>2. step \in [1 .. N -> [S -> S]]
  BY ViaFacts
<1>3. \A i \in 1 .. N, x \in S : step[i][x] = Via(x, i)
  OBVIOUS
<1>4. direct \in S
  OBVIOUS
<1> HIDE DEF N, S, step
<1>5. PICK g : g \in Iterations(N, S, direct, step)
  <2>1. Iterations(N, S, direct, step) # {}
    BY ONLY <1>1, <1>2, <1>4, RunExists
  <2> QED
    BY <2>1
<1>6. g \in [0 .. N -> S] /\ g[0] = direct /\ \A i \in 1 .. N : g[i] = step[i][g[i - 1]]
  BY <1>5 DEF Iterations
<1>7. ASSUME NEW n \in 0 .. N
      PROVE  g[n] = IF n = 0 THEN direct ELSE Via(g[n - 1], n)
  <2>1. CASE n = 0
    BY <1>6, <2>1
  <2>2. CASE n # 0
    <3>1. n \in 1 .. N /\ n - 1 \in 0 .. N
      BY <1>1, <2>2
    <3> QED
      BY <1>3, <1>6, <2>2, <3>1
  <2> QED
    BY <2>1, <2>2
<1>8. g = [n \in 0 .. N |-> g[n]]
  BY <1>6
<1>9. IsThrough(direct, g)
  BY <1>7, <1>8 DEF IsThrough, Via, N
<1> QED
  BY <1>9

LEMMA LeastOfFacts ==
  ASSUME NEW S \in SUBSET Nat
  PROVE  /\ S = {} => LeastOf(S) = UINT32_MAX
         /\ S # {} => LeastOf(S) \in S /\ \A x \in S : LeastOf(S) <= x
BY MinIsLeast DEF LeastOf

LEMMA LeastWalkFacts ==
  ASSUME NEW walks, \A x \in walks : x.travel_time \in Nat, NEW v
  PROVE  /\ (\A x \in walks : x.destination # v) => LeastWalk(walks, v) = UINT32_MAX
         /\ \A x \in walks : x.destination = v => LeastWalk(walks, v) <= x.travel_time
         /\ \/ LeastWalk(walks, v) = UINT32_MAX
            \/ \E x \in walks : x.destination = v /\ LeastWalk(walks, v) = x.travel_time
<1> DEFINE S == {t.travel_time : t \in {x \in walks : x.destination = v}}
<1>1. S \in SUBSET Nat
  OBVIOUS
<1>2. LeastWalk(walks, v) = LeastOf(S)
  BY DEF LeastWalk
<1>3. \A x \in walks : x.destination = v => x.travel_time \in S
  OBVIOUS
<1>4. \A y \in S : \E x \in walks : x.destination = v /\ y = x.travel_time
  OBVIOUS
<1> HIDE DEF S
<1> QED
  <2> DEFINE e == LeastWalk(walks, v)
  <2>1. S = {} => e = UINT32_MAX
    BY <1>1, <1>2, LeastOfFacts
  <2>2. S # {} => e \in S /\ \A y \in S : e <= y
    BY <1>1, <1>2, LeastOfFacts
  <2> HIDE DEF e
  <2>3. (\A x \in walks : x.destination # v) => S = {}
    BY <1>4
  <2> QED
    BY <1>3, <1>4, <2>1, <2>2, <2>3 DEF e

(* Without a walk 0 from a stop to itself, the recurrence is the length of *)
(* the shortest chain of walks: it undercuts each walk and no two of its   *)
(* values add up to less than a third.                                     *)
LEMMA ThroughFacts ==
  ASSUME NEW direct \in Distances, \A u \in Stop : direct[<< u, u >>] = 0,
         NEW through, IsThrough(direct, through)
  PROVE  /\ \A n \in 0 .. NumStops :
              /\ through[n] \in Distances
              /\ \A u \in Stop : through[n][<< u, u >>] = 0
              /\ \A u, v \in Stop : through[n][<< u, v >>] <= direct[<< u, v >>]
         /\ through[0] = direct
         /\ \A n \in 1 .. NumStops : through[n] = Via(through[n - 1], n)
         /\ \A u, k, v \in Stop : through[NumStops][<< u, v >>] <= through[NumStops][<< u, k >>] + through[NumStops][<< k, v >>]
<1>1. \A n \in 0 .. NumStops : through[n] = IF n = 0 THEN direct ELSE Via(through[n - 1], n)
  BY DEF IsThrough, Via
<1>2. NumStops \in Nat /\ 0 \in 0 .. NumStops /\ NumStops \in 0 .. NumStops
  BY Sizes
<1>3. through[0] = direct
  BY <1>1, <1>2
<1>4. \A n \in 1 .. NumStops : through[n] = Via(through[n - 1], n)
  <2> SUFFICES ASSUME NEW n \in 1 .. NumStops  PROVE  through[n] = Via(through[n - 1], n)
    OBVIOUS
  <2>1. n \in 0 .. NumStops /\ n # 0
    BY <1>2
  <2> QED
    BY <1>1, <2>1
<1>5. \A x \in Distances : \A u, v \in Stop : x[<< u, v >>] \in Nat /\ x[<< u, v >>] <= UINT32_MAX
  <2>1. \A x \in Distances : \A u, v \in Stop : x[<< u, v >>] \in 0 .. UINT32_MAX
    BY DEF Distances
  <2>2. \A y \in 0 .. UINT32_MAX : y \in Nat /\ y <= UINT32_MAX
    BY Sizes
  <2> QED
    BY <2>1, <2>2
<1> DEFINE Fine(n, x) ==
             /\ x \in Distances
             /\ \A u \in Stop : x[<< u, u >>] = 0
             /\ \A u, v \in Stop : x[<< u, v >>] <= direct[<< u, v >>]
             /\ \A k \in 0 .. n - 1 : \A u, v \in Stop : x[<< u, v >>] <= x[<< u, k >>] + x[<< k, v >>]
<1>6. Fine(0, direct)
  <2>1. \A u, v \in Stop : direct[<< u, v >>] <= direct[<< u, v >>]
    <3>1. \A u, v \in Stop : direct[<< u, v >>] \in Nat
      BY <1>5
    <3>2. \A a \in Nat : a <= a
      OBVIOUS
    <3> QED
      BY <3>1, <3>2
  <2>2. \A k \in 0 .. 0 - 1 : FALSE
    OBVIOUS
  <2> QED
    BY <2>1, <2>2
<1>7. ASSUME NEW n \in 1 .. NumStops, NEW x, Fine(n - 1, x)
      PROVE  Fine(n, Via(x, n))
  <2> DEFINE y == Via(x, n)
             m == n - 1
  <2>1. /\ y \in Distances /\ m \in Stop
        /\ \A u, v \in Stop :
             /\ y[<< u, v >>] <= x[<< u, v >>]
             /\ y[<< u, v >>] <= x[<< u, m >>] + x[<< m, v >>]
             /\ \/ y[<< u, v >>] = x[<< u, v >>]
                \/ y[<< u, v >>] = x[<< u, m >>] + x[<< m, v >>]
                \/ y[<< u, v >>] = UINT32_MAX
    BY <1>7, ViaFacts
  <2>2. /\ x \in Distances
        /\ \A u \in Stop : x[<< u, u >>] = 0
        /\ \A u, v \in Stop : x[<< u, v >>] <= direct[<< u, v >>]
        /\ \A k \in 0 .. m - 1 : \A u, v \in Stop : x[<< u, v >>] <= x[<< u, k >>] + x[<< k, v >>]
    BY <1>7
  <2>3. \A u, v \in Stop : /\ x[<< u, v >>] \in Nat /\ y[<< u, v >>] \in Nat /\ direct[<< u, v >>] \in Nat
                           /\ y[<< u, v >>] <= UINT32_MAX
    BY <1>5, <2>1, <2>2
  <2> HIDE DEF y, m
  <2>4. \A u \in Stop : y[<< u, u >>] = 0
    <3> SUFFICES ASSUME NEW u \in Stop  PROVE  y[<< u, u >>] = 0
      OBVIOUS
    <3>1. y[<< u, u >>] <= x[<< u, u >>] /\ x[<< u, u >>] = 0 /\ y[<< u, u >>] \in Nat
      BY <2>1, <2>2, <2>3
    <3> QED
      BY <3>1
  <2>5. \A u, v \in Stop : y[<< u, v >>] <= direct[<< u, v >>]
    <3> SUFFICES ASSUME NEW u \in Stop, NEW v \in Stop  PROVE  y[<< u, v >>] <= direct[<< u, v >>]
      OBVIOUS
    <3>1. y[<< u, v >>] <= x[<< u, v >>] /\ x[<< u, v >>] <= direct[<< u, v >>]
      BY <2>1, <2>2
    <3>2. x[<< u, v >>] \in Nat /\ y[<< u, v >>] \in Nat /\ direct[<< u, v >>] \in Nat
      BY <2>3
    <3> QED
      BY <3>1, <3>2
  <2>6. ASSUME NEW k \in 0 .. n - 1, NEW u \in Stop, NEW v \in Stop
        PROVE  y[<< u, v >>] <= y[<< u, k >>] + y[<< k, v >>]
    <3>1. k \in Stop
      BY Sizes DEF Stop
    <3> DEFINE yuv == y[<< u, v >>]  yuk == y[<< u, k >>]  ykv == y[<< k, v >>]
               xuv == x[<< u, v >>]  xuk == x[<< u, k >>]  xkv == x[<< k, v >>]
               xum == x[<< u, m >>]  xmv == x[<< m, v >>]  xmk == x[<< m, k >>]  xkm == x[<< k, m >>]
    <3>2. /\ yuv \in Nat /\ yuk \in Nat /\ ykv \in Nat /\ xuv \in Nat /\ xuk \in Nat /\ xkv \in Nat
          /\ xum \in Nat /\ xmv \in Nat /\ xmk \in Nat /\ xkm \in Nat /\ yuv <= UINT32_MAX
      BY <2>1, <2>3, <3>1
    <3>3. /\ yuv <= xuv /\ yuv <= xum + xmv
          /\ yuk = xuk \/ yuk = xum + xmk \/ yuk = UINT32_MAX
          /\ ykv = xkv \/ ykv = xkm + xmv \/ ykv = UINT32_MAX
      BY <2>1, <3>1
    <3>4. CASE k = m
      <4>1. x[<< m, m >>] = 0
        BY <2>1, <2>2
      <4>2. xmk = 0 /\ xkm = 0 /\ xum = xuk /\ xmv = xkv
        BY <3>4, <4>1
      <4> HIDE DEF yuv, yuk, ykv, xuv, xuk, xkv, xum, xmv, xmk, xkm
      <4>3. yuv <= yuk + ykv
        BY <3>2, <3>3, <4>2, Sizes
      <4> QED
        BY <4>3 DEF yuv, yuk, ykv
    <3>5. CASE k # m
      <4>1. k \in 0 .. m - 1
        BY <3>5 DEF m
      <4>2. xuv <= xuk + xkv /\ xum <= xuk + xkm /\ xmv <= xmk + xkv
        BY <2>1, <2>2, <4>1
      <4> HIDE DEF yuv, yuk, ykv, xuv, xuk, xkv, xum, xmv, xmk, xkm
      <4>3. yuv <= yuk + ykv
        BY <3>2, <3>3, <4>2, Sizes
      <4> QED
        BY <4>3 DEF yuv, yuk, ykv
    <3> QED
      BY <3>4, <3>5
  <2> QED
    BY <2>1, <2>4, <2>5, <2>6 DEF y
<1> DEFINE Good == {n \in 0 .. NumStops : Fine(n, through[n])}
<1>8. 0 \in Good
  BY <1>2, <1>3, <1>6
<1> HIDE DEF Fine
<1>9. ASSUME NEW n \in 0 .. NumStops - 1, n \in Good  PROVE  n + 1 \in Good
  <2>1. n + 1 \in 1 .. NumStops /\ n + 1 \in 0 .. NumStops /\ (n + 1) - 1 = n
    BY <1>2
  <2>2. through[n + 1] = Via(through[n], n + 1)
    <3>1. through[n + 1] = Via(through[(n + 1) - 1], n + 1)
      BY <1>4, <2>1
    <3> QED
      BY <2>1, <3>1
  <2>3. Fine((n + 1) - 1, through[n])
    BY <1>9, <2>1
  <2>4. Fine(n + 1, Via(through[n], n + 1))
    BY <1>7, <2>1, <2>3
  <2> QED
    BY <2>1, <2>2, <2>4
<1> HIDE DEF Good
<1>10. 0 .. NumStops \subseteq Good
  BY <1>2, <1>8, <1>9, UpTo
<1>11. \A n \in 0 .. NumStops : Fine(n, through[n])
  BY <1>10 DEF Good
<1>12. \A u, k, v \in Stop : through[NumStops][<< u, v >>] <= through[NumStops][<< u, k >>] + through[NumStops][<< k, v >>]
  BY <1>2, <1>11 DEF Fine, Stop
<1>13. \A n \in 0 .. NumStops :
         /\ through[n] \in Distances
         /\ \A u \in Stop : through[n][<< u, u >>] = 0
         /\ \A u, v \in Stop : through[n][<< u, v >>] <= direct[<< u, v >>]
  BY <1>11 DEF Fine
<1> QED
  BY <1>3, <1>4, <1>12, <1>13
-----------------------------------------------------------------------------
(* The walks of the graph are those of the searches.                       *)
Direct(f) ==
  [uv \in Stop \X Stop |->
     IF uv[1] = uv[2] THEN 0 ELSE LeastWalk(WalksFrom(f, uv[1]), uv[2])]

LEMMA DirectFacts ==
  ASSUME NEW f, NEW longest, Bounded(f, longest)
  PROVE  /\ Direct(f) \in Distances
         /\ \A u \in Stop : Direct(f)[<< u, u >>] = 0
         /\ \A u \in Stop : \A w \in WalksFrom(f, u) : Direct(f)[<< u, w.destination >>] <= w.travel_time
         /\ \A u, v \in Stop :
              \/ u = v
              \/ Direct(f)[<< u, v >>] = UINT32_MAX
              \/ \E w \in WalksFrom(f, u) : w.destination = v /\ Direct(f)[<< u, v >>] = w.travel_time
<1>1. /\ WellFormed(f) /\ longest \in Nat \ {0} /\ longest <= UINT32_MAX
      /\ \A t \in Range(f.transfers) : t.min_transfer_time <= longest
  BY DEF Bounded
<1>2. \A u \in Stop : \A w \in WalksFrom(f, u) :
        w.destination \in Stop /\ w.destination # u /\ w.travel_time \in 0 .. UINT32_MAX
  <2> SUFFICES ASSUME NEW u \in Stop, NEW w \in WalksFrom(f, u)
               PROVE  w.destination \in Stop /\ w.destination # u /\ w.travel_time \in 0 .. UINT32_MAX
    OBVIOUS
  <2>1. w \in Range(Walkable(f, u))
    BY <1>1, WalkableFacts
  <2>2. w.travel_time \in Nat \ {0} /\ w.destination \in Stop /\ w.travel_time <= longest
    BY <1>1, <2>1, WalksAreShort
  <2>3. w.destination # u
    BY <1>1, KeptFacts DEF WalksFrom, WalkOf
  <2> QED
    BY <1>1, <2>2, <2>3, Sizes
<1>3. \A u, v \in Stop : Direct(f)[<< u, v >>] = IF u = v THEN 0 ELSE LeastWalk(WalksFrom(f, u), v)
  BY DEF Direct
<1>4. \A y \in 0 .. UINT32_MAX : y \in Nat
  BY Sizes
<1>5. ASSUME NEW u \in Stop, NEW v \in Stop
      PROVE  /\ \A w \in WalksFrom(f, u) : w.destination = v => LeastWalk(WalksFrom(f, u), v) <= w.travel_time
             /\ \/ LeastWalk(WalksFrom(f, u), v) = UINT32_MAX
                \/ \E w \in WalksFrom(f, u) : w.destination = v /\ LeastWalk(WalksFrom(f, u), v) = w.travel_time
  <2>1. \A w \in WalksFrom(f, u) : w.travel_time \in Nat
    BY <1>2, <1>4
  <2> QED
    BY <2>1, LeastWalkFacts
<1>6. \A u, v \in Stop : Direct(f)[<< u, v >>] \in 0 .. UINT32_MAX
  <2> SUFFICES ASSUME NEW u \in Stop, NEW v \in Stop  PROVE  Direct(f)[<< u, v >>] \in 0 .. UINT32_MAX
    OBVIOUS
  <2>1. 0 \in 0 .. UINT32_MAX /\ UINT32_MAX \in 0 .. UINT32_MAX
    BY Sizes
  <2> QED
    BY <1>2, <1>3, <1>5, <2>1
<1>7. Direct(f) \in Distances
  <2>1. Direct(f) = [uv \in Stop \X Stop |-> Direct(f)[uv]]
    BY DEF Direct
  <2>2. \A uv \in Stop \X Stop : Direct(f)[uv] \in 0 .. UINT32_MAX
    BY <1>6
  <2> QED
    BY <2>1, <2>2 DEF Distances
<1> QED
  BY <1>2, <1>3, <1>5, <1>7

LEMMA ShortestWalksAre ==
  ASSUME NEW f, NEW longest, Bounded(f, longest),
         graph.transfers = [u \in Stop |-> transfers_of(f, u)]
  PROVE  \E through : IsThrough(Direct(f), through) /\ ShortestWalks = through[NumStops]
<1> DEFINE through == CHOOSE t : IsThrough(Direct(f), t)
<1>1. IsThrough(Direct(f), through)
  BY DirectFacts, ThroughExists
<1>2. \A u \in Stop : Range(graph.transfers[u]) = WalksFrom(f, u)
  BY TransfersOfFacts DEF Bounded
<1>3. Direct(f) = [uv \in Stop \X Stop |->
                     IF uv[1] = uv[2] THEN 0
                     ELSE LeastOf({t.travel_time : t \in {x \in Range(graph.transfers[uv[1]]) :
                                                            x.destination = uv[2]}})]
  BY <1>2 DEF Direct, LeastWalk
<1>4. ShortestWalks = through[NumStops]
  BY <1>3 DEF ShortestWalks, IsThrough
<1> QED
  BY <1>1, <1>4

LEMMA RoutesComeFromRuns ==
  ASSUME NEW f, Routes(Runs(f)) # << >>
  PROVE  Runs(f) # {} /\ f.stop_times # {}
<1>1. Routes({}) = << >>
  <2> DEFINE P == {m.run.stops : m \in {}}
             ss == [i \in 1 .. Cardinality(P) |-> RoutesOf(Sorted(P, PatternBefore)[i], {})]
  <2>1. P = {}
    OBVIOUS
  <2>2. Cardinality(P) = 0
    BY <2>1, FS_EmptySet
  <2>3. Routes({}) = FlattenSeq(ss)
    BY DEF Routes
  <2>a. 1 .. Cardinality(P) = {}
    <3> HIDE DEF P
    <3> QED
      BY <2>2
  <2>4. ss = << >>
    BY <2>a
  <2> HIDE DEF ss
  <2>5. FlattenSeq(ss) = << >>
    BY <2>4 DEF FlattenSeq
  <2> QED
    BY <2>3, <2>5
<1>2. Runs(f) # {}
  BY <1>1
<1>3. f.stop_times = {} => Runs(f) = {}
  BY DEF Runs, Trips
<1> QED
  BY <1>2, <1>3

(* A closed set of footpaths that has the direct walks has the shortest:   *)
(* along the recurrence, two footpaths that meet are one that is no longer.*)
LEMMA ClosedReachesThrough ==
  ASSUME NEW direct \in Distances, \A u \in Stop : direct[<< u, u >>] = 0,
         NEW through, IsThrough(direct, through),
         NEW paths,
         \A u \in Stop : \A a \in paths[u] : a.destination \in Stop /\ a.travel_time \in Nat,
         \A u \in Stop : \A a \in paths[u] : \A b \in paths[a.destination] :
           b.destination # u =>
             \E c \in paths[u] : /\ c.destination = b.destination
                                 /\ c.travel_time <= a.travel_time + b.travel_time,
         \A u, v \in Stop :
           u # v /\ direct[<< u, v >>] < UINT32_MAX =>
             \E c \in paths[u] : c.destination = v /\ c.travel_time <= direct[<< u, v >>]
  PROVE  \A u, v \in Stop :
           u # v /\ through[NumStops][<< u, v >>] < UINT32_MAX =>
             \E c \in paths[u] : c.destination = v /\ c.travel_time <= through[NumStops][<< u, v >>]
<1> DEFINE Reaches(x) ==
             \A u, v \in Stop :
               u # v /\ x[<< u, v >>] < UINT32_MAX =>
                 \E c \in paths[u] : c.destination = v /\ c.travel_time <= x[<< u, v >>]
           Good == {n \in 0 .. NumStops : Reaches(through[n])}
<1>1. /\ \A n \in 0 .. NumStops : /\ through[n] \in Distances
                                  /\ \A u \in Stop : through[n][<< u, u >>] = 0
      /\ through[0] = direct
      /\ \A n \in 1 .. NumStops : through[n] = Via(through[n - 1], n)
  BY ThroughFacts
<1>2. NumStops \in Nat /\ 0 \in 0 .. NumStops /\ NumStops \in 0 .. NumStops
  BY Sizes
<1>3. 0 \in Good
  BY <1>1, <1>2
<1>4. ASSUME NEW n \in 0 .. NumStops - 1, n \in Good  PROVE  n + 1 \in Good
  <2> DEFINE x == through[n]
             y == through[n + 1]
             u0 == n
  <2>1. n + 1 \in 1 .. NumStops /\ n + 1 \in 0 .. NumStops /\ (n + 1) - 1 = n /\ n \in 0 .. NumStops
    BY <1>2
  <2>2. x \in Distances /\ y = Via(x, n + 1) /\ \A u \in Stop : x[<< u, u >>] = 0
    <3>1. y = Via(through[(n + 1) - 1], n + 1)
      BY <1>1, <2>1
    <3> QED
      BY <1>1, <2>1, <3>1
  <2>3. /\ y \in Distances /\ n \in Stop
        /\ \A u, v \in Stop : \/ y[<< u, v >>] = x[<< u, v >>]
                              \/ y[<< u, v >>] = x[<< u, n >>] + x[<< n, v >>]
                              \/ y[<< u, v >>] = UINT32_MAX
    <3> HIDE DEF x, y
    <3>1. /\ Via(x, n + 1) \in Distances /\ (n + 1) - 1 \in Stop
          /\ \A u, v \in Stop :
                \/ Via(x, n + 1)[<< u, v >>] = x[<< u, v >>]
                \/ Via(x, n + 1)[<< u, v >>] = x[<< u, (n + 1) - 1 >>] + x[<< (n + 1) - 1, v >>]
                \/ Via(x, n + 1)[<< u, v >>] = UINT32_MAX
      BY <2>1, <2>2, ViaFacts
    <3> QED
      BY <2>1, <2>2, <3>1
  <2>4. \A u, v \in Stop : x[<< u, v >>] \in Nat /\ y[<< u, v >>] \in Nat
    <3>1. \A z \in Distances : \A u, v \in Stop : z[<< u, v >>] \in 0 .. UINT32_MAX
      BY DEF Distances
    <3>2. \A e \in 0 .. UINT32_MAX : e \in Nat
      BY Sizes
    <3> QED
      BY <2>2, <2>3, <3>1, <3>2
  <2>5. Reaches(x)
    BY <1>4
  <2> HIDE DEF x, y
  <2>6. ASSUME NEW u \in Stop, NEW v \in Stop, u # v, y[<< u, v >>] < UINT32_MAX
        PROVE  \E c \in paths[u] : c.destination = v /\ c.travel_time <= y[<< u, v >>]
    <3>1. CASE y[<< u, v >>] = x[<< u, v >>]
      BY <2>5, <2>6, <3>1
    <3>2. CASE y[<< u, v >>] = x[<< u, n >>] + x[<< n, v >>]
      <4> DEFINE e == x[<< u, n >>]
                 g == x[<< n, v >>]
                 h == y[<< u, v >>]
      <4>1. e \in Nat /\ g \in Nat /\ h \in Nat /\ h = e + g /\ h < UINT32_MAX
        BY <2>3, <2>4, <2>6, <3>2
      <4>2. e < UINT32_MAX /\ g < UINT32_MAX
        <5> HIDE DEF e, g, h
        <5> QED
          BY <4>1, Sizes
      <4>3. CASE u = n
        <5>1. e = 0 /\ g = x[<< u, v >>]
          BY <2>2, <2>3, <4>3
        <5>2. h = x[<< u, v >>]
          <6> HIDE DEF e, g, h
          <6> QED
            BY <4>1, <5>1
        <5> QED
          BY <2>5, <2>6, <5>2
      <4>4. CASE v = n
        <5>1. g = 0 /\ e = x[<< u, v >>]
          BY <2>2, <2>3, <4>4
        <5>2. h = x[<< u, v >>]
          <6> HIDE DEF e, g, h
          <6> QED
            BY <4>1, <5>1
        <5> QED
          BY <2>5, <2>6, <5>2
      <4>5. CASE u # n /\ v # n
        <5>1. PICK a \in paths[u] : a.destination = n /\ a.travel_time <= e
          BY <2>3, <2>5, <4>2, <4>5
        <5>2. PICK b \in paths[n] : b.destination = v /\ b.travel_time <= g
          BY <2>3, <2>5, <4>2, <4>5
        <5>3. PICK c \in paths[u] : c.destination = v /\ c.travel_time <= a.travel_time + b.travel_time
          BY <2>6, <5>1, <5>2
        <5>4. a.travel_time \in Nat /\ b.travel_time \in Nat /\ c.travel_time \in Nat
          BY <2>3, <5>1, <5>2, <5>3
        <5> HIDE DEF e, g, h
        <5>5. c.travel_time <= h
          BY <4>1, <5>1, <5>2, <5>3, <5>4
        <5> QED
          BY <5>3, <5>5 DEF h
      <4> QED
        BY <4>3, <4>4, <4>5
    <3>3. CASE y[<< u, v >>] = UINT32_MAX
      BY <2>6, <3>3, Sizes
    <3> QED
      BY <2>3, <3>1, <3>2, <3>3
  <2> QED
    BY <2>1, <2>6 DEF y
<1> HIDE DEF Good
<1>5. 0 .. NumStops \subseteq Good
  BY <1>2, <1>3, <1>4, UpTo
<1>6. Reaches(through[NumStops])
  BY <1>2, <1>5 DEF Good
<1> QED
  BY <1>6

LEMMA ClosedMeansShortestOfBuilt == BuiltFromFeed => ClosedMeansShortest
<1> SUFFICES ASSUME BuiltFromFeed, Built, timetable.routes # << >>,
                    transfers_are_transitively_closed(timetable)
             PROVE  FootpathsShortest
  BY DEF ClosedMeansShortest
<1> DEFINE f == feed
<1>1. f \in Feeds /\ timetable = build(f)
  BY DEF BuiltFromFeed
<1>2. PICK longest : Bounded(f, longest)
  BY <1>1, FeedIsBounded
<1>3. UINT32_MAX > 0 /\ WellFormed(f)
  BY <1>1, FeedIsBounded
<1>4. timetable.routes = Routes(Runs(f)) /\ timetable.transfers = BuiltTransfers(f)
  BY <1>1 DEF build, BuiltTransfers
<1>5. PICK o \in Objectives : graph = build_with_transfers(f, o)
  BY DEF BuiltFromFeed
<1> HIDE DEF f
<1>6. Runs(f) # {} /\ f.stop_times # {}
  BY <1>4, RoutesComeFromRuns
<1>7. graph.transfers = [u \in Stop |-> transfers_of(f, u)]
  BY <1>5, <1>6 DEF build_with_transfers
<1> DEFINE paths == [u \in Stop |-> Range(timetable.transfers[u])]
           direct == Direct(f)
           D(u, v) == Searched(f, u)[v]
<1>8. PICK through : IsThrough(direct, through) /\ ShortestWalks = through[NumStops]
  BY <1>2, <1>7, ShortestWalksAre
<1> DEFINE short == through[NumStops]
<1>9. /\ direct \in Distances
      /\ \A u \in Stop : direct[<< u, u >>] = 0
      /\ \A u \in Stop : \A w \in WalksFrom(f, u) : direct[<< u, w.destination >>] <= w.travel_time
      /\ \A u, v \in Stop :
           \/ u = v
           \/ direct[<< u, v >>] = UINT32_MAX
           \/ \E w \in WalksFrom(f, u) : w.destination = v /\ direct[<< u, v >>] = w.travel_time
  BY <1>2, DirectFacts
<1>10. \A u \in Stop : /\ Searched(f, u) \in [Stop -> 0 .. UINT32_MAX] /\ D(u, u) = 0
                       /\ \A w \in WalksFrom(f, u) : D(u, w.destination) <= w.travel_time
                       /\ \A G \in Potentials(f) : \A v \in Stop :
                            D(u, v) < UINT32_MAX => G[v] <= G[u] + D(u, v)
  BY <1>3, SearchedFacts, WalkableFacts
<1>11. \A u, v \in Stop : D(u, v) \in Nat /\ D(u, v) <= UINT32_MAX
  <2>1. \A u, v \in Stop : D(u, v) \in 0 .. UINT32_MAX
    BY <1>10
  <2> HIDE DEF D
  <2>2. \A y \in 0 .. UINT32_MAX : y \in Nat /\ y <= UINT32_MAX
    BY Sizes
  <2> QED
    BY <2>1, <2>2
<1>12. \A u \in Stop : paths[u] = {FootpathTo(f, u, v) : v \in Touched(f, u)}
  BY <1>3, <1>4, <1>6, FootpathFacts DEF BuiltTransfers
<1>13. \A u, v \in Stop : /\ FootpathTo(f, u, v).destination = v
                          /\ FootpathTo(f, u, v).travel_time = D(u, v)
                          /\ (v \in Touched(f, u) <=> v # u /\ D(u, v) # UINT32_MAX)
  BY DEF FootpathTo, Touched
<1>14. \A u \in Stop : Touched(f, u) \subseteq Stop
  BY DEF Touched
<1>15. \A u \in Stop : \A a \in paths[u] :
         a.destination \in Stop /\ a.destination # u /\ a.travel_time = D(u, a.destination) /\ a.travel_time \in Nat
  <2> HIDE DEF D, paths
  <2> QED
    BY <1>11, <1>12, <1>13, <1>14
<1>16. \A u \in Stop : \A a \in paths[u] : \A b \in paths[a.destination] :
         b.destination # u =>
           \E c \in paths[u] : /\ c.destination = b.destination
                               /\ c.travel_time <= a.travel_time + b.travel_time
  BY <1>15 DEF transfers_are_transitively_closed
<1>17. \A u, v \in Stop : D(u, v) # UINT32_MAX /\ u # v => FootpathTo(f, u, v) \in paths[u]
  BY <1>12, <1>13
<1>18. \A u, v \in Stop :
         u # v /\ direct[<< u, v >>] < UINT32_MAX =>
           \E c \in paths[u] : c.destination = v /\ c.travel_time <= direct[<< u, v >>]
  <2> SUFFICES ASSUME NEW u \in Stop, NEW v \in Stop, u # v, direct[<< u, v >>] < UINT32_MAX
               PROVE  \E c \in paths[u] : c.destination = v /\ c.travel_time <= direct[<< u, v >>]
    OBVIOUS
  <2> HIDE DEF D, paths, direct
  <2>1. direct[<< u, v >>] # UINT32_MAX
    BY Sizes
  <2>2. PICK w \in WalksFrom(f, u) : w.destination = v /\ direct[<< u, v >>] = w.travel_time
    BY <1>9, <2>1
  <2>3. D(u, v) <= direct[<< u, v >>]
    BY <1>10, <2>2
  <2>4. D(u, v) # UINT32_MAX
    <3>1. direct[<< u, v >>] \in 0 .. UINT32_MAX
      BY <1>9 DEF Distances
    <3> DEFINE e == direct[<< u, v >>]
               g == D(u, v)
    <3>2. e \in 0 .. UINT32_MAX /\ e < UINT32_MAX /\ g <= e /\ g \in Nat
      BY <1>11, <2>3, <3>1
    <3> HIDE DEF e, g
    <3>3. g # UINT32_MAX
      BY <3>2, Sizes
    <3> QED
      BY <3>3 DEF g
  <2> QED
    BY <1>13, <1>17, <2>3, <2>4
<1>19. \A u, v \in Stop :
         u # v /\ short[<< u, v >>] < UINT32_MAX =>
           \E c \in paths[u] : c.destination = v /\ c.travel_time <= short[<< u, v >>]
  <2> HIDE DEF D, paths, direct, short
  <2>1. \A u \in Stop : \A a \in paths[u] : a.destination \in Stop /\ a.travel_time \in Nat
    BY <1>15
  <2> QED
    BY <1>8, <1>9, <1>16, <1>18, <2>1, ClosedReachesThrough DEF short
<1>20. /\ short \in Distances
       /\ \A u \in Stop : short[<< u, u >>] = 0
       /\ \A u, v \in Stop : short[<< u, v >>] <= direct[<< u, v >>]
       /\ \A u, k, v \in Stop : short[<< u, v >>] <= short[<< u, k >>] + short[<< k, v >>]
  <2> HIDE DEF direct
  <2>1. NumStops \in 0 .. NumStops
    BY Sizes
  <2> QED
    BY <1>8, <1>9, <2>1, ThroughFacts
<1> HIDE DEF D, paths, direct, short
<1>21. \A u, v \in Stop : /\ short[<< u, v >>] \in Nat /\ short[<< u, v >>] <= UINT32_MAX
                          /\ direct[<< u, v >>] \in Nat
  <2>1. \A z \in Distances : \A u, v \in Stop : z[<< u, v >>] \in 0 .. UINT32_MAX
    BY DEF Distances
  <2>2. \A e \in 0 .. UINT32_MAX : e \in Nat /\ e <= UINT32_MAX
    BY Sizes
  <2> QED
    BY <1>9, <1>20, <2>1, <2>2
<1>22. ASSUME NEW u \in Stop, NEW v \in Stop, u # v
       PROVE  D(u, v) <= short[<< u, v >>]
  <2> DEFINE e == short[<< u, v >>]
             g == D(u, v)
  <2>1. e \in Nat /\ g \in Nat /\ e <= UINT32_MAX /\ g <= UINT32_MAX
    BY <1>11, <1>21
  <2>2. e < UINT32_MAX => \E c \in paths[u] : c.destination = v /\ c.travel_time <= e
    BY <1>19, <1>22
  <2>3. e < UINT32_MAX => g <= e
    BY <1>15, <2>2
  <2> HIDE DEF e, g
  <2>4. g <= e
    BY <2>1, <2>3, Sizes
  <2> QED
    BY <2>4 DEF e, g
<1>23. ASSUME NEW u \in Stop
       PROVE  [v \in Stop |-> short[<< u, v >>]] \in Potentials(f)
  <2> DEFINE G == [v \in Stop |-> short[<< u, v >>]]
  <2>1. G \in [Stop -> Nat]
    BY <1>21
  <2>2. ASSUME NEW x \in Stop, NEW w \in Range(Walkable(f, x))
        PROVE  G[w.destination] <= G[x] + w.travel_time
    <3>1. w.destination \in Stop /\ w.travel_time \in Nat
      BY <1>2, <2>2, WalksAreShort DEF Bounded
    <3>2. w \in WalksFrom(f, x)
      BY <1>3, WalkableFacts
    <3> DEFINE z == w.destination
               a == short[<< u, z >>]
               b == short[<< u, x >>]
               c == short[<< x, z >>]
               d == direct[<< x, z >>]
    <3>3. a \in Nat /\ b \in Nat /\ c \in Nat /\ d \in Nat
      BY <1>21, <3>1
    <3>4. a <= b + c /\ c <= d /\ d <= w.travel_time
      BY <1>9, <1>20, <3>1, <3>2
    <3>5. G[z] = a /\ G[x] = b
      BY <3>1
    <3> HIDE DEF z, a, b, c, d, G
    <3>6. G[z] <= G[x] + w.travel_time
      BY <3>1, <3>3, <3>4, <3>5
    <3> QED
      BY <3>6 DEF z
  <2> HIDE DEF G
  <2>3. G \in Potentials(f)
    BY <2>1, <2>2 DEF Potentials
  <2> QED
    BY <2>3 DEF G
<1>24. ASSUME NEW u \in Stop, NEW v \in Stop
       PROVE  short[<< u, v >>] <= D(u, v)
  <2> DEFINE G == [y \in Stop |-> short[<< u, y >>]]
             e == short[<< u, v >>]
             g == D(u, v)
  <2>1. e \in Nat /\ g \in Nat /\ e <= UINT32_MAX /\ g <= UINT32_MAX
    BY <1>11, <1>21
  <2>2. G[v] = e /\ G[u] = 0
    BY <1>20
  <2>3. G \in Potentials(f)
    BY <1>23
  <2> HIDE DEF G
  <2>4. g < UINT32_MAX => G[v] <= G[u] + g
    BY <1>10, <2>3
  <2> HIDE DEF e, g
  <2>5. e <= g
    BY <2>1, <2>2, <2>4, Sizes
  <2> QED
    BY <2>5 DEF e, g
<1>25. \A u, v \in Stop : u # v => D(u, v) = short[<< u, v >>]
  <2> SUFFICES ASSUME NEW u \in Stop, NEW v \in Stop, u # v  PROVE  D(u, v) = short[<< u, v >>]
    OBVIOUS
  <2>1. D(u, v) <= short[<< u, v >>] /\ short[<< u, v >>] <= D(u, v)
    BY <1>22, <1>24
  <2>2. D(u, v) \in Nat /\ short[<< u, v >>] \in Nat
    BY <1>11, <1>21
  <2> QED
    BY <2>1, <2>2
<1>26. ASSUME NEW u \in Stop, NEW v \in Stop, u # v
       PROVE  LeastWalk(paths[u], v) = D(u, v)
  <2> DEFINE least == LeastWalk(paths[u], v)
  <2>1. \A x \in paths[u] : x.travel_time \in Nat
    BY <1>15
  <2>2. /\ (\A x \in paths[u] : x.destination # v) => least = UINT32_MAX
        /\ \A x \in paths[u] : x.destination = v => least <= x.travel_time
        /\ \/ least = UINT32_MAX
           \/ \E x \in paths[u] : x.destination = v /\ least = x.travel_time
    BY <2>1, LeastWalkFacts
  <2> HIDE DEF least
  <2>3. CASE D(u, v) = UINT32_MAX
    <3>1. v \notin Touched(f, u)
      BY <1>13, <2>3
    <3>2. \A x \in paths[u] : x.destination # v
      BY <1>12, <1>13, <1>14, <3>1
    <3> QED
      BY <2>2, <2>3, <3>2 DEF least
  <2>4. CASE D(u, v) # UINT32_MAX
    <3>1. FootpathTo(f, u, v) \in paths[u]
      BY <1>17, <1>26, <2>4
    <3>2. least <= D(u, v)
      BY <1>13, <2>2, <3>1
    <3>3. D(u, v) < UINT32_MAX
      BY <1>11, <2>4, Sizes
    <3>4. least # UINT32_MAX
      BY <1>11, <3>2, <3>3, Sizes
    <3>5. least = D(u, v)
      BY <1>15, <2>2, <3>4
    <3> QED
      BY <3>5 DEF least
  <2> QED
    BY <2>3, <2>4
<1>27. ASSUME NEW u \in Stop, NEW v \in Stop, u # v
       PROVE  LeastOf({t.travel_time : t \in {x \in Range(timetable.transfers[u]) : x.destination = v}})
                = ShortestWalks[<< u, v >>]
  <2>1. paths[u] = Range(timetable.transfers[u])
    BY DEF paths
  <2>2. ShortestWalks[<< u, v >>] = short[<< u, v >>]
    BY <1>8 DEF short
  <2> QED
    BY <1>25, <1>26, <1>27, <2>1, <2>2 DEF LeastWalk
<1> QED
  BY <1>27 DEF FootpathsShortest

(* Where the check accepts the footpaths, cut short or not, each is the    *)
(* shortest walk of the graph (the warning of RaptorBuilder::build,        *)
(* "transfers_are_transitively_closed() will say so").                     *)
THEOREM ClosedMeansShortestHolds == BuildSpec => []ClosedMeansShortest
BY ClosedMeansShortestOfBuilt, BuiltFromFeedHolds, PTL
=============================================================================
