-------------------------- MODULE GTFSParser_proofs --------------------------
(***************************************************************************)
(* Proofs about GTFSParser, for every directory of files and any distances *)
(* between stops: what a load keeps, at every moment of it, and what the   *)
(* filling of blank times does to a trip.                                  *)
(*                                                                         *)
(* The first part is about one file (its rows up to the one that throws,   *)
(* the rows kept, the counters moved), the second about the way along a    *)
(* trip and the times shared out by it, the third puts them together in    *)
(* the inductive invariant LoadInv, the last is about the filled trip.     *)
(***************************************************************************)
EXTENDS GTFSParser, Lemmas

(* Every row of a counted table moves one of these, or throws.             *)
Outcomes == {"rows_accepted", "rows_dropped_fk", "rows_dropped_fmt"}
Counter == {"rows_read", "times_interpolated"} \cup Outcomes
CountedTables == DOMAIN Columns \ {"transfers"}

LEMMA Verdicts ==
  ASSUME NEW table \in CountedTables, NEW row
  PROVE  Verdict(table, row) \in Outcomes \cup {"thrown"}
BY DEF Verdict, CountedTables, Columns, AgencyVerdict, StopVerdict, RouteVerdict, TripVerdict,
       StopTimeVerdict, Parsed, Outcomes

(* A file is read up to the row that throws, if one does.                  *)
ThrownAt(table) == {i \in DOMAIN files[table] : Verdict(table, files[table][i]) = "thrown"}

LEMMA RowsFacts ==
  ASSUME NEW S, NEW table, files[table] \in Seq(S)
  PROVE  LET rows == Rows(table)
         IN  /\ rows \in Seq(S) /\ Range(rows) \subseteq Range(files[table])
             /\ \A i \in DOMAIN rows : Verdict(table, rows[i]) = "thrown" => i = Len(rows)
             /\ Throws(table) <=> \E i \in DOMAIN rows : Verdict(table, rows[i]) = "thrown"
<1> DEFINE file == files[table]
           bad == ThrownAt(table)
           rows == Rows(table)
<1>1. PICK n \in Nat : n = Len(file) /\ DOMAIN file = 1 .. n
  OBVIOUS
<1>2. rows = IF bad = {} THEN file ELSE SubSeq(file, 1, Min(bad))
  BY DEF Rows, ThrownAt
<1>3. Throws(table) <=> bad # {}
  BY DEF Throws, ThrownAt, Range
<1>4. \A i \in 1 .. n : i \in bad <=> Verdict(table, file[i]) = "thrown"
  BY <1>1 DEF ThrownAt
<1>5. bad \in SUBSET (1 .. n)
  BY <1>1 DEF ThrownAt
<1> HIDE DEF bad, rows, file
<1>6. CASE bad = {}
  <2>1. rows = file
    BY <1>2, <1>6
  <2>2. file \in Seq(S)
    BY DEF file
  <2> QED
    BY <1>1, <1>3, <1>4, <1>6, <2>1, <2>2 DEF rows, file
<1>7. CASE bad # {}
  <2>1. bad \in SUBSET Nat
    BY <1>5
  <2>2. Min(bad) \in bad /\ \A i \in bad : Min(bad) <= i
    BY <1>7, <2>1, MinIsLeast
  <2>3. PICK m \in 1 .. n : m = Min(bad)
    BY <1>5, <2>2
  <2>4. /\ rows \in Seq(S) /\ Len(rows) = m /\ DOMAIN rows = 1 .. m
        /\ \A i \in 1 .. m : rows[i] = file[i] /\ i \in 1 .. n
    <3>1. rows = SubSeq(file, 1, m) /\ file \in Seq(S)
      BY <1>2, <1>7, <2>3 DEF file
    <3> QED
      BY <1>1, <3>1
  <2>5. \A i \in 1 .. m : Verdict(table, rows[i]) = "thrown" <=> i = m
    <3>1. \A i \in 1 .. m : i \in bad <=> i = m
      BY <2>2, <2>3
    <3> QED
      BY <1>4, <2>4, <3>1
  <2>6. Range(rows) \subseteq Range(file)
    BY <1>1, <2>4 DEF Range
  <2>7. m \in DOMAIN rows
    BY <2>4
  <2> QED
    BY <1>3, <1>7, <2>4, <2>5, <2>6, <2>7 DEF rows, file
<1> QED
  BY <1>6, <1>7

(* The places of the rows with an outcome.                                 *)
Places(table, outcome) ==
  {i \in DOMAIN Rows(table) : Verdict(table, Rows(table)[i]) = outcome}

(* What is kept of a file: its accepted rows, one by one.                  *)
KeptUpTo(table, i, kept) ==
  LET accepted == {j \in 1 .. i : Verdict(table, Rows(table)[j]) = "rows_accepted"}
  IN  /\ Len(kept) = Cardinality(accepted)
      /\ Range(kept) = {Rows(table)[j] : j \in accepted}

LEMMA KeptStep ==
  ASSUME NEW S, NEW table, Rows(table) \in Seq(S), NEW i \in 1 .. Len(Rows(table)),
         NEW kept \in Seq(S), KeptUpTo(table, i - 1, kept)
  PROVE  LET row == Rows(table)[i]
             then == IF Verdict(table, row) = "rows_accepted" THEN Append(kept, row) ELSE kept
         IN  then \in Seq(S) /\ KeptUpTo(table, i, then)
<1> DEFINE rows == Rows(table)
           row == rows[i]
           before == {j \in 1 .. i - 1 : Verdict(table, rows[j]) = "rows_accepted"}
           accepted == {j \in 1 .. i : Verdict(table, rows[j]) = "rows_accepted"}
<1>1. i \in Nat /\ i - 1 \in Nat /\ i \in DOMAIN rows /\ row \in S
  OBVIOUS
<1>2. \A j : j \in 1 .. i <=> j \in 1 .. i - 1 \/ j = i
  BY <1>1
<1>3. IsFiniteSet(before) /\ i \notin before
  <2>1. IsFiniteSet(1 .. i - 1)
    BY <1>1, FS_Interval
  <2>2. before \in SUBSET (1 .. i - 1) /\ i \notin 1 .. i - 1
    BY <1>1
  <2> QED
    BY <2>1, <2>2, FS_Subset
<1>4. Len(kept) = Cardinality(before) /\ Range(kept) = {rows[j] : j \in before}
  BY DEF KeptUpTo
<1>5. CASE Verdict(table, row) = "rows_accepted"
  <2> DEFINE then == Append(kept, row)
  <2>1. accepted = before \cup {i}
    BY <1>2, <1>5
  <2>2. then \in Seq(S) /\ Len(then) = Len(kept) + 1
    BY <1>1
  <2>3. Range(then) = Range(kept) \cup {row}
    <3>1. PICK n \in Nat : n = Len(kept) /\ DOMAIN kept = 1 .. n
      OBVIOUS
    <3>2. /\ DOMAIN then = 1 .. n + 1 /\ then[n + 1] = row
          /\ \A j \in 1 .. n : then[j] = kept[j]
      BY <1>1, <3>1
    <3>3. 1 .. n + 1 = (1 .. n) \cup {n + 1}
      BY <3>1
    <3> HIDE DEF then, row
    <3> QED
      BY <3>1, <3>2, <3>3 DEF Range
  <2> HIDE DEF before, accepted, then
  <2>4. Cardinality(accepted) = Cardinality(before) + 1
    BY <1>3, <2>1, FS_AddElement
  <2>5. {rows[j] : j \in accepted} = {rows[j] : j \in before} \cup {row}
    BY <2>1
  <2>6. KeptUpTo(table, i, then)
    BY <1>4, <2>2, <2>3, <2>4, <2>5 DEF KeptUpTo, accepted
  <2> QED
    BY <1>5, <2>2, <2>6 DEF then
<1>6. CASE Verdict(table, row) # "rows_accepted"
  <2>1. accepted = before
    BY <1>2, <1>6
  <2> HIDE DEF before, accepted
  <2>2. KeptUpTo(table, i, kept)
    BY <1>4, <2>1 DEF KeptUpTo, accepted
  <2> QED
    BY <1>6, <2>2
<1> QED
  BY <1>5, <1>6

LEMMA KeptFold ==
  ASSUME NEW S, NEW table, files[table] # Missing, Rows(table) \in Seq(S)
  PROVE  Kept(table) \in Seq(S) /\ KeptUpTo(table, Len(Rows(table)), Kept(table))
<1> DEFINE rows == Rows(table)
           T == Seq(S)
           op(kept, row) == IF Verdict(table, row) = "rows_accepted" THEN Append(kept, row) ELSE kept
<1>1. PICK n \in Nat : n = Len(rows) /\ DOMAIN rows = 1 .. n
  OBVIOUS
<1> DEFINE step == [i \in 1 .. n |-> [x \in T |-> op(x, rows[i])]]
           Good == [i \in 0 .. n |-> {x \in T : KeptUpTo(table, i, x)}]
           eq(f) == [t \in SUBSET (1 .. n) |->
                       IF t = {} THEN << >> ELSE op(f[t \ {Max(t)}], rows[Max(t)])]
           F == CHOOSE f : f = eq(f)
<1>2. Kept(table) = F[1 .. n]
  BY <1>1 DEF Kept, FoldLeft, MapThenFoldSet
<1>3. << >> \in T
  OBVIOUS
<1>4. \A i \in 1 .. n, x \in T : op(x, rows[i]) \in T
  <2>1. \A i \in 1 .. n : rows[i] \in S
    BY <1>1
  <2> QED
    BY <2>1
<1> HIDE DEF op
<1>5. step \in [1 .. n -> [T -> T]]
  BY <1>4
<1>6. \A i \in 1 .. n, x \in T : step[i][x] = op(x, rows[i])
  OBVIOUS
<1> HIDE DEF step
<1> HIDE DEF T
<1>7. PICK f : f \in Folds(n, T, << >>, step)
  BY <1>3, <1>5, FoldExists
<1>8. \A t \in SUBSET (1 .. n) : t # {} => Max(t) \in 1 .. n
  BY MaxInUpTo
<1>9. f = eq(f)
  BY <1>6, <1>7, <1>8 DEF Folds
<1>10. F = eq(F)
  BY <1>9
<1> HIDE DEF F
<1>11. IsFold(F, n, T, << >>, step)
  BY <1>6, <1>8, <1>10 DEF IsFold
<1>12. << >> \in Good[0]
  <2>1. {j \in 1 .. 0 : Verdict(table, Rows(table)[j]) = "rows_accepted"} = {}
    OBVIOUS
  <2>2. Len(<< >>) = 0 /\ Range(<< >>) = {}
    BY DEF Range
  <2>3. KeptUpTo(table, 0, << >>)
    BY <2>1, <2>2, FS_EmptySet DEF KeptUpTo
  <2> QED
    BY <1>3, <2>3
<1>13. \A i \in 1 .. n : \A x \in T : x \in Good[i - 1] => step[i][x] \in Good[i]
  <2> SUFFICES ASSUME NEW i \in 1 .. n, NEW x \in T, x \in Good[i - 1]
               PROVE  step[i][x] \in Good[i]
    OBVIOUS
  <2>1. i \in 0 .. n /\ i - 1 \in 0 .. n /\ i \in 1 .. Len(Rows(table))
    BY <1>1
  <2>2. KeptUpTo(table, i - 1, x)
    BY <2>1
  <2>3. op(x, rows[i]) \in T /\ KeptUpTo(table, i, op(x, rows[i]))
    BY <2>1, <2>2, KeptStep DEF op, T
  <2> QED
    BY <1>6, <2>1, <2>3
<1> HIDE DEF Good
<1>14. F[1 .. n] \in T /\ F[1 .. n] \in Good[n]
  BY <1>3, <1>5, <1>11, <1>12, <1>13, FoldKeeps
<1>15. KeptUpTo(table, n, F[1 .. n])
  BY <1>14 DEF Good
<1> QED
  BY <1>1, <1>2, <1>14, <1>15 DEF T

LEMMA KeptFacts ==
  ASSUME NEW S, NEW table, files[table] = Missing \/ files[table] \in Seq(S)
  PROVE  /\ Kept(table) \in Seq(S)
         /\ files[table] = Missing => Kept(table) = << >>
         /\ \A row \in Range(Kept(table)) :
              /\ Verdict(table, row) = "rows_accepted"
              /\ files[table] # Missing /\ row \in Range(files[table])
         /\ files[table] # Missing => Len(Kept(table)) = Cardinality(Places(table, "rows_accepted"))
<1>1. CASE files[table] = Missing
  <2>1. Kept(table) = << >>
    BY <1>1 DEF Kept
  <2>2. Range(<< >>) = {} /\ << >> \in Seq(S)
    BY DEF Range
  <2> QED
    BY <1>1, <2>1, <2>2
<1>2. CASE files[table] # Missing
  <2> DEFINE rows == Rows(table)
  <2>1. rows \in Seq(S) /\ Range(rows) \subseteq Range(files[table])
    BY <1>2, RowsFacts
  <2>2. Kept(table) \in Seq(S) /\ KeptUpTo(table, Len(rows), Kept(table))
    BY <1>2, <2>1, KeptFold
  <2>3. DOMAIN rows = 1 .. Len(rows)
    BY <2>1
  <2>4. {j \in 1 .. Len(rows) : Verdict(table, rows[j]) = "rows_accepted"} = Places(table, "rows_accepted")
    BY <2>3 DEF Places
  <2>5. /\ Len(Kept(table)) = Cardinality(Places(table, "rows_accepted"))
        /\ Range(Kept(table)) = {rows[j] : j \in Places(table, "rows_accepted")}
    BY <2>2, <2>4 DEF KeptUpTo
  <2>6. ASSUME NEW j \in Places(table, "rows_accepted")
        PROVE  Verdict(table, rows[j]) = "rows_accepted" /\ rows[j] \in Range(rows)
    BY DEF Places, Range
  <2> QED
    BY <1>2, <2>1, <2>2, <2>5, <2>6
<1> QED
  BY <1>1, <1>2
-----------------------------------------------------------------------------
(* The counters of a file read: every row is read, and all but one that    *)
(* throws have an outcome.                                                 *)
Settled == stats.rows_accepted + stats.rows_dropped_fk + stats.rows_dropped_fmt

LEMMA DisjointSum ==
  ASSUME NEW S, NEW T, IsFiniteSet(S), IsFiniteSet(T), S \cap T = {}
  PROVE  IsFiniteSet(S \cup T) /\ Cardinality(S \cup T) = Cardinality(S) + Cardinality(T)
<1>1. IsFiniteSet(S \cup T)
  BY FS_Union
<1>2. Cardinality(S \cup T) = Cardinality(S) + Cardinality(T) - Cardinality(S \cap T)
  BY FS_Union
<1>3. Cardinality(S \cap T) = 0 /\ Cardinality(S) \in Nat /\ Cardinality(T) \in Nat
  BY FS_EmptySet, FS_CardinalityType
<1> QED
  BY <1>1, <1>2, <1>3

LEMMA PlacesFacts ==
  ASSUME NEW S, NEW table \in CountedTables, files[table] \in Seq(S)
  PROVE  LET n == Len(Rows(table))
         IN  /\ n \in Nat
             /\ \A o \in Outcomes \cup {"thrown"} :
                  IsFiniteSet(Places(table, o)) /\ Cardinality(Places(table, o)) \in Nat
             /\ n = Cardinality(Places(table, "rows_accepted"))
                      + Cardinality(Places(table, "rows_dropped_fk"))
                      + Cardinality(Places(table, "rows_dropped_fmt"))
                      + Cardinality(Places(table, "thrown"))
             /\ Cardinality(Places(table, "thrown")) = IF Throws(table) THEN 1 ELSE 0
<1> DEFINE rows == Rows(table)
           n == Len(rows)
           A == Places(table, "rows_accepted")
           B == Places(table, "rows_dropped_fk")
           C == Places(table, "rows_dropped_fmt")
           D == Places(table, "thrown")
<1>1. /\ n \in Nat /\ DOMAIN rows = 1 .. n
      /\ \A i \in 1 .. n : Verdict(table, rows[i]) = "thrown" => i = n
      /\ Throws(table) <=> \E i \in 1 .. n : Verdict(table, rows[i]) = "thrown"
  <2>1. rows \in Seq(S)
    BY RowsFacts
  <2>2. n \in Nat /\ DOMAIN rows = 1 .. n
    BY <2>1
  <2> QED
    BY <2>2, RowsFacts
<1>2. \A o : Places(table, o) = {i \in 1 .. n : Verdict(table, rows[i]) = o}
  BY <1>1 DEF Places
<1>3. \A i \in 1 .. n : Verdict(table, rows[i]) \in Outcomes \cup {"thrown"}
  BY Verdicts
<1> HIDE DEF n, rows
<1>4. IsFiniteSet(1 .. n) /\ Cardinality(1 .. n) = n
  BY <1>1, FS_Interval
<1>5. \A o : IsFiniteSet(Places(table, o)) /\ Cardinality(Places(table, o)) \in Nat
  <2> SUFFICES ASSUME NEW o  PROVE  IsFiniteSet(Places(table, o))
    BY FS_CardinalityType
  <2>1. Places(table, o) \in SUBSET (1 .. n)
    BY <1>2
  <2> QED
    BY <1>4, <2>1, FS_Subset
<1>6. 1 .. n = ((A \cup B) \cup C) \cup D
  BY <1>2, <1>3 DEF Outcomes
<1>7. /\ A \cap B = {} /\ (A \cup B) \cap C = {}
      /\ ((A \cup B) \cup C) \cap D = {}
  BY <1>2
<1>8. n = Cardinality(A) + Cardinality(B) + Cardinality(C) + Cardinality(D)
  <2>1. IsFiniteSet(A) /\ IsFiniteSet(B) /\ IsFiniteSet(C) /\ IsFiniteSet(D)
    BY <1>5
  <2> HIDE DEF A, B, C, D
  <2>2. IsFiniteSet(A \cup B) /\ Cardinality(A \cup B) = Cardinality(A) + Cardinality(B)
    BY <1>7, <2>1, DisjointSum
  <2> DEFINE AB == A \cup B
             ABC == AB \cup C
  <2>3. IsFiniteSet(ABC) /\ Cardinality(ABC) = Cardinality(AB) + Cardinality(C)
    <3>1. IsFiniteSet(AB) /\ AB \cap C = {}
      BY <1>7, <2>2
    <3> HIDE DEF AB
    <3> QED
      BY <2>1, <3>1, DisjointSum
  <2>4. Cardinality(ABC \cup D) = Cardinality(ABC) + Cardinality(D)
    <3>1. ABC \cap D = {}
      BY <1>7
    <3> HIDE DEF ABC
    <3> QED
      BY <2>1, <2>3, <3>1, DisjointSum
  <2>5. Cardinality(1 .. n) = Cardinality(ABC \cup D)
    BY <1>6
  <2> QED
    BY <1>4, <2>2, <2>3, <2>4, <2>5
<1>9. Cardinality(D) = IF Throws(table) THEN 1 ELSE 0
  <2>1. CASE Throws(table)
    <3>1. D = {n}
      BY <1>1, <1>2, <2>1
    <3> HIDE DEF D
    <3> QED
      BY <2>1, <3>1, FS_Singleton
  <2>2. CASE ~ Throws(table)
    <3>1. D = {}
      BY <1>1, <1>2, <2>2
    <3> HIDE DEF D
    <3> QED
      BY <2>2, <3>1, FS_EmptySet
  <2> QED
    BY <2>1, <2>2
<1> QED
  BY <1>1, <1>5, <1>8, <1>9 DEF n, rows

LEMMA CountedFacts ==
  ASSUME NEW S, NEW table \in CountedTables, files[table] \in Seq(S), stats \in [Counter -> Nat]
  PROVE  LET c == Counted(table)
         IN  /\ c \in [Counter -> Nat]
             /\ c.rows_read = stats.rows_read + Len(Rows(table))
             /\ \A o \in Outcomes : c[o] = stats[o] + Cardinality(Places(table, o))
<1> DEFINE rows == Rows(table)
           n == Len(rows)
           moved(c) == {i \in DOMAIN rows : c \in Counters(Verdict(table, rows[i]))}
<1>1. Counted(table) = [c \in Counter |-> stats[c] + Cardinality(moved(c))]
  BY DEF Counted
<1>2. n \in Nat /\ DOMAIN rows = 1 .. n /\ IsFiniteSet(1 .. n) /\ Cardinality(1 .. n) = n
  <2>1. rows \in Seq(S)
    BY RowsFacts
  <2>2. n \in Nat /\ DOMAIN rows = 1 .. n
    BY <2>1
  <2> HIDE DEF n
  <2> QED
    BY <2>2, FS_Interval
<1>3. ASSUME NEW c \in Counter  PROVE  Cardinality(moved(c)) \in Nat
  <2>1. moved(c) \in SUBSET (1 .. n)
    BY <1>2
  <2> HIDE DEF moved, n
  <2> QED
    BY <1>2, <2>1, FS_Subset, FS_CardinalityType
<1>4. moved("rows_read") = 1 .. n
  BY <1>2 DEF Counters
<1>5. \A o \in Outcomes : moved(o) = Places(table, o)
  <2> SUFFICES ASSUME NEW o \in Outcomes
               PROVE  \A i \in DOMAIN rows : o \in Counters(Verdict(table, rows[i]))
                                               <=> Verdict(table, rows[i]) = o
    BY DEF Places
  <2>1. o # "rows_read"
    BY DEF Outcomes
  <2> QED
    BY <2>1 DEF Counters
<1> HIDE DEF moved, n
<1>6. /\ Counted(table) \in [Counter -> Nat]
      /\ \A c \in Counter : Counted(table)[c] = stats[c] + Cardinality(moved(c))
  BY <1>1, <1>3
<1>7. "rows_read" \in Counter /\ Outcomes \subseteq Counter
  BY DEF Counter
<1>8. Counted(table)["rows_read"] = stats["rows_read"] + n
  BY <1>2, <1>4, <1>6, <1>7
<1>9. \A o \in Outcomes : Counted(table)[o] = stats[o] + Cardinality(Places(table, o))
  BY <1>5, <1>6, <1>7
<1> QED
  BY <1>6, <1>8, <1>9 DEF n

-----------------------------------------------------------------------------
(* The inductive invariant of a load.                                      *)
TypeOK ==
  /\ files \in Directories /\ at \in 1 .. 9 /\ failed \in BOOLEAN
  /\ agencies \in Seq(Columns.agency) /\ stops \in Seq(Columns.stops)
  /\ routes \in Seq(Columns.routes) /\ trips \in Seq(Columns.trips)
  /\ stop_times \in Seq(Columns.stop_times) /\ transfers \in Seq(Columns.transfers)
  /\ stats \in [Counter -> Nat]

(* The index is of the stops read, which are read once and have distances. *)
DistancesKnown == \A a, b \in valid_stop_ids : haversine_m[a, b] \in Nat
IndexInv ==
  /\ DOMAIN stop_index_map = valid_stop_ids
  /\ at <= 2 => stops = << >>
  /\ \A id \in valid_stop_ids : stop_index_map[id] \in Nat
  /\ IndexNamesStop
  /\ DistancesKnown

(* A load that still goes on has not failed, and its rows have outcomes.   *)
CountInv ==
  /\ RowsAccounted
  /\ at < 8 => ~ failed /\ stats.rows_read = Settled

LoadInv == TypeOK /\ IndexInv /\ ReferencesHold /\ CountInv

(* A loader's counters and where main goes after it.                       *)
LEMMA NextCall ==
  ASSUME at \in 1 .. 9, NEW thrown \in BOOLEAN, Proceeds(thrown)
  PROVE  at' = (IF thrown THEN 8 ELSE at + 1) /\ failed' = thrown
<1>1. SelectInSeq(Calls, LAMBDA c : c = "choose_graph") = 8
  <2> DEFINE I == {i \in 1 .. Len(Calls) : Calls[i] = "choose_graph"}
  <2>1. I = {8}
    <3>1. Len(Calls) = 9
      BY DEF Calls
    <3>2. \A i \in 1 .. 9 : Calls[i] = "choose_graph" <=> i = 8
      BY DEF Calls
    <3> QED
      BY <3>1, <3>2
  <2>2. Min({8}) = 8
    <3>1. {8} \in SUBSET Nat /\ {8} # {}
      OBVIOUS
    <3> QED
      BY <3>1, MinIsLeast
  <2>3. SelectInSeq(Calls, LAMBDA c : c = "choose_graph") = IF I # {} THEN Min(I) ELSE 0
    BY DEF SelectInSeq
  <2> HIDE DEF I
  <2> QED
    BY <2>1, <2>2, <2>3
<1> QED
  BY <1>1 DEF Proceeds

LEMMA ReadsFacts ==
  ASSUME TypeOK, CountInv, at < 8, NEW table \in CountedTables, Reads(table)
  PROVE  /\ at' \in {at + 1, 8} /\ failed' \in BOOLEAN /\ stats' \in [Counter -> Nat]
         /\ stats'.rows_accepted = stats.rows_accepted + Len(Kept(table))
         /\ Settled' <= stats'.rows_read
         /\ stats'.rows_read <= Settled' + (IF failed' THEN 1 ELSE 0)
         /\ at' < 8 => ~ failed' /\ stats'.rows_read = Settled'
<1>1. /\ at \in 1 .. 9 /\ files \in Directories /\ stats \in [Counter -> Nat] /\ ~ failed
      /\ stats.rows_read = Settled
  BY DEF TypeOK, CountInv
<1>2. table \in DOMAIN Columns /\ (files[table] = Missing \/ files[table] \in Seq(Columns[table]))
  BY <1>1, DirectoriesAssumption DEF CountedTables
<1>3. /\ stats.rows_read \in Nat /\ stats.rows_accepted \in Nat
      /\ stats.rows_dropped_fk \in Nat /\ stats.rows_dropped_fmt \in Nat
  BY <1>1 DEF Counter, Outcomes
<1>4. CASE files[table] = Missing
  <2>1. Proceeds(TRUE) /\ stats' = stats
    BY <1>4 DEF Reads
  <2>2. at' = 8 /\ failed' = TRUE
    BY <1>1, <2>1, NextCall
  <2>3. Len(Kept(table)) = 0
    BY <1>2, <1>4, KeptFacts
  <2> QED
    BY <1>1, <1>3, <2>1, <2>2, <2>3 DEF Settled
<1>5. CASE files[table] # Missing
  <2>1. Proceeds(Throws(table)) /\ stats' = Counted(table)
    BY <1>5 DEF Reads
  <2>2. at' = (IF Throws(table) THEN 8 ELSE at + 1) /\ failed' = Throws(table)
    <3>1. Throws(table) \in BOOLEAN
      BY DEF Throws
    <3> QED
      BY <1>1, <2>1, <3>1, NextCall
  <2> DEFINE n == Len(Rows(table))
             a == Cardinality(Places(table, "rows_accepted"))
             b == Cardinality(Places(table, "rows_dropped_fk"))
             c == Cardinality(Places(table, "rows_dropped_fmt"))
             d == Cardinality(Places(table, "thrown"))
  <2>3. /\ n \in Nat /\ a \in Nat /\ b \in Nat /\ c \in Nat /\ d \in Nat
        /\ n = a + b + c + d /\ d = IF Throws(table) THEN 1 ELSE 0
    BY <1>2, <1>5, PlacesFacts DEF Outcomes
  <2>4. Len(Kept(table)) = a
    BY <1>2, <1>5, KeptFacts
  <2>5. stats' \in [Counter -> Nat] /\ stats'.rows_read = stats.rows_read + n
    BY <1>1, <1>2, <1>5, <2>1, CountedFacts
  <2>6. /\ stats'.rows_accepted = stats.rows_accepted + a
        /\ stats'.rows_dropped_fk = stats.rows_dropped_fk + b
        /\ stats'.rows_dropped_fmt = stats.rows_dropped_fmt + c
    <3>1. \A o \in Outcomes : stats'[o] = stats[o] + Cardinality(Places(table, o))
      BY <1>1, <1>2, <1>5, <2>1, CountedFacts
    <3> QED
      BY <3>1 DEF Outcomes
  <2> HIDE DEF n, a, b, c, d
  <2>7. stats'.rows_read = Settled' + d
    BY <1>1, <1>3, <2>3, <2>5, <2>6 DEF Settled
  <2>8. Settled' \in Nat
    BY <1>3, <2>3, <2>6 DEF Settled
  <2>9. d = IF failed' THEN 1 ELSE 0
    BY <2>2, <2>3
  <2>10. at' < 8 => ~ failed'
    BY <2>2
  <2>11. /\ at' \in {at + 1, 8} /\ failed' \in BOOLEAN
    BY <2>2 DEF Throws
  <2>12. /\ Settled' <= stats'.rows_read
         /\ stats'.rows_read <= Settled' + (IF failed' THEN 1 ELSE 0)
         /\ ~ failed' => stats'.rows_read = Settled'
    <3>5. PICK x \in Nat : x = Settled'
      BY <2>8
    <3>1. PICK y, z : x = Settled' /\ y = stats'.rows_read /\ z = IF failed' THEN 1 ELSE 0
      BY <3>5
    <3>2. y = x + d /\ z = d
      BY <2>7, <2>9, <3>1
    <3>3. x <= y /\ y <= x + z
      BY <2>3, <3>2
    <3>4. ASSUME ~ failed'  PROVE  d = 0
      BY <2>9, <3>4
    <3>6. d = 0 => y = x
      BY <3>2
    <3> QED
      BY <3>1, <3>3, <3>4, <3>6
  <2> QED
    BY <2>4, <2>5, <2>6, <2>10, <2>11, <2>12
<1> QED
  BY <1>4, <1>5

-----------------------------------------------------------------------------
(* interpolate_stop_times on rows in order, between whose stops there are  *)
(* distances.                                                              *)
Row == Columns.stop_times
Leg(rows, m) == haversine_m[rows[m - 1].stop_id, rows[m].stop_id]
Measured(rows) ==
  \A i, j \in DOMAIN rows : haversine_m[rows[i].stop_id, rows[j].stop_id] \in Nat

IsWay(f, rows, p, k) == f = [m \in p .. k |-> IF m = p THEN 0 ELSE f[m - 1] + Leg(rows, m)]

LEMMA LegFacts ==
  ASSUME NEW rows \in Seq(Row), Measured(rows),
         NEW p \in DOMAIN rows, NEW k \in DOMAIN rows, NEW m \in p + 1 .. k
  PROVE  Leg(rows, m) \in Nat
<1>1. PICK n \in Nat : DOMAIN rows = 1 .. n
  OBVIOUS
<1>2. m \in 1 .. n /\ m - 1 \in 1 .. n
  BY <1>1
<1> QED
  BY <1>1, <1>2 DEF Measured, Leg

LEMMA WayExists ==
  ASSUME NEW rows \in Seq(Row), Measured(rows),
         NEW p \in DOMAIN rows, NEW k \in DOMAIN rows, p <= k
  PROVE  \E f : IsWay(f, rows, p, k) /\ Way(rows, p, k) = f[k]
<1>1. p \in Nat /\ k \in Nat /\ k - p \in Nat
  <2>1. PICK n \in Nat : DOMAIN rows = 1 .. n
    OBVIOUS
  <2> QED
    BY <2>1
<1> DEFINE d == k - p
           step == [i \in 1 .. d |-> [x \in Nat |-> x + Leg(rows, p + i)]]
<1>2. \A i \in 1 .. d : p + i \in p + 1 .. k
  BY <1>1
<1>3. \A i \in 1 .. d : Leg(rows, p + i) \in Nat
  BY <1>2, LegFacts
<1>4. step \in [1 .. d -> [Nat -> Nat]]
  BY <1>3
<1>5. \A i \in 1 .. d, x \in Nat : step[i][x] = x + Leg(rows, p + i)
  OBVIOUS
<1>6. d \in Nat /\ 0 \in Nat
  BY <1>1
<1> HIDE DEF step
<1>7. PICK g : g \in Iterations(d, Nat, 0, step)
  <2> HIDE DEF d
  <2> QED
    BY <1>4, <1>6, RunExists
<1>8. g \in [0 .. d -> Nat] /\ g[0] = 0 /\ \A i \in 1 .. d : g[i] = step[i][g[i - 1]]
  BY <1>7 DEF Iterations
<1>9. \A i \in 1 .. d : g[i] = g[i - 1] + Leg(rows, p + i)
  <2> SUFFICES ASSUME NEW i \in 1 .. d  PROVE  g[i] = g[i - 1] + Leg(rows, p + i)
    OBVIOUS
  <2>1. i - 1 \in 0 .. d
    BY <1>6
  <2> QED
    BY <1>5, <1>8, <2>1
<1> DEFINE f == [m \in p .. k |-> g[m - p]]
           next(h, m) == IF m = p THEN 0 ELSE h[m - 1] + Leg(rows, m)
<1>10. ASSUME NEW m \in p .. k  PROVE  f[m] = next(f, m)
  <2>1. CASE m = p
    BY <1>1, <1>8, <2>1
  <2>2. CASE m # p
    <3>1. m - 1 \in p .. k /\ m - p \in 1 .. d /\ (m - p) - 1 = (m - 1) - p /\ p + (m - p) = m
      BY <1>1, <2>2
    <3>2. g[m - p] = g[(m - 1) - p] + Leg(rows, m)
      BY <1>9, <3>1
    <3> QED
      BY <2>2, <3>1, <3>2
  <2> QED
    BY <2>1, <2>2
<1>11. f = [m \in p .. k |-> next(f, m)]
  <2>1. DOMAIN f = p .. k
    OBVIOUS
  <2> HIDE DEF next
  <2> QED
    BY <1>10
<1> HIDE DEF f
<1>12. \E h : h = [m \in p .. k |-> next(h, m)]
  BY <1>11
<1> DEFINE h == CHOOSE h : h = [m \in p .. k |-> next(h, m)]
<1>13. h = [m \in p .. k |-> next(h, m)]
  <2> HIDE DEF next
  <2> QED
    BY <1>12
<1>14. Way(rows, p, k) = h[k]
  BY DEF Way, Leg
<1> HIDE DEF h
<1>15. IsWay(h, rows, p, k)
  BY <1>13 DEF IsWay
<1> QED
  BY <1>14, <1>15

(* All ways from p are along one of them, and the way only grows.          *)
LEMMA WayFacts ==
  ASSUME NEW rows \in Seq(Row), Measured(rows),
         NEW p \in DOMAIN rows, NEW n \in DOMAIN rows, p <= n
  PROVE  /\ \A k \in p .. n : Way(rows, p, k) \in Nat
         /\ \A k \in p .. n : \A l \in k .. n : Way(rows, p, k) <= Way(rows, p, l)
<1>1. p \in Nat /\ n \in Nat /\ p .. n \subseteq DOMAIN rows
  <2>1. PICK m \in Nat : DOMAIN rows = 1 .. m
    OBVIOUS
  <2>2. p \in 1 .. m /\ n \in 1 .. m
    BY <2>1
  <2> QED
    BY <2>1, <2>2
<1>2. PICK f : IsWay(f, rows, p, n)
  BY WayExists
<1>3. \A m \in p .. n : f[m] = IF m = p THEN 0 ELSE f[m - 1] + Leg(rows, m)
  BY <1>2 DEF IsWay
<1>4. \A m \in p + 1 .. n : Leg(rows, m) \in Nat
  BY LegFacts
<1> DEFINE d == n - p
<1>5. d \in Nat
  BY <1>1
<1>6. \A m \in p .. n : f[m] \in Nat
  <2> DEFINE Fine == {i \in 0 .. d : f[p + i] \in Nat}
  <2>1. 0 \in Fine
    <3>1. p \in p .. n /\ p + 0 = p /\ 0 \in 0 .. d
      BY <1>1
    <3> QED
      BY <1>3, <3>1
  <2>2. ASSUME NEW i \in 0 .. d - 1, i \in Fine  PROVE  i + 1 \in Fine
    <3>1. p + (i + 1) \in p + 1 .. n /\ p + (i + 1) \in p .. n
      BY <1>1
    <3>2. p + (i + 1) # p /\ (p + (i + 1)) - 1 = p + i
      BY <1>1
    <3>3. i + 1 \in 0 .. d
      BY <1>1
    <3>4. f[p + (i + 1)] = f[p + i] + Leg(rows, p + (i + 1))
      BY <1>3, <3>1, <3>2
    <3>5. f[p + i] \in Nat /\ Leg(rows, p + (i + 1)) \in Nat
      BY <1>4, <2>2, <3>1
    <3> QED
      BY <3>3, <3>4, <3>5
  <2> HIDE DEF Fine, d
  <2>3. 0 .. d \subseteq Fine
    BY <1>5, <2>1, <2>2, UpTo
  <2> SUFFICES ASSUME NEW m \in p .. n  PROVE  f[m] \in Nat
    OBVIOUS
  <2>4. m - p \in 0 .. d /\ p + (m - p) = m
    BY <1>1 DEF d
  <2> QED
    BY <2>3, <2>4 DEF Fine
<1>7. ASSUME NEW k \in p .. n  PROVE  Way(rows, p, k) = f[k]
  <2>1. k \in Nat /\ k \in DOMAIN rows /\ p <= k
    BY <1>1
  <2>2. PICK h : IsWay(h, rows, p, k) /\ Way(rows, p, k) = h[k]
    BY <2>1, WayExists
  <2>3. \A m \in p .. k : h[m] = IF m = p THEN 0 ELSE h[m - 1] + Leg(rows, m)
    BY <2>2 DEF IsWay
  <2> DEFINE c == k - p
             Fine == {i \in 0 .. c : h[p + i] = f[p + i]}
  <2>4. c \in Nat
    BY <1>1, <2>1
  <2>5. 0 \in Fine
    <3>1. p \in p .. n /\ p \in p .. k /\ p + 0 = p /\ 0 \in 0 .. c
      BY <1>1, <2>1
    <3> QED
      BY <1>3, <2>3, <3>1
  <2>6. ASSUME NEW i \in 0 .. c - 1, i \in Fine  PROVE  i + 1 \in Fine
    <3>1. p + (i + 1) \in p .. k /\ p + (i + 1) \in p .. n
      BY <1>1, <2>1
    <3>2. p + (i + 1) # p /\ (p + (i + 1)) - 1 = p + i
      BY <1>1, <2>1
    <3>3. i + 1 \in 0 .. c
      BY <1>1, <2>1
    <3>4. f[p + (i + 1)] = f[p + i] + Leg(rows, p + (i + 1))
      BY <1>3, <3>1, <3>2
    <3>5. h[p + (i + 1)] = h[p + i] + Leg(rows, p + (i + 1))
      BY <2>3, <3>1, <3>2
    <3> QED
      BY <2>6, <3>3, <3>4, <3>5
  <2> HIDE DEF Fine, c
  <2>7. 0 .. c \subseteq Fine
    BY <2>4, <2>5, <2>6, UpTo
  <2>8. c \in Fine /\ p + c = k
    BY <1>1, <2>1, <2>4, <2>7 DEF c
  <2> QED
    BY <2>2, <2>8 DEF Fine
<1>8. ASSUME NEW k \in p .. n, NEW l \in k .. n  PROVE  f[k] <= f[l]
  <2> DEFINE c == l - k
             Fine == {i \in 0 .. c : f[k] <= f[k + i]}
  <2>1. k \in Nat /\ l \in Nat /\ c \in Nat
    BY <1>1
  <2>2. 0 \in Fine
    <3>1. k + 0 = k /\ 0 \in 0 .. c /\ f[k] <= f[k]
      BY <1>6, <2>1
    <3> QED
      BY <3>1
  <2>3. ASSUME NEW i \in 0 .. c - 1, i \in Fine  PROVE  i + 1 \in Fine
    <3>1. /\ k + (i + 1) \in p .. n /\ k + (i + 1) # p /\ k + (i + 1) \in p + 1 .. n
          /\ (k + (i + 1)) - 1 = k + i /\ i + 1 \in 0 .. c /\ k + i \in p .. n
      BY <1>1, <2>1
    <3>2. f[k + (i + 1)] = f[k + i] + Leg(rows, k + (i + 1))
      BY <1>3, <3>1
    <3>3. f[k + i] \in Nat /\ Leg(rows, k + (i + 1)) \in Nat /\ f[k] \in Nat /\ f[k] <= f[k + i]
      BY <1>4, <1>6, <2>3, <3>1
    <3>4. f[k] <= f[k + (i + 1)]
      BY <3>2, <3>3
    <3> QED
      BY <3>1, <3>4
  <2> HIDE DEF Fine, c
  <2>4. 0 .. c \subseteq Fine
    BY <2>1, <2>2, <2>3, UpTo
  <2>5. c \in Fine /\ k + c = l
    BY <2>1, <2>4 DEF c
  <2> QED
    BY <2>5 DEF Fine
<1>9. ASSUME NEW k \in p .. n, NEW l \in k .. n  PROVE  Way(rows, p, k) <= Way(rows, p, l)
  <2>1. l \in p .. n
    BY <1>1
  <2> QED
    BY <1>7, <1>8, <2>1
<1> QED
  BY <1>6, <1>7, <1>9

(* A part of the whole, cut to a whole number.                             *)
LEMMA Scaled ==
  ASSUME NEW a \in Nat, NEW b \in Nat, NEW w \in Nat \ {0}, NEW dt \in Nat, a <= b, b <= w
  PROVE  /\ (a * dt) \div w \in 0 .. dt
         /\ (a * dt) \div w <= (b * dt) \div w
<1>1. ASSUME NEW x \in Nat, NEW y \in Nat, x <= y  PROVE  x * dt \in Nat /\ x * dt <= y * dt
  BY <1>1
<1>2. ASSUME NEW x \in Nat, NEW y \in Nat, x <= y  PROVE  x \div w <= y \div w
  <2>1. /\ x \div w \in Nat /\ w * (x \div w) <= x
        /\ y \div w \in Nat /\ y < w * (y \div w) + w
    OBVIOUS
  <2>2. PICK q \in Nat, r \in Nat : q = x \div w /\ r = y \div w
    BY <2>1
  <2>3. w * q < w * r + w
    <3>1. w * q \in Nat /\ w * r \in Nat
      OBVIOUS
    <3> QED
      BY <1>2, <2>1, <2>2, <3>1
  <2>4. ASSUME q > r  PROVE  FALSE
    <3>1. w * q >= w * (r + 1)
      BY <2>4
    <3>2. w * (r + 1) = w * r + w
      OBVIOUS
    <3>3. w * q \in Nat /\ w * r \in Nat
      OBVIOUS
    <3> QED
      BY <2>3, <3>1, <3>2, <3>3
  <2> QED
    BY <2>2, <2>4
<1>3. (w * dt) \div w = dt
  <2>1. w * dt \in Nat /\ (w * dt) \div w \in Nat
    OBVIOUS
  <2>2. w * ((w * dt) \div w) <= w * dt /\ w * dt < w * ((w * dt) \div w) + w
    BY <2>1
  <2>3. PICK q \in Nat : q = (w * dt) \div w
    BY <2>1
  <2>4. w * q <= w * dt /\ w * dt < w * q + w
    BY <2>2, <2>3
  <2>5. ASSUME q < dt  PROVE  FALSE
    <3>1. w * dt >= w * (q + 1) /\ w * (q + 1) = w * q + w /\ w * q \in Nat /\ w * dt \in Nat
      BY <2>5
    <3> QED
      BY <2>4, <3>1
  <2>6. ASSUME q > dt  PROVE  FALSE
    <3>1. w * q >= w * (dt + 1) /\ w * (dt + 1) = w * dt + w /\ w * q \in Nat /\ w * dt \in Nat
      BY <2>6
    <3> QED
      BY <2>4, <3>1
  <2> QED
    BY <2>3, <2>5, <2>6
<1>4. (a * dt) \div w <= (b * dt) \div w
  BY <1>1, <1>2
<1>5. (b * dt) \div w <= dt
  <2>1. b * dt \in Nat /\ w * dt \in Nat /\ b * dt <= w * dt
    BY <1>1
  <2> QED
    BY <1>2, <1>3, <2>1
<1>6. (a * dt) \div w \in Nat /\ (b * dt) \div w \in Nat
  <2>1. a * dt \in Nat /\ b * dt \in Nat
    OBVIOUS
  <2> QED
    BY <2>1
<1> QED
  BY <1>4, <1>5, <1>6

(* The share of the time between two timepoints grows up to all of it.     *)
LEMMA ShareFacts ==
  ASSUME NEW rows \in Seq(Row), Measured(rows),
         NEW p \in DOMAIN rows, NEW n \in DOMAIN rows, p < n, NEW dt \in Nat,
         NEW k \in p .. n, NEW l \in k .. n
  PROVE  Share(rows, p, n, k, dt) \in 0 .. dt /\ Share(rows, p, n, k, dt) <= Share(rows, p, n, l, dt)
<1>1. p \in Nat /\ n \in Nat /\ k \in Nat /\ l \in Nat
  <2>1. PICK m \in Nat : DOMAIN rows = 1 .. m
    OBVIOUS
  <2> QED
    BY <2>1
<1> DEFINE a == Way(rows, p, k)
           b == Way(rows, p, l)
           w == Way(rows, p, n)
<1>2. a \in Nat /\ b \in Nat /\ w \in Nat /\ a <= b /\ b <= w
  <2>1. l \in p .. n /\ n \in p .. n /\ n \in l .. n /\ p <= n
    BY <1>1
  <2> QED
    BY <2>1, WayFacts
<1> HIDE DEF a, b, w
<1>3. CASE w > 0
  <2>1. /\ Share(rows, p, n, k, dt) = (a * dt) \div w
        /\ Share(rows, p, n, l, dt) = (b * dt) \div w
    BY <1>3 DEF Share, a, b, w
  <2> QED
    BY <1>2, <1>3, <2>1, Scaled
<1>4. CASE ~ (w > 0)
  <2>1. /\ Share(rows, p, n, k, dt) = ((k - p) * dt) \div (n - p)
        /\ Share(rows, p, n, l, dt) = ((l - p) * dt) \div (n - p)
    BY <1>4 DEF Share, w
  <2>2. k - p \in Nat /\ l - p \in Nat /\ n - p \in Nat \ {0} /\ k - p <= l - p /\ l - p <= n - p
    BY <1>1
  <2> QED
    BY <2>1, <2>2, Scaled
<1> QED
  BY <1>3, <1>4

LEMMA RowFields ==
  ASSUME NEW r \in Row
  PROVE  /\ r.trip_id \in Nat /\ r.stop_sequence \in Nat /\ r.stop_id \in Nat
         /\ r.arrival_time \in Nat /\ r.arrival_time <= UINT32_MAX
         /\ r.departure_time \in Nat /\ r.departure_time <= UINT32_MAX
BY SentinelAssumption DEF Row, Columns

LEMMA AtFacts ==
  ASSUME NEW r \in Row, NEW a \in Nat, NEW d \in Nat, a <= UINT32_MAX, d <= UINT32_MAX
  PROVE  /\ At(r, a, d) \in Row
         /\ At(r, a, d).arrival_time = a /\ At(r, a, d).departure_time = d
         /\ At(r, a, d).trip_id = r.trip_id /\ At(r, a, d).stop_id = r.stop_id
         /\ At(r, a, d).stop_sequence = r.stop_sequence
<1> DEFINE s == At(r, a, d)
<1>1. /\ s.arrival_time = a /\ s.departure_time = d
      /\ s.trip_id = r.trip_id /\ s.stop_id = r.stop_id /\ s.stop_sequence = r.stop_sequence
  BY DEF At, Row, Columns
<1>2. s \in Row
  <2>1. a \in 0 .. UINT32_MAX /\ d \in 0 .. UINT32_MAX
    BY SentinelAssumption
  <2> QED
    BY <2>1 DEF At, Row, Columns
<1> QED
  BY <1>1, <1>2

(* A time between two timepoints that are in order is between theirs, and  *)
(* later rows are not earlier; with timepoints out of order it is the      *)
(* departure of the first.                                                 *)
LEMMA BetweenFacts ==
  ASSUME NEW rows \in Seq(Row), Measured(rows),
         NEW p \in DOMAIN rows, NEW n \in DOMAIN rows, p < n,
         NEW k \in p .. n, NEW l \in k .. n
  PROVE  LET b == Between(rows, p, n, k)
             t_prev == rows[p].departure_time
             t_next == rows[n].arrival_time
         IN  /\ b \in Nat /\ b <= UINT32_MAX /\ t_prev <= b
             /\ t_prev <= t_next => b <= t_next
             /\ b <= Between(rows, p, n, l)
             /\ t_prev # UINT32_MAX /\ t_next # UINT32_MAX => b # UINT32_MAX
<1> DEFINE t_prev == rows[p].departure_time
           t_next == rows[n].arrival_time
           b == Between(rows, p, n, k)
           c == Between(rows, p, n, l)
<1>1. rows[p] \in Row /\ rows[n] \in Row
  OBVIOUS
<1>2. /\ t_prev \in Nat /\ t_prev <= UINT32_MAX
      /\ t_next \in Nat /\ t_next <= UINT32_MAX
  BY <1>1, RowFields
<1>3. CASE t_next > t_prev
  <2> DEFINE dt == t_next - t_prev
             s == Share(rows, p, n, k, dt)
             t == Share(rows, p, n, l, dt)
  <2>1. dt \in Nat
    BY <1>2, <1>3
  <2>2. b = t_prev + s /\ c = t_prev + t
    BY <1>3 DEF Between
  <2> HIDE DEF b, c
  <2>3. s \in 0 .. dt /\ s <= t /\ t \in 0 .. dt
    <3> HIDE DEF dt
    <3>1. l \in p .. n /\ l \in l .. n
      <4>1. PICK m \in Nat : DOMAIN rows = 1 .. m
        OBVIOUS
      <4> QED
        BY <4>1
    <3> QED
      BY <2>1, <3>1, ShareFacts
  <2>4. /\ s \in Nat /\ t \in Nat /\ s <= dt /\ s <= t
        /\ dt = t_next - t_prev
    BY <2>1, <2>3
  <2> HIDE DEF s, t, dt, t_prev, t_next
  <2>5. b \in Nat /\ t_prev <= b /\ b <= t_next /\ b <= c
    BY <1>2, <2>1, <2>2, <2>4
  <2>6. b <= UINT32_MAX /\ (t_next # UINT32_MAX => b # UINT32_MAX)
    BY <1>2, <2>5, SentinelAssumption
  <2> QED
    BY <2>5, <2>6 DEF b, c, t_prev, t_next
<1>4. CASE ~ (t_next > t_prev)
  <2>1. b = t_prev /\ c = t_prev
    BY <1>4 DEF Between
  <2> QED
    BY <1>2, <1>4, <2>1, SentinelAssumption
<1> QED
  BY <1>3, <1>4

(* The timepoints around a row.                                            *)
LEMMA AroundFacts ==
  ASSUME NEW rows \in Seq(Row), NEW k \in DOMAIN rows
  PROVE  LET e == Earlier(rows, k)
             l == Later(rows, k)
         IN  /\ \A i \in e \cup l : i \in DOMAIN rows /\ Timed(rows[i]) /\ SameTrip(rows, i, k)
             /\ \A i \in e : i < k
             /\ \A i \in l : k < i
             /\ e # {} => Max(e) \in e /\ \A i \in e : i <= Max(e)
             /\ l # {} => Min(l) \in l /\ \A i \in l : Min(l) <= i
<1> DEFINE e == Earlier(rows, k)
           l == Later(rows, k)
<1>1. PICK n \in Nat : n = Len(rows) /\ DOMAIN rows = 1 .. n /\ k \in 1 .. n
  OBVIOUS
<1>2. /\ e \in SUBSET (0 .. n) /\ l \in SUBSET Nat
      /\ \A i \in e : i < k
      /\ \A i \in l : k < i
      /\ \A i \in e \cup l : i \in DOMAIN rows /\ Timed(rows[i]) /\ SameTrip(rows, i, k)
  BY <1>1 DEF Earlier, Later
<1> HIDE DEF e, l
<1>3. e # {} => Max(e) \in e /\ \A i \in e : i <= Max(e)
  BY <1>1, <1>2, MaxIsGreatest
<1>4. l # {} => Min(l) \in l /\ \A i \in l : Min(l) <= i
  BY <1>2, MinIsLeast
<1> QED
  BY <1>2, <1>3, <1>4 DEF e, l

(* What becomes of a row: a timed one, and one of a trip without a         *)
(* timepoint, stays; a blank takes times made from those of timepoints.    *)
LEMMA FilledFacts ==
  ASSUME NEW rows \in Seq(Row), Measured(rows), NEW k \in DOMAIN rows
  PROVE  LET r == rows[k]
             f == Filled(rows, k)
             e == Earlier(rows, k)
             l == Later(rows, k)
         IN  /\ f \in Row /\ f.trip_id = r.trip_id /\ f.stop_id = r.stop_id
             /\ f.stop_sequence = r.stop_sequence
             /\ Timed(r) \/ (e = {} /\ l = {}) => f = r
             /\ ~ Timed(r) /\ e = {} /\ l # {} =>
                  /\ f.arrival_time = rows[Min(l)].arrival_time
                  /\ f.departure_time = rows[Min(l)].departure_time
             /\ ~ Timed(r) /\ e # {} /\ l = {} =>
                  /\ f.arrival_time = rows[Max(e)].arrival_time
                  /\ f.departure_time = rows[Max(e)].departure_time
             /\ ~ Timed(r) /\ e # {} /\ l # {} =>
                  /\ f.arrival_time = Between(rows, Max(e), Min(l), k)
                  /\ f.departure_time = Between(rows, Max(e), Min(l), k)
<1> DEFINE r == rows[k]
           f == Filled(rows, k)
           e == Earlier(rows, k)
           l == Later(rows, k)
<1>1. r \in Row
  OBVIOUS
<1>2. CASE Timed(r) \/ (e = {} /\ l = {})
  <2>1. f = r
    BY <1>2 DEF Filled
  <2> HIDE DEF f, r, e, l
  <2> QED
    BY <1>1, <1>2, <2>1 DEF f, r, e, l
<1>3. CASE ~ Timed(r) /\ e = {} /\ l # {}
  <2> DEFINE m == rows[Min(l)]
  <2>1. m \in Row
    BY <1>3, AroundFacts
  <2>2. f = At(r, m.arrival_time, m.departure_time)
    BY <1>3 DEF Filled
  <2>3. /\ m.arrival_time \in Nat /\ m.arrival_time <= UINT32_MAX
        /\ m.departure_time \in Nat /\ m.departure_time <= UINT32_MAX
    BY <2>1, RowFields
  <2> HIDE DEF f, r, e, l, m
  <2> QED
    BY <1>1, <1>3, <2>2, <2>3, AtFacts DEF f, r, e, l, m
<1>4. CASE ~ Timed(r) /\ e # {} /\ l = {}
  <2> DEFINE m == rows[Max(e)]
  <2>1. m \in Row
    BY <1>4, AroundFacts
  <2>2. f = At(r, m.arrival_time, m.departure_time)
    BY <1>4 DEF Filled
  <2>3. /\ m.arrival_time \in Nat /\ m.arrival_time <= UINT32_MAX
        /\ m.departure_time \in Nat /\ m.departure_time <= UINT32_MAX
    BY <2>1, RowFields
  <2> HIDE DEF f, r, e, l, m
  <2>4. /\ f \in Row /\ f.trip_id = r.trip_id /\ f.stop_id = r.stop_id
        /\ f.stop_sequence = r.stop_sequence
        /\ f.arrival_time = m.arrival_time /\ f.departure_time = m.departure_time
    BY <1>1, <2>2, <2>3, AtFacts
  <2> QED
    BY <1>4, <2>4 DEF f, r, e, l, m
<1>5. CASE ~ Timed(r) /\ e # {} /\ l # {}
  <2> DEFINE b == Between(rows, Max(e), Min(l), k)
  <2>1. f = At(r, b, b)
    BY <1>5 DEF Filled
  <2>2. b \in Nat /\ b <= UINT32_MAX
    <3> DEFINE p == Max(e)
               n == Min(l)
    <3>1. p \in DOMAIN rows /\ n \in DOMAIN rows /\ p < k /\ k < n
      BY <1>5, AroundFacts
    <3>2. p < n /\ k \in p .. n /\ k \in k .. n
      <4>1. PICK m \in Nat : DOMAIN rows = 1 .. m
        OBVIOUS
      <4> HIDE DEF p, n
      <4> QED
        BY <3>1, <4>1
    <3> HIDE DEF p, n
    <3>3. Between(rows, p, n, k) \in Nat /\ Between(rows, p, n, k) <= UINT32_MAX
      BY <3>1, <3>2, BetweenFacts
    <3> QED
      BY <3>3 DEF p, n
  <2> HIDE DEF f, r, e, l, b
  <2> QED
    BY <1>1, <1>5, <2>1, <2>2, AtFacts DEF f, r, e, l, b
<1> QED
  BY <1>2, <1>3, <1>4, <1>5

-----------------------------------------------------------------------------
(* The rows in an order of the sort.                                       *)
Sorted(rows, p) == [i \in DOMAIN rows |-> rows[p[i]]]

LEMMA SortedFacts ==
  ASSUME NEW S, NEW rows \in Seq(S), NEW p \in Orders(rows)
  PROVE  LET sorted == Sorted(rows, p)
         IN  /\ sorted \in Seq(S) /\ DOMAIN sorted = DOMAIN rows
             /\ \A i \in DOMAIN rows : p[i] \in DOMAIN rows /\ sorted[i] = rows[p[i]]
             /\ \A i, j \in DOMAIN rows : p[i] = p[j] => i = j
             /\ \A j \in DOMAIN rows : \E i \in DOMAIN rows : p[i] = j
             /\ Len(sorted) = Len(rows) /\ Range(sorted) = Range(rows)
<1>1. PICK n \in Nat : n = Len(rows) /\ DOMAIN rows = 1 .. n
  OBVIOUS
<1>2. /\ p \in [1 .. n -> 1 .. n]
      /\ \A i, j \in 1 .. n : p[i] = p[j] => i = j
      /\ \A j \in 1 .. n : \E i \in 1 .. n : p[i] = j
  <2>1. p \in Bijection(1 .. n, 1 .. n)
    BY <1>1 DEF Orders
  <2>2. p \in [1 .. n -> 1 .. n] /\ IsInjective(p) /\ \A j \in 1 .. n : \E i \in 1 .. n : p[i] = j
    BY <2>1 DEF Bijection, Injection, Surjection
  <2> QED
    BY <2>2 DEF IsInjective
<1> DEFINE sorted == Sorted(rows, p)
<1>3. \A i \in 1 .. n : rows[i] \in S
  BY <1>1
<1>4. sorted = [i \in 1 .. n |-> rows[p[i]]] /\ \A i \in 1 .. n : rows[p[i]] \in S
  BY <1>1, <1>2, <1>3 DEF Sorted
<1> HIDE DEF sorted
<1>5. sorted \in Seq(S) /\ DOMAIN sorted = 1 .. n /\ Len(sorted) = n
  BY <1>4
<1>6. \A i \in 1 .. n : sorted[i] = rows[p[i]]
  BY <1>4
<1>7. Range(sorted) = Range(rows)
  <2>1. ASSUME NEW i \in 1 .. n  PROVE  sorted[i] \in Range(rows)
    <3>1. p[i] \in 1 .. n
      BY <1>2
    <3> QED
      BY <1>1, <1>6, <3>1 DEF Range
  <2>2. ASSUME NEW j \in 1 .. n  PROVE  rows[j] \in Range(sorted)
    <3>1. PICK i \in 1 .. n : p[i] = j
      BY <1>2
    <3>2. sorted[i] = rows[j] /\ i \in DOMAIN sorted
      BY <1>5, <1>6, <3>1
    <3> QED
      BY <3>2 DEF Range
  <2>3. /\ Range(sorted) = {sorted[i] : i \in 1 .. n}
        /\ Range(rows) = {rows[j] : j \in 1 .. n}
    BY <1>1, <1>5 DEF Range
  <2> QED
    BY <2>1, <2>2, <2>3
<1> QED
  BY <1>1, <1>2, <1>5, <1>6, <1>7 DEF sorted

(* Filling the blanks keeps the rows and what they name.                   *)
LEMMA InterpolatedFacts ==
  ASSUME NEW rows \in Seq(Row), Measured(rows)
  PROVE  /\ Interpolated(rows) \in Seq(Row) /\ Len(Interpolated(rows)) = Len(rows)
         /\ DOMAIN Interpolated(rows) = DOMAIN rows
         /\ \A k \in DOMAIN rows :
              /\ Interpolated(rows)[k] = Filled(rows, k)
              /\ Filled(rows, k).trip_id = rows[k].trip_id
              /\ Filled(rows, k).stop_id = rows[k].stop_id
              /\ Filled(rows, k).stop_sequence = rows[k].stop_sequence
         /\ Interpolations(rows) \in Nat
<1>1. PICK n \in Nat : n = Len(rows) /\ DOMAIN rows = 1 .. n
  OBVIOUS
<1>2. \A k \in 1 .. n : /\ Filled(rows, k) \in Row
                        /\ Filled(rows, k).trip_id = rows[k].trip_id
                        /\ Filled(rows, k).stop_id = rows[k].stop_id
                        /\ Filled(rows, k).stop_sequence = rows[k].stop_sequence
  BY <1>1, FilledFacts
<1>3. Interpolated(rows) = [k \in 1 .. n |-> Filled(rows, k)]
  BY <1>1 DEF Interpolated
<1>4. /\ Interpolated(rows) \in Seq(Row) /\ DOMAIN Interpolated(rows) = 1 .. n
      /\ Len(Interpolated(rows)) = n
      /\ \A k \in 1 .. n : Interpolated(rows)[k] = Filled(rows, k)
  BY <1>2, <1>3
<1>5. Interpolations(rows) \in Nat
  <2> DEFINE blanks == {k \in 1 .. n : ~ Timed(rows[k]) /\ Earlier(rows, k) \cup Later(rows, k) # {}}
  <2>1. blanks \in SUBSET (1 .. n) /\ IsFiniteSet(1 .. n)
    BY <1>1, FS_Interval
  <2>2. Interpolations(rows) = Cardinality(blanks)
    BY <1>1 DEF Interpolations
  <2> HIDE DEF blanks
  <2> QED
    BY <2>1, <2>2, FS_Subset, FS_CardinalityType
<1> QED
  BY <1>1, <1>2, <1>4, <1>5

LEMMA Joined ==
  ASSUME NEW S, NEW s \in Seq(S), NEW t \in Seq(S)
  PROVE  /\ s \o t \in Seq(S) /\ Len(s \o t) = Len(s) + Len(t)
         /\ Range(s \o t) = Range(s) \cup Range(t)
<1>1. PICK m \in Nat, n \in Nat : /\ m = Len(s) /\ DOMAIN s = 1 .. m
                                  /\ n = Len(t) /\ DOMAIN t = 1 .. n
  OBVIOUS
<1> DEFINE u == s \o t
<1>2. /\ u \in Seq(S) /\ Len(u) = m + n /\ DOMAIN u = 1 .. m + n
      /\ \A i \in 1 .. m : u[i] = s[i]
      /\ \A i \in 1 .. n : u[m + i] = t[i]
  BY <1>1
<1> HIDE DEF u
<1>3. \A i \in 1 .. m : i \in 1 .. m + n
  OBVIOUS
<1>4. \A i \in 1 .. n : m + i \in 1 .. m + n
  OBVIOUS
<1>5. \A i \in 1 .. m + n : i \in 1 .. m \/ \E j \in 1 .. n : i = m + j
  <2> SUFFICES ASSUME NEW i \in 1 .. m + n, i \notin 1 .. m  PROVE  i - m \in 1 .. n /\ i = m + (i - m)
    BY Zenon
  <2> QED
    OBVIOUS
<1>6. Range(u) = Range(s) \cup Range(t)
  <2>1. ASSUME NEW x \in Range(u)  PROVE  x \in Range(s) \cup Range(t)
    <3>1. PICK i \in 1 .. m + n : x = u[i]
      BY <1>2 DEF Range
    <3>2. CASE i \in 1 .. m
      BY <1>1, <1>2, <3>1, <3>2 DEF Range
    <3>3. CASE i \notin 1 .. m
      <4>1. PICK j \in 1 .. n : i = m + j
        BY <1>5, <3>3
      <4>2. x = t[j]
        BY <1>2, <3>1, <4>1
      <4> QED
        BY <1>1, <4>2 DEF Range
    <3> QED
      BY <3>2, <3>3
  <2>2. ASSUME NEW x \in Range(s)  PROVE  x \in Range(u)
    BY <1>1, <1>2, <1>3 DEF Range
  <2>3. ASSUME NEW x \in Range(t)  PROVE  x \in Range(u)
    BY <1>1, <1>2, <1>4 DEF Range
  <2> QED
    BY <2>1, <2>2, <2>3
<1> QED
  BY <1>1, <1>2, <1>6 DEF u

(* What a loader appends of a file.                                        *)
LEMMA KeptRows ==
  ASSUME TypeOK, NEW table \in DOMAIN Columns
  PROVE  /\ Kept(table) \in Seq(Columns[table])
         /\ \A row \in Range(Kept(table)) :
              /\ Verdict(table, row) = "rows_accepted"
              /\ files[table] # Missing /\ row \in Range(files[table])
<1>1. files[table] = Missing \/ files[table] \in Seq(Columns[table])
  BY DirectoriesAssumption DEF TypeOK
<1> QED
  BY <1>1, KeptFacts

LEMMA AtCall ==
  ASSUME at \in 1 .. 9, NEW i \in 1 .. 9, Call(Calls[i])
  PROVE  at = i
<1>1. \A j \in 1 .. 9 : Calls[j] = Calls[i] => j = i
  BY DEF Calls
<1> QED
  BY <1>1 DEF Call

LEMMA NotStops ==
  ASSUME LoadInv, UNCHANGED << stops, stop_index_map >>, at = 1 \/ ~ (at' <= 2)
  PROVE  IndexInv'
<1>1. valid_stop_ids' = valid_stop_ids /\ stops' = stops /\ stop_index_map' = stop_index_map
  BY DEF valid_stop_ids
<1>2. IndexInv /\ at \in 1 .. 9
  BY DEF LoadInv, TypeOK
<1>3. at' <= 2 => stops' = << >>
  BY <1>1, <1>2 DEF IndexInv
<1>4. IndexNamesStop'
  BY <1>1, <1>2 DEF IndexInv, IndexNamesStop
<1>5. DistancesKnown'
  BY <1>1, <1>2 DEF IndexInv, DistancesKnown
<1> QED
  BY <1>1, <1>2, <1>3, <1>4, <1>5 DEF IndexInv

(* The place of the last row of a stop.                                    *)
LEMMA LastPlace ==
  ASSUME NEW read \in Seq(Columns.stops), NEW row \in Range(read)
  PROVE  LET n == Max({i \in DOMAIN read : read[i].stop_id = row.stop_id}) - 1
         IN  n \in Nat /\ n < Len(read) /\ read[n + 1].stop_id = row.stop_id
<1>1. PICK m \in Nat : m = Len(read) /\ DOMAIN read = 1 .. m
  OBVIOUS
<1> DEFINE P == {i \in 1 .. m : read[i].stop_id = row.stop_id}
<1>2. P \in SUBSET (0 .. m) /\ P # {}
  BY <1>1 DEF Range
<1>3. Max(P) \in P
  <2> HIDE DEF P
  <2> QED
    BY <1>2, MaxIsGreatest
<1>4. PICK x \in 1 .. m : x = Max(P) /\ read[x].stop_id = row.stop_id
  BY <1>3
<1>5. x - 1 \in Nat /\ x - 1 < m /\ (x - 1) + 1 = x
  OBVIOUS
<1> QED
  BY <1>1, <1>4, <1>5

LEMMA NoRowsSeq == \A S : << >> \in Seq(S)
OBVIOUS

LEMMA LoadInit == Init => LoadInv
<1> SUFFICES ASSUME Init  PROVE LoadInv
  OBVIOUS
<1>1. Range(<< >>) = {}
  BY DEF Range
<1>2. TypeOK
  <2>1. stats \in [Counter -> Nat]
    BY DEF Init, Counter, Outcomes
  <2>2. /\ agencies \in Seq(Columns.agency) /\ stops \in Seq(Columns.stops)
        /\ routes \in Seq(Columns.routes) /\ trips \in Seq(Columns.trips)
        /\ stop_times \in Seq(Columns.stop_times) /\ transfers \in Seq(Columns.transfers)
    BY NoRowsSeq DEF Init
  <2>3. files \in Directories /\ at \in 1 .. 9 /\ failed \in BOOLEAN
    <3>1. files \in Directories /\ at = 1 /\ failed = FALSE
      BY DEF Init
    <3>2. failed \in BOOLEAN
      BY <3>1, Zenon
    <3> QED
      BY <3>1, <3>2
  <2> QED
    BY <2>1, <2>2, <2>3 DEF TypeOK
<1>3. valid_stop_ids = {}
  BY <1>1 DEF Init, valid_stop_ids
<1>4. IndexInv
  BY <1>3 DEF Init, IndexInv, IndexNamesStop, DistancesKnown
<1>5. ReferencesHold
  BY <1>1 DEF Init, ReferencesHold
<1>6. CountInv
  BY DEF Init, CountInv, RowsAccounted, Settled
<1> QED
  BY <1>2, <1>4, <1>5, <1>6 DEF LoadInv

(* What a loader of a counted table does to the counters and to main.      *)
LEMMA CountStep ==
  ASSUME LoadInv, at < 8, NEW table \in CountedTables, Reads(table),
         Len(agencies') + Len(stops') + Len(routes') + Len(trips') + Len(stop_times')
           = Len(agencies) + Len(stops) + Len(routes) + Len(trips) + Len(stop_times)
               + Len(Kept(table))
  PROVE  /\ CountInv' /\ at' \in 1 .. 9 /\ (at' = at + 1 \/ at' = 8)
         /\ failed' \in BOOLEAN /\ stats' \in [Counter -> Nat]
<1>1. TypeOK /\ CountInv
  BY DEF LoadInv
<1>2. /\ at' \in {at + 1, 8} /\ failed' \in BOOLEAN /\ stats' \in [Counter -> Nat]
      /\ stats'.rows_accepted = stats.rows_accepted + Len(Kept(table))
      /\ Settled' <= stats'.rows_read
      /\ stats'.rows_read <= Settled' + (IF failed' THEN 1 ELSE 0)
      /\ at' < 8 => ~ failed' /\ stats'.rows_read = Settled'
  BY <1>1, ReadsFacts, Zenon
<1>3. at \in 1 .. 9
  BY <1>1 DEF TypeOK
<1>4. stats.rows_accepted = Len(agencies) + Len(stops) + Len(routes) + Len(trips)
                              + Len(stop_times)
  <2>1. RowsAccounted
    BY <1>1 DEF CountInv
  <2> QED
    BY <2>1 DEF RowsAccounted
<1>5. stats'.rows_accepted = Len(agencies') + Len(stops') + Len(routes') + Len(trips')
                              + Len(stop_times')
  BY <1>2, <1>4
<1>6. RowsAccounted'
  BY <1>2, <1>5 DEF RowsAccounted, Settled
<1> QED
  BY <1>2, <1>3, <1>6 DEF CountInv

LEMMA LengthsNat ==
  ASSUME TypeOK
  PROVE  /\ Len(agencies) \in Nat /\ Len(stops) \in Nat /\ Len(routes) \in Nat
         /\ Len(trips) \in Nat /\ Len(stop_times) \in Nat
BY DEF TypeOK

LEMMA AgencyStep ==
  ASSUME LoadInv, load_agency  PROVE  LoadInv'
<1> DEFINE kept == Kept("agency")
<1>1. TypeOK /\ ReferencesHold /\ at = 1
  BY AtCall DEF LoadInv, load_agency, TypeOK, Calls
<1>2. kept \in Seq(Columns.agency)
  BY <1>1, KeptRows DEF Columns
<1> HIDE DEF kept
<1>3. /\ agencies' = agencies \o kept /\ files' = files /\ stops' = stops /\ routes' = routes
      /\ trips' = trips /\ stop_times' = stop_times /\ transfers' = transfers
      /\ stop_index_map' = stop_index_map /\ Reads("agency")
  BY DEF load_agency, Call, kept
<1>4. agencies' \in Seq(Columns.agency) /\ Len(agencies') = Len(agencies) + Len(kept)
  BY <1>1, <1>2, <1>3, Joined DEF TypeOK
<1>5. /\ CountInv' /\ at' \in 1 .. 9 /\ failed' \in BOOLEAN /\ stats' \in [Counter -> Nat]
  <2>1. "agency" \in CountedTables
    BY DEF CountedTables, Columns
  <2>2. Len(kept) \in Nat
    BY <1>2
  <2>3. Len(agencies') + Len(stops') + Len(routes') + Len(trips') + Len(stop_times')
           = Len(agencies) + Len(stops) + Len(routes) + Len(trips) + Len(stop_times)
               + Len(kept)
    BY <1>1, <1>3, <1>4, <2>2, LengthsNat
  <2> QED
    BY <1>1, <1>3, <2>1, <2>3, CountStep DEF kept
<1>6. TypeOK'
  BY <1>1, <1>3, <1>4, <1>5 DEF TypeOK
<1>7. IndexInv'
  BY <1>1, <1>3, NotStops
<1>8. ReferencesHold'
  BY <1>1, <1>3 DEF ReferencesHold, valid_route_ids, valid_trip_ids
<1> QED
  BY <1>5, <1>6, <1>7, <1>8 DEF LoadInv

LEMMA StopsStep ==
  ASSUME LoadInv, load_stops  PROVE  LoadInv'
<1> DEFINE kept == Kept("stops")
<1>1. TypeOK /\ ReferencesHold /\ IndexInv /\ at = 2
  BY AtCall DEF LoadInv, load_stops, TypeOK, Calls
<1>2. /\ kept \in Seq(Columns.stops)
      /\ \A row \in Range(kept) : files.stops # Missing /\ row \in Range(files.stops)
  BY <1>1, KeptRows DEF Columns
<1> HIDE DEF kept
<1>3. /\ stops' = stops \o kept /\ files' = files /\ agencies' = agencies /\ routes' = routes
      /\ trips' = trips /\ stop_times' = stop_times /\ transfers' = transfers
      /\ stop_index_map' = [id \in valid_stop_ids' |-> DenseIndex(id)] /\ Reads("stops")
  BY DEF load_stops, Call, kept
<1>4. stops' \in Seq(Columns.stops) /\ Len(stops') = Len(stops) + Len(kept)
  BY <1>1, <1>2, <1>3, Joined DEF TypeOK
<1>5. /\ CountInv' /\ at' \in 1 .. 9 /\ (at' = at + 1 \/ at' = 8)
      /\ failed' \in BOOLEAN /\ stats' \in [Counter -> Nat]
  <2>1. "stops" \in CountedTables
    BY DEF CountedTables, Columns
  <2>2. Len(kept) \in Nat
    BY <1>2
  <2>3. Len(agencies') + Len(stops') + Len(routes') + Len(trips') + Len(stop_times')
           = Len(agencies) + Len(stops) + Len(routes) + Len(trips) + Len(stop_times)
               + Len(kept)
    BY <1>1, <1>3, <1>4, <2>2, LengthsNat
  <2> QED
    BY <1>1, <1>3, <2>1, <2>3, CountStep DEF kept
<1>6. TypeOK'
  BY <1>1, <1>3, <1>4, <1>5 DEF TypeOK
<1>7. stops = << >> /\ stops' = kept
  <2>1. stops = << >>
    BY <1>1 DEF IndexInv
  <2> QED
    BY <1>2, <1>3, <2>1
<1>8. valid_stop_ids' = {s.stop_id : s \in Range(kept)}
  BY <1>7 DEF valid_stop_ids
<1>9. ASSUME NEW id \in valid_stop_ids'
      PROVE  /\ stop_index_map'[id] \in Nat /\ stop_index_map'[id] < Len(stops')
             /\ stops'[stop_index_map'[id] + 1].stop_id = id
  <2>1. PICK row \in Range(kept) : row.stop_id = id
    BY <1>8
  <2>2. stop_index_map'[id] = Max({i \in DOMAIN kept : kept[i].stop_id = row.stop_id}) - 1
    BY <1>3, <2>1 DEF DenseIndex, kept
  <2> QED
    BY <1>2, <1>7, <2>1, <2>2, LastPlace
<1>10. DOMAIN stop_index_map' = valid_stop_ids'
  BY <1>3
<1>11. DistancesKnown'
  <2>1. ASSUME NEW a \in Range(kept), NEW b \in Range(kept)
        PROVE  haversine_m[a.stop_id, b.stop_id] \in Nat
    <3>1. files \in Directories
      BY <1>1 DEF TypeOK
    <3>2. files.stops # Missing /\ a \in Range(files.stops) /\ b \in Range(files.stops)
      BY <1>2
    <3> QED
      BY <3>1, <3>2, DistancesAssumption, Zenon
  <2> QED
    BY <1>8, <2>1 DEF DistancesKnown
<1>12. IndexInv'
  <2>1. IndexNamesStop'
    BY <1>9, <1>10 DEF IndexNamesStop
  <2>2. ~ (at' <= 2)
    BY <1>1, <1>5
  <2> QED
    BY <1>9, <1>10, <1>11, <2>1, <2>2 DEF IndexInv
<1>13. ReferencesHold'
  <2>1. valid_stop_ids = {}
    <3>1. Range(<< >>) = {}
      BY DEF Range
    <3> QED
      BY <1>7, <3>1 DEF valid_stop_ids
  <2>2. DOMAIN stop_index_map \subseteq DOMAIN stop_index_map'
    BY <1>1, <2>1 DEF IndexInv
  <2> QED
    BY <1>1, <1>3, <2>2 DEF ReferencesHold, valid_route_ids, valid_trip_ids
<1> QED
  BY <1>5, <1>6, <1>12, <1>13 DEF LoadInv

LEMMA RoutesStep ==
  ASSUME LoadInv, load_routes  PROVE  LoadInv'
<1> DEFINE kept == Kept("routes")
<1>1. TypeOK /\ ReferencesHold /\ at = 3
  BY AtCall DEF LoadInv, load_routes, TypeOK, Calls
<1>2. kept \in Seq(Columns.routes)
  BY <1>1, KeptRows DEF Columns
<1> HIDE DEF kept
<1>3. /\ routes' = routes \o kept /\ files' = files /\ agencies' = agencies /\ stops' = stops
      /\ trips' = trips /\ stop_times' = stop_times /\ transfers' = transfers
      /\ stop_index_map' = stop_index_map /\ Reads("routes")
  BY DEF load_routes, Call, kept
<1>4. /\ routes' \in Seq(Columns.routes) /\ Len(routes') = Len(routes) + Len(kept)
      /\ Range(routes) \subseteq Range(routes')
  BY <1>1, <1>2, <1>3, Joined DEF TypeOK
<1>5. /\ CountInv' /\ at' \in 1 .. 9 /\ (at' = at + 1 \/ at' = 8)
      /\ failed' \in BOOLEAN /\ stats' \in [Counter -> Nat]
  <2>1. "routes" \in CountedTables
    BY DEF CountedTables, Columns
  <2>2. Len(kept) \in Nat
    BY <1>2
  <2>3. Len(agencies') + Len(stops') + Len(routes') + Len(trips') + Len(stop_times')
           = Len(agencies) + Len(stops) + Len(routes) + Len(trips) + Len(stop_times)
               + Len(kept)
    BY <1>1, <1>3, <1>4, <2>2, LengthsNat
  <2> QED
    BY <1>1, <1>3, <2>1, <2>3, CountStep DEF kept
<1>6. TypeOK'
  BY <1>1, <1>3, <1>4, <1>5 DEF TypeOK
<1>7. IndexInv'
  BY <1>1, <1>3, <1>5, NotStops
<1>8. valid_route_ids \subseteq valid_route_ids' /\ valid_trip_ids' = valid_trip_ids
  BY <1>3, <1>4 DEF valid_route_ids, valid_trip_ids
<1>9. ReferencesHold'
  BY <1>1, <1>3, <1>8 DEF ReferencesHold
<1> QED
  BY <1>5, <1>6, <1>7, <1>9 DEF LoadInv

LEMMA TripsStep ==
  ASSUME LoadInv, load_trips  PROVE  LoadInv'
<1> DEFINE kept == Kept("trips")
<1>1. TypeOK /\ ReferencesHold /\ at = 4
  BY AtCall DEF LoadInv, load_trips, TypeOK, Calls
<1>2. kept \in Seq(Columns.trips) /\ \A t \in Range(kept) : t.route_id \in valid_route_ids
  <2>1. kept \in Seq(Columns.trips) /\ \A t \in Range(kept) : Verdict("trips", t) = "rows_accepted"
    BY <1>1, KeptRows DEF Columns
  <2>2. ASSUME NEW t, Verdict("trips", t) = "rows_accepted"  PROVE  t.route_id \in valid_route_ids
    <3>1. TripVerdict(t) = "rows_accepted"
      BY <2>2 DEF Verdict
    <3> QED
      BY <3>1 DEF TripVerdict, Parsed
  <2> QED
    BY <2>1, <2>2
<1> HIDE DEF kept
<1>3. /\ trips' = trips \o kept /\ files' = files /\ agencies' = agencies /\ stops' = stops
      /\ routes' = routes /\ stop_times' = stop_times /\ transfers' = transfers
      /\ stop_index_map' = stop_index_map /\ Reads("trips")
  BY DEF load_trips, Call, kept
<1>4. /\ trips' \in Seq(Columns.trips) /\ Len(trips') = Len(trips) + Len(kept)
      /\ Range(trips') = Range(trips) \cup Range(kept)
  BY <1>1, <1>2, <1>3, Joined DEF TypeOK
<1>5. /\ CountInv' /\ at' \in 1 .. 9 /\ (at' = at + 1 \/ at' = 8)
      /\ failed' \in BOOLEAN /\ stats' \in [Counter -> Nat]
  <2>1. "trips" \in CountedTables
    BY DEF CountedTables, Columns
  <2>2. Len(kept) \in Nat
    BY <1>2
  <2>3. Len(agencies') + Len(stops') + Len(routes') + Len(trips') + Len(stop_times')
           = Len(agencies) + Len(stops) + Len(routes) + Len(trips) + Len(stop_times)
               + Len(kept)
    BY <1>1, <1>3, <1>4, <2>2, LengthsNat
  <2> QED
    BY <1>1, <1>3, <2>1, <2>3, CountStep DEF kept
<1>6. TypeOK'
  BY <1>1, <1>3, <1>4, <1>5 DEF TypeOK
<1>7. IndexInv'
  BY <1>1, <1>3, <1>5, NotStops
<1>8. valid_route_ids' = valid_route_ids /\ valid_trip_ids \subseteq valid_trip_ids'
  BY <1>3, <1>4 DEF valid_route_ids, valid_trip_ids
<1>9. ReferencesHold'
  BY <1>1, <1>2, <1>3, <1>4, <1>8 DEF ReferencesHold
<1> QED
  BY <1>5, <1>6, <1>7, <1>9 DEF LoadInv

LEMMA StopTimesStep ==
  ASSUME LoadInv, load_stop_times  PROVE  LoadInv'
<1> DEFINE kept == Kept("stop_times")
<1>1. TypeOK /\ ReferencesHold /\ at = 5 /\ DOMAIN stop_index_map = valid_stop_ids
  BY AtCall DEF LoadInv, load_stop_times, TypeOK, Calls, IndexInv
<1>2. /\ kept \in Seq(Columns.stop_times)
      /\ \A r \in Range(kept) : r.trip_id \in valid_trip_ids /\ r.stop_id \in valid_stop_ids
  <2>1. /\ kept \in Seq(Columns.stop_times)
        /\ \A r \in Range(kept) : Verdict("stop_times", r) = "rows_accepted"
    BY <1>1, KeptRows DEF Columns
  <2>2. ASSUME NEW r, Verdict("stop_times", r) = "rows_accepted"
        PROVE  r.trip_id \in valid_trip_ids /\ r.stop_id \in valid_stop_ids
    <3>1. StopTimeVerdict(r) = "rows_accepted"
      BY <2>2 DEF Verdict
    <3> QED
      BY <3>1 DEF StopTimeVerdict, Parsed
  <2> QED
    BY <2>1, <2>2
<1> HIDE DEF kept
<1>3. /\ stop_times' = stop_times \o kept /\ files' = files /\ agencies' = agencies
      /\ stops' = stops /\ routes' = routes /\ trips' = trips /\ transfers' = transfers
      /\ stop_index_map' = stop_index_map /\ Reads("stop_times")
  BY DEF load_stop_times, Call, kept
<1>4. /\ stop_times' \in Seq(Columns.stop_times) /\ Len(stop_times') = Len(stop_times) + Len(kept)
      /\ Range(stop_times') = Range(stop_times) \cup Range(kept)
  BY <1>1, <1>2, <1>3, Joined DEF TypeOK
<1>5. /\ CountInv' /\ at' \in 1 .. 9 /\ (at' = at + 1 \/ at' = 8)
      /\ failed' \in BOOLEAN /\ stats' \in [Counter -> Nat]
  <2>1. "stop_times" \in CountedTables
    BY DEF CountedTables, Columns
  <2>2. Len(kept) \in Nat
    BY <1>2
  <2>3. Len(agencies') + Len(stops') + Len(routes') + Len(trips') + Len(stop_times')
           = Len(agencies) + Len(stops) + Len(routes) + Len(trips) + Len(stop_times)
               + Len(kept)
    BY <1>1, <1>3, <1>4, <2>2, LengthsNat
  <2> QED
    BY <1>1, <1>3, <2>1, <2>3, CountStep DEF kept
<1>6. TypeOK'
  BY <1>1, <1>3, <1>4, <1>5 DEF TypeOK
<1>7. IndexInv'
  BY <1>1, <1>3, <1>5, NotStops
<1>8. valid_route_ids' = valid_route_ids /\ valid_trip_ids' = valid_trip_ids
  BY <1>3 DEF valid_route_ids, valid_trip_ids
<1>9. ReferencesHold'
  BY <1>1, <1>2, <1>3, <1>4, <1>8 DEF ReferencesHold
<1> QED
  BY <1>5, <1>6, <1>7, <1>9 DEF LoadInv

(* Steps that count no rows and go on to the next call.                    *)
LEMMA GoesOn ==
  ASSUME LoadInv, at' = at + 1, failed' = failed,
         stats'.rows_read = stats.rows_read, stats'.rows_accepted = stats.rows_accepted,
         stats'.rows_dropped_fk = stats.rows_dropped_fk,
         stats'.rows_dropped_fmt = stats.rows_dropped_fmt,
         UNCHANGED << agencies, stops, routes, trips >>, Len(stop_times') = Len(stop_times)
  PROVE  CountInv'
<1>1. RowsAccounted'
  <2>1. RowsAccounted
    BY DEF LoadInv, CountInv
  <2> QED
    BY <2>1 DEF RowsAccounted
<1>2. at' < 8 => ~ failed' /\ stats'.rows_read = Settled'
  <2>1. at \in 1 .. 9
    BY DEF LoadInv, TypeOK
  <2>2. at < 8 => ~ failed /\ stats.rows_read = Settled
    BY DEF LoadInv, CountInv
  <2> QED
    BY <2>1, <2>2 DEF Settled
<1> QED
  BY <1>1, <1>2 DEF CountInv

LEMMA TransfersStep ==
  ASSUME LoadInv, load_transfers  PROVE  LoadInv'
<1> DEFINE kept == Kept("transfers")
<1>1. /\ TypeOK /\ ReferencesHold /\ at = 6 /\ DOMAIN stop_index_map = valid_stop_ids
      /\ CountInv
  BY AtCall DEF LoadInv, load_transfers, TypeOK, Calls, IndexInv
<1>2. /\ kept \in Seq(Columns.transfers)
      /\ \A w \in Range(kept) : {w.from_stop_id, w.to_stop_id} \subseteq valid_stop_ids
  <2>1. /\ kept \in Seq(Columns.transfers)
        /\ \A w \in Range(kept) : Verdict("transfers", w) = "rows_accepted"
    BY <1>1, KeptRows DEF Columns
  <2>2. ASSUME NEW w, Verdict("transfers", w) = "rows_accepted"
        PROVE  {w.from_stop_id, w.to_stop_id} \subseteq valid_stop_ids
    <3>1. TransferVerdict(w) = "rows_accepted"
      BY <2>2 DEF Verdict
    <3> QED
      BY <3>1 DEF TransferVerdict
  <2> QED
    BY <2>1, <2>2
<1> HIDE DEF kept
<1>3. /\ transfers' = transfers \o kept /\ files' = files /\ agencies' = agencies
      /\ stops' = stops /\ routes' = routes /\ trips' = trips /\ stop_times' = stop_times
      /\ stop_index_map' = stop_index_map /\ stats' = stats /\ Proceeds(FALSE)
  BY DEF load_transfers, Call, kept
<1>4. /\ transfers' \in Seq(Columns.transfers)
      /\ Range(transfers') = Range(transfers) \cup Range(kept)
  BY <1>1, <1>2, <1>3, Joined DEF TypeOK
<1>5. at' = 7 /\ failed' = FALSE /\ failed' \in BOOLEAN
  <2>1. /\ at' = (IF FALSE THEN 8 ELSE at + 1) /\ failed' = FALSE
    BY <1>1, <1>3, NextCall, Zenon DEF TypeOK
  <2>2. failed' \in BOOLEAN
    BY <2>1, Zenon
  <2> QED
    BY <1>1, <2>1, <2>2
<1>6. TypeOK'
  BY <1>1, <1>3, <1>4, <1>5 DEF TypeOK
<1>7. IndexInv'
  BY <1>3, <1>5, NotStops
<1>8. valid_route_ids' = valid_route_ids /\ valid_trip_ids' = valid_trip_ids
  BY <1>3 DEF valid_route_ids, valid_trip_ids
<1>9. ReferencesHold'
  BY <1>1, <1>2, <1>3, <1>4, <1>8 DEF ReferencesHold
<1>10. CountInv'
  <2>1. ~ failed
    BY <1>1 DEF CountInv
  <2>2. failed' = failed
    BY <1>1, <1>5, <2>1 DEF TypeOK
  <2> QED
    BY <1>1, <1>3, <1>5, <2>2, GoesOn
<1> QED
  BY <1>6, <1>7, <1>9, <1>10 DEF LoadInv

(* The rows the filling starts from: sorted, of stops with distances.      *)
LEMMA SortedMeasured ==
  ASSUME LoadInv, NEW p \in Orders(stop_times)
  PROVE  LET sorted == Sorted(stop_times, p)
         IN  /\ stop_times \in Seq(Row) /\ sorted \in Seq(Row) /\ Measured(sorted)
             /\ DOMAIN sorted = DOMAIN stop_times /\ Len(sorted) = Len(stop_times)
             /\ Range(sorted) = Range(stop_times)
<1> DEFINE sorted == Sorted(stop_times, p)
<1>1. stop_times \in Seq(Row)
  BY DEF LoadInv, TypeOK, Row
<1>2. /\ sorted \in Seq(Row) /\ DOMAIN sorted = DOMAIN stop_times
      /\ Len(sorted) = Len(stop_times) /\ Range(sorted) = Range(stop_times)
  BY <1>1, SortedFacts
<1>3. \A r \in Range(stop_times) : r.stop_id \in valid_stop_ids
  BY DEF LoadInv, ReferencesHold, IndexInv
<1> HIDE DEF sorted
<1>4. \A i \in DOMAIN sorted : sorted[i].stop_id \in valid_stop_ids
  BY <1>2, <1>3 DEF Range
<1>5. DistancesKnown
  BY DEF LoadInv, IndexInv
<1>6. Measured(sorted)
  BY <1>4, <1>5 DEF DistancesKnown, Measured
<1> QED
  BY <1>1, <1>2, <1>6 DEF sorted

LEMMA InterpolateStep ==
  ASSUME LoadInv, interpolate_stop_times  PROVE  LoadInv'
<1>1. /\ TypeOK /\ ReferencesHold /\ at = 7 /\ CountInv
  BY AtCall DEF LoadInv, interpolate_stop_times, TypeOK, Calls
<1>2. PICK p \in Orders(stop_times) :
        /\ stop_times' = Interpolated(Sorted(stop_times, p))
        /\ stats' = [stats EXCEPT !.times_interpolated =
                       @ + Interpolations(Sorted(stop_times, p))]
  BY DEF interpolate_stop_times, Sorted
<1> DEFINE rows == Sorted(stop_times, p)
<1>3. /\ rows \in Seq(Row) /\ Measured(rows) /\ Len(rows) = Len(stop_times)
      /\ Range(rows) = Range(stop_times)
  BY SortedMeasured
<1> HIDE DEF rows
<1>4. /\ files' = files /\ agencies' = agencies /\ stops' = stops /\ routes' = routes
      /\ trips' = trips /\ transfers' = transfers /\ stop_index_map' = stop_index_map
      /\ Proceeds(FALSE)
  BY DEF interpolate_stop_times, Call
<1>5. /\ stop_times' \in Seq(Row) /\ Len(stop_times') = Len(rows)
      /\ DOMAIN stop_times' = DOMAIN rows
      /\ \A k \in DOMAIN rows : /\ stop_times'[k].trip_id = rows[k].trip_id
                                /\ stop_times'[k].stop_id = rows[k].stop_id
      /\ Interpolations(rows) \in Nat
  <2>1. stop_times' = Interpolated(rows)
    BY <1>2 DEF rows
  <2> QED
    BY <1>3, <2>1, InterpolatedFacts
<1>6. ASSUME NEW r \in Range(stop_times')
      PROVE  \E s \in Range(stop_times) : r.trip_id = s.trip_id /\ r.stop_id = s.stop_id
  <2>1. PICK k \in DOMAIN rows : r = stop_times'[k]
    BY <1>5 DEF Range
  <2>2. rows[k] \in Range(stop_times)
    BY <1>3, <2>1 DEF Range
  <2> QED
    BY <1>5, <2>1, <2>2
<1>7. at' = 8 /\ failed' = FALSE /\ failed' \in BOOLEAN
  <2>1. /\ at' = (IF FALSE THEN 8 ELSE at + 1) /\ failed' = FALSE
    BY <1>1, <1>4, NextCall, Zenon DEF TypeOK
  <2>2. failed' \in BOOLEAN
    BY <2>1, Zenon
  <2> QED
    BY <1>1, <2>1, <2>2
<1>8. /\ stats' \in [Counter -> Nat]
      /\ \A c \in Counter : c # "times_interpolated" => stats'[c] = stats[c]
  <2>1. stats' = [stats EXCEPT !["times_interpolated"] =
                    stats["times_interpolated"] + Interpolations(rows)]
    BY <1>2 DEF rows
  <2>2. stats \in [Counter -> Nat] /\ "times_interpolated" \in Counter
    BY <1>1 DEF TypeOK, Counter
  <2> QED
    BY <1>5, <2>1, <2>2
<1>9. TypeOK'
  BY <1>1, <1>4, <1>5, <1>7, <1>8 DEF TypeOK, Row
<1>10. IndexInv'
  BY <1>4, <1>7, NotStops
<1>11. ReferencesHold'
  <2>1. valid_route_ids' = valid_route_ids /\ valid_trip_ids' = valid_trip_ids
    BY <1>4 DEF valid_route_ids, valid_trip_ids
  <2> QED
    BY <1>1, <1>4, <1>6, <2>1 DEF ReferencesHold
<1>12. CountInv'
  <2>1. failed' = failed
    <3>1. ~ failed
      BY <1>1 DEF CountInv
    <3> QED
      BY <1>1, <1>7, <3>1 DEF TypeOK
  <2>2. /\ stats'.rows_read = stats.rows_read /\ stats'.rows_accepted = stats.rows_accepted
        /\ stats'.rows_dropped_fk = stats.rows_dropped_fk
        /\ stats'.rows_dropped_fmt = stats.rows_dropped_fmt
    BY <1>8 DEF Counter, Outcomes
  <2> QED
    BY <1>1, <1>3, <1>4, <1>5, <1>7, <2>1, <2>2, GoesOn
<1> QED
  BY <1>9, <1>10, <1>11, <1>12 DEF LoadInv

LEMMA ChooseStep ==
  ASSUME LoadInv, choose_graph  PROVE  LoadInv'
<1>1. /\ TypeOK /\ ReferencesHold /\ at = 8
  BY AtCall DEF LoadInv, choose_graph, TypeOK, Calls
<1>2. /\ UNCHANGED << files, failed, agencies, stops, routes, trips, stop_times, transfers,
                      stop_index_map, stats >>
      /\ at' = 9
  BY <1>1 DEF choose_graph, Call
<1>3. TypeOK'
  BY <1>1, <1>2 DEF TypeOK
<1>4. IndexInv'
  BY <1>2, NotStops
<1>5. ReferencesHold'
  BY <1>1, <1>2 DEF ReferencesHold, valid_route_ids, valid_trip_ids
<1>6. CountInv'
  BY <1>1, <1>2, GoesOn
<1> QED
  BY <1>3, <1>4, <1>5, <1>6 DEF LoadInv

LEMMA LoadNext == LoadInv /\ [Next]_vars => LoadInv'
<1> SUFFICES ASSUME LoadInv, [Next]_vars  PROVE LoadInv'
  OBVIOUS
<1>1. CASE Next
  BY <1>1, AgencyStep, StopsStep, RoutesStep, TripsStep, StopTimesStep, TransfersStep,
     InterpolateStep, ChooseStep DEF Next
<1>2. CASE UNCHANGED vars
  <2>1. TypeOK'
    BY <1>2 DEF LoadInv, TypeOK, vars
  <2>2. IndexInv'
    <3>1. IndexInv /\ valid_stop_ids' = valid_stop_ids
      BY <1>2 DEF LoadInv, valid_stop_ids, vars
    <3>2. DistancesKnown'
      BY <3>1 DEF IndexInv, DistancesKnown
    <3> QED
      BY <1>2, <3>1, <3>2 DEF IndexInv, IndexNamesStop, vars
  <2>3. ReferencesHold'
    BY <1>2 DEF LoadInv, ReferencesHold, valid_route_ids, valid_trip_ids, vars
  <2>4. CountInv'
    BY <1>2 DEF LoadInv, CountInv, RowsAccounted, Settled, vars
  <2> QED
    BY <2>1, <2>2, <2>3, <2>4 DEF LoadInv
<1> QED
  BY <1>1, <1>2

(* At every moment of a load, also of one that broke off at a row or at a  *)
(* missing file, for every directory of files: the invariant holds.        *)
THEOREM LoadInvariant == Spec => []LoadInv
BY LoadInit, LoadNext, PTL DEF Spec

(* The loaders drop every row that names one that was dropped, so that a   *)
(* trip kept has its route, a visit its trip and an indexed stop, and a    *)
(* walk two indexed stops.                                                 *)
THEOREM LoadedReferencesHold == Spec => []ReferencesHold
<1>1. LoadInv => ReferencesHold
  BY DEF LoadInv
<1> QED
  BY <1>1, LoadInvariant, PTL

(* The dense index load_stops makes names, for every stop_id it holds, the *)
(* place of a row of that stop, below num_stops, also where a stop_id      *)
(* comes twice.                                                            *)
THEOREM LoadedIndexNamesStop == Spec => []IndexNamesStop
<1>1. LoadInv => IndexNamesStop
  BY DEF LoadInv, IndexInv
<1> QED
  BY <1>1, LoadInvariant, PTL

(* ParseStats account for the rows read: the accepted ones are the ones    *)
(* kept, and at most the one that threw is in no counter.                  *)
THEOREM LoadedRowsAccounted == Spec => []RowsAccounted
<1>1. LoadInv => RowsAccounted
  BY DEF LoadInv, CountInv
<1> QED
  BY <1>1, LoadInvariant, PTL

-----------------------------------------------------------------------------
(* The places of a trip's rows and of its timepoints.                      *)
PlacesOf(rows, t) == {k \in DOMAIN rows : rows[k].trip_id = t}
TimedPlaces(rows, t) == {k \in PlacesOf(rows, t) : Timed(rows[k])}

LEMMA TripFacts ==
  ASSUME NEW rows \in Seq(Row), NEW t
  PROVE  /\ OfTrip(rows, t) = {rows[k] : k \in PlacesOf(rows, t)}
         /\ Timepoints(rows, t) = {rows[k] : k \in TimedPlaces(rows, t)}
<1>1. OfTrip(rows, t) = {rows[k] : k \in PlacesOf(rows, t)}
  BY DEF OfTrip, PlacesOf, Range
<1>2. Timepoints(rows, t) = {rows[k] : k \in TimedPlaces(rows, t)}
  BY <1>1 DEF Timepoints, TimedPlaces, ArrivalKnown, Timed
<1> QED
  BY <1>1, <1>2

(* Around a row of a trip are the trip's timepoints.                       *)
LEMMA AroundTrip ==
  ASSUME NEW rows \in Seq(Row), NEW t, NEW k \in PlacesOf(rows, t)
  PROVE  /\ Earlier(rows, k) = {i \in TimedPlaces(rows, t) : i < k}
         /\ Later(rows, k) = {i \in TimedPlaces(rows, t) : k < i}
<1>1. PICK n \in Nat : n = Len(rows) /\ DOMAIN rows = 1 .. n
  OBVIOUS
<1>2. k \in 1 .. n /\ rows[k].trip_id = t
  BY <1>1 DEF PlacesOf
<1>3. \A i : i \in 1 .. k - 1 <=> i \in 1 .. n /\ i < k
  BY <1>1, <1>2
<1>4. \A i : i \in k + 1 .. n <=> i \in 1 .. n /\ k < i
  BY <1>1, <1>2
<1>5. TimedPlaces(rows, t) = {i \in 1 .. n : rows[i].trip_id = t /\ Timed(rows[i])}
  BY <1>1 DEF TimedPlaces, PlacesOf
<1>6. Earlier(rows, k) = {i \in 1 .. k - 1 : rows[i].trip_id = t /\ Timed(rows[i])}
  BY <1>2 DEF Earlier, SameTrip
<1>7. Later(rows, k) = {i \in k + 1 .. n : rows[i].trip_id = t /\ Timed(rows[i])}
  BY <1>1, <1>2 DEF Later, SameTrip
<1> QED
  BY <1>3, <1>4, <1>5, <1>6, <1>7

(* What the filling keeps of a trip.                                       *)
LEMMA FilledTrip ==
  ASSUME NEW rows \in Seq(Row), Measured(rows), NEW t
  PROVE  LET own == OfTrip(rows, t)
             known == Timepoints(rows, t)
             filled == Interpolated(rows)
             then == OfTrip(filled, t)
         IN  /\ then = {Filled(rows, k) : k \in PlacesOf(rows, t)}
             /\ (IF known = {} THEN own ELSE known) \subseteq then
             /\ Visits(rows, t) = Visits(filled, t)
<1> DEFINE own == OfTrip(rows, t)
           known == Timepoints(rows, t)
           filled == Interpolated(rows)
           then == OfTrip(filled, t)
           P == PlacesOf(rows, t)
           T == TimedPlaces(rows, t)
<1>1. /\ filled \in Seq(Row) /\ DOMAIN filled = DOMAIN rows
      /\ \A k \in DOMAIN rows :
           /\ filled[k] = Filled(rows, k)
           /\ Filled(rows, k).trip_id = rows[k].trip_id
           /\ Filled(rows, k).stop_id = rows[k].stop_id
           /\ Filled(rows, k).stop_sequence = rows[k].stop_sequence
  BY InterpolatedFacts
<1> HIDE DEF filled
<1>2. P \subseteq DOMAIN rows /\ T \subseteq P /\ \A k \in T : Timed(rows[k])
  BY DEF PlacesOf, TimedPlaces
<1>3. then = {Filled(rows, k) : k \in P}
  <2>1. PlacesOf(filled, t) = P
    BY <1>1 DEF PlacesOf
  <2>2. then = {filled[k] : k \in P}
    BY <1>1, <2>1, TripFacts
  <2> QED
    BY <1>1, <1>2, <2>2
<1>4. own = {rows[k] : k \in P} /\ known = {rows[k] : k \in T}
  BY TripFacts
<1>5. ASSUME NEW k \in P
      PROVE  /\ Earlier(rows, k) = {i \in T : i < k} /\ Later(rows, k) = {i \in T : k < i}
             /\ k \in Nat
  <2>1. k \in Nat
    <3>1. PICK n \in Nat : DOMAIN rows = 1 .. n
      OBVIOUS
    <3> QED
      BY <1>2, <3>1
  <2> QED
    BY <2>1, AroundTrip
<1>6. ASSUME NEW k \in T  PROVE  Filled(rows, k) = rows[k]
  BY <1>2, FilledFacts
<1>7. (IF known = {} THEN own ELSE known) \subseteq then
  <2>1. CASE known = {}
    <3>1. T = {}
      <4>1. \A k \in T : rows[k] \in known
        BY <1>4
      <4> HIDE DEF T, known
      <4> QED
        BY <2>1, <4>1
    <3>2. \A k \in P : Filled(rows, k) = rows[k]
      BY <1>2, <1>5, <3>1, FilledFacts
    <3> QED
      BY <1>3, <1>4, <2>1, <3>2
  <2>2. CASE known # {}
    BY <1>2, <1>3, <1>4, <1>6, <2>2
  <2> QED
    BY <2>1, <2>2
<1>8. Visits(rows, t) = Visits(filled, t)
  <2> DEFINE before(k) == << rows[k].stop_sequence, rows[k].stop_id >>
             after(k) == << Filled(rows, k).stop_sequence, Filled(rows, k).stop_id >>
  <2>1. Visits(rows, t) = {before(k) : k \in P}
    BY <1>4 DEF Visits
  <2>2. Visits(filled, t) = {after(k) : k \in P}
    BY <1>3 DEF Visits
  <2>3. \A k \in P : after(k) = before(k)
    BY <1>1, <1>2
  <2> HIDE DEF P, before, after
  <2> QED
    BY <2>1, <2>2, <2>3
<1> QED
  BY <1>3, <1>7, <1>8 DEF filled

(* The rows of a trip do not depend on the order they come in.             *)
LEMMA SameRows ==
  ASSUME NEW r, NEW s, Range(r) = Range(s), NEW t
  PROVE  /\ OfTrip(r, t) = OfTrip(s, t) /\ Timepoints(r, t) = Timepoints(s, t)
         /\ Visits(r, t) = Visits(s, t)
BY DEF OfTrip, Timepoints, Visits

(* The sort puts a trip's rows in the order of their stop_sequence.        *)
LEMMA SortedOrder ==
  ASSUME NEW rows \in Seq(Row), NEW p \in Orders(rows)
  PROVE  LET sorted == Sorted(rows, p)
         IN  \A i, j \in DOMAIN rows : i <= j => Precedes(sorted[i], sorted[j])
<1> DEFINE sorted == Sorted(rows, p)
<1>1. PICK n \in Nat : n = Len(rows) /\ DOMAIN rows = 1 .. n
  OBVIOUS
<1>2. \A i \in 1 .. n : sorted[i] \in Row /\ sorted[i] = rows[p[i]]
  <2>1. sorted \in Seq(Row) /\ DOMAIN sorted = 1 .. n
    BY <1>1, SortedFacts
  <2>2. \A i \in 1 .. n : sorted[i] = rows[p[i]]
    <3>1. \A i \in DOMAIN rows : sorted[i] = rows[p[i]]
      BY SortedFacts
    <3> QED
      BY <1>1, <3>1
  <2> HIDE DEF sorted
  <2> QED
    BY <2>1, <2>2
<1>3. \A i \in 1 .. n - 1 : Precedes(sorted[i], sorted[i + 1])
  <2>1. \A i \in 1 .. n - 1 : Precedes(rows[p[i]], rows[p[i + 1]])
    BY <1>1 DEF Orders
  <2>2. \A i \in 1 .. n - 1 : i \in 1 .. n /\ i + 1 \in 1 .. n
    BY <1>1
  <2> HIDE DEF sorted
  <2> QED
    BY <1>2, <2>1, <2>2
<1> HIDE DEF sorted
<1>4. ASSUME NEW a \in Row, NEW b \in Row, NEW c \in Row, Precedes(a, b), Precedes(b, c)
      PROVE  Precedes(a, a) /\ Precedes(a, c)
  <2>1. /\ a.trip_id \in Nat /\ b.trip_id \in Nat /\ c.trip_id \in Nat
        /\ a.stop_sequence \in Nat /\ b.stop_sequence \in Nat /\ c.stop_sequence \in Nat
    BY RowFields
  <2> QED
    BY <1>4, <2>1 DEF Precedes
<1>5. ASSUME NEW a \in Row  PROVE  Precedes(a, a)
  <2>1. a.trip_id \in Nat /\ a.stop_sequence \in Nat
    BY RowFields
  <2> QED
    BY <2>1 DEF Precedes
<1>6. ASSUME NEW i \in 1 .. n, NEW j \in 1 .. n, i <= j
      PROVE  Precedes(sorted[i], sorted[j])
  <2> DEFINE c == j - i
             Fine == {m \in 0 .. c : Precedes(sorted[i], sorted[i + m])}
  <2>1. c \in Nat
    BY <1>6
  <2>2. 0 \in Fine
    <3>1. i + 0 = i /\ 0 \in 0 .. c
      BY <2>1
    <3> QED
      BY <1>2, <1>5, <3>1
  <2>3. ASSUME NEW m \in 0 .. c - 1, m \in Fine  PROVE  m + 1 \in Fine
    <3>1. i + m \in 1 .. n - 1 /\ i + m \in 1 .. n
      BY <1>1, <1>6
    <3>2. i + (m + 1) = (i + m) + 1 /\ i + (m + 1) \in 1 .. n
      BY <1>1, <1>6
    <3>3. m + 1 \in 0 .. c
      BY <1>1, <1>6
    <3>4. Precedes(sorted[i], sorted[i + m]) /\ Precedes(sorted[i + m], sorted[i + (m + 1)])
      BY <1>3, <2>3, <3>1, <3>2
    <3>5. sorted[i] \in Row /\ sorted[i + m] \in Row /\ sorted[i + (m + 1)] \in Row
      BY <1>2, <3>1, <3>2
    <3>6. Precedes(sorted[i], sorted[i + (m + 1)])
      BY <1>4, <3>4, <3>5
    <3> QED
      BY <3>3, <3>6
  <2> HIDE DEF Fine, c
  <2>4. 0 .. c \subseteq Fine
    BY <2>1, <2>2, <2>3, UpTo
  <2>5. c \in Fine /\ i + c = j
    <3>1. c \in 0 .. c
      BY <2>1
    <3>2. i + c = j
      BY <1>1 DEF c
    <3> QED
      BY <2>4, <3>1, <3>2
  <2> QED
    BY <2>5 DEF Fine
<1> QED
  BY <1>1, <1>6 DEF sorted

(* Which of a trip's rows may be left with a blank time.                   *)
Ascending(rows, t) ==
  \A i, j \in PlacesOf(rows, t) : i <= j => rows[i].stop_sequence <= rows[j].stop_sequence

LEMMA SortedAscending ==
  ASSUME NEW rows \in Seq(Row), NEW p \in Orders(rows), NEW t
  PROVE  Ascending(Sorted(rows, p), t)
<1> DEFINE sorted == Sorted(rows, p)
<1>1. sorted \in Seq(Row) /\ DOMAIN sorted = DOMAIN rows
  BY SortedFacts
<1>2. \A i, j \in DOMAIN rows : i <= j => Precedes(sorted[i], sorted[j])
  BY SortedOrder
<1> HIDE DEF sorted
<1> SUFFICES ASSUME NEW i \in PlacesOf(sorted, t), NEW j \in PlacesOf(sorted, t), i <= j
             PROVE  sorted[i].stop_sequence <= sorted[j].stop_sequence
  BY DEF Ascending, sorted
<1>3. /\ i \in DOMAIN sorted /\ j \in DOMAIN sorted
      /\ sorted[i].trip_id = t /\ sorted[j].trip_id = t
  BY DEF PlacesOf
<1>4. sorted[i] \in Row /\ sorted[j] \in Row
  BY <1>1, <1>3
<1>5. sorted[i].trip_id \in Nat
  BY <1>4, RowFields
<1>6. Precedes(sorted[i], sorted[j])
  BY <1>1, <1>2, <1>3
<1> QED
  BY <1>3, <1>5, <1>6 DEF Precedes

LEMMA FilledBlanks ==
  ASSUME NEW rows \in Seq(Row), Measured(rows), NEW t, Ascending(rows, t),
         Timepoints(rows, t) # {}, NEW k \in PlacesOf(rows, t)
  PROVE  BlankExplained(Timepoints(rows, t), Filled(rows, k))
<1> DEFINE known == Timepoints(rows, t)
           T == TimedPlaces(rows, t)
           P == PlacesOf(rows, t)
           e == Earlier(rows, k)
           l == Later(rows, k)
           f == Filled(rows, k)
<1>1. /\ known = {rows[i] : i \in T} /\ e = {i \in T : i < k} /\ l = {i \in T : k < i}
      /\ T \subseteq P /\ P \subseteq DOMAIN rows /\ k \in DOMAIN rows
      /\ \A i \in T : Timed(rows[i])
  <2>1. known = {rows[i] : i \in T}
    BY TripFacts
  <2>2. e = {i \in T : i < k} /\ l = {i \in T : k < i}
    BY AroundTrip
  <2>3. /\ T \subseteq P /\ P \subseteq DOMAIN rows /\ k \in DOMAIN rows
        /\ \A i \in T : Timed(rows[i])
    BY DEF TimedPlaces, PlacesOf
  <2> QED
    BY <2>1, <2>2, <2>3
<1>2. k \in Nat /\ \A i \in P : i \in Nat /\ rows[i].stop_sequence \in Nat
  <2>1. PICK n \in Nat : DOMAIN rows = 1 .. n
    OBVIOUS
  <2>2. \A i \in P : i \in Nat /\ rows[i] \in Row
    BY <1>1, <2>1
  <2> QED
    BY <2>2, RowFields
<1>3. /\ f.stop_sequence = rows[k].stop_sequence
      /\ Timed(rows[k]) => f = rows[k]
      /\ ~ Timed(rows[k]) /\ e = {} /\ l # {} =>
           f.arrival_time = rows[Min(l)].arrival_time /\ f.departure_time = rows[Min(l)].departure_time
      /\ ~ Timed(rows[k]) /\ e # {} /\ l = {} =>
           f.arrival_time = rows[Max(e)].arrival_time /\ f.departure_time = rows[Max(e)].departure_time
      /\ ~ Timed(rows[k]) /\ e # {} /\ l # {} =>
           /\ f.arrival_time = Between(rows, Max(e), Min(l), k)
           /\ f.departure_time = Between(rows, Max(e), Min(l), k)
  BY <1>1, FilledFacts
<1>4. /\ e # {} => Max(e) \in e /\ \A i \in e : i <= Max(e)
      /\ l # {} => Min(l) \in l /\ \A i \in l : Min(l) <= i
  BY <1>1, AroundFacts
<1> HIDE DEF known, T, P, e, l, f
<1>5. k \in P /\ \A i, j \in P : i <= j => rows[i].stop_sequence <= rows[j].stop_sequence
  BY DEF Ascending, P
<1>6. \A i \in T : rows[i].arrival_time # UINT32_MAX
  BY <1>1 DEF Timed
<1>7. ASSUME NEW i \in T, i <= k, \A j \in T : j <= i \/ k <= j
      PROVE  LastBefore(known, rows[i], f)
  <2>1. rows[i].stop_sequence <= f.stop_sequence
    BY <1>1, <1>3, <1>5, <1>7
  <2>2. ASSUME NEW j \in T
        PROVE  \/ rows[j].stop_sequence <= rows[i].stop_sequence
               \/ f.stop_sequence <= rows[j].stop_sequence
    <3>1. j \in P /\ i \in P /\ (j <= i \/ k <= j)
      BY <1>1, <1>7
    <3> QED
      BY <1>3, <1>5, <3>1
  <2>3. \A z \in known : \/ z.stop_sequence <= rows[i].stop_sequence
                         \/ f.stop_sequence <= z.stop_sequence
    BY <1>1, <2>2
  <2> QED
    BY <2>1, <2>3 DEF LastBefore
<1>8. ASSUME NEW i \in T, k <= i, \A j \in T : i <= j
      PROVE  FirstAfter(known, rows[i], f)
  <2>1. f.stop_sequence <= rows[i].stop_sequence
    BY <1>1, <1>3, <1>5, <1>8
  <2>2. \A j \in T : rows[i].stop_sequence <= rows[j].stop_sequence
    BY <1>1, <1>5, <1>8
  <2>3. \A z \in known : rows[i].stop_sequence <= z.stop_sequence
    BY <1>1, <2>2
  <2> QED
    BY <2>1, <2>3 DEF FirstAfter
<1>9. ASSUME NEW i \in T, rows[i].departure_time = UINT32_MAX
      PROVE  rows[i] \in Undeparted(known)
  BY <1>1, <1>9 DEF Undeparted
<1>10. T # {}
  BY <1>1 DEF known
<1>11. ASSUME Timed(rows[k])
      PROVE  BlankExplained(known, f)
  <2>1. f = rows[k] /\ k \in T
    BY <1>3, <1>11 DEF TimedPlaces, T, P
  <2>2. LastBefore(known, rows[k], f)
    <3>1. \A j \in T : j <= k \/ k <= j
      BY <1>1, <1>2
    <3> QED
      BY <1>2, <1>7, <2>1, <3>1
  <2> QED
    BY <1>6, <1>9, <2>1, <2>2 DEF BlankExplained
<1>12. ASSUME ~ Timed(rows[k]), e = {}
      PROVE  BlankExplained(known, f)
  <2>1. \A j \in T : k < j
    <3>1. \A j \in T : j # k /\ j \in Nat
      BY <1>1, <1>2, <1>12
    <3> QED
      BY <1>1, <1>2, <1>12, <3>1
  <2>2. PICK i \in T : i = Min(l) /\ \A j \in T : i <= j
    <3>1. l = T
      BY <1>1, <2>1
    <3> QED
      BY <1>4, <1>10, <3>1
  <2>3. f.arrival_time = rows[i].arrival_time /\ f.departure_time = rows[i].departure_time
    <3>1. l # {}
      BY <1>1, <1>10, <2>1
    <3> QED
      BY <1>3, <1>12, <2>2, <3>1
  <2>4. FirstAfter(known, rows[i], f)
    <3>1. k <= i
      BY <1>1, <1>2, <2>1
    <3> QED
      BY <1>8, <2>2, <3>1
  <2>5. f.arrival_time # UINT32_MAX
    BY <1>6, <2>3
  <2>6. f.departure_time = UINT32_MAX => rows[i] \in Undeparted(known)
    BY <1>9, <2>3
  <2> QED
    BY <2>4, <2>5, <2>6 DEF BlankExplained
<1>13. ASSUME ~ Timed(rows[k]), e # {}
      PROVE  BlankExplained(known, f)
  <2>1. PICK i \in T : i = Max(e) /\ i < k /\ \A j \in e : j <= i
    BY <1>1, <1>4, <1>13
  <2>2. LastBefore(known, rows[i], f)
    <3>1. \A j \in T : j <= i \/ k <= j
      BY <1>1, <1>2, <2>1
    <3>2. i <= k
      BY <1>1, <1>2, <2>1
    <3> QED
      BY <1>7, <3>1, <3>2
  <2>3. CASE l = {}
    <3>1. f.arrival_time = rows[i].arrival_time /\ f.departure_time = rows[i].departure_time
      BY <1>3, <1>13, <2>1, <2>3
    <3>2. f.arrival_time # UINT32_MAX
      BY <1>6, <3>1
    <3>3. f.departure_time = UINT32_MAX => rows[i] \in Undeparted(known)
      BY <1>9, <3>1
    <3> QED
      BY <2>2, <3>2, <3>3 DEF BlankExplained
  <2>4. CASE l # {}
    <3>1. PICK n \in T : n = Min(l) /\ k < n
      BY <1>1, <1>4, <2>4
    <3>2. f.arrival_time = Between(rows, i, n, k) /\ f.departure_time = Between(rows, i, n, k)
      BY <1>3, <1>13, <2>1, <2>4, <3>1
    <3>3. i \in DOMAIN rows /\ n \in DOMAIN rows /\ i \in Nat /\ n \in Nat
      BY <1>1, <1>2
    <3>4. i < n /\ k \in i .. n /\ k \in k .. n
      BY <1>2, <2>1, <3>1, <3>3
    <3>5. rows[i].departure_time # UINT32_MAX => Between(rows, i, n, k) # UINT32_MAX
      BY <1>6, <3>3, <3>4, BetweenFacts
    <3>6. /\ f.arrival_time = UINT32_MAX => rows[i] \in Undeparted(known)
          /\ f.departure_time = UINT32_MAX => rows[i] \in Undeparted(known)
      BY <1>9, <3>2, <3>5
    <3>7. rows[n] \in known /\ f.stop_sequence <= rows[n].stop_sequence
      <4>1. k <= n /\ n \in P
        BY <1>1, <1>2, <3>1, <3>3
      <4> QED
        BY <1>1, <1>3, <1>5, <4>1
    <3> QED
      BY <2>2, <3>6, <3>7 DEF BlankExplained
  <2> QED
    BY <2>3, <2>4
<1> QED
  BY <1>11, <1>12, <1>13 DEF known, f

LEMMA FillingStep ==
  ASSUME LoadInv, interpolate_stop_times, NEW t
  PROVE  LET own == OfTrip(stop_times, t)
             known == Timepoints(stop_times, t)
             then == OfTrip(stop_times', t)
         IN  /\ known # {} => \A r \in then : BlankExplained(known, r)
             /\ (IF known = {} THEN own ELSE known) \subseteq then
             /\ Visits(stop_times, t) = Visits(stop_times', t)
<1>1. PICK p \in Orders(stop_times) : stop_times' = Interpolated(Sorted(stop_times, p))
  BY DEF interpolate_stop_times, Sorted
<1> DEFINE rows == Sorted(stop_times, p)
<1>2. /\ stop_times \in Seq(Row) /\ rows \in Seq(Row) /\ Measured(rows)
      /\ Range(rows) = Range(stop_times)
  BY SortedMeasured
<1>3. /\ OfTrip(rows, t) = OfTrip(stop_times, t) /\ Timepoints(rows, t) = Timepoints(stop_times, t)
      /\ Visits(rows, t) = Visits(stop_times, t)
  BY <1>2, SameRows
<1>4. stop_times' = Interpolated(rows)
  BY <1>1
<1>5. Ascending(rows, t)
  BY <1>2, SortedAscending
<1> HIDE DEF rows
<1>6. OfTrip(stop_times', t) = {Filled(rows, k) : k \in PlacesOf(rows, t)}
  BY <1>2, <1>4, FilledTrip
<1>7. Timepoints(rows, t) # {} =>
        \A k \in PlacesOf(rows, t) : BlankExplained(Timepoints(rows, t), Filled(rows, k))
  BY <1>2, <1>5, FilledBlanks
<1> QED
  BY <1>2, <1>3, <1>4, <1>6, <1>7, FilledTrip

(* interpolate_stop_times leaves a time of a trip with a timepoint blank   *)
(* only because of a timepoint without a departure, an arrival only inside *)
(* a gap behind one; it changes no row with an arrival and no trip without *)
(* a timepoint, and keeps every trip's visits: for any rows, in any order  *)
(* the sort may leave equal ones in, between stops of any distances.       *)
THEOREM FillingLeavesNoOtherBlank == Spec => BlanksExplained
<1>1. LoadInv /\ [Next]_vars =>
        [interpolate_stop_times =>
           \A t \in TripIds(stop_times) :
             LET own == OfTrip(stop_times, t)
                 known == Timepoints(stop_times, t)
                 then == OfTrip(stop_times', t)
             IN  /\ known # {} => \A r \in then : BlankExplained(known, r)
                 /\ (IF known = {} THEN own ELSE known) \subseteq then
                 /\ Visits(stop_times, t) = Visits(stop_times', t)]_vars
  BY FillingStep
<1> QED
  BY <1>1, LoadInvariant, PTL DEF Spec, BlanksExplained

(* So in a trip that visits at no stop_sequence twice, earlier rows are    *)
(* those of a smaller one.                                                 *)
InSequence(rows, t) ==
  \A i, j \in PlacesOf(rows, t) : rows[i].stop_sequence < rows[j].stop_sequence <=> i < j

LEMMA SortedInSequence ==
  ASSUME NEW rows \in Seq(Row), NEW p \in Orders(rows), NEW t, OnceEach(rows, t)
  PROVE  InSequence(Sorted(rows, p), t)
<1> DEFINE sorted == Sorted(rows, p)
<1>1. PICK n \in Nat : n = Len(rows) /\ DOMAIN rows = 1 .. n
  OBVIOUS
<1>2. /\ sorted \in Seq(Row) /\ DOMAIN sorted = 1 .. n
      /\ \A i \in 1 .. n : p[i] \in 1 .. n /\ sorted[i] = rows[p[i]]
      /\ \A i, j \in 1 .. n : p[i] = p[j] => i = j
  <2>1. /\ sorted \in Seq(Row) /\ DOMAIN sorted = DOMAIN rows
        /\ \A i \in DOMAIN rows : p[i] \in DOMAIN rows /\ sorted[i] = rows[p[i]]
        /\ \A i, j \in DOMAIN rows : p[i] = p[j] => i = j
    BY SortedFacts
  <2> HIDE DEF sorted
  <2> QED
    BY <1>1, <2>1
<1>3. \A i, j \in 1 .. n : i <= j => Precedes(sorted[i], sorted[j])
  BY <1>1, SortedOrder
<1> HIDE DEF sorted
<1>4. \A i \in 1 .. n : sorted[i] \in Row
  BY <1>2
<1>5. ASSUME NEW i \in 1 .. n, NEW j \in 1 .. n, sorted[i].trip_id = t, sorted[j].trip_id = t
      PROVE  sorted[i].stop_sequence < sorted[j].stop_sequence <=> i < j
  <2>1. /\ sorted[i].stop_sequence \in Nat /\ sorted[j].stop_sequence \in Nat
        /\ sorted[i].trip_id \in Nat /\ sorted[j].trip_id \in Nat
    BY <1>4, RowFields
  <2>2. ASSUME sorted[i].stop_sequence = sorted[j].stop_sequence  PROVE  i = j
    <3>1. rows[p[i]].trip_id = t /\ rows[p[j]].trip_id = t
      BY <1>2, <1>5
    <3>2. rows[p[i]].stop_sequence = rows[p[j]].stop_sequence
      BY <1>2, <2>2
    <3>3. p[i] = p[j]
      BY <1>1, <1>2, <3>1, <3>2 DEF OnceEach
    <3> QED
      BY <1>2, <3>3
  <2>3. i <= j => sorted[i].stop_sequence <= sorted[j].stop_sequence
    BY <1>3, <1>5, <2>1 DEF Precedes
  <2>4. j <= i => sorted[j].stop_sequence <= sorted[i].stop_sequence
    BY <1>3, <1>5, <2>1 DEF Precedes
  <2>5. i \in Nat /\ j \in Nat
    OBVIOUS
  <2> QED
    BY <2>1, <2>2, <2>3, <2>4, <2>5
<1> QED
  BY <1>2, <1>5 DEF InSequence, PlacesOf, sorted

(* A trip whose timepoints run in order and stand at both its ends.        *)
Orderly(rows, t) ==
  /\ InSequence(rows, t)
  /\ InOrder(Timepoints(rows, t)) /\ RunsForward(Timepoints(rows, t))
  /\ EndsIn(OfTrip(rows, t), Timepoints(rows, t))

LEMMA OrderlyFacts ==
  ASSUME NEW rows \in Seq(Row), NEW t, Orderly(rows, t)
  PROVE  LET P == PlacesOf(rows, t)
             T == TimedPlaces(rows, t)
         IN  /\ P \subseteq Nat /\ T \subseteq P /\ P \subseteq DOMAIN rows
             /\ \A i \in P : rows[i].arrival_time \in Nat /\ rows[i].departure_time \in Nat
             /\ \A i \in T : rows[i].arrival_time <= rows[i].departure_time
             /\ \A i, j \in T : i < j => rows[i].departure_time <= rows[j].arrival_time
             /\ \A k \in P : ~ Timed(rows[k]) =>
                  Earlier(rows, k) # {} /\ Later(rows, k) # {}
<1> DEFINE P == PlacesOf(rows, t)
           T == TimedPlaces(rows, t)
<1>1. /\ OfTrip(rows, t) = {rows[k] : k \in P}
      /\ Timepoints(rows, t) = {rows[k] : k \in T}
  BY TripFacts
<1>2. P \subseteq Nat /\ T \subseteq P /\ P \subseteq DOMAIN rows
  <2>1. PICK n \in Nat : DOMAIN rows = 1 .. n
    OBVIOUS
  <2> QED
    BY <2>1 DEF PlacesOf, TimedPlaces
<1>3. \A i \in P : rows[i] \in Row
  BY <1>2
<1>4. \A i \in P : /\ rows[i].arrival_time \in Nat /\ rows[i].departure_time \in Nat
                   /\ rows[i].stop_sequence \in Nat
  BY <1>3, RowFields
<1>5. \A i, j \in P : rows[i].stop_sequence < rows[j].stop_sequence <=> i < j
  BY DEF Orderly, InSequence
<1>6. \A i \in T : Timed(rows[i])
  BY DEF TimedPlaces
<1>7. \A i \in T : rows[i].arrival_time <= rows[i].departure_time
  BY <1>1 DEF Orderly, InOrder
<1>8. \A i, j \in T : i < j => rows[i].departure_time <= rows[j].arrival_time
  BY <1>1, <1>2, <1>5 DEF Orderly, RunsForward
<1>9. ASSUME NEW k \in P, ~ Timed(rows[k])
      PROVE  Earlier(rows, k) # {} /\ Later(rows, k) # {}
  <2>1. PICK i \in T, j \in T : /\ rows[i].stop_sequence <= rows[k].stop_sequence
                                /\ rows[k].stop_sequence <= rows[j].stop_sequence
    <3>1. \E a, b \in Timepoints(rows, t) :
            a.stop_sequence <= rows[k].stop_sequence /\ rows[k].stop_sequence <= b.stop_sequence
      BY <1>1 DEF Orderly, EndsIn
    <3> QED
      BY <1>1, <3>1
  <2>2. i \in P /\ j \in P /\ i # k /\ j # k /\ i \in Nat /\ j \in Nat /\ k \in Nat
    BY <1>2, <1>6, <1>9
  <2>3. ~ (k < i) /\ ~ (j < k)
    BY <1>4, <1>5, <2>1, <2>2
  <2>4. i < k /\ k < j
    BY <2>2, <2>3
  <2> QED
    BY <2>4, AroundTrip
<1> QED
  BY <1>2, <1>4, <1>7, <1>8, <1>9

(* A blank lies between the timepoints around it.                          *)
LEMMA BlankFacts ==
  ASSUME NEW rows \in Seq(Row), Measured(rows), NEW t, Orderly(rows, t),
         NEW k \in PlacesOf(rows, t), ~ Timed(rows[k])
  PROVE  LET p == Max(Earlier(rows, k))
             n == Min(Later(rows, k))
             T == TimedPlaces(rows, t)
             f == Filled(rows, k)
         IN  /\ p \in T /\ n \in T /\ p < k /\ k < n
             /\ \A i \in T : (i < k => i <= p) /\ (k < i => n <= i)
             /\ f.arrival_time = Between(rows, p, n, k) /\ f.departure_time = f.arrival_time
             /\ f.arrival_time \in Nat
             /\ rows[p].departure_time <= f.arrival_time
             /\ f.arrival_time <= rows[n].arrival_time
<1> DEFINE T == TimedPlaces(rows, t)
           P == PlacesOf(rows, t)
           e == Earlier(rows, k)
           l == Later(rows, k)
           p == Max(e)
           n == Min(l)
           f == Filled(rows, k)
<1>1. /\ P \subseteq Nat /\ T \subseteq P /\ P \subseteq DOMAIN rows
      /\ e # {} /\ l # {}
      /\ \A i, j \in T : i < j => rows[i].departure_time <= rows[j].arrival_time
  BY OrderlyFacts
<1>2. e = {i \in T : i < k} /\ l = {i \in T : k < i}
  BY AroundTrip
<1>3. p \in e /\ n \in l /\ (\A i \in e : i <= p) /\ (\A i \in l : n <= i)
  BY <1>1, AroundFacts
<1>4. f.arrival_time = Between(rows, p, n, k) /\ f.departure_time = Between(rows, p, n, k)
  BY <1>1, FilledFacts
<1> HIDE DEF p, n, f, e, l
<1>5. p \in T /\ n \in T /\ p < k /\ k < n
  BY <1>2, <1>3
<1>6. p \in DOMAIN rows /\ n \in DOMAIN rows /\ p \in Nat /\ n \in Nat /\ k \in Nat
  BY <1>1, <1>5
<1>7. p < n /\ k \in p .. n /\ k \in k .. n
  BY <1>5, <1>6
<1>8. rows[p].departure_time <= rows[n].arrival_time
  BY <1>1, <1>5, <1>7
<1>9. LET b == Between(rows, p, n, k)
      IN  b \in Nat /\ rows[p].departure_time <= b /\ b <= rows[n].arrival_time
  BY <1>6, <1>7, <1>8, BetweenFacts
<1>10. \A i \in T : (i < k => i <= p) /\ (k < i => n <= i)
  BY <1>2, <1>3
<1> QED
  BY <1>4, <1>5, <1>9, <1>10 DEF p, n, f, e, l

(* A filled trip runs in order: by what stands between two of its rows.    *)
LEMMA FilledInOrder ==
  ASSUME NEW rows \in Seq(Row), Measured(rows), NEW t, Orderly(rows, t)
  PROVE  \A i \in PlacesOf(rows, t) :
           /\ Filled(rows, i).arrival_time <= Filled(rows, i).departure_time
           /\ \A j \in PlacesOf(rows, t) :
                i < j => Filled(rows, i).departure_time <= Filled(rows, j).arrival_time
<1> DEFINE T == TimedPlaces(rows, t)
           P == PlacesOf(rows, t)
<1>1. /\ P \subseteq Nat /\ T \subseteq P /\ P \subseteq DOMAIN rows
      /\ \A i \in P : rows[i].arrival_time \in Nat /\ rows[i].departure_time \in Nat
      /\ \A i \in T : rows[i].arrival_time <= rows[i].departure_time
      /\ \A i, j \in T : i < j => rows[i].departure_time <= rows[j].arrival_time
  BY OrderlyFacts
<1>2. \A k \in T : Filled(rows, k) = rows[k]
  <2> SUFFICES ASSUME NEW k \in T  PROVE Filled(rows, k) = rows[k]
    OBVIOUS
  <2>1. k \in DOMAIN rows /\ Timed(rows[k])
    BY <1>1 DEF TimedPlaces
  <2> QED
    BY <2>1, FilledFacts
<1>3. \A k \in P : k \in T \/ ~ Timed(rows[k])
  BY DEF TimedPlaces
<1>4. ASSUME NEW k \in P
      PROVE  /\ Filled(rows, k).arrival_time \in Nat /\ Filled(rows, k).departure_time \in Nat
             /\ Filled(rows, k).arrival_time <= Filled(rows, k).departure_time
  <2>1. CASE k \in T
    BY <1>1, <1>2, <2>1
  <2>2. CASE ~ Timed(rows[k])
    <3>1. /\ Filled(rows, k).arrival_time \in Nat
          /\ Filled(rows, k).departure_time = Filled(rows, k).arrival_time
      BY <2>2, BlankFacts
    <3> QED
      BY <3>1
  <2> QED
    BY <1>3, <2>1, <2>2
<1>5. ASSUME NEW i \in T, NEW j \in P, i < j
      PROVE  rows[i].departure_time <= Filled(rows, j).arrival_time
  <2>1. CASE j \in T
    BY <1>1, <1>2, <1>5, <2>1
  <2>2. CASE ~ Timed(rows[j])
    <3>1. PICK p \in T : i <= p /\ rows[p].departure_time <= Filled(rows, j).arrival_time
      BY <1>5, <2>2, BlankFacts
    <3>2. rows[i].departure_time <= rows[p].departure_time
      <4>1. CASE i = p
        BY <1>1, <4>1
      <4>2. CASE i # p
        <5>1. i < p
          BY <1>1, <3>1, <4>2
        <5>2. /\ rows[i].departure_time <= rows[p].arrival_time
              /\ rows[p].arrival_time <= rows[p].departure_time
              /\ rows[i].departure_time \in Nat /\ rows[p].arrival_time \in Nat
              /\ rows[p].departure_time \in Nat
          BY <1>1, <5>1
        <5> QED
          BY <5>2
      <4> QED
        BY <4>1, <4>2
    <3>3. /\ rows[i].departure_time \in Nat /\ rows[p].departure_time \in Nat
          /\ Filled(rows, j).arrival_time \in Nat
      BY <1>1, <1>4
    <3> QED
      BY <3>1, <3>2, <3>3
  <2> QED
    BY <1>3, <2>1, <2>2
<1>6. ASSUME NEW i \in P, NEW j \in T, i < j
      PROVE  Filled(rows, i).departure_time <= rows[j].arrival_time
  <2>1. CASE i \in T
    BY <1>1, <1>2, <1>6, <2>1
  <2>2. CASE ~ Timed(rows[i])
    <3>1. PICK n \in T : /\ n <= j /\ Filled(rows, i).arrival_time <= rows[n].arrival_time
                         /\ Filled(rows, i).departure_time = Filled(rows, i).arrival_time
      BY <1>6, <2>2, BlankFacts
    <3>2. rows[n].arrival_time <= rows[j].arrival_time
      <4>1. CASE n = j
        BY <1>1, <4>1
      <4>2. CASE n # j
        <5>1. n < j
          BY <1>1, <3>1, <4>2
        <5>2. /\ rows[n].arrival_time <= rows[n].departure_time
              /\ rows[n].departure_time <= rows[j].arrival_time
              /\ rows[n].arrival_time \in Nat /\ rows[n].departure_time \in Nat
              /\ rows[j].arrival_time \in Nat
          BY <1>1, <5>1
        <5> QED
          BY <5>2
      <4> QED
        BY <4>1, <4>2
    <3>3. /\ rows[n].arrival_time \in Nat /\ rows[j].arrival_time \in Nat
          /\ Filled(rows, i).arrival_time \in Nat
      BY <1>1, <1>4
    <3> QED
      BY <3>1, <3>2, <3>3
  <2> QED
    BY <1>3, <2>1, <2>2
<1>7. ASSUME NEW i \in P, NEW j \in P, i < j, ~ Timed(rows[i]), ~ Timed(rows[j])
      PROVE  Filled(rows, i).departure_time <= Filled(rows, j).arrival_time
  <2>1. CASE \E m \in T : i < m /\ m < j
    <3>1. PICK m \in T : i < m /\ m < j
      BY <2>1
    <3>2. /\ Filled(rows, i).departure_time <= rows[m].arrival_time
          /\ rows[m].arrival_time <= rows[m].departure_time
          /\ rows[m].departure_time <= Filled(rows, j).arrival_time
      BY <1>1, <1>5, <1>6, <3>1
    <3>3. /\ Filled(rows, i).departure_time \in Nat /\ rows[m].arrival_time \in Nat
          /\ rows[m].departure_time \in Nat /\ Filled(rows, j).arrival_time \in Nat
      BY <1>1, <1>4
    <3> QED
      BY <3>2, <3>3
  <2>2. CASE ~ \E m \in T : i < m /\ m < j
    <3>1. Earlier(rows, i) = Earlier(rows, j) /\ Later(rows, i) = Later(rows, j)
      <4>1. \A m \in T : m \in Nat /\ m # i /\ m # j
        BY <1>1, <1>7 DEF TimedPlaces
      <4>2. i \in Nat /\ j \in Nat
        BY <1>1
      <4>3. \A m \in T : (m < i <=> m < j) /\ (i < m <=> j < m)
        BY <1>7, <2>2, <4>1, <4>2
      <4>4. /\ Earlier(rows, i) = {m \in T : m < i} /\ Later(rows, i) = {m \in T : i < m}
            /\ Earlier(rows, j) = {m \in T : m < j} /\ Later(rows, j) = {m \in T : j < m}
        BY AroundTrip
      <4> QED
        BY <4>3, <4>4
    <3> DEFINE p == Max(Earlier(rows, i))
               n == Min(Later(rows, i))
    <3>2. /\ p \in T /\ n \in T /\ p < i /\ i < n
          /\ Filled(rows, i).arrival_time = Between(rows, p, n, i)
          /\ Filled(rows, i).departure_time = Filled(rows, i).arrival_time
      BY <1>7, BlankFacts
    <3>3. j < n /\ Filled(rows, j).arrival_time = Between(rows, p, n, j)
      BY <1>7, <3>1, BlankFacts
    <3> HIDE DEF p, n
    <3>4. p \in DOMAIN rows /\ n \in DOMAIN rows /\ p \in Nat /\ n \in Nat /\ i \in Nat /\ j \in Nat
      BY <1>1, <3>2
    <3>5. p < n /\ i \in p .. n /\ j \in i .. n
      BY <1>7, <3>2, <3>3, <3>4
    <3>6. Between(rows, p, n, i) <= Between(rows, p, n, j)
      BY <3>4, <3>5, BetweenFacts
    <3> QED
      BY <3>2, <3>3, <3>6
  <2> QED
    BY <2>1, <2>2
<1>8. ASSUME NEW i \in P, NEW j \in P, i < j
      PROVE  Filled(rows, i).departure_time <= Filled(rows, j).arrival_time
  <2>1. CASE i \in T
    BY <1>2, <1>5, <1>8, <2>1
  <2>2. CASE j \in T
    BY <1>2, <1>6, <1>8, <2>2
  <2>3. CASE ~ Timed(rows[i]) /\ ~ Timed(rows[j])
    BY <1>7, <1>8, <2>3
  <2> QED
    BY <1>3, <2>1, <2>2, <2>3
<1> QED
  BY <1>4, <1>8

LEMMA OrderStep ==
  ASSUME LoadInv, interpolate_stop_times, NEW t,
         InOrder(Timepoints(stop_times, t)), RunsForward(Timepoints(stop_times, t)),
         OnceEach(stop_times, t), EndsIn(OfTrip(stop_times, t), Timepoints(stop_times, t))
  PROVE  InOrder(OfTrip(stop_times', t)) /\ RunsForward(OfTrip(stop_times', t))
<1>1. PICK p \in Orders(stop_times) : stop_times' = Interpolated(Sorted(stop_times, p))
  BY DEF interpolate_stop_times, Sorted
<1> DEFINE rows == Sorted(stop_times, p)
           P == PlacesOf(rows, t)
<1>2. /\ stop_times \in Seq(Row) /\ rows \in Seq(Row) /\ Measured(rows)
      /\ Range(rows) = Range(stop_times)
  BY SortedMeasured
<1>3. OfTrip(rows, t) = OfTrip(stop_times, t) /\ Timepoints(rows, t) = Timepoints(stop_times, t)
  BY <1>2, SameRows
<1>4. InSequence(rows, t)
  BY <1>2, SortedInSequence
<1>5. stop_times' = Interpolated(rows)
  BY <1>1
<1> HIDE DEF rows
<1>6. Orderly(rows, t)
  BY <1>3, <1>4 DEF Orderly
<1>7. OfTrip(stop_times', t) = {Filled(rows, k) : k \in P}
  BY <1>2, <1>5, FilledTrip
<1>8. \A i \in P : /\ Filled(rows, i).arrival_time <= Filled(rows, i).departure_time
                   /\ \A j \in P : i < j =>
                        Filled(rows, i).departure_time <= Filled(rows, j).arrival_time
  BY <1>2, <1>6, FilledInOrder
<1>9. \A i \in P : Filled(rows, i).stop_sequence = rows[i].stop_sequence
  <2>1. \A i \in P : i \in DOMAIN rows
    BY DEF PlacesOf
  <2> QED
    BY <1>2, <2>1, FilledFacts
<1>10. \A i, j \in P : rows[i].stop_sequence < rows[j].stop_sequence <=> i < j
  BY <1>4 DEF InSequence
<1> HIDE DEF P
<1>11. InOrder(OfTrip(stop_times', t))
  BY <1>7, <1>8 DEF InOrder
<1>12. RunsForward(OfTrip(stop_times', t))
  <2> SUFFICES ASSUME NEW i \in P, NEW j \in P,
                      Filled(rows, i).stop_sequence < Filled(rows, j).stop_sequence
               PROVE  Filled(rows, i).departure_time <= Filled(rows, j).arrival_time
    BY <1>7 DEF RunsForward
  <2> QED
    BY <1>8, <1>9, <1>10
<1> QED
  BY <1>11, <1>12

(* A trip timed at both ends whose timepoints run in order is filled in    *)
(* order: no blank is filled with a time before the departure of an        *)
(* earlier visit or after the arrival at a later one, however the         *)
(* distances share out the seconds.                                        *)
THEOREM FillingKeepsOrder == Spec => TimesInOrder
<1>1. LoadInv /\ [Next]_vars =>
        [interpolate_stop_times =>
           \A t \in TripIds(stop_times) :
             LET own == OfTrip(stop_times, t)
                 known == Timepoints(stop_times, t)
                 then == OfTrip(stop_times', t)
             IN  (/\ Full(known) /\ InOrder(known) /\ RunsForward(known)
                  /\ OnceEach(stop_times, t) /\ EndsIn(own, known))
                   => InOrder(then) /\ RunsForward(then)]_vars
  BY OrderStep
<1> QED
  BY <1>1, LoadInvariant, PTL DEF Spec, TimesInOrder
=============================================================================
