------------------------ MODULE ParetoDijkstra_proofs ------------------------
(***************************************************************************)
(* For every graph, configuration, capacity and number of queries: the     *)
(* safety properties of the search.                                        *)
(***************************************************************************)
EXTENDS ParetoDijkstra, Lemmas

(* y is at least as good a label of the same node as x, and strictly so.   *)
Beats(y, x) == y.node = x.node /\ WeaklyDominates(y, x)
BeatsStrictly(y, x) == Beats(y, x) /\ ~ Beats(x, y)

(* Labels have natural times and costs.                                    *)
LEMMA LabelFacts ==
  /\ Costed(LabelType)
  /\ \A l \in LabelType : /\ l.node \in Node
                          /\ l.arrival_time \in Nat
                          /\ l.secondary_cost \in Nat
                          /\ l.predecessor \in Node \cup {NoNode}
  /\ \A n \in Node, t \in Nat, c \in Nat, p \in Node \cup {NoNode} :
       /\ Label(n, t, c, p) \in LabelType
       /\ Label(n, t, c, p).node = n
       /\ Label(n, t, c, p).arrival_time = t
       /\ Label(n, t, c, p).secondary_cost = c
       /\ Label(n, t, c, p).predecessor = p
BY DEF LabelType, Label, Costed

(* Beating is a preorder, and its strict part is strict dominance.         *)
LEMMA BeatsOrder ==
  /\ \A x \in LabelType : Beats(x, x)
  /\ \A x, y, z \in LabelType : Beats(x, y) /\ Beats(y, z) => Beats(x, z)
  /\ \A x, y \in LabelType :
       BeatsStrictly(y, x) <=> y.node = x.node /\ StrictlyDominates(y, x)
  /\ \A x, y \in LabelType : Beats(y, x) => y.arrival_time <= x.arrival_time
<1> USE LabelFacts DEF Beats, WeaklyDominates
<1>1. \A x \in LabelType : Beats(x, x)
  OBVIOUS
<1>2. \A x, y, z \in LabelType : Beats(x, y) /\ Beats(y, z) => Beats(x, z)
  OBVIOUS
<1>3. \A x, y \in LabelType :
        BeatsStrictly(y, x) <=> y.node = x.node /\ StrictlyDominates(y, x)
  BY DEF BeatsStrictly, StrictlyDominates
<1>4. \A x, y \in LabelType : Beats(y, x) => y.arrival_time <= x.arrival_time
  OBVIOUS
<1> QED
  BY <1>1, <1>2, <1>3, <1>4

-----------------------------------------------------------------------------
(* The heap is a bag: pushing and popping one label.                       *)
LEMMA HeapPush ==
  ASSUME NEW B, IsABag(B), NEW x
  PROVE  LET C == B (+) SetToBag({x})
         IN  /\ IsABag(C)
             /\ BagToSet(C) = BagToSet(B) \cup {x}
             /\ \A y \in BagToSet(B) \ {x} : C[y] = B[y]
             /\ x \notin BagToSet(B) => C[x] = 1
BY DEF IsABag, SetToBag, BagToSet, (+)

LEMMA HeapPop ==
  ASSUME NEW B, IsABag(B), NEW x \in BagToSet(B)
  PROVE  LET C == B (-) SetToBag({x})
         IN  /\ IsABag(C)
             /\ BagToSet(C) \subseteq BagToSet(B)
             /\ BagToSet(B) \ {x} \subseteq BagToSet(C)
             /\ \A y \in BagToSet(B) \ {x} : C[y] = B[y]
             /\ B[x] = 1 => x \notin BagToSet(C)
BY DEF IsABag, SetToBag, BagToSet, (-)

-----------------------------------------------------------------------------
(* What never changes in a run, and the types with the sorted frontiers    *)
(* that insert_and_dominate needs.                                         *)
FrontierOK(ls, n) ==
  /\ ls \in Seq(LabelType)
  /\ \A i \in DOMAIN ls : ls[i].node = n
  /\ SortedFrontier(ls)

Typed ==
  /\ graph \in Graphs /\ config \in Configs
  /\ pareto \in [Node -> Seq(LabelType)]
  /\ \A n \in Node : FrontierOK(pareto[n], n)
  /\ IsABag(pq) /\ BagToSet(pq) \subseteq LabelType
  /\ phase \in {"idle", "popping", "relaxing"}
  /\ current \in LabelType /\ source \in LabelType
  /\ expanded \subseteq LabelType
  /\ fresh \in BOOLEAN

(* What is left of an expansion are extensions of the label expanded.      *)
Pending == {Ride(current, v) : v \in dests} \cup Range(walks)
PendingOK ==
  /\ dests \subseteq Node
  /\ walks \in Seq(LabelType)
  /\ phase = "relaxing" => /\ dests \subseteq Boardable(current)
                           /\ Range(walks) \subseteq Range(Walks(current))
  /\ phase # "relaxing" => dests = {} /\ walks = << >>

(* The arena holds the labels of the frontiers and nothing else.           *)
ArenaOK ==
  /\ IsFiniteSet(AllLabels)
  /\ ArenaBalanced
  /\ used_count \in 0 .. Capacity

Shaped == Typed /\ PendingOK /\ ArenaOK

LEMMA EdgeFacts ==
  ASSUME Typed, NEW n \in Node
  PROVE  /\ DepartureRange(graph.edges[n])
         /\ graph.edges[n] \in Seq(Edge)
         /\ \A i \in DOMAIN graph.edges[n] :
              /\ graph.edges[n][i].destination \in Node
              /\ graph.edges[n][i].travel_time \in Nat \ {0}
         /\ config.lambda \in Nat
<1>1. graph.edges[n] \in Seq(Edge)
  BY GraphsAssumption DEF Typed
<1>2. \A i \in DOMAIN graph.edges[n] : graph.edges[n][i] \in Edge
  BY <1>1
<1>3. Len(graph.edges[n]) \in Nat /\ DOMAIN graph.edges[n] = 1 .. Len(graph.edges[n])
  BY <1>1
<1>4. DepartureRange(graph.edges[n])
  BY <1>2, <1>3 DEF DepartureRange, Edge
<1> QED
  BY <1>1, <1>2, <1>4, ConfigsAssumption DEF Edge, Typed

(* A ride arrives strictly later than the label it extends.                *)
LEMMA RideFacts ==
  ASSUME Typed, NEW l \in LabelType, NEW v \in Boardable(l)
  PROVE  /\ v \in Node
         /\ Ride(l, v) \in LabelType
         /\ Ride(l, v).node = v
         /\ Ride(l, v).predecessor = l.node
         /\ Ride(l, v).arrival_time > l.arrival_time
<1> DEFINE es == graph.edges[l.node]
           i == Selected(l, v)
<1>1. l.node \in Node /\ l.arrival_time \in Nat /\ l.secondary_cost \in Nat
  BY LabelFacts
<1>2. v \in {es[j].destination : j \in DOMAIN es} /\ i # NoDeparture
  BY DEF Boardable
<1>3. v \in Node
  BY <1>1, <1>2, EdgeFacts
<1>4. /\ i \in DOMAIN es
      /\ l.arrival_time <= es[i].departure_time
  BY <1>1, <1>2, EdgeFacts, SelectionIsCatchable DEF Selected
<1>5. /\ es[i].departure_time \in Nat /\ es[i].travel_time \in Nat \ {0}
      /\ es[i].secondary_weight \in Nat /\ es[i].penalty \in Nat
  BY <1>1, <1>4, EdgeFacts DEF DepartureRange
<1> HIDE DEF es, i
<1>6. /\ ArrivalOf(es[i]) \in Nat /\ ArrivalOf(es[i]) > l.arrival_time
      /\ l.secondary_cost + es[i].secondary_weight + es[i].penalty \in Nat
  BY <1>1, <1>4, <1>5 DEF ArrivalOf
<1>7. Ride(l, v) = Label(v, ArrivalOf(es[i]),
                         l.secondary_cost + es[i].secondary_weight + es[i].penalty,
                         l.node)
  BY DEF Ride, es, i
<1> QED
  BY <1>1, <1>3, <1>6, <1>7, LabelFacts

(* So does a walk.                                                         *)
LEMMA WalkFacts ==
  ASSUME Typed, NEW l \in LabelType
  PROVE  /\ Walks(l) \in Seq(LabelType)
         /\ \A x \in Range(Walks(l)) : /\ x \in LabelType
                                       /\ x.predecessor = l.node
                                       /\ x.arrival_time > l.arrival_time
<1> DEFINE ts == graph.transfers[l.node]
<1>1. l.node \in Node /\ l.arrival_time \in Nat /\ l.secondary_cost \in Nat
  BY LabelFacts
<1>2. ts \in Seq(TransferEdge)
  BY <1>1, GraphsAssumption DEF Typed
<1>3. /\ Len(ts) \in Nat /\ DOMAIN ts = 1 .. Len(ts)
      /\ \A i \in DOMAIN ts : ts[i] \in TransferEdge
  BY <1>2
<1>4. TransferCost \in Nat
  BY DEF TransferCost
<1>5. ASSUME NEW i \in DOMAIN ts
      PROVE  /\ Walks(l)[i] \in LabelType
             /\ Walks(l)[i].predecessor = l.node
             /\ Walks(l)[i].arrival_time > l.arrival_time
  <2>1. /\ ts[i].destination \in Node /\ ts[i].travel_time \in Nat \ {0}
    BY <1>3 DEF TransferEdge
  <2>2. /\ l.arrival_time + ts[i].travel_time \in Nat
        /\ l.arrival_time + ts[i].travel_time > l.arrival_time
        /\ l.secondary_cost + TransferCost \in Nat
    BY <1>1, <1>4, <2>1
  <2>3. Walks(l)[i] = Label(ts[i].destination, l.arrival_time + ts[i].travel_time,
                            l.secondary_cost + TransferCost, l.node)
    BY DEF Walks
  <2>4. l.node \in Node \cup {NoNode}
    BY <1>1, LabelFacts
  <2>5. /\ Walks(l)[i] \in LabelType
        /\ Walks(l)[i].predecessor = l.node
        /\ Walks(l)[i].arrival_time = l.arrival_time + ts[i].travel_time
    <3> DEFINE t == l.arrival_time + ts[i].travel_time
               c == l.secondary_cost + TransferCost
    <3>1. /\ ts[i].destination \in Node /\ t \in Nat /\ c \in Nat
          /\ Walks(l)[i] = Label(ts[i].destination, t, c, l.node)
      BY <2>1, <2>2, <2>3
    <3> HIDE DEF t, c
    <3>2. /\ Walks(l)[i] \in LabelType
          /\ Walks(l)[i].predecessor = l.node
          /\ Walks(l)[i].arrival_time = t
      BY <2>4, <3>1 DEF Label, LabelType
    <3> QED
      BY <3>2 DEF t
  <2> QED
    BY <2>2, <2>5
<1>6. DOMAIN Walks(l) = 1 .. Len(ts)
  BY <1>3 DEF Walks
<1>7. Walks(l) \in Seq(LabelType)
  <2>1. Walks(l) = [i \in 1 .. Len(ts) |-> Walks(l)[i]]
    BY <1>3 DEF Walks
  <2>2. Walks(l) \in [1 .. Len(ts) -> LabelType]
    BY <1>3, <1>5, <2>1
  <2> QED
    BY <1>3, <2>2, SeqDef
<1> QED
  BY <1>3, <1>5, <1>6, <1>7 DEF Range

(* So does every extension.                                                *)
LEMMA ExtensionFacts ==
  ASSUME Typed, NEW l \in LabelType, NEW x \in Extensions(l)
  PROVE  /\ x \in LabelType
         /\ x.predecessor = l.node
         /\ x.arrival_time > l.arrival_time
BY RideFacts, WalkFacts DEF Extensions

(* The frontier of a node are the labels of that node, no one of which     *)
(* beats another.                                                          *)
LEMMA FrontierFacts ==
  ASSUME Typed
  PROVE  /\ AllLabels \subseteq LabelType
         /\ \A n \in Node : Frontier(n) = {x \in AllLabels : x.node = n}
         /\ \A x, y \in AllLabels : Beats(x, y) => x = y
<1>1. \A n \in Node : FrontierOK(pareto[n], n)
  BY DEF Typed
<1>2. \A n \in Node : \A x \in Frontier(n) : x \in LabelType /\ x.node = n
  <2> SUFFICES ASSUME NEW n \in Node, NEW x \in Frontier(n)
               PROVE  x \in LabelType /\ x.node = n
    OBVIOUS
  <2>1. PICK i \in DOMAIN pareto[n] : x = pareto[n][i]
    BY DEF Frontier, Range
  <2> QED
    BY <1>1, <2>1 DEF FrontierOK
<1>3. AllLabels \subseteq LabelType
  BY <1>2 DEF AllLabels
<1>4. \A n \in Node : Frontier(n) = {x \in AllLabels : x.node = n}
  BY <1>2 DEF AllLabels
<1>5. ASSUME NEW x \in AllLabels, NEW y \in AllLabels, Beats(x, y)
      PROVE  x = y
  <2>1. x.node \in Node /\ x \in Frontier(x.node) /\ y \in Frontier(x.node)
    BY <1>3, <1>4, <1>5, LabelFacts DEF Beats
  <2> QED
    BY <1>1, <1>5, <2>1, LabelFacts, SortedIncomparable DEF Beats, FrontierOK, Frontier
<1> QED
  BY <1>3, <1>4, <1>5

(* Extensions depend on the graph and the configuration only.              *)
LEMMA ExtensionsConstant ==
  ASSUME graph' = graph, config' = config
  PROVE  \A l : /\ Extensions(l)' = Extensions(l)
                /\ Boardable(l)' = Boardable(l)
                /\ Walks(l)' = Walks(l)
                /\ \A v : Ride(l, v)' = Ride(l, v)
BY DEF Extensions, Boardable, Walks, Ride, Selected, TransferCost

-----------------------------------------------------------------------------
(* A candidate that is offered is rejected because some label beats it, or *)
(* replaces the labels it beats.                                           *)
LEMMA OfferedEffect ==
  ASSUME Shaped, NEW new \in LabelType, Offered(new)
  PROVE  /\ pareto' \in [Node -> Seq(LabelType)]
         /\ \A n \in Node : FrontierOK(pareto'[n], n)
         /\ \/ /\ pareto' = pareto /\ pq' = pq
               /\ AllLabels' = AllLabels
               /\ \E y \in AllLabels : Beats(y, new)
            \/ /\ pq' = pq (+) SetToBag({new})
               /\ AllLabels' = {x \in AllLabels : ~ Beats(new, x)} \cup {new}
               /\ \A x \in AllLabels : ~ Beats(x, new)
<1> DEFINE n == new.node
           ls == pareto[n]
           after == AfterInsert(ls, new)
<1>1. n \in Node /\ pareto \in [Node -> Seq(LabelType)] /\ FrontierOK(ls, n)
  BY LabelFacts DEF Shaped, Typed
<1>2. pareto' = [pareto EXCEPT ![n] = after] /\ pq' = Pushed(ls, new)
  BY DEF Offered
<1>3. /\ after \in Seq(LabelType) /\ SortedFrontier(after)
      /\ Rejected(ls, new) => /\ after = ls
                              /\ \E x \in Range(ls) : WeaklyDominates(x, new)
      /\ ~ Rejected(ls, new) =>
           /\ Range(after) = {x \in Range(ls) : ~ WeaklyDominates(new, x)} \cup {new}
           /\ \A x \in Range(ls) : ~ WeaklyDominates(x, new)
  <2>1. Costed(LabelType) /\ ls \in Seq(LabelType) /\ SortedFrontier(ls)
    BY <1>1, LabelFacts DEF FrontierOK
  <2> HIDE DEF ls
  <2> QED
    BY <2>1, InsertFrontier
<1> HIDE DEF after
<1>4. \A x \in Range(ls) : x.node = n
  BY <1>1 DEF FrontierOK, Range
<1>5. \A x \in Range(after) : x.node = n
  BY <1>3, <1>4
<1>6. FrontierOK(after, n)
  BY <1>3, <1>5 DEF FrontierOK, Range
<1>7. /\ pareto' \in [Node -> Seq(LabelType)]
      /\ pareto'[n] = after
      /\ \A m \in Node \ {n} : pareto'[m] = pareto[m]
  BY <1>1, <1>2, <1>3
<1>8. \A m \in Node : FrontierOK(pareto'[m], m)
  <2> SUFFICES ASSUME NEW m \in Node PROVE FrontierOK(pareto'[m], m)
    OBVIOUS
  <2>1. CASE m = n
    BY <1>6, <1>7, <2>1
  <2>2. CASE m # n
    <3>1. pareto'[m] = pareto[m] /\ FrontierOK(pareto[m], m)
      BY <1>7, <2>2 DEF Shaped, Typed
    <3> QED
      BY <3>1
  <2> QED
    BY <2>1, <2>2
<1>9. Range(ls) = {x \in AllLabels : x.node = n}
  BY <1>1, FrontierFacts DEF Shaped, Frontier
<1>10. CASE Rejected(ls, new)
  <2>1. pareto' = pareto /\ pq' = pq
    BY <1>1, <1>2, <1>3, <1>10 DEF Pushed
  <2>2. AllLabels' = AllLabels
    BY <2>1 DEF AllLabels, Frontier
  <2>3. \E y \in AllLabels : Beats(y, new)
    BY <1>3, <1>9, <1>10 DEF Beats
  <2> QED
    BY <1>7, <1>8, <2>1, <2>2, <2>3
<1>11. CASE ~ Rejected(ls, new)
  <2>1. pq' = pq (+) SetToBag({new})
    BY <1>2, <1>11 DEF Pushed
  <2>2. \A x \in AllLabels : ~ Beats(x, new)
    BY <1>3, <1>9, <1>11 DEF Beats
  <2>3. AllLabels' = UNION {Range(pareto'[m]) : m \in Node}
    BY DEF AllLabels, Frontier
  <2>4. AllLabels' = {x \in AllLabels : x.node # n} \cup Range(after)
    <3>1. \A m \in Node \ {n} : Range(pareto'[m]) = {x \in AllLabels : x.node = m}
      BY <1>7, FrontierFacts DEF Shaped, Frontier
    <3>2. \A x \in AllLabels : x.node \in Node
      BY FrontierFacts, LabelFacts DEF Shaped
    <3>3. n \in Node /\ Range(pareto'[n]) = Range(after)
      BY <1>1, <1>7
    <3> QED
      BY <2>3, <3>1, <3>2, <3>3
  <2>5. Range(after) = {x \in AllLabels : x.node = n /\ ~ WeaklyDominates(new, x)}
                         \cup {new}
    BY <1>3, <1>9, <1>11
  <2>6. AllLabels' = {x \in AllLabels : ~ Beats(new, x)} \cup {new}
    BY <2>4, <2>5 DEF Beats
  <2> QED
    BY <1>7, <1>8, <2>1, <2>2, <2>6
<1> QED
  BY <1>10, <1>11

(* The labels of the frontiers and the arena change by the same number.    *)
LEMMA OfferedArena ==
  ASSUME Shaped, NEW new \in LabelType, Offered(new)
  PROVE  ArenaOK'
<1> DEFINE n == new.node
           ls == pareto[n]
           after == AfterInsert(ls, new)
           rest == {x \in AllLabels : x.node # n}
<1>1. n \in Node /\ pareto \in [Node -> Seq(LabelType)] /\ FrontierOK(ls, n)
  BY LabelFacts DEF Shaped, Typed
<1>2. /\ pareto' = [pareto EXCEPT ![n] = after]
      /\ used_count < Capacity
      /\ used_count' = used_count + Len(after) - Len(ls)
  BY DEF Offered, UsedAfter
<1>3. Len(after) <= Len(ls) + 1 /\ after \in Seq(LabelType) /\ SortedFrontier(after)
  BY <1>1, LabelFacts, InsertFrontier DEF FrontierOK
<1>4. \A m \in Node : FrontierOK(pareto'[m], m)
  BY OfferedEffect
<1>5. pareto'[n] = after /\ \A m \in Node \ {n} : pareto'[m] = pareto[m]
  BY <1>1, <1>2
<1> HIDE DEF after
<1>6. FrontierOK(after, n)
  BY <1>1, <1>4, <1>5
<1>7. /\ IsFiniteSet(Range(ls)) /\ Cardinality(Range(ls)) = Len(ls)
      /\ IsFiniteSet(Range(after)) /\ Cardinality(Range(after)) = Len(after)
      /\ Len(ls) \in Nat /\ Len(after) \in Nat
  BY <1>1, <1>3, LabelFacts, SortedCardinality, LenProperties DEF FrontierOK
<1>8. \A m \in Node : Range(pareto[m]) = {x \in AllLabels : x.node = m}
  BY FrontierFacts DEF Shaped, Frontier
<1>9. \A x \in AllLabels : x.node \in Node
  BY FrontierFacts, LabelFacts DEF Shaped
<1>10. \A x \in Range(after) : x.node = n
  BY <1>6 DEF FrontierOK, Range
<1>11. AllLabels = rest \cup Range(ls) /\ rest \cap Range(ls) = {}
  BY <1>1, <1>8
<1>12. AllLabels' = rest \cup Range(after) /\ rest \cap Range(after) = {}
  <2>1. AllLabels' = UNION {Range(pareto'[m]) : m \in Node}
    BY DEF AllLabels, Frontier
  <2>2. n \in Node /\ Range(pareto'[n]) = Range(after)
    BY <1>1, <1>5
  <2>3. \A m \in Node \ {n} : Range(pareto'[m]) = {x \in AllLabels : x.node = m}
    BY <1>5, <1>8
  <2>4. AllLabels' = rest \cup Range(after)
    BY <1>9, <2>1, <2>2, <2>3
  <2>5. rest \cap Range(after) = {}
    BY <1>10
  <2> QED
    BY <2>4, <2>5
<1>13. IsFiniteSet(rest) /\ Cardinality(rest) \in Nat
  BY <1>11, FS_Subset, FS_CardinalityType DEF Shaped, ArenaOK
<1> HIDE DEF rest
<1>14. Cardinality(AllLabels) = Cardinality(rest) + Len(ls)
  <2>1. Cardinality(rest \cup Range(ls))
          = Cardinality(rest) + Cardinality(Range(ls)) - Cardinality({})
    BY <1>7, <1>11, <1>13, FS_Union
  <2> QED
    BY <1>7, <1>11, <1>13, <2>1, FS_EmptySet
<1>15. IsFiniteSet(AllLabels') /\ Cardinality(AllLabels') = Cardinality(rest) + Len(after)
  <2>1. /\ IsFiniteSet(rest \cup Range(after))
        /\ Cardinality(rest \cup Range(after))
             = Cardinality(rest) + Cardinality(Range(after)) - Cardinality({})
    <3>1. /\ IsFiniteSet(rest \cup Range(after))
          /\ Cardinality(rest \cup Range(after))
               = Cardinality(rest) + Cardinality(Range(after))
                   - Cardinality(rest \cap Range(after))
      BY <1>7, <1>13, FS_Union, Zenon
    <3> QED
      BY <1>12, <3>1, Zenon
  <2>2. Cardinality({}) = 0
    BY FS_EmptySet
  <2>3. IsFiniteSet(AllLabels')
        /\ Cardinality(AllLabels') = Cardinality(rest) + Len(after) - 0
    BY <1>7, <1>12, <2>1, <2>2, Zenon
  <2> QED
    BY <1>7, <1>13, <2>3
<1>16. used_count = Cardinality(rest) + Len(ls)
  BY <1>14 DEF Shaped, ArenaOK, ArenaBalanced
<1>17. used_count' = Cardinality(rest) + Len(after)
  BY <1>2, <1>7, <1>13, <1>16
<1>18. used_count' \in 0 .. Capacity
  <2>1. used_count \in Nat /\ Capacity \in Nat /\ used_count + 1 <= Capacity
    BY <1>2, CapacityAssumption DEF Shaped, ArenaOK
  <2>2. used_count' <= used_count + 1
    BY <1>3, <1>7, <1>13, <1>16, <1>17
  <2>3. used_count' \in Nat
    BY <1>7, <1>13, <1>17
  <2> QED
    BY <2>1, <2>2, <2>3
<1> QED
  BY <1>15, <1>17, <1>18 DEF ArenaOK, ArenaBalanced

-----------------------------------------------------------------------------
(* The initial state, and the state a run starts from.                     *)
LEMMA ShapedInit == Init => Shaped
<1> SUFFICES ASSUME Init PROVE Shaped
  OBVIOUS
<1>1. 0 \in Node /\ current \in LabelType /\ source \in LabelType
  <2>1. 0 \in Node /\ NoNode \in Node \cup {NoNode} /\ 0 \in Nat
    BY NodeAssumption DEF Node
  <2>2. Label(0, 0, 0, NoNode) \in LabelType
    BY <2>1, LabelFacts
  <2> QED
    BY <2>1, <2>2 DEF Init
<1>2. \A n \in Node : pareto[n] = << >>
  BY DEF Init
<1>3. pareto \in [Node -> Seq(LabelType)] /\ \A n \in Node : FrontierOK(pareto[n], n)
  BY <1>2 DEF Init, FrontierOK, SortedFrontier
<1>4. IsABag(pq) /\ BagToSet(pq) \subseteq LabelType
  BY DEF Init, EmptyBag, SetToBag, IsABag, BagToSet
<1>5. Typed
  BY <1>1, <1>3, <1>4 DEF Init, Typed
<1>6. PendingOK
  BY DEF Init, PendingOK
<1>7. AllLabels = {}
  BY <1>2 DEF AllLabels, Frontier, Range
<1>8. ArenaOK
  BY <1>7, FS_EmptySet, CapacityAssumption DEF Init, ArenaOK, ArenaBalanced
<1> QED
  BY <1>5, <1>6, <1>8 DEF Shaped

LEMMA StartRunEffect ==
  ASSUME Shaped, NEW src \in Node, NEW dep \in Departures, StartRun(src, dep)
  PROVE  /\ Typed'
         /\ source' \in LabelType
         /\ AllLabels' = {source'}
         /\ current' = source'
         /\ expanded' = {}
         /\ phase' = "popping"
         /\ fresh' => BagToSet(pq') = {source'} /\ pq'[source'] = 1
<1> DEFINE s == Label(src, dep, 0, NoNode)
<1>1. s \in LabelType /\ s.node = src
  <2>1. dep \in Nat /\ 0 \in Nat /\ NoNode \in Node \cup {NoNode}
    BY DeparturesAssumption
  <2> QED
    BY <2>1, LabelFacts
<1>2. /\ pareto' = Seeded(s) /\ pq' = pq (+) SetToBag({s})
      /\ current' = s /\ source' = s /\ fresh' = (pq = EmptyBag)
      /\ phase' = "popping" /\ expanded' = {}
      /\ graph' = graph /\ config' = config
  BY DEF StartRun
<1> HIDE DEF s
<1>3. \A n \in Node : pareto'[n] = IF n = src THEN << s >> ELSE << >>
  BY <1>1, <1>2 DEF Seeded
<1>4. pareto' \in [Node -> Seq(LabelType)]
  BY <1>1, <1>2 DEF Seeded
<1>5. \A n \in Node : FrontierOK(pareto'[n], n)
  <2>1. FrontierOK(<< s >>, src)
    BY <1>1 DEF FrontierOK, SortedFrontier
  <2>2. \A n \in Node : FrontierOK(<< >>, n)
    BY DEF FrontierOK, SortedFrontier
  <2> QED
    BY <1>3, <2>1, <2>2
<1>6. /\ IsABag(pq') /\ BagToSet(pq') = BagToSet(pq) \cup {s}
      /\ BagToSet(pq') \subseteq LabelType
      /\ s \notin BagToSet(pq) => pq'[s] = 1
  <2>1. IsABag(pq) /\ BagToSet(pq) \subseteq LabelType
    BY DEF Shaped, Typed
  <2>2. pq' = pq (+) SetToBag({s})
    BY <1>2
  <2>3. LET C == pq (+) SetToBag({s})
        IN  /\ IsABag(C)
            /\ BagToSet(C) = BagToSet(pq) \cup {s}
            /\ s \notin BagToSet(pq) => C[s] = 1
    BY <2>1, HeapPush
  <2> QED
    BY <1>1, <2>1, <2>2, <2>3
<1>7. Typed'
  BY <1>1, <1>2, <1>4, <1>5, <1>6 DEF Shaped, Typed
<1>8. AllLabels' = {s}
  <2>1. AllLabels' = UNION {Range(pareto'[n]) : n \in Node}
    BY DEF AllLabels, Frontier
  <2>2. \A n \in Node : Range(pareto'[n]) = IF n = src THEN {s} ELSE {}
    BY <1>3 DEF Range
  <2> QED
    BY <2>1, <2>2
<1>9. pq = EmptyBag => BagToSet(pq) = {}
  BY DEF EmptyBag, SetToBag, BagToSet
<1>10. fresh' => BagToSet(pq') = {s} /\ pq'[s] = 1
  BY <1>2, <1>6, <1>9
<1> QED
  BY <1>1, <1>2, <1>7, <1>8, <1>10

-----------------------------------------------------------------------------
(* Steps that leave the frontiers alone leave the arena in order.          *)
LEMMA ArenaKept ==
  ASSUME ArenaOK, pareto' = pareto, used_count' = used_count
  PROVE  ArenaOK' /\ AllLabels' = AllLabels
<1>1. AllLabels' = AllLabels
  BY DEF AllLabels, Frontier
<1> QED
  BY <1>1 DEF ArenaOK, ArenaBalanced

(* What is popped from the heap.                                           *)
LEMMA PoppedEffect ==
  ASSUME Shaped, NEW l \in Top, Popped(l)
  PROVE  /\ l \in LabelType /\ l \in BagToSet(pq)
         /\ \A m \in BagToSet(pq) : l.arrival_time <= m.arrival_time
         /\ IsABag(pq') /\ BagToSet(pq') \subseteq BagToSet(pq)
         /\ BagToSet(pq) \ {l} \subseteq BagToSet(pq')
         /\ \A y \in BagToSet(pq) \ {l} : pq'[y] = pq[y]
         /\ pq[l] = 1 => l \notin BagToSet(pq')
<1>1. l \in BagToSet(pq) /\ \A m \in BagToSet(pq) : Precedes(l, m)
  BY DEF Top
<1>2. l \in LabelType
  BY <1>1 DEF Shaped, Typed
<1>3. \A m \in BagToSet(pq) : l.arrival_time <= m.arrival_time
  BY <1>1, <1>2, LabelFacts DEF Precedes, Shaped, Typed
<1> QED
  BY <1>1, <1>2, <1>3, HeapPop DEF Popped, Shaped, Typed

(* A step that pops and expands nothing else keeps the types.              *)
LEMMA ShapedPop ==
  ASSUME Shaped, PopStale \/ PopExpand
  PROVE  Shaped'
<1>1. PICK l \in Top : Popped(l)
  BY DEF PopStale, PopExpand
<1>2. /\ l \in LabelType /\ IsABag(pq') /\ BagToSet(pq') \subseteq LabelType
  BY <1>1, PoppedEffect DEF Shaped, Typed
<1>3. /\ graph' = graph /\ config' = config /\ pareto' = pareto
      /\ used_count' = used_count /\ source' = source /\ fresh' = fresh
  BY DEF PopStale, PopExpand, inputs
<1>4. ArenaOK'
  BY <1>3, ArenaKept DEF Shaped
<1>5. CASE PopStale
  <2>1. /\ phase' = phase /\ current' = current /\ dests' = dests
        /\ walks' = walks /\ expanded' = expanded /\ phase = "popping"
    BY <1>5 DEF PopStale
  <2>2. Typed'
    BY <1>2, <1>3, <2>1 DEF Shaped, Typed
  <2>3. PendingOK'
    BY <2>1 DEF Shaped, PendingOK
  <2> QED
    BY <1>4, <2>2, <2>3 DEF Shaped
<1>6. CASE PopExpand
  <2>1. PICK m \in Top : /\ Popped(m) /\ current' = m /\ dests' = Boardable(m)
                         /\ walks' = Walks(m) /\ expanded' = expanded \cup {m}
    BY <1>6 DEF PopExpand
  <2>2. phase' = "relaxing" /\ m \in LabelType
    BY <1>6, <2>1, PoppedEffect DEF PopExpand
  <2>3. Typed'
    BY <1>2, <1>3, <2>1, <2>2 DEF Shaped, Typed
  <2>4. dests' = Boardable(current)' /\ walks' = Walks(current)'
    <3>1. Boardable(current)' = Boardable(m) /\ Walks(current)' = Walks(m)
      BY <1>3, <2>1 DEF Boardable, Selected, Walks, TransferCost
    <3> QED
      BY <2>1, <3>1
  <2>5. dests' \subseteq Node /\ walks' \in Seq(LabelType)
    BY <2>1, <2>2, RideFacts, WalkFacts DEF Shaped
  <2>6. PendingOK'
    BY <2>2, <2>4, <2>5 DEF PendingOK
  <2> QED
    BY <1>4, <2>3, <2>6 DEF Shaped
<1> QED
  BY <1>5, <1>6

(* The label offered in a relaxation is an extension of current, and was   *)
(* pending.                                                                *)
LEMMA RelaxedLabel ==
  ASSUME Shaped, RelaxRide \/ RelaxWalk
  PROVE  \E new \in LabelType :
           /\ new \in Extensions(current) /\ Offered(new)
           /\ new \in Pending
           /\ Pending \subseteq Pending' \cup {new}
<1>1. phase = "relaxing" /\ current \in LabelType /\ Typed
  BY DEF RelaxRide, RelaxWalk, Shaped, Typed
<1>2. graph' = graph /\ config' = config /\ current' = current
  BY DEF RelaxRide, RelaxWalk, inputs
<1>3. \A v : Ride(current, v)' = Ride(current, v)
  BY <1>2 DEF Ride, Selected
<1>4. Pending' = {Ride(current, v) : v \in dests'} \cup Range(walks')
  BY <1>2, <1>3 DEF Pending, Ride, Selected
<1>5. CASE RelaxRide
  <2>1. PICK v \in dests : Offered(Ride(current, v)) /\ dests' = dests \ {v}
    BY <1>5 DEF RelaxRide
  <2>2. walks' = walks
    BY <1>5 DEF RelaxRide
  <2>3. v \in Boardable(current)
    BY <1>1, <2>1 DEF Shaped, PendingOK
  <2>4. Ride(current, v) \in LabelType /\ Ride(current, v) \in Extensions(current)
    BY <1>1, <2>3, RideFacts DEF Extensions
  <2>5. Ride(current, v) \in Pending /\ Pending \subseteq Pending' \cup {Ride(current, v)}
    BY <1>4, <2>1, <2>2 DEF Pending
  <2> QED
    BY <2>1, <2>4, <2>5
<1>6. CASE RelaxWalk
  <2>1. /\ walks # << >> /\ Offered(Head(walks)) /\ walks' = Tail(walks)
        /\ dests' = dests /\ walks \in Seq(LabelType)
    BY <1>6 DEF RelaxWalk, Shaped, PendingOK
  <2>2. Range(walks) = Range(Tail(walks)) \cup {Head(walks)}
    <3>1. /\ Len(walks) \in Nat \ {0} /\ DOMAIN walks = 1 .. Len(walks)
          /\ Head(walks) = walks[1]
          /\ DOMAIN Tail(walks) = 1 .. Len(walks) - 1
          /\ \A i \in 1 .. Len(walks) - 1 : Tail(walks)[i] = walks[i + 1]
      BY <2>1, EmptySeq, LenProperties, HeadTailProperties
    <3>2. ASSUME NEW i \in DOMAIN walks
          PROVE  walks[i] \in Range(Tail(walks)) \cup {Head(walks)}
      <4>1. i = 1 \/ (i - 1 \in DOMAIN Tail(walks) /\ Tail(walks)[i - 1] = walks[i])
        BY <3>1
      <4> QED
        BY <3>1, <4>1 DEF Range
    <3>3. ASSUME NEW i \in DOMAIN Tail(walks)
          PROVE  Tail(walks)[i] \in Range(walks)
      <4>1. i + 1 \in DOMAIN walks /\ Tail(walks)[i] = walks[i + 1]
        BY <3>1
      <4> QED
        BY <4>1 DEF Range
    <3>4. Head(walks) \in Range(walks)
      BY <3>1 DEF Range
    <3> QED
      BY <3>2, <3>3, <3>4 DEF Range
  <2>3. Head(walks) \in Range(Walks(current))
    BY <1>1, <2>2 DEF Shaped, PendingOK
  <2>4. Head(walks) \in LabelType /\ Head(walks) \in Extensions(current)
    BY <1>1, <2>3, WalkFacts DEF Extensions
  <2>5. Head(walks) \in Pending /\ Pending \subseteq Pending' \cup {Head(walks)}
    BY <1>4, <2>1, <2>2 DEF Pending
  <2> QED
    BY <2>1, <2>4, <2>5
<1> QED
  BY <1>5, <1>6

LEMMA ShapedStart ==
  ASSUME Shaped, NEW src \in Node, NEW dep \in Departures, StartRun(src, dep)
  PROVE  Shaped'
<1>1. Typed' /\ AllLabels' = {source'} /\ phase' = "popping"
  BY StartRunEffect
<1>2. used_count' = 1 /\ dests' = dests /\ walks' = walks /\ phase = "idle"
  BY DEF StartRun
<1>3. PendingOK'
  BY <1>1, <1>2 DEF Shaped, PendingOK
<1>4. ArenaOK'
  <2>1. IsFiniteSet({source'}) /\ Cardinality({source'}) = 1
    BY FS_Singleton
  <2>2. 1 \in 0 .. Capacity
    BY CapacityAssumption
  <2> QED
    BY <1>1, <1>2, <2>1, <2>2 DEF ArenaOK, ArenaBalanced
<1> QED
  BY <1>1, <1>3, <1>4 DEF Shaped

LEMMA ShapedRelax ==
  ASSUME Shaped, RelaxRide \/ RelaxWalk
  PROVE  Shaped'
<1>1. PICK new \in LabelType : new \in Extensions(current) /\ Offered(new)
  BY RelaxedLabel
<1>2. /\ graph' = graph /\ config' = config /\ phase = "relaxing" /\ phase' = phase
      /\ current' = current /\ source' = source /\ fresh' = fresh
      /\ expanded' = expanded
  BY DEF RelaxRide, RelaxWalk, inputs
<1>3. IsABag(pq) /\ BagToSet(pq) \subseteq LabelType
  BY DEF Shaped, Typed
<1>4. IsABag(pq') /\ BagToSet(pq') \subseteq LabelType
  <2>1. pq' = pq \/ pq' = pq (+) SetToBag({new})
    BY <1>1, OfferedEffect
  <2>2. LET C == pq (+) SetToBag({new})
        IN  IsABag(C) /\ BagToSet(C) = BagToSet(pq) \cup {new}
    BY <1>3, HeapPush
  <2> QED
    BY <1>1, <1>3, <2>1, <2>2
<1>5. Typed'
  <2>1. /\ pareto' \in [Node -> Seq(LabelType)]
        /\ \A n \in Node : FrontierOK(pareto'[n], n)
    BY <1>1, OfferedEffect
  <2> QED
    BY <1>2, <1>4, <2>1 DEF Shaped, Typed
<1>6. PendingOK'
  <2>1. Boardable(current)' = Boardable(current) /\ Walks(current)' = Walks(current)
    BY <1>2 DEF Boardable, Selected, Walks, TransferCost
  <2>2. /\ dests \subseteq Boardable(current) /\ dests \subseteq Node
        /\ Range(walks) \subseteq Range(Walks(current)) /\ walks \in Seq(LabelType)
    BY <1>2 DEF Shaped, PendingOK
  <2>3. CASE RelaxRide
    <3>1. dests' \subseteq dests /\ walks' = walks
      BY <2>3 DEF RelaxRide
    <3> QED
      BY <1>2, <2>1, <2>2, <3>1 DEF PendingOK
  <2>4. CASE RelaxWalk
    <3>1. dests' = dests /\ walks' = Tail(walks) /\ walks # << >>
      BY <2>4 DEF RelaxWalk
    <3>2. walks' \in Seq(LabelType)
      BY <2>2, <3>1, HeadTailProperties
    <3>3. Range(Tail(walks)) \subseteq Range(walks)
      <4>1. /\ Len(walks) \in Nat \ {0} /\ DOMAIN walks = 1 .. Len(walks)
            /\ DOMAIN Tail(walks) = 1 .. Len(walks) - 1
            /\ \A i \in 1 .. Len(walks) - 1 : Tail(walks)[i] = walks[i + 1]
        BY <2>2, <3>1, EmptySeq, LenProperties, HeadTailProperties
      <4>2. \A i \in DOMAIN Tail(walks) :
              i + 1 \in DOMAIN walks /\ Tail(walks)[i] = walks[i + 1]
        BY <4>1
      <4> QED
        BY <4>2 DEF Range
    <3> QED
      BY <1>2, <2>1, <2>2, <3>1, <3>2, <3>3 DEF PendingOK
  <2> QED
    BY <2>3, <2>4
<1>7. ArenaOK'
  BY <1>1, OfferedArena
<1> QED
  BY <1>5, <1>6, <1>7 DEF Shaped

(* Steps that change neither the frontiers nor the heap.                   *)
LEMMA ShapedControl ==
  ASSUME Shaped, RelaxThrows \/ EndExpansion \/ Finish \/ UNCHANGED vars
  PROVE  Shaped'
<1>1. /\ graph' = graph /\ config' = config /\ pareto' = pareto /\ pq' = pq
      /\ used_count' = used_count /\ current' = current /\ source' = source
      /\ fresh' = fresh /\ expanded' = expanded
  BY DEF RelaxThrows, EndExpansion, Finish, vars, inputs
<1>2. ArenaOK'
  BY <1>1, ArenaKept DEF Shaped
<1>3. phase' \in {"idle", "popping"} \/ phase' = phase
  BY DEF RelaxThrows, EndExpansion, Finish, vars
<1>4. Typed'
  BY <1>1, <1>3 DEF Shaped, Typed
<1>5. PendingOK'
  <2>1. CASE RelaxThrows
    BY <2>1, EmptySeq DEF RelaxThrows, PendingOK
  <2>2. CASE EndExpansion
    BY <2>2 DEF EndExpansion, Shaped, PendingOK
  <2>3. CASE Finish
    BY <2>3 DEF Finish, Shaped, PendingOK
  <2>4. CASE UNCHANGED vars
    <3>1. Boardable(current)' = Boardable(current) /\ Walks(current)' = Walks(current)
      BY <1>1 DEF Boardable, Selected, Walks, TransferCost
    <3> QED
      BY <2>4, <3>1 DEF vars, Shaped, PendingOK
  <2> QED
    BY <2>1, <2>2, <2>3, <2>4
<1> QED
  BY <1>2, <1>4, <1>5 DEF Shaped

LEMMA ShapedStep == Shaped /\ [Next]_vars => Shaped'
<1> SUFFICES ASSUME Shaped, [Next]_vars PROVE Shaped'
  OBVIOUS
<1>1. CASE \E src \in Node, dep \in Departures : StartRun(src, dep)
  BY <1>1, ShapedStart
<1>2. CASE PopStale \/ PopExpand
  BY <1>2, ShapedPop
<1>3. CASE RelaxRide \/ RelaxWalk
  BY <1>3, ShapedRelax
<1>4. CASE RelaxThrows \/ EndExpansion \/ Finish \/ UNCHANGED vars
  BY <1>4, ShapedControl
<1> QED
  BY <1>1, <1>2, <1>3, <1>4 DEF Next, Search

LEMMA ShapedAlways == Spec => []Shaped
BY ShapedInit, ShapedStep, PTL DEF Spec

(* Labels, frontiers, heap and arena counter have their types.             *)
THEOREM DijkstraTypeCorrect == Spec => []TypeOK
<1>1. Shaped => TypeOK
  BY DEF Shaped, Typed, PendingOK, ArenaOK, FrontierOK, TypeOK
<1> QED
  BY <1>1, ShapedAlways, PTL

(* Every frontier is sorted at every moment of every run.                  *)
THEOREM DijkstraFrontiersSorted == Spec => []FrontiersSorted
<1>1. Shaped => FrontiersSorted
  BY DEF Shaped, Typed, FrontierOK, FrontiersSorted
<1> QED
  BY <1>1, ShapedAlways, PTL

(* The arena holds the frontier labels, no fewer and no more, in every run *)
(* and after a bad_alloc.                                                  *)
THEOREM DijkstraArenaBalanced == Spec => []ArenaBalanced
<1>1. Shaped => ArenaBalanced
  BY DEF Shaped, ArenaOK
<1> QED
  BY <1>1, ShapedAlways, PTL

-----------------------------------------------------------------------------
(* The inductive invariant of a query that began with an empty heap.       *)

(* The search moves forward in time: what waits is not before the label    *)
(* expanded last, and what has been expanded is not after it.              *)
InTimeOrder ==
  /\ \A m \in BagToSet(pq) : current.arrival_time <= m.arrival_time
  /\ \A e \in expanded : e.arrival_time <= current.arrival_time

(* A label waits once, has not been expanded, and has been evicted only by *)
(* a strictly better one: so what lazy deletion lets through is still in   *)
(* its frontier.                                                           *)
HeapOK ==
  \A l \in BagToSet(pq) :
    /\ pq[l] = 1
    /\ l \notin expanded
    /\ l \in AllLabels \/ \E y \in AllLabels : BeatsStrictly(y, l)

Covered(x) == \E y \in AllLabels : Beats(y, x)

(* What could be reached from an expanded label is covered or pending.     *)
ClosedSoFar ==
  /\ Covered(source)
  /\ \A p \in expanded : \A x \in Extensions(p) :
       Covered(x) \/ (phase = "relaxing" /\ x \in Pending)

Explained ==
  \A l \in AllLabels :
    l = source \/ \E p \in expanded : p.node = l.predecessor /\ l \in Extensions(p)

QueryOK ==
  /\ InTimeOrder
  /\ HeapOK
  /\ expanded \subseteq AllLabels
  /\ AllLabels \ expanded \subseteq BagToSet(pq)
  /\ ClosedSoFar
  /\ Explained
  /\ phase = "relaxing" => current \in expanded
  /\ phase = "idle" => BagToSet(pq) = {}

AnswerInv == Shaped /\ (Answering => QueryOK)

LEMMA QueryInit == Init => AnswerInv
BY ShapedInit DEF Init, AnswerInv, Answering

(* A run that begins with an empty heap begins well.                       *)
LEMMA QueryStart ==
  ASSUME Shaped, NEW src \in Node, NEW dep \in Departures, StartRun(src, dep)
  PROVE  Answering' => QueryOK'
<1> SUFFICES ASSUME fresh' PROVE QueryOK'
  BY DEF Answering
<1>1. /\ source' \in LabelType /\ AllLabels' = {source'} /\ current' = source'
      /\ expanded' = {} /\ phase' = "popping"
      /\ BagToSet(pq') = {source'} /\ pq'[source'] = 1
  BY StartRunEffect
<1>2. BagToSet(pq)' = {source'}
  BY <1>1
<1>3. Beats(source', source') /\ source'.arrival_time <= source'.arrival_time
  BY <1>1, BeatsOrder, LabelFacts
<1>4. InTimeOrder'
  BY <1>1, <1>2, <1>3 DEF InTimeOrder
<1>5. HeapOK'
  BY <1>1, <1>2 DEF HeapOK
<1>6. ClosedSoFar'
  BY <1>1, <1>3 DEF ClosedSoFar, Covered
<1>7. Explained'
  BY <1>1 DEF Explained
<1> QED
  BY <1>1, <1>2, <1>4, <1>5, <1>6, <1>7 DEF QueryOK

(* What a step of a query leaves alone.                                    *)
LEMMA SearchKeeps ==
  ASSUME Search
  PROVE  /\ graph' = graph /\ config' = config /\ source' = source
         /\ fresh' = fresh
         /\ phase # "idle"
         /\ Answering' => Answering
<1>1. /\ graph' = graph /\ config' = config /\ source' = source /\ fresh' = fresh
      /\ phase # "idle"
  BY DEF Search, PopStale, PopExpand, RelaxRide, RelaxWalk, RelaxThrows,
         EndExpansion, Finish, inputs
<1> QED
  BY <1>1 DEF Answering

LEMMA StaleIsBeaten ==
  ASSUME Typed, NEW l \in LabelType
  PROVE  Stale(l) <=> \E y \in AllLabels : BeatsStrictly(y, l)
<1>1. Range(pareto[l.node]) = {y \in AllLabels : y.node = l.node}
  BY FrontierFacts, LabelFacts DEF Frontier
<1>2. \A y \in AllLabels : BeatsStrictly(y, l) <=>
                             y.node = l.node /\ StrictlyDominates(y, l)
  BY FrontierFacts, BeatsOrder
<1> QED
  BY <1>1, <1>2 DEF Stale

(* Lazy deletion: a stale label is in no frontier.                         *)
LEMMA QueryPopStale ==
  ASSUME Shaped, QueryOK, PopStale
  PROVE  QueryOK'
<1>1. PICK l \in Top : Stale(l) /\ Popped(l)
  BY DEF PopStale
<1>2. /\ l \in LabelType /\ BagToSet(pq') \subseteq BagToSet(pq)
      /\ BagToSet(pq) \ {l} \subseteq BagToSet(pq')
      /\ \A y \in BagToSet(pq) \ {l} : pq'[y] = pq[y]
      /\ l \notin BagToSet(pq')
  BY <1>1, PoppedEffect DEF QueryOK, HeapOK
<1>3. /\ graph' = graph /\ config' = config /\ source' = source
      /\ pareto' = pareto /\ phase = "popping" /\ phase' = phase
      /\ current' = current /\ dests' = dests /\ walks' = walks
      /\ expanded' = expanded
  BY DEF PopStale, inputs
<1>4. AllLabels' = AllLabels
  BY <1>3 DEF AllLabels, Frontier
<1>5. l \notin AllLabels
  <2>1. PICK y \in AllLabels : BeatsStrictly(y, l)
    BY <1>1, <1>2, StaleIsBeaten DEF Shaped
  <2> QED
    BY <2>1, FrontierFacts DEF BeatsStrictly, Shaped
<1>6. BagToSet(pq)' = BagToSet(pq')
  BY DEF BagToSet
<1>7. InTimeOrder'
  BY <1>2, <1>3, <1>6 DEF QueryOK, InTimeOrder
<1>8. HeapOK'
  BY <1>2, <1>3, <1>4, <1>6 DEF QueryOK, HeapOK
<1>9. AllLabels' \ expanded' \subseteq BagToSet(pq')
  BY <1>2, <1>3, <1>4, <1>5 DEF QueryOK
<1>10. \A p : Extensions(p)' = Extensions(p)
  BY <1>3, ExtensionsConstant
<1>11. ClosedSoFar'
  BY <1>3, <1>4, <1>10 DEF QueryOK, ClosedSoFar, Covered
<1>12. Explained'
  BY <1>3, <1>4, <1>10 DEF QueryOK, Explained
<1> QED
  BY <1>3, <1>4, <1>6, <1>7, <1>8, <1>9, <1>11, <1>12 DEF QueryOK

(* Expansion: the label is in its frontier, and is expanded this once.     *)
LEMMA QueryPopExpand ==
  ASSUME Shaped, QueryOK, PopExpand
  PROVE  QueryOK'
<1>1. PICK l \in Top : /\ ~ Stale(l) /\ Popped(l) /\ current' = l
                       /\ dests' = Boardable(l) /\ walks' = Walks(l)
                       /\ expanded' = expanded \cup {l}
  BY DEF PopExpand
<1>2. /\ l \in LabelType /\ l \in BagToSet(pq)
      /\ \A m \in BagToSet(pq) : l.arrival_time <= m.arrival_time
      /\ BagToSet(pq') \subseteq BagToSet(pq)
      /\ BagToSet(pq) \ {l} \subseteq BagToSet(pq')
      /\ \A y \in BagToSet(pq) \ {l} : pq'[y] = pq[y]
      /\ l \notin BagToSet(pq')
  BY <1>1, PoppedEffect DEF QueryOK, HeapOK
<1>3. /\ graph' = graph /\ config' = config /\ source' = source
      /\ pareto' = pareto /\ phase = "popping" /\ phase' = "relaxing"
  BY DEF PopExpand, inputs
<1>4. AllLabels' = AllLabels
  BY <1>3 DEF AllLabels, Frontier
<1>5. l \in AllLabels
  BY <1>1, <1>2, StaleIsBeaten DEF QueryOK, HeapOK, Shaped
<1>6. BagToSet(pq)' = BagToSet(pq')
  BY DEF BagToSet
<1>7. InTimeOrder'
  <2>1. \A m \in BagToSet(pq') : l.arrival_time <= m.arrival_time
    BY <1>2
  <2>2. ASSUME NEW e \in expanded PROVE e.arrival_time <= l.arrival_time
    <3>1. /\ e.arrival_time \in Nat /\ current.arrival_time \in Nat
          /\ l.arrival_time \in Nat
      BY <1>2, LabelFacts DEF Shaped, Typed
    <3>2. e.arrival_time <= current.arrival_time /\ current.arrival_time <= l.arrival_time
      BY <1>2 DEF QueryOK, InTimeOrder
    <3> QED
      BY <3>1, <3>2
  <2>3. l.arrival_time <= l.arrival_time
    BY <1>2, LabelFacts
  <2> QED
    BY <1>1, <1>6, <2>1, <2>2, <2>3 DEF InTimeOrder
<1>8. HeapOK'
  BY <1>1, <1>2, <1>4, <1>6 DEF QueryOK, HeapOK
<1>9. /\ expanded' \subseteq AllLabels'
      /\ AllLabels' \ expanded' \subseteq BagToSet(pq')
  BY <1>1, <1>2, <1>4, <1>5 DEF QueryOK
<1>10. \A p : Extensions(p)' = Extensions(p)
  BY <1>3, ExtensionsConstant
<1>11. Extensions(l) = Pending'
  <2>1. Pending' = {Ride(l, v) : v \in Boardable(l)} \cup Range(Walks(l))
    BY <1>1, <1>3 DEF Pending, Ride, Selected
  <2> QED
    BY <2>1 DEF Extensions
<1>12. ClosedSoFar'
  BY <1>1, <1>3, <1>4, <1>10, <1>11 DEF QueryOK, ClosedSoFar, Covered
<1>13. Explained'
  BY <1>1, <1>3, <1>4, <1>10 DEF QueryOK, Explained
<1> QED
  BY <1>1, <1>3, <1>6, <1>7, <1>8, <1>9, <1>12, <1>13 DEF QueryOK

(* A rejected candidate is covered already.                                *)
LEMMA QueryRejected ==
  ASSUME Shaped, QueryOK, RelaxRide \/ RelaxWalk,
         NEW new \in LabelType, Pending \subseteq Pending' \cup {new},
         pq' = pq, AllLabels' = AllLabels, \E y \in AllLabels : Beats(y, new)
  PROVE  QueryOK'
<1>1. /\ graph' = graph /\ config' = config /\ source' = source
      /\ phase = "relaxing" /\ phase' = phase
      /\ current' = current /\ expanded' = expanded
  BY DEF RelaxRide, RelaxWalk, inputs
<1>2. \A p : Extensions(p)' = Extensions(p)
  BY <1>1, ExtensionsConstant
<1>3. BagToSet(pq)' = BagToSet(pq)
  BY DEF BagToSet
<1>4. InTimeOrder' /\ HeapOK'
  BY <1>1, <1>3 DEF QueryOK, InTimeOrder, HeapOK
<1>5. ClosedSoFar'
  <2>1. Covered(source)'
    BY <1>1 DEF QueryOK, ClosedSoFar, Covered
  <2>2. ASSUME NEW p \in expanded, NEW x \in Extensions(p)
        PROVE  (\E y \in AllLabels' : Beats(y, x)) \/ x \in Pending'
    BY DEF QueryOK, ClosedSoFar, Covered
  <2> QED
    BY <1>1, <1>2, <2>1, <2>2 DEF ClosedSoFar, Covered
<1>6. Explained'
  BY <1>1, <1>2 DEF QueryOK, Explained
<1> QED
  BY <1>1, <1>3, <1>4, <1>5, <1>6 DEF QueryOK

(* A label that is let in arrives after everything expanded, so it evicts  *)
(* none of that; what it evicts it covers.                                 *)
LEMMA QueryInserted ==
  ASSUME Shaped, QueryOK, RelaxRide \/ RelaxWalk,
         NEW new \in LabelType, new \in Extensions(current),
         Pending \subseteq Pending' \cup {new},
         pq' = pq (+) SetToBag({new}),
         AllLabels' = {x \in AllLabels : ~ Beats(new, x)} \cup {new},
         \A x \in AllLabels : ~ Beats(x, new)
  PROVE  QueryOK'
<1>1. /\ graph' = graph /\ config' = config /\ source' = source
      /\ phase = "relaxing" /\ phase' = phase
      /\ current' = current /\ expanded' = expanded
  BY DEF RelaxRide, RelaxWalk, inputs
<1>2. \A p : Extensions(p)' = Extensions(p)
  BY <1>1, ExtensionsConstant
<1>3. /\ AllLabels \subseteq LabelType /\ expanded \subseteq LabelType
      /\ BagToSet(pq) \subseteq LabelType /\ IsABag(pq)
      /\ current \in LabelType /\ source \in LabelType
  BY FrontierFacts DEF Shaped, Typed
<1>4. new.predecessor = current.node /\ current.arrival_time < new.arrival_time
  BY <1>3, ExtensionFacts DEF Shaped
<1>5. Beats(new, new)
  BY BeatsOrder
<1>6. new \notin AllLabels /\ new \notin expanded /\ new \notin BagToSet(pq)
  <2>1. new \notin AllLabels
    BY <1>5
  <2>2. new \notin BagToSet(pq)
    BY <2>1 DEF QueryOK, HeapOK, BeatsStrictly
  <2> QED
    BY <2>1, <2>2 DEF QueryOK
<1>7. /\ BagToSet(pq') = BagToSet(pq) \cup {new}
      /\ \A y \in BagToSet(pq) : pq'[y] = pq[y]
      /\ pq'[new] = 1
  <2>1. LET C == pq (+) SetToBag({new})
        IN  /\ BagToSet(C) = BagToSet(pq) \cup {new}
            /\ \A y \in BagToSet(pq) \ {new} : C[y] = pq[y]
            /\ new \notin BagToSet(pq) => C[new] = 1
    BY <1>3, HeapPush
  <2> QED
    BY <1>6, <2>1
<1>8. BagToSet(pq)' = BagToSet(pq')
  BY DEF BagToSet
<1>9. ASSUME NEW e \in expanded PROVE ~ Beats(new, e)
  <2>1. e.arrival_time <= current.arrival_time
    BY DEF QueryOK, InTimeOrder
  <2>2. Beats(new, e) => new.arrival_time <= e.arrival_time
    BY <1>3, BeatsOrder
  <2>3. /\ e.arrival_time \in Nat /\ current.arrival_time \in Nat
        /\ new.arrival_time \in Nat
    BY <1>3, LabelFacts
  <2> QED
    BY <1>4, <2>1, <2>2, <2>3
<1>10. expanded' \subseteq AllLabels' /\ AllLabels' \ expanded' \subseteq BagToSet(pq')
  BY <1>1, <1>7, <1>9 DEF QueryOK
<1>11. InTimeOrder'
  <2>1. current.arrival_time <= new.arrival_time
    BY <1>3, <1>4, LabelFacts
  <2> QED
    BY <1>1, <1>7, <1>8, <2>1 DEF QueryOK, InTimeOrder
<1>12. ASSUME NEW x \in LabelType, NEW y \in AllLabels, Beats(y, x)
       PROVE  \E z \in AllLabels' : Beats(z, x)
  <2>1. CASE Beats(new, y)
    BY <1>3, <1>12, <2>1, BeatsOrder
  <2>2. CASE ~ Beats(new, y)
    BY <1>12, <2>2
  <2> QED
    BY <2>1, <2>2
<1>13. HeapOK'
  <2>1. ASSUME NEW l \in BagToSet(pq)
        PROVE  l \in AllLabels' \/ \E y \in AllLabels' : BeatsStrictly(y, l)
    <3>1. CASE l \in AllLabels
      BY <3>1 DEF BeatsStrictly
    <3>2. CASE \E y \in AllLabels : BeatsStrictly(y, l)
      <4>1. PICK y \in AllLabels : BeatsStrictly(y, l)
        BY <3>2
      <4>2. CASE Beats(new, y)
        <5>1. Beats(new, l)
          BY <1>3, <4>1, <4>2, BeatsOrder DEF BeatsStrictly
        <5>2. ~ Beats(l, new)
          BY <1>3, <4>1, BeatsOrder DEF BeatsStrictly
        <5> QED
          BY <5>1, <5>2 DEF BeatsStrictly
      <4>3. CASE ~ Beats(new, y)
        BY <4>1, <4>3
      <4> QED
        BY <4>2, <4>3
    <3> QED
      BY <3>1, <3>2 DEF QueryOK, HeapOK
  <2>2. \A l \in BagToSet(pq) : pq'[l] = 1 /\ l \notin expanded
    BY <1>7 DEF QueryOK, HeapOK
  <2>3. \A l \in BagToSet(pq') :
          /\ pq'[l] = 1
          /\ l \notin expanded'
          /\ l \in AllLabels' \/ \E y \in AllLabels' : BeatsStrictly(y, l)
    BY <1>1, <1>6, <1>7, <2>1, <2>2
  <2> QED
    BY <1>8, <2>3 DEF HeapOK
<1>14. ClosedSoFar'
  <2>1. Covered(source)'
    BY <1>1, <1>3, <1>12 DEF QueryOK, ClosedSoFar, Covered
  <2>2. ASSUME NEW p \in expanded, NEW x \in Extensions(p)
        PROVE  (\E y \in AllLabels' : Beats(y, x)) \/ x \in Pending'
    <3>1. x \in LabelType
      BY <1>3, ExtensionFacts DEF Shaped
    <3>2. CASE Covered(x)
      BY <1>12, <3>1, <3>2 DEF Covered
    <3>3. CASE x \in Pending
      BY <1>5, <3>3
    <3> QED
      BY <3>2, <3>3 DEF QueryOK, ClosedSoFar
  <2> QED
    BY <1>1, <1>2, <2>1, <2>2 DEF ClosedSoFar, Covered
<1>15. Explained'
  <2>1. current \in expanded
    BY <1>1 DEF QueryOK
  <2> QED
    BY <1>1, <1>2, <1>4, <2>1 DEF QueryOK, Explained
<1> QED
  BY <1>1, <1>8, <1>10, <1>11, <1>13, <1>14, <1>15 DEF QueryOK

LEMMA QueryRelax ==
  ASSUME Shaped, QueryOK, RelaxRide \/ RelaxWalk
  PROVE  QueryOK'
<1>1. PICK new \in LabelType :
        /\ new \in Extensions(current) /\ Offered(new)
        /\ Pending \subseteq Pending' \cup {new}
  BY RelaxedLabel
<1>2. CASE /\ pq' = pq /\ AllLabels' = AllLabels
           /\ \E y \in AllLabels : Beats(y, new)
  BY <1>1, <1>2, QueryRejected
<1>3. CASE /\ pq' = pq (+) SetToBag({new})
           /\ AllLabels' = {x \in AllLabels : ~ Beats(new, x)} \cup {new}
           /\ \A x \in AllLabels : ~ Beats(x, new)
  BY <1>1, <1>3, QueryInserted
<1> QED
  BY <1>1, <1>2, <1>3, OfferedEffect

LEMMA QueryControl ==
  ASSUME Shaped, QueryOK, EndExpansion \/ Finish
  PROVE  QueryOK'
<1>1. /\ graph' = graph /\ config' = config /\ source' = source
      /\ pareto' = pareto /\ pq' = pq /\ current' = current /\ expanded' = expanded
  BY DEF EndExpansion, Finish, inputs
<1>2. AllLabels' = AllLabels
  BY <1>1 DEF AllLabels, Frontier
<1>3. BagToSet(pq)' = BagToSet(pq)
  BY <1>1 DEF BagToSet
<1>4. \A p : Extensions(p)' = Extensions(p)
  BY <1>1, ExtensionsConstant
<1>5. InTimeOrder' /\ HeapOK'
  BY <1>1, <1>2, <1>3 DEF QueryOK, InTimeOrder, HeapOK
<1>6. ~ (phase = "relaxing" /\ Pending # {})
  BY DEF EndExpansion, Finish, Pending, Range
<1>7. ClosedSoFar'
  BY <1>1, <1>2, <1>4, <1>6 DEF QueryOK, ClosedSoFar, Covered
<1>8. Explained'
  BY <1>1, <1>2, <1>4 DEF QueryOK, Explained
<1>9. /\ phase' # "relaxing"
      /\ phase' = "idle" => BagToSet(pq) = {}
  BY DEF EndExpansion, Finish, EmptyBag, SetToBag, BagToSet
<1> QED
  BY <1>1, <1>2, <1>3, <1>5, <1>7, <1>8, <1>9 DEF QueryOK

LEMMA QueryStutter ==
  ASSUME QueryOK, UNCHANGED vars
  PROVE  QueryOK'
<1>1. /\ graph' = graph /\ config' = config /\ source' = source /\ phase' = phase
      /\ pareto' = pareto /\ pq' = pq /\ current' = current /\ expanded' = expanded
      /\ dests' = dests /\ walks' = walks
  BY DEF vars, inputs
<1>2. AllLabels' = AllLabels
  BY <1>1 DEF AllLabels, Frontier
<1>3. BagToSet(pq)' = BagToSet(pq)
  BY <1>1 DEF BagToSet
<1>4. \A p : Extensions(p)' = Extensions(p)
  BY <1>1, ExtensionsConstant
<1>5. Pending' = Pending
  BY <1>1 DEF Pending, Ride, Selected
<1> QED
  BY <1>1, <1>2, <1>3, <1>4, <1>5
  DEF QueryOK, InTimeOrder, HeapOK, ClosedSoFar, Covered, Explained

LEMMA QueryStep == AnswerInv /\ [Next]_vars => AnswerInv'
<1> SUFFICES ASSUME AnswerInv, [Next]_vars, Answering' PROVE QueryOK'
  BY ShapedStep DEF AnswerInv
<1>1. CASE \E src \in Node, dep \in Departures : StartRun(src, dep)
  BY <1>1, QueryStart DEF AnswerInv
<1>2. CASE Search
  <2>1. Shaped /\ QueryOK
    BY <1>2, SearchKeeps DEF AnswerInv
  <2>2. ~ RelaxThrows
    BY DEF RelaxThrows, Answering
  <2> QED
    BY <1>2, <2>1, <2>2, QueryPopStale, QueryPopExpand, QueryRelax, QueryControl
    DEF Search
<1>3. CASE UNCHANGED vars
  <2>1. Answering
    BY <1>3 DEF Answering, vars, inputs
  <2> QED
    BY <1>3, <2>1, QueryStutter DEF AnswerInv
<1> QED
  BY <1>1, <1>2, <1>3 DEF Next

LEMMA AnswerInvAlways == Spec => []AnswerInv
BY QueryInit, QueryStep, PTL DEF Spec

-----------------------------------------------------------------------------
(* A label that has been expanded stays in its frontier to the end of the  *)
(* query: the premise of the settling argument, for every graph, policy    *)
(* and capacity.                                                           *)
THEOREM DijkstraSettledIsFinal == Spec => []SettledIsFinal
<1>1. AnswerInv => SettledIsFinal
  BY DEF AnswerInv, QueryOK, SettledIsFinal
<1> QED
  BY <1>1, AnswerInvAlways, PTL

(* Lazy deletion drops no label that is in a frontier.                     *)
THEOREM DijkstraNothingForgotten == Spec => []NothingForgotten
<1>1. AnswerInv => NothingForgotten
  BY DEF AnswerInv, QueryOK, NothingForgotten
<1> QED
  BY <1>1, AnswerInvAlways, PTL

(* The predecessor chain can be walked back.                               *)
THEOREM DijkstraPredecessorExplains == Spec => []PredecessorExplains
<1>1. AnswerInv => PredecessorExplains
  BY DEF AnswerInv, QueryOK, Explained, PredecessorExplains
<1> QED
  BY <1>1, AnswerInvAlways, PTL

(* Labels are expanded in order of arrival, each at most once.             *)
THEOREM DijkstraSettledInOrder == Spec => SettledInOrder
<1> DEFINE InOrder ==
      Answering /\ phase = "popping" /\ phase' = "relaxing"
        => /\ current.arrival_time <= current'.arrival_time
           /\ current' \notin expanded
<1>1. AnswerInv /\ [Next]_vars => [InOrder]_vars
  <2> SUFFICES ASSUME AnswerInv, Next, Answering, phase = "popping",
                      phase' = "relaxing"
               PROVE  /\ current.arrival_time <= current'.arrival_time
                      /\ current' \notin expanded
    BY DEF vars
  <2>1. PopExpand
    BY DEF Next, Search, StartRun, PopStale, RelaxRide, RelaxWalk, RelaxThrows,
           EndExpansion, Finish
  <2>2. current' \in BagToSet(pq)
    BY <2>1 DEF PopExpand, Top
  <2> QED
    BY <2>2 DEF AnswerInv, QueryOK, InTimeOrder, HeapOK
<1> QED
  BY <1>1, AnswerInvAlways, PTL DEF Spec, SettledInOrder

(* The answer against any set of labels it is part of and covers: it is    *)
(* the non-dominated part, node by node.                                   *)
LEMMA AnswerIsMinimal ==
  ASSUME AnswerInv, NEW W \in SUBSET LabelType, AllLabels \subseteq W,
         \A x \in W : Covered(x), NEW n \in Node
  PROVE  PointsOf(AllLabels, n) = Minimal(PointsOf(W, n))
<1> DEFINE pt(l) == [arrival_time |-> l.arrival_time,
                     secondary_cost |-> l.secondary_cost]
<1>1. Shaped
  BY DEF AnswerInv
<1>2. AllLabels \subseteq LabelType
  BY <1>1, FrontierFacts DEF Shaped
<1>3. \A x \in W : \E y \in AllLabels : Beats(y, x)
  BY DEF Covered
<1>4. \A S : PointsOf(S, n) = {pt(l) : l \in {m \in S : m.node = n}}
  BY DEF PointsOf
<1>5. \A x, y \in LabelType : x.node = n /\ y.node = n =>
        (StrictlyDominates(pt(y), pt(x)) <=> BeatsStrictly(y, x))
  <2>1. \A x, y \in LabelType :
          StrictlyDominates(pt(y), pt(x)) <=> StrictlyDominates(y, x)
    BY DEF StrictlyDominates, WeaklyDominates
  <2> QED
    BY <2>1, BeatsOrder
<1>6. ASSUME NEW l \in AllLabels, l.node = n
      PROVE  pt(l) \in Minimal(PointsOf(W, n))
  <2>1. ASSUME NEW q \in W, q.node = n
        PROVE  ~ StrictlyDominates(pt(q), pt(l))
    <3>1. SUFFICES ASSUME BeatsStrictly(q, l) PROVE FALSE
      BY <1>2, <1>5, <1>6, <2>1
    <3>2. PICK y \in AllLabels : Beats(y, q)
      BY <1>3
    <3>3. Beats(y, l)
      BY <1>2, <3>1, <3>2, BeatsOrder DEF BeatsStrictly
    <3>4. y = l
      BY <1>1, <3>3, FrontierFacts DEF Shaped
    <3> QED
      BY <3>1, <3>2, <3>4 DEF BeatsStrictly
  <2>2. pt(l) \in PointsOf(W, n)
    BY <1>4, <1>6
  <2> QED
    BY <1>4, <2>1, <2>2 DEF Minimal
<1>7. ASSUME NEW m \in W, m.node = n,
              pt(m) \in Minimal(PointsOf(W, n))
       PROVE  pt(m) \in PointsOf(AllLabels, n)
  <2>1. PICK y \in AllLabels : Beats(y, m)
    BY <1>3
  <2>2. y \in LabelType /\ m \in LabelType /\ y.node = n
    BY <1>2, <1>7, <2>1 DEF Beats
  <2>3. ~ StrictlyDominates(pt(y), pt(m))
    BY <1>4, <1>7, <2>2 DEF Minimal
  <2>4. pt(y) = pt(m)
    <3>1. Beats(m, y)
      BY <1>5, <1>7, <2>1, <2>2, <2>3 DEF BeatsStrictly
    <3>2. /\ y.arrival_time <= m.arrival_time /\ m.arrival_time <= y.arrival_time
          /\ y.secondary_cost <= m.secondary_cost
          /\ m.secondary_cost <= y.secondary_cost
      BY <2>1, <3>1 DEF Beats, WeaklyDominates
    <3>3. /\ y.arrival_time \in Nat /\ m.arrival_time \in Nat
          /\ y.secondary_cost \in Nat /\ m.secondary_cost \in Nat
      BY <2>2, LabelFacts
    <3>4. y.arrival_time = m.arrival_time /\ y.secondary_cost = m.secondary_cost
      BY <3>2, <3>3
    <3> QED
      BY <3>4
  <2> QED
    BY <1>4, <2>2, <2>4
<1>8. PointsOf(AllLabels, n) \subseteq Minimal(PointsOf(W, n))
  BY <1>4, <1>6
<1>9. Minimal(PointsOf(W, n)) \subseteq PointsOf(AllLabels, n)
  BY <1>4, <1>7 DEF Minimal
<1> QED
  BY <1>8, <1>9

(* The answer is exactly the non-dominated part of the source label and of *)
(* the extensions of the answer itself: nothing reachable by one more      *)
(* relaxation is missing, and nothing in it is dominated.                  *)
THEOREM DijkstraFixpointReached == Spec => []FixpointReached
<1>1. ASSUME AnswerInv, Answered, NEW n \in Node
      PROVE  PointsOf(AllLabels, n) = Minimal(PointsOf(OfferedLabels, n))
  <2>1. QueryOK /\ Shaped /\ phase = "idle"
    BY <1>1 DEF AnswerInv, Answered, Answering
  <2>2. AllLabels = expanded
    BY <2>1 DEF QueryOK
  <2>3. AllLabels \subseteq LabelType /\ source \in LabelType
    BY <2>1, FrontierFacts DEF Shaped, Typed
  <2>4. OfferedLabels \subseteq LabelType
    BY <2>1, <2>3, ExtensionFacts DEF OfferedLabels, Shaped
  <2>5. AllLabels \subseteq OfferedLabels
    BY <2>1, <2>2 DEF QueryOK, Explained, OfferedLabels
  <2>6. \A x \in OfferedLabels : \E y \in AllLabels : Beats(y, x)
    BY <2>1, <2>2 DEF QueryOK, ClosedSoFar, Covered, OfferedLabels
  <2> QED
    BY <1>1, <2>3, <2>4, <2>5, <2>6, AnswerIsMinimal DEF Covered
<1>2. AnswerInv => FixpointReached
  BY <1>1 DEF FixpointReached
<1> QED
  BY <1>2, AnswerInvAlways, PTL

-----------------------------------------------------------------------------
(* Journeys leg by leg.  A way to extend a label by one leg is given as a  *)
(* function; r[k] are the labels of at most k legs.                        *)
Ways == [LabelType -> SUBSET LabelType]
Legs(r, n, ext) ==
  /\ r \in [0 .. n -> SUBSET LabelType]
  /\ r[0] = {source}
  /\ \A k \in 1 .. n : r[k] = r[k - 1] \cup UNION {ext[l] : l \in r[k - 1]}

LEMMA LegsExist ==
  ASSUME source \in LabelType, NEW n \in Nat, NEW ext \in Ways
  PROVE  \E r : Legs(r, n, ext)
<1> DEFINE S == SUBSET LabelType
           base == {source}
           longer == [A \in S |-> A \cup UNION {ext[l] : l \in A}]
           step == [k \in 1 .. n |-> longer]
<1>1. \A A \in S : A \cup UNION {ext[l] : l \in A} \in S
  BY DEF Ways
<1>2. step \in [1 .. n -> [S -> S]] /\ base \in S
  BY <1>1
<1>3. \A k \in 1 .. n, A \in S : step[k][A] = A \cup UNION {ext[l] : l \in A}
  OBVIOUS
<1> HIDE DEF S, base, step
<1>4. PICK f : f \in Folds(n, S, base, step)
  BY <1>2, FoldExists
<1>5. IsFold(f, n, S, base, step)
  BY <1>4 DEF Folds, IsFold
<1>6. PICK r \in Iterations(n, S, base, step) : TRUE
  BY <1>2, <1>5, FoldRuns
<1>7. /\ r \in [0 .. n -> S] /\ r[0] = base
      /\ \A k \in 1 .. n : r[k] = step[k][r[k - 1]] /\ r[k - 1] \in S
  BY <1>6 DEF Iterations
<1>8. \A k \in 1 .. n : r[k] = r[k - 1] \cup UNION {ext[l] : l \in r[k - 1]}
  BY <1>3, <1>7
<1> QED
  BY <1>7, <1>8 DEF Legs, S, base

(* The two ways the properties speak of: any catchable departure, or the   *)
(* one selected.                                                           *)
AnyBoarding == [l \in LabelType |-> AllBoardings(l)]
OneBoarding == [l \in LabelType |-> Extensions(l)]

LEMMA WithinAnyBoarding ==
  ASSUME source \in LabelType, AnyBoarding \in Ways, NEW n \in Nat
  PROVE  \E r : Legs(r, n, AnyBoarding) /\ Within(AllBoardings, n) = r[n]
<1> DEFINE longer(A) == A \cup UNION {AllBoardings(l) : l \in A}
           eq(f) == [k \in 0 .. n |-> IF k = 0 THEN {source} ELSE longer(f[k - 1])]
           F == CHOOSE f : f = eq(f)
<1>1. PICK r : Legs(r, n, AnyBoarding)
  BY LegsExist
<1>2. \A A \in SUBSET LabelType : A \cup UNION {AnyBoarding[l] : l \in A} = longer(A)
  BY DEF AnyBoarding
<1>3. Within(AllBoardings, n) = F[n]
  BY DEF Within
<1>4. /\ r \in [0 .. n -> SUBSET LabelType] /\ r[0] = {source}
      /\ \A k \in 1 .. n : r[k] = longer(r[k - 1])
  <2> HIDE DEF longer
  <2>1. \A k \in 1 .. n : r[k] = r[k - 1] \cup UNION {AnyBoarding[l] : l \in r[k - 1]}
    BY <1>1, Zenon DEF Legs
  <2>2. \A k \in 1 .. n : r[k - 1] \in SUBSET LabelType
    BY <1>1 DEF Legs
  <2> QED
    BY <1>1, <1>2, <2>1, <2>2 DEF Legs
<1>5. r = eq(r)
  BY <1>4
<1>6. F = eq(F)
  BY <1>5
<1> HIDE DEF F
<1>7. F[0] = {source} /\ \A k \in 1 .. n : F[k] = longer(F[k - 1])
  BY <1>6
<1> HIDE DEF longer
<1> DEFINE Same == {k \in 0 .. n : F[k] = r[k]}
<1>8. 0 .. n \subseteq Same
  <2>1. 0 \in Same
    <3>1. F[0] = r[0]
      BY <1>4, <1>7, Zenon
    <3>2. 0 \in 0 .. n
      OBVIOUS
    <3> QED
      BY <3>1, <3>2
  <2>2. ASSUME NEW k \in 0 .. n - 1, k \in Same  PROVE  k + 1 \in Same
    <3>1. k + 1 \in 1 .. n /\ (k + 1) - 1 = k /\ F[k] = r[k]
      BY <2>2
    <3>2. F[k + 1] = longer(F[k]) /\ r[k + 1] = longer(r[k])
      BY <1>4, <1>7, <3>1
    <3> QED
      BY <3>1, <3>2
  <2> HIDE DEF Same
  <2> QED
    BY <2>1, <2>2, UpTo
<1> QED
  BY <1>1, <1>3, <1>8

(* The same for the departure selected.                                    *)
LEMMA WithinOneBoarding ==
  ASSUME source \in LabelType, OneBoarding \in Ways, NEW n \in Nat
  PROVE  \E r : Legs(r, n, OneBoarding) /\ Within(Extensions, n) = r[n]
<1> DEFINE longer(A) == A \cup UNION {Extensions(l) : l \in A}
           eq(f) == [k \in 0 .. n |-> IF k = 0 THEN {source} ELSE longer(f[k - 1])]
           F == CHOOSE f : f = eq(f)
<1>1. PICK r : Legs(r, n, OneBoarding)
  BY LegsExist
<1>2. \A A \in SUBSET LabelType : A \cup UNION {OneBoarding[l] : l \in A} = longer(A)
  BY DEF OneBoarding
<1>3. Within(Extensions, n) = F[n]
  BY DEF Within
<1>4. /\ r \in [0 .. n -> SUBSET LabelType] /\ r[0] = {source}
      /\ \A k \in 1 .. n : r[k] = longer(r[k - 1])
  <2> HIDE DEF longer
  <2>1. \A k \in 1 .. n : r[k] = r[k - 1] \cup UNION {OneBoarding[l] : l \in r[k - 1]}
    BY <1>1, Zenon DEF Legs
  <2>2. \A k \in 1 .. n : r[k - 1] \in SUBSET LabelType
    BY <1>1 DEF Legs
  <2> QED
    BY <1>1, <1>2, <2>1, <2>2 DEF Legs
<1>5. r = eq(r)
  BY <1>4
<1>6. F = eq(F)
  BY <1>5
<1> HIDE DEF F
<1>7. F[0] = {source} /\ \A k \in 1 .. n : F[k] = longer(F[k - 1])
  BY <1>6
<1> HIDE DEF longer
<1> DEFINE Same == {k \in 0 .. n : F[k] = r[k]}
<1>8. 0 .. n \subseteq Same
  <2>1. 0 \in Same
    <3>1. F[0] = r[0]
      BY <1>4, <1>7, Zenon
    <3>2. 0 \in 0 .. n
      OBVIOUS
    <3> QED
      BY <3>1, <3>2
  <2>2. ASSUME NEW k \in 0 .. n - 1, k \in Same  PROVE  k + 1 \in Same
    <3>1. k + 1 \in 1 .. n /\ (k + 1) - 1 = k /\ F[k] = r[k]
      BY <2>2
    <3>2. F[k + 1] = longer(F[k]) /\ r[k + 1] = longer(r[k])
      BY <1>4, <1>7, <3>1
    <3> QED
      BY <3>1, <3>2
  <2> HIDE DEF Same
  <2> QED
    BY <2>1, <2>2, UpTo
<1> QED
  BY <1>1, <1>3, <1>8

(* If the answer covers what can be reached in one leg from what it covers, *)
(* it covers what can be reached in any number.                            *)
LEMMA LegsCovered ==
  ASSUME Covered(source), NEW n \in Nat, NEW ext, NEW r, Legs(r, n, ext),
         \A l \in LabelType : Covered(l) => \A x \in ext[l] : Covered(x)
  PROVE  \A x \in r[n] : Covered(x)
<1> DEFINE Fine == {k \in 0 .. n : \A x \in r[k] : Covered(x)}
<1> HIDE DEF Covered
<1>1. 0 \in Fine
  BY DEF Legs
<1>2. ASSUME NEW k \in 0 .. n - 1, k \in Fine  PROVE  k + 1 \in Fine
  <2>1. k + 1 \in 0 .. n /\ k + 1 \in 1 .. n /\ (k + 1) - 1 = k
    OBVIOUS
  <2>2. r[k + 1] = r[k] \cup UNION {ext[l] : l \in r[k]}
    BY <2>1 DEF Legs
  <2>3. \A l \in r[k] : Covered(l) /\ l \in LabelType
    BY <1>2, <2>1 DEF Legs
  <2>4. \A l \in r[k] : \A x \in ext[l] : Covered(x)
    BY <2>3
  <2> QED
    BY <2>1, <2>2, <2>3, <2>4
<1> HIDE DEF Fine
<1>3. 0 .. n \subseteq Fine
  BY <1>1, <1>2, UpTo
<1> QED
  BY <1>3 DEF Fine

(* An extension costs at least what it extends.                            *)
LEMMA ExtensionCosts ==
  ASSUME Typed, NEW l \in LabelType, NEW x \in Extensions(l)
  PROVE  x.secondary_cost >= l.secondary_cost
<1>1. l.node \in Node /\ l.arrival_time \in Nat /\ l.secondary_cost \in Nat
  BY LabelFacts
<1>2. ASSUME NEW v \in Boardable(l)
      PROVE  Ride(l, v).secondary_cost >= l.secondary_cost
  <2> DEFINE e == graph.edges[l.node][Selected(l, v)]
  <2>1. Selected(l, v) \in DOMAIN graph.edges[l.node]
    BY <1>1, EdgeFacts, SelectionIsCatchable DEF Boardable, Selected
  <2>2. e.secondary_weight \in Nat /\ e.penalty \in Nat
    BY <1>1, <2>1, EdgeFacts DEF DepartureRange
  <2>3. Ride(l, v).secondary_cost = l.secondary_cost + e.secondary_weight + e.penalty
    BY DEF Ride, Label
  <2> HIDE DEF e
  <2> QED
    BY <1>1, <2>2, <2>3
<1>3. ASSUME NEW i \in DOMAIN Walks(l)
      PROVE  Walks(l)[i].secondary_cost >= l.secondary_cost
  <2>1. Walks(l)[i].secondary_cost = l.secondary_cost + TransferCost
    BY <1>3 DEF Walks, Label
  <2> QED
    BY <1>1, <2>1 DEF TransferCost
<1> QED
  BY <1>2, <1>3 DEF Extensions, Range

(* A label of the answer has no more legs than there are nodes: going back *)
(* along what explains it, labels get earlier and no dearer, and no node   *)
(* comes twice, for then one label of the answer would beat another.       *)
Upstream(D, l) ==
  \A d \in D : \E x \in AllLabels : x.node = d /\ WeaklyDominates(x, l)

LEMMA LegsHoldAnswer ==
  ASSUME Shaped, Explained, expanded \subseteq AllLabels,
         NEW ext, NEW r, Legs(r, NumNodes, ext),
         \A l \in LabelType : Extensions(l) \subseteq ext[l]
  PROVE  AllLabels \subseteq r[NumNodes]
<1> DEFINE long(k, l) == \E D \in SUBSET Node : Cardinality(D) = k + 1 /\ Upstream(D, l)
           Fine == {k \in 0 .. NumNodes : \A l \in AllLabels : l \in r[k] \/ long(k, l)}
<1>1. NumNodes \in Nat /\ IsFiniteSet(Node) /\ Cardinality(Node) = NumNodes
  BY NodeAssumption, FS_Interval, SMTT(30) DEF Node
<1>2. Typed /\ AllLabels \subseteq LabelType
        /\ \A x, y \in AllLabels : Beats(x, y) => x = y
  BY FrontierFacts DEF Shaped
<1>3. \A l \in LabelType : WeaklyDominates(l, l)
  BY LabelFacts DEF WeaklyDominates
<1>4. 0 \in Fine
  <2> SUFFICES ASSUME NEW l \in AllLabels PROVE long(0, l)
    BY <1>1
  <2>1. {l.node} \in SUBSET Node /\ Upstream({l.node}, l)
    BY <1>2, <1>3, LabelFacts DEF Upstream
  <2>2. Cardinality({l.node}) = 0 + 1
    BY FS_Singleton, SMTT(30)
  <2> QED
    BY <2>1, <2>2
<1>5. ASSUME NEW k \in 0 .. NumNodes - 1, k \in Fine  PROVE  k + 1 \in Fine
  <2>1. k + 1 \in 0 .. NumNodes /\ k + 1 \in 1 .. NumNodes /\ (k + 1) - 1 = k
    BY <1>1
  <2>2. r[k + 1] = r[k] \cup UNION {ext[l] : l \in r[k]} /\ r[k] \subseteq LabelType
    BY <2>1 DEF Legs
  <2>3. source \in r[k + 1]
    <3> DEFINE Has == {i \in 0 .. k + 1 : source \in r[i]}
    <3>1. 0 \in Has
      BY <2>1 DEF Legs
    <3>2. ASSUME NEW i \in 0 .. (k + 1) - 1, i \in Has  PROVE  i + 1 \in Has
      <4>1. i + 1 \in 1 .. NumNodes /\ (i + 1) - 1 = i /\ i + 1 \in 0 .. k + 1
        BY <1>1
      <4> QED
        BY <3>2, <4>1 DEF Legs
    <3>3. k + 1 \in Nat /\ k + 1 \in 0 .. k + 1
      OBVIOUS
    <3> HIDE DEF Has
    <3>4. 0 .. k + 1 \subseteq Has
      BY <3>1, <3>2, <3>3, UpTo
    <3> QED
      BY <3>3, <3>4 DEF Has
  <2>4. ASSUME NEW l \in AllLabels, l # source  PROVE  l \in r[k + 1] \/ long(k + 1, l)
    <3>1. PICK p \in expanded : p.node = l.predecessor /\ l \in Extensions(p)
      BY <2>4 DEF Explained
    <3>2. p \in AllLabels /\ p \in LabelType /\ l \in LabelType
      BY <1>2, <3>1
    <3>3. /\ l.arrival_time > p.arrival_time /\ l.secondary_cost >= p.secondary_cost
          /\ l.arrival_time \in Nat /\ p.arrival_time \in Nat
          /\ l.secondary_cost \in Nat /\ p.secondary_cost \in Nat
      BY <1>2, <3>1, <3>2, ExtensionFacts, ExtensionCosts, LabelFacts
    <3>4. CASE p \in r[k]
      BY <2>2, <3>1, <3>2, <3>4
    <3>5. CASE p \notin r[k]
      <4>1. PICK D \in SUBSET Node : Cardinality(D) = k + 1 /\ Upstream(D, p)
        BY <1>5, <3>2, <3>5
      <4>2. \A x \in AllLabels : WeaklyDominates(x, p) =>
              WeaklyDominates(x, l) /\ x.arrival_time < l.arrival_time
        BY <1>2, <3>3, LabelFacts DEF WeaklyDominates
      <4>3. l.node \notin D
        <5> SUFFICES ASSUME l.node \in D PROVE FALSE
          OBVIOUS
        <5>1. PICK x \in AllLabels : x.node = l.node /\ WeaklyDominates(x, p)
          BY <4>1 DEF Upstream
        <5>2. x = l /\ x.arrival_time < l.arrival_time
          BY <1>2, <4>2, <5>1 DEF Beats
        <5> QED
          BY <3>3, <5>2
      <4>4. D \cup {l.node} \in SUBSET Node /\ IsFiniteSet(D)
        BY <1>1, <3>2, LabelFacts, FS_Subset
      <4>5. Cardinality(D \cup {l.node}) = (k + 1) + 1
        BY <4>1, <4>3, <4>4, FS_AddElement
      <4>6. Upstream(D \cup {l.node}, l)
        BY <1>3, <3>2, <4>1, <4>2 DEF Upstream
      <4> QED
        BY <4>4, <4>5, <4>6
    <3> QED
      BY <3>4, <3>5
  <2> QED
    BY <2>1, <2>3, <2>4
<1>6. 0 .. NumNodes \subseteq Fine
  <2> HIDE DEF Fine
  <2> QED
    BY <1>1, <1>4, <1>5, UpTo
<1>7. ASSUME NEW l \in AllLabels  PROVE  ~ long(NumNodes, l)
  <2> SUFFICES ASSUME NEW D \in SUBSET Node, Cardinality(D) = NumNodes + 1  PROVE  FALSE
    OBVIOUS
  <2>1. Cardinality(D) <= NumNodes
    BY <1>1, FS_Subset
  <2> QED
    BY <1>1, <2>1
<1> QED
  BY <1>1, <1>6, <1>7

-----------------------------------------------------------------------------
(* When neither window nor budget truncates, every departure that can      *)
(* still be caught is examined.                                            *)
Catchable(l, v) ==
  {i \in DOMAIN graph.edges[l.node] :
     /\ graph.edges[l.node][i].destination = v
     /\ l.arrival_time <= graph.edges[l.node][i].departure_time}

LEMMA NothingTruncated ==
  ASSUME Typed, Untruncated, NEW l \in LabelType, NEW v
  PROVE  Examined(graph, config, l.arrival_time, l.node, v) = Catchable(l, v)
<1> DEFINE es == graph.edges[l.node]
           C == Candidates(graph, config, l.arrival_time, l.node, v)
<1>1. l.node \in Node /\ l.arrival_time \in Nat
  BY LabelFacts
<1>2. /\ es \in Seq(Edge) /\ DepartureRange(es)
      /\ config.k_departures \in Nat /\ config.W_max_seconds \in Nat
  BY <1>1, EdgeFacts, ConfigsAssumption DEF Typed
<1>3. /\ Len(es) <= config.k_departures
      /\ \A i \in DOMAIN es : es[i].departure_time <= config.W_max_seconds
  BY <1>1 DEF Untruncated
<1>4. \A i \in DOMAIN es : es[i].departure_time \in Nat
  BY <1>2 DEF DepartureRange
<1>5. C = Catchable(l, v)
  <2>1. \A i \in DOMAIN es :
          es[i].departure_time <= l.arrival_time + config.W_max_seconds
    BY <1>1, <1>2, <1>3, <1>4
  <2> QED
    BY <2>1 DEF Candidates, Catchable
<1>6. ASSUME NEW i \in C
      PROVE  Cardinality({j \in C : j < i}) < config.k_departures
  <2> DEFINE before == {j \in C : j < i}
  <2>1. PICK n \in Nat : n = Len(es) /\ DOMAIN es = 1 .. n
    BY <1>2
  <2>2. C \subseteq 1 .. n
    BY <2>1 DEF Candidates
  <2> HIDE DEF C
  <2>3. i \in 1 .. n /\ before \subseteq 1 .. i - 1
    <3>1. i \in 1 .. n
      BY <1>6, <2>2
    <3>2. \A j \in C : j < i => j \in 1 .. i - 1
      BY <2>2, <3>1
    <3> QED
      BY <3>1, <3>2
  <2>4. IsFiniteSet(1 .. i - 1) /\ Cardinality(1 .. i - 1) = i - 1
    <3>1. PICK m \in Nat : m = i - 1
      BY <2>3
    <3>2. IsFiniteSet(1 .. m) /\ Cardinality(1 .. m) = m
      BY FS_Interval
    <3> QED
      BY <3>1, <3>2
  <2>5. Cardinality(before) <= i - 1 /\ Cardinality(before) \in Nat
    BY <2>3, <2>4, FS_Subset, FS_CardinalityType
  <2> HIDE DEF before
  <2>6. Cardinality(before) < config.k_departures
    BY <1>2, <1>3, <2>1, <2>3, <2>5
  <2> QED
    BY <2>6 DEF before
<1>7. Examined(graph, config, l.arrival_time, l.node, v) = C
  BY <1>6 DEF Examined
<1> QED
  BY <1>5, <1>7

(* So a label boards the first best of those departures.                   *)
LEMMA BoardsBest ==
  ASSUME Typed, Untruncated, NEW l \in LabelType, NEW v, Catchable(l, v) # {}
  PROVE  /\ v \in Boardable(l)
         /\ Selected(l, v) \in Catchable(l, v)
         /\ \A j \in Catchable(l, v) :
              LET es == graph.edges[l.node]
                  ci == Composite(graph, config, es[Selected(l, v)])
                  cj == Composite(graph, config, es[j])
              IN  ci < cj \/ (ci = cj /\ Selected(l, v) <= j)
<1> DEFINE i == Selected(l, v)
<1>1. l.node \in Node
  BY LabelFacts
<1>2. /\ i \in DOMAIN graph.edges[l.node]
      /\ Boards(graph, config, l.arrival_time, l.node, v, i)
  BY <1>1, EdgeFacts, NothingTruncated, SelectionBoards DEF Selected
<1>3. Examined(graph, config, l.arrival_time, l.node, v) = Catchable(l, v)
  BY NothingTruncated
<1>4. i \in Catchable(l, v)
  BY <1>2, <1>3 DEF Boards
<1>5. i # NoDeparture
  <2>1. graph.edges[l.node] \in Seq(Edge)
    BY <1>1, EdgeFacts
  <2> HIDE DEF i
  <2> QED
    BY <1>2, <2>1 DEF NoDeparture
<1>6. v \in Boardable(l)
  BY <1>4, <1>5 DEF Boardable, Catchable
<1> QED
  BY <1>2, <1>3, <1>4, <1>6 DEF Boards

(* The label of a given departure, and what it costs in the graphs there   *)
(* are.                                                                    *)
RideBy(l, i) ==
  LET e == graph.edges[l.node][i]
  IN  Label(e.destination, ArrivalOf(e),
            l.secondary_cost + e.secondary_weight + e.penalty, l.node)

LEMMA RideByFacts ==
  ASSUME Typed, NEW l \in LabelType, NEW i \in DOMAIN graph.edges[l.node]
  PROVE  LET e == graph.edges[l.node][i]
         IN  /\ e.departure_time \in Nat /\ e.travel_time \in Nat
             /\ e.secondary_weight \in Nat /\ e.penalty = 0
             /\ graph.second_objective = "TransferCount" => e.secondary_weight = 0
             /\ RideBy(l, i) \in LabelType
             /\ RideBy(l, i).node = e.destination
             /\ RideBy(l, i).arrival_time = e.departure_time + e.travel_time
             /\ RideBy(l, i).secondary_cost = l.secondary_cost + e.secondary_weight
<1> DEFINE e == graph.edges[l.node][i]
<1>1. /\ l.node \in Node /\ l.node \in Node \cup {NoNode}
      /\ l.secondary_cost \in Nat
  BY LabelFacts
<1>2. /\ e.departure_time \in Nat /\ e.travel_time \in Nat
      /\ e.secondary_weight \in Nat /\ e.destination \in Node
  BY <1>1, EdgeFacts DEF DepartureRange
<1>3. /\ e.penalty = 0
      /\ graph.second_objective = "TransferCount" => e.secondary_weight = 0
  BY <1>1, CostsAssumption DEF Typed
<1>4. RideBy(l, i) = Label(e.destination, ArrivalOf(e),
                           l.secondary_cost + e.secondary_weight + e.penalty, l.node)
  BY DEF RideBy
<1> HIDE DEF e
<1>5. /\ ArrivalOf(e) \in Nat /\ ArrivalOf(e) = e.departure_time + e.travel_time
      /\ l.secondary_cost + e.secondary_weight + e.penalty \in Nat
      /\ l.secondary_cost + e.secondary_weight + e.penalty
           = l.secondary_cost + e.secondary_weight
  BY <1>1, <1>2, <1>3 DEF ArrivalOf
<1>6. /\ RideBy(l, i) \in LabelType
      /\ RideBy(l, i).node = e.destination
      /\ RideBy(l, i).arrival_time = ArrivalOf(e)
      /\ RideBy(l, i).secondary_cost
           = l.secondary_cost + e.secondary_weight + e.penalty
  BY <1>1, <1>2, <1>4, <1>5, LabelFacts
<1>7. /\ e.departure_time \in Nat /\ e.travel_time \in Nat
      /\ e.secondary_weight \in Nat /\ e.penalty = 0
      /\ graph.second_objective = "TransferCount" => e.secondary_weight = 0
      /\ RideBy(l, i) \in LabelType
      /\ RideBy(l, i).node = e.destination
      /\ RideBy(l, i).arrival_time = e.departure_time + e.travel_time
      /\ RideBy(l, i).secondary_cost = l.secondary_cost + e.secondary_weight
  BY <1>2, <1>3, <1>5, <1>6
<1> QED
  BY <1>7 DEF e

(* AllBoardings are the rides by the catchable departures, and the walks;  *)
(* Extensions take one departure to each destination.                      *)
LEMMA Boardings ==
  ASSUME Typed, NEW l \in LabelType
  PROVE  /\ AllBoardings(l)
              = {RideBy(l, i) : i \in {j \in DOMAIN graph.edges[l.node] :
                   graph.edges[l.node][j].departure_time >= l.arrival_time}}
                \cup Range(Walks(l))
         /\ \A v \in Boardable(l) :
              /\ Selected(l, v) \in Catchable(l, v)
              /\ Ride(l, v) = RideBy(l, Selected(l, v))
         /\ Extensions(l) \subseteq AllBoardings(l)
         /\ AllBoardings(l) \subseteq LabelType
<1> DEFINE es == graph.edges[l.node]
           later == {j \in DOMAIN es : es[j].departure_time >= l.arrival_time}
<1>1. l.node \in Node /\ l.arrival_time \in Nat
  BY LabelFacts
<1>2. AllBoardings(l) = {RideBy(l, i) : i \in later} \cup Range(Walks(l))
  BY DEF AllBoardings, RideBy
<1>3. ASSUME NEW v \in Boardable(l)
      PROVE  /\ Selected(l, v) \in Catchable(l, v)
             /\ Ride(l, v) = RideBy(l, Selected(l, v))
  <2>1. /\ Selected(l, v) \in DOMAIN es
        /\ es[Selected(l, v)].destination = v
        /\ l.arrival_time <= es[Selected(l, v)].departure_time
    BY <1>1, EdgeFacts, SelectionIsCatchable DEF Boardable, Selected
  <2> QED
    BY <2>1 DEF Catchable, Ride, RideBy
<1>4. ASSUME NEW v  PROVE  Catchable(l, v) \subseteq later
  <2>1. \A i \in DOMAIN es : es[i].departure_time \in Nat
    BY <1>1, EdgeFacts DEF DepartureRange
  <2> QED
    BY <1>1, <2>1 DEF Catchable
<1>5. Extensions(l) \subseteq AllBoardings(l)
  <2> HIDE DEF later
  <2> QED
    BY <1>2, <1>3, <1>4 DEF Extensions
<1>6. AllBoardings(l) \subseteq LabelType
  BY <1>2, RideByFacts, WalkFacts
<1> QED
  BY <1>2, <1>3, <1>5, <1>6

(* A label that beats another walks at least as well,                      *)
LEMMA WalksBeat ==
  ASSUME Typed, NEW l \in LabelType, NEW y \in LabelType, Beats(y, l),
         NEW x \in Range(Walks(l))
  PROVE  \E z \in Extensions(y) : Beats(z, x)
<1>1. PICK i \in DOMAIN graph.transfers[l.node] : x = Walks(l)[i]
  BY DEF Walks, Range
<1> DEFINE w == graph.transfers[l.node][i]
           z == Walks(y)[i]
<1>2. /\ l.node \in Node /\ y.node = l.node
      /\ y.arrival_time <= l.arrival_time /\ y.secondary_cost <= l.secondary_cost
      /\ y.arrival_time \in Nat /\ l.arrival_time \in Nat
      /\ y.secondary_cost \in Nat /\ l.secondary_cost \in Nat
  BY LabelFacts DEF Beats, WeaklyDominates
<1>3. w.travel_time \in Nat
  <2>1. graph.transfers[l.node] \in Seq(TransferEdge)
    BY <1>2, GraphsAssumption DEF Typed
  <2>2. w \in TransferEdge
    BY <2>1
  <2> QED
    BY <2>2 DEF TransferEdge
<1>4. /\ x.node = w.destination /\ x.arrival_time = l.arrival_time + w.travel_time
      /\ x.secondary_cost = l.secondary_cost + TransferCost
  BY <1>1 DEF Walks, Label
<1>5. /\ z.node = w.destination /\ z.arrival_time = y.arrival_time + w.travel_time
      /\ z.secondary_cost = y.secondary_cost + TransferCost
  BY <1>2 DEF Walks, Label
<1>6. z \in Extensions(y)
  <2>1. i \in DOMAIN Walks(y)
    BY <1>2 DEF Walks
  <2> QED
    BY <2>1 DEF Extensions, Range
<1>7. TransferCost \in Nat
  BY DEF TransferCost
<1> HIDE DEF w, z
<1>8. z.arrival_time <= x.arrival_time /\ z.secondary_cost <= x.secondary_cost
  BY <1>2, <1>3, <1>4, <1>5, <1>7
<1>9. Beats(z, x)
  BY <1>4, <1>5, <1>8 DEF Beats, WeaklyDominates
<1> QED
  BY <1>6, <1>9

(* has the departure the other would board to choose from,                 *)
LEMMA StillCatchable ==
  ASSUME Typed, NEW l \in LabelType, NEW y \in LabelType, Beats(y, l), NEW v
  PROVE  Catchable(l, v) \subseteq Catchable(y, v)
<1>1. /\ l.node \in Node /\ y.node = l.node
      /\ y.arrival_time <= l.arrival_time
      /\ y.arrival_time \in Nat /\ l.arrival_time \in Nat
  BY LabelFacts DEF Beats, WeaklyDominates
<1>2. \A i \in DOMAIN graph.edges[l.node] :
        graph.edges[l.node][i].departure_time \in Nat
  BY <1>1, EdgeFacts DEF DepartureRange
<1>3. \A i \in DOMAIN graph.edges[l.node] :
        l.arrival_time <= graph.edges[l.node][i].departure_time
          => y.arrival_time <= graph.edges[l.node][i].departure_time
  BY <1>1, <1>2
<1> QED
  BY <1>1, <1>3 DEF Catchable

(* and, when transfers are counted, takes one that arrives no later.       *)
LEMMA RideBeatsAny ==
  ASSUME Typed, Untruncated, graph.second_objective = "TransferCount",
         NEW l \in LabelType, NEW y \in LabelType, Beats(y, l),
         NEW v, NEW i \in Catchable(l, v)
  PROVE  \E z \in Extensions(y) : Beats(z, RideBy(l, i))
<1> DEFINE j == Selected(y, v)
           es == graph.edges[l.node]
<1>1. /\ y.node = l.node /\ y.secondary_cost <= l.secondary_cost
      /\ y.secondary_cost \in Nat /\ l.secondary_cost \in Nat
  BY LabelFacts DEF Beats, WeaklyDominates
<1>2. i \in Catchable(y, v)
  BY StillCatchable
<1>3. /\ v \in Boardable(y) /\ j \in Catchable(y, v)
      /\ \/ Composite(graph, config, es[j]) < Composite(graph, config, es[i])
         \/ Composite(graph, config, es[j]) = Composite(graph, config, es[i])
  BY <1>1, <1>2, BoardsBest
<1>4. /\ i \in DOMAIN es /\ j \in DOMAIN es
      /\ es[i].destination = v /\ es[j].destination = v
  BY <1>1, <1>3 DEF Catchable
<1>5. /\ Ride(y, v) = RideBy(y, j) /\ Ride(y, v) \in Extensions(y)
  BY <1>3, Boardings DEF Extensions
<1> HIDE DEF j
<1>6. /\ es[i].departure_time \in Nat /\ es[i].travel_time \in Nat
      /\ es[i].secondary_weight = 0 /\ es[i].penalty = 0
      /\ RideBy(l, i).node = v
      /\ RideBy(l, i).arrival_time = es[i].departure_time + es[i].travel_time
      /\ RideBy(l, i).secondary_cost = l.secondary_cost + es[i].secondary_weight
  BY <1>4, RideByFacts
<1>7. /\ es[j].departure_time \in Nat /\ es[j].travel_time \in Nat
      /\ es[j].secondary_weight = 0 /\ es[j].penalty = 0
      /\ RideBy(y, j).node = v
      /\ RideBy(y, j).arrival_time = es[j].departure_time + es[j].travel_time
      /\ RideBy(y, j).secondary_cost = y.secondary_cost + es[j].secondary_weight
  BY <1>1, <1>4, RideByFacts
<1>8. es[j].departure_time + es[j].travel_time
        <= es[i].departure_time + es[i].travel_time
  BY <1>3, <1>6, <1>7 DEF Composite, ArrivalMinimising
<1>9. Beats(RideBy(y, j), RideBy(l, i))
  BY <1>1, <1>6, <1>7, <1>8 DEF Beats, WeaklyDominates
<1> QED
  BY <1>5, <1>9

(* With a constant travel time per link the departure the other selected   *)
(* is matched too: a cheaper one that is not the same leaves, and so       *)
(* arrives, earlier.                                                       *)
LEMMA ScaledOrder ==
  ASSUME NEW k \in Nat, k > 0, NEW a \in Nat, NEW b \in Nat, k * a <= k * b
  PROVE  a <= b
<1> SUFFICES ASSUME a > b PROVE FALSE
  OBVIOUS
<1>1. PICK d \in Nat : a = b + 1 + d
  <2>1. a - b - 1 \in Nat /\ a = b + 1 + (a - b - 1)
    OBVIOUS
  <2> QED
    BY <2>1
<1>2. k * a = k * b + k + k * d
  BY <1>1
<1>3. k * d \in Nat /\ k * b \in Nat
  OBVIOUS
<1> QED
  BY <1>2, <1>3

LEMMA RideBeatsSelected ==
  ASSUME Typed, Untruncated, SelectionSeesCost,
         \A u \in Node : ConstantTravel(graph, u),
         NEW l \in LabelType, NEW y \in LabelType, Beats(y, l),
         NEW v \in Boardable(l)
  PROVE  \E z \in Extensions(y) : Beats(z, Ride(l, v))
<1>1. CASE graph.second_objective = "TransferCount"
  BY <1>1, Boardings, RideBeatsAny
<1>2. CASE graph.second_objective # "TransferCount"
  <2> DEFINE i == Selected(l, v)
             j == Selected(y, v)
             es == graph.edges[l.node]
             ci == Composite(graph, config, es[i])
             cj == Composite(graph, config, es[j])
  <2>1. /\ y.node = l.node /\ l.node \in Node
        /\ y.arrival_time <= l.arrival_time
        /\ y.arrival_time \in Nat /\ l.arrival_time \in Nat
        /\ y.secondary_cost <= l.secondary_cost
        /\ y.secondary_cost \in Nat /\ l.secondary_cost \in Nat
    BY LabelFacts DEF Beats, WeaklyDominates
  <2>2. i \in Catchable(l, v) /\ i \in Catchable(y, v) /\ Ride(l, v) = RideBy(l, i)
    BY Boardings, StillCatchable
  <2>3. /\ v \in Boardable(y) /\ j \in Catchable(y, v)
        /\ cj < ci \/ (cj = ci /\ j <= i)
    BY <2>1, <2>2, BoardsBest
  <2>4. j \in Catchable(l, v) => ci < cj \/ (ci = cj /\ i <= j)
    BY <2>2, BoardsBest
  <2>5. Ride(y, v) = RideBy(y, j) /\ Ride(y, v) \in Extensions(y)
    BY <2>3, Boardings DEF Extensions
  <2>6. /\ i \in DOMAIN es /\ j \in DOMAIN es
        /\ es[i].destination = v /\ es[j].destination = v
        /\ l.arrival_time <= es[i].departure_time
        /\ l.arrival_time <= es[j].departure_time => j \in Catchable(l, v)
    BY <2>1, <2>2, <2>3 DEF Catchable
  <2>7. es[i].travel_time = es[j].travel_time
    BY <2>1, <2>6 DEF ConstantTravel
  <2>8. i \in Nat /\ j \in Nat
    <3>1. es \in Seq(Edge)
      BY <2>1, EdgeFacts
    <3> HIDE DEF i, j, es
    <3> QED
      BY <2>6, <3>1
  <2> HIDE DEF i, j
  <2>9. /\ es[i].departure_time \in Nat /\ es[i].travel_time \in Nat
        /\ es[i].secondary_weight \in Nat /\ es[i].penalty = 0
        /\ RideBy(l, i).node = v
        /\ RideBy(l, i).arrival_time = es[i].departure_time + es[i].travel_time
        /\ RideBy(l, i).secondary_cost = l.secondary_cost + es[i].secondary_weight
    BY <2>6, RideByFacts
  <2>10. /\ es[j].departure_time \in Nat /\ es[j].travel_time \in Nat
         /\ es[j].secondary_weight \in Nat /\ es[j].penalty = 0
         /\ RideBy(y, j).node = v
         /\ RideBy(y, j).arrival_time = es[j].departure_time + es[j].travel_time
         /\ RideBy(y, j).secondary_cost = y.secondary_cost + es[j].secondary_weight
    BY <2>1, <2>6, RideByFacts
  <2>11. /\ config.lambda \in Nat /\ config.lambda > 0
         /\ ci = es[i].travel_time + config.lambda * es[i].secondary_weight
         /\ cj = es[j].travel_time + config.lambda * es[j].secondary_weight
    <3>1. config.lambda \in Nat /\ config.lambda > 0
      BY <1>2, <2>1, EdgeFacts DEF SelectionSeesCost
    <3>2. \A a \in Nat : a + 0 = a
      OBVIOUS
    <3>3. /\ config.lambda * es[i].secondary_weight \in Nat
          /\ config.lambda * es[j].secondary_weight \in Nat
      BY <3>1, <2>9, <2>10
    <3>4. ~ ArrivalMinimising(graph, config)
      BY <1>2, <3>1 DEF ArrivalMinimising
    <3> QED
      BY <3>1, <3>3, <3>4, <2>9, <2>10 DEF Composite
  <2>12. es[j].secondary_weight <= es[i].secondary_weight
    <3>1. PICK p \in Nat : p = config.lambda * es[i].secondary_weight
      BY <2>9, <2>11
    <3>2. PICK q \in Nat : q = config.lambda * es[j].secondary_weight
      BY <2>10, <2>11
    <3>3. q <= p
      <4> HIDE DEF es, ci, cj
      <4> QED
        BY <2>3, <2>7, <2>9, <2>11, <3>1, <3>2
    <3> QED
      BY <2>9, <2>10, <2>11, <3>1, <3>2, <3>3, ScaledOrder
  <2>13. es[j].departure_time <= es[i].departure_time
    <3>1. CASE l.arrival_time <= es[j].departure_time
      <4>1. /\ ci < cj \/ (ci = cj /\ i <= j)
            /\ ci \in Nat /\ cj \in Nat
        <5>1. /\ config.lambda * es[i].secondary_weight \in Nat
              /\ config.lambda * es[j].secondary_weight \in Nat
          BY <2>9, <2>10, <2>11
        <5> QED
          BY <2>4, <2>6, <2>9, <2>10, <2>11, <3>1, <5>1
      <4> HIDE DEF ci, cj
      <4>2. i = j
        BY <2>3, <2>8, <4>1
      <4> QED
        BY <2>9, <4>2
    <3>2. CASE ~ l.arrival_time <= es[j].departure_time
      BY <2>1, <2>6, <2>9, <2>10, <3>2
    <3> QED
      BY <3>1, <3>2
  <2>14. Beats(RideBy(y, j), RideBy(l, i))
    BY <2>1, <2>7, <2>9, <2>10, <2>12, <2>13 DEF Beats, WeaklyDominates
  <2> QED
    BY <2>2, <2>5, <2>14
<1> QED
  BY <1>1, <1>2

(* What a drained search has covered stays covered one leg further, and so *)
(* any number of legs further.                                             *)
LEMMA DrainedCovers ==
  ASSUME AnswerInv, Answered, NEW l \in LabelType, Covered(l),
         NEW x \in LabelType,
         \A y \in LabelType : Beats(y, l) => \E z \in Extensions(y) : Beats(z, x)
  PROVE  Covered(x)
<1>1. QueryOK /\ Shaped /\ Typed /\ phase = "idle"
  BY DEF AnswerInv, Answered, Answering, Shaped
<1>2. AllLabels = expanded /\ AllLabels \subseteq LabelType
  BY <1>1, FrontierFacts DEF QueryOK, Shaped
<1>3. PICK y \in AllLabels : Beats(y, l)
  BY DEF Covered
<1>4. PICK z \in Extensions(y) : Beats(z, x)
  BY <1>2, <1>3
<1>5. PICK w \in AllLabels : Beats(w, z)
  BY <1>1, <1>2 DEF QueryOK, ClosedSoFar, Covered
<1>6. y \in LabelType /\ z \in LabelType /\ w \in LabelType
  BY <1>1, <1>2, ExtensionFacts
<1>7. Beats(w, x)
  BY <1>4, <1>5, <1>6, BeatsOrder
<1> QED
  BY <1>7 DEF Covered

(* Hence the answer is the non-dominated part of all journeys, for every   *)
(* way of extending that contains what the search does and that better     *)
(* labels always match.                                                    *)
LEMMA AnswerIsExact ==
  ASSUME AnswerInv, Answered, NEW ext \in Ways, NEW r, Legs(r, NumNodes, ext),
         \A l \in LabelType : Extensions(l) \subseteq ext[l],
         \A l, y \in LabelType : \A x \in ext[l] :
           Beats(y, l) => \E z \in Extensions(y) : Beats(z, x),
         NEW n \in Node
  PROVE  PointsOf(AllLabels, n) = Minimal(PointsOf(r[NumNodes], n))
<1>1. QueryOK /\ Shaped /\ phase = "idle" /\ NumNodes \in Nat
  BY NodeAssumption DEF AnswerInv, Answered, Answering
<1>2. AllLabels \subseteq r[NumNodes]
  BY <1>1, LegsHoldAnswer DEF QueryOK
<1>3. r[NumNodes] \subseteq LabelType
  BY <1>1 DEF Legs
<1>4. Covered(source)
  BY <1>1 DEF QueryOK, ClosedSoFar
<1>5. ASSUME NEW l \in LabelType, Covered(l), NEW x \in ext[l]
      PROVE  Covered(x)
  <2>1. x \in LabelType
    BY DEF Ways
  <2> QED
    BY <1>5, <2>1, DrainedCovers
<1>6. \A x \in r[NumNodes] : Covered(x)
  BY <1>1, <1>4, <1>5, LegsCovered
<1> QED
  BY <1>2, <1>3, <1>6, AnswerIsMinimal

LEMMA NodeCount == NumNodes \in Nat /\ Cardinality(Node) = NumNodes
BY NodeAssumption, FS_Interval DEF Node

(* When transfers are counted and nothing is truncated, the answer is the  *)
(* exact frontier over every journey: boarding the departure that arrives  *)
(* first, and relaxing only non-dominated labels, loses no trade-off.      *)
THEOREM DijkstraExactFrontier == Spec => []ExactFrontier
<1>1. ASSUME AnswerInv, Answered, Untruncated,
             graph.second_objective = "TransferCount", NEW n \in Node
      PROVE  PointsOf(AllLabels, n)
               = Minimal(PointsOf(Within(AllBoardings, Cardinality(Node)), n))
  <2>1. Shaped /\ Typed /\ source \in LabelType
    BY <1>1 DEF AnswerInv, Shaped, Typed
  <2>2. /\ AnyBoarding \in Ways
        /\ \A l \in LabelType : /\ AnyBoarding[l] = AllBoardings(l)
                                /\ Extensions(l) \subseteq AnyBoarding[l]
    BY <2>1, Boardings DEF AnyBoarding, Ways
  <2>3. PICK r : /\ Legs(r, NumNodes, AnyBoarding)
                 /\ Within(AllBoardings, NumNodes) = r[NumNodes]
    BY <2>1, <2>2, NodeCount, WithinAnyBoarding
  <2>4. ASSUME NEW l \in LabelType, NEW y \in LabelType,
               NEW x \in AllBoardings(l), Beats(y, l)
        PROVE  \E z \in Extensions(y) : Beats(z, x)
    <3>1. CASE x \in Range(Walks(l))
      BY <2>1, <2>4, <3>1, WalksBeat
    <3>2. CASE x \notin Range(Walks(l))
      <4>1. PICK i \in DOMAIN graph.edges[l.node] :
              /\ graph.edges[l.node][i].departure_time >= l.arrival_time
              /\ x = RideBy(l, i)
        BY <2>1, <3>2, Boardings
      <4>2. i \in Catchable(l, graph.edges[l.node][i].destination)
        <5>1. /\ graph.edges[l.node][i].departure_time \in Nat
              /\ l.arrival_time \in Nat
          BY <2>1, <4>1, RideByFacts, LabelFacts
        <5> QED
          BY <4>1, <5>1 DEF Catchable
      <4> QED
        BY <1>1, <2>1, <2>4, <4>1, <4>2, RideBeatsAny
    <3> QED
      BY <3>1, <3>2
  <2>5. \A l, y \in LabelType : \A x \in AnyBoarding[l] :
          Beats(y, l) => \E z \in Extensions(y) : Beats(z, x)
    BY <2>2, <2>4
  <2>6. PointsOf(AllLabels, n) = Minimal(PointsOf(r[NumNodes], n))
    BY <1>1, <2>2, <2>3, <2>5, AnswerIsExact
  <2> QED
    BY <2>3, <2>6, NodeCount
<1>2. AnswerInv => ExactFrontier
  BY <1>1 DEF ExactFrontier
<1> QED
  BY <1>2, AnswerInvAlways, PTL

(* With constant travel times per link, nothing truncated and a selection  *)
(* that sees the second objective, the answer is the frontier over all     *)
(* journeys whose every ride boards the departure the lookahead selects.   *)
THEOREM DijkstraRouteFrontier == Spec => []RouteFrontier
<1>1. ASSUME AnswerInv, Answered, Untruncated, SelectionSeesCost,
             \A u \in Node : ConstantTravel(graph, u), NEW n \in Node
      PROVE  PointsOf(AllLabels, n)
               = Minimal(PointsOf(Within(Extensions, Cardinality(Node)), n))
  <2>1. Shaped /\ Typed /\ source \in LabelType
    BY <1>1 DEF AnswerInv, Shaped, Typed
  <2>2. /\ OneBoarding \in Ways
        /\ \A l \in LabelType : OneBoarding[l] = Extensions(l)
    BY <2>1, ExtensionFacts DEF OneBoarding, Ways
  <2>3. PICK r : /\ Legs(r, NumNodes, OneBoarding)
                 /\ Within(Extensions, NumNodes) = r[NumNodes]
    BY <2>1, <2>2, NodeCount, WithinOneBoarding
  <2>4. ASSUME NEW l \in LabelType, NEW y \in LabelType,
               NEW x \in Extensions(l), Beats(y, l)
        PROVE  \E z \in Extensions(y) : Beats(z, x)
    BY <1>1, <2>1, <2>4, WalksBeat, RideBeatsSelected DEF Extensions
  <2>5. \A l, y \in LabelType : \A x \in OneBoarding[l] :
          Beats(y, l) => \E z \in Extensions(y) : Beats(z, x)
    BY <2>2, <2>4
  <2>6. PointsOf(AllLabels, n) = Minimal(PointsOf(r[NumNodes], n))
    BY <1>1, <2>2, <2>3, <2>5, AnswerIsExact
  <2> QED
    BY <2>3, <2>6, NodeCount
<1>2. AnswerInv => RouteFrontier
  BY <1>1 DEF RouteFrontier
<1> QED
  BY <1>2, AnswerInvAlways, PTL
=============================================================================
