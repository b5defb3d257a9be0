--------------------------- MODULE SearchParts_proofs ---------------------------
(***************************************************************************)
(* The parts the search is made of.                                        *)
(* Safety of the arena for every capacity and every sequence of calls, and *)
(* of the label sets over it: whatever is offered, they keep every slot    *)
(* accounted for and implement the abstract family of frontiers.           *)
(* For every timetable, configuration and horizon, what the selection of a *)
(* departure does as the clock advances.                                   *)
(***************************************************************************)
EXTENDS ParetoLabelSet, LookaheadFIFO, Lemmas

-----------------------------------------------------------------------------
(* The arena by itself.                                                    *)

(* A set of slots is finite and no larger than the arena.                  *)
LEMMA SlotsFinite ==
  ASSUME NEW held \in SUBSET Slot
  PROVE  IsFiniteSet(held) /\ Cardinality(held) \in 0 .. Capacity
<1>1. IsFiniteSet(Slot) /\ Cardinality(Slot) = Capacity
  BY CapacityAssumption, FS_Interval DEF Slot
<1> QED
  BY <1>1, FS_Subset, FS_CardinalityType, CapacityAssumption

(* Taking the head off the free list takes exactly that slot out of it.    *)
LEMMA FreeAfterPop ==
  ASSUME NEW a \in ArenaType, a.free_list # << >>,
         \A i, j \in 1 .. Len(a.free_list) :
           a.free_list[i] = a.free_list[j] => i = j,
         NEW b \in ArenaType, b.free_list = Tail(a.free_list)
  PROVE  /\ Head(a.free_list) \in FreeSlots(a)
         /\ FreeSlots(b) = FreeSlots(a) \ {Head(a.free_list)}
         /\ \A i, j \in 1 .. Len(b.free_list) :
              b.free_list[i] = b.free_list[j] => i = j
<1> DEFINE f == a.free_list
<1>1. f \in Seq(Slot) /\ Len(f) \in Nat \ {0} /\ Head(f) = f[1]
  BY EmptySeq DEF ArenaType
<1>2. Tail(f) \in Seq(Slot) /\ Len(Tail(f)) = Len(f) - 1
  BY <1>1, HeadTailProperties
<1>3. \A i \in 1 .. Len(f) - 1 : Tail(f)[i] = f[i + 1]
  BY <1>1, HeadTailProperties
<1>4. \A i \in 2 .. Len(f) : i - 1 \in 1 .. Len(f) - 1 /\ f[i] = Tail(f)[i - 1]
  BY <1>1, <1>3
<1>5. FreeSlots(b) = {f[i] : i \in 2 .. Len(f)}
  <2>1. FreeSlots(b) = {Tail(f)[i] : i \in 1 .. Len(f) - 1}
    BY <1>2 DEF FreeSlots
  <2>2. \A i \in 1 .. Len(f) - 1 : i + 1 \in 2 .. Len(f)
    BY <1>1
  <2> HIDE DEF f
  <2>3. {Tail(f)[i] : i \in 1 .. Len(f) - 1} \subseteq {f[i] : i \in 2 .. Len(f)}
    BY <1>3, <2>2
  <2>4. {f[i] : i \in 2 .. Len(f)} \subseteq {Tail(f)[i] : i \in 1 .. Len(f) - 1}
    BY <1>4
  <2> QED
    BY <2>1, <2>3, <2>4
<1>6. {f[i] : i \in 2 .. Len(f)} = FreeSlots(a) \ {f[1]}
  BY <1>1 DEF FreeSlots
<1>7. f[1] \in FreeSlots(a)
  BY <1>1 DEF FreeSlots
<1>8. ASSUME NEW i \in 1 .. Len(Tail(f)), NEW j \in 1 .. Len(Tail(f)),
             Tail(f)[i] = Tail(f)[j]
      PROVE  i = j
  BY <1>1, <1>2, <1>3, <1>8
<1> QED
  BY <1>1, <1>5, <1>6, <1>7, <1>8

(* Pushing a slot that is not free puts exactly that slot on the free list.*)
LEMMA FreeAfterPush ==
  ASSUME NEW a \in ArenaType, NEW s \in Slot, s \notin FreeSlots(a),
         \A i, j \in 1 .. Len(a.free_list) :
           a.free_list[i] = a.free_list[j] => i = j,
         NEW b \in ArenaType, b.free_list = << s >> \o a.free_list
  PROVE  /\ FreeSlots(b) = {s} \cup FreeSlots(a)
         /\ \A i, j \in 1 .. Len(b.free_list) :
              b.free_list[i] = b.free_list[j] => i = j
<1> DEFINE f == a.free_list
           g == << s >> \o f
<1>1. f \in Seq(Slot) /\ Len(f) \in Nat
  BY DEF ArenaType
<1>2. Len(g) = Len(f) + 1 /\ g[1] = s
  BY <1>1
<1>3. \A i \in 2 .. Len(g) : i - 1 \in 1 .. Len(f) /\ g[i] = f[i - 1]
  BY <1>1, <1>2
<1>4. \A i \in 1 .. Len(f) : i + 1 \in 2 .. Len(g) /\ f[i] = g[i + 1]
  BY <1>1, <1>2
<1>5. FreeSlots(b) = {g[1]} \cup {g[i] : i \in 2 .. Len(g)}
  BY <1>1, <1>2 DEF FreeSlots
<1>6. {g[i] : i \in 2 .. Len(g)} = FreeSlots(a)
  <2> HIDE DEF f, g
  <2>1. {g[i] : i \in 2 .. Len(g)} = {f[i] : i \in 1 .. Len(f)}
    BY <1>3, <1>4
  <2> QED
    BY <2>1 DEF FreeSlots, f
<1>7. ASSUME NEW i \in 1 .. Len(g), NEW j \in 1 .. Len(g), g[i] = g[j]
      PROVE  i = j
  <2>1. \A n \in 2 .. Len(g) : g[n] # s
    BY <1>6
  <2>2. CASE i = 1 \/ j = 1
    BY <1>1, <1>2, <1>7, <2>1, <2>2
  <2>3. CASE i \in 2 .. Len(g) /\ j \in 2 .. Len(g)
    <3>1. f[i - 1] = f[j - 1] /\ i - 1 \in 1 .. Len(f) /\ j - 1 \in 1 .. Len(f)
      BY <1>3, <1>7, <2>3
    <3>2. i - 1 = j - 1
      BY <3>1
    <3> QED
      BY <2>3, <3>2
  <2> QED
    BY <1>1, <1>2, <2>2, <2>3
<1> QED
  BY <1>2, <1>5, <1>6, <1>7

(* allocate() on an arena that is not exhausted returns a slot no client   *)
(* holds, and the arena then accounts for it as well.                      *)
LEMMA AllocatedAccounts ==
  ASSUME NEW a \in ArenaType, NEW held \in SUBSET Slot,
         Accounts(a, held), check_invariant(a), ~ Exhausted(a)
  PROVE  /\ NextSlot(a) \in Slot \ held
         /\ Allocated(a) \in ArenaType
         /\ Accounts(Allocated(a), held \cup {NextSlot(a)})
         /\ check_invariant(Allocated(a))
<1> DEFINE s == NextSlot(a)
           b == Allocated(a)
           grown == held \cup {s}
<1>1. a.bump_ptr \in 0 .. Capacity /\ a.used_count \in 0 .. Capacity
        /\ a.free_list \in Seq(Slot) /\ Capacity \in Nat
  BY CapacityAssumption DEF ArenaType
<1>2. s \notin held => Cardinality(grown) = Cardinality(held) + 1
  BY SlotsFinite, FS_AddElement
<1>3. CASE Recycles(a)
  <2>1. s = Head(a.free_list) /\ a.free_list # << >>
    BY <1>3 DEF NextSlot, Recycles
  <2>2. s \in Slot /\ Tail(a.free_list) \in Seq(Slot)
          /\ Len(Tail(a.free_list)) = Len(a.free_list) - 1
          /\ Len(a.free_list) \in Nat \ {0}
    BY <1>1, <2>1, HeadTailProperties, EmptySeq
  <2>3. b = [a EXCEPT !.free_list = Tail(@), !.used_count = @ + 1]
    BY <1>3 DEF Allocated
  <2>4. b.bump_ptr = a.bump_ptr /\ b.free_list = Tail(a.free_list)
          /\ b.used_count = a.used_count + 1
    BY <2>3 DEF ArenaType
  <2>5. a.used_count + 1 \in 0 .. Capacity
    BY <1>1, <2>2 DEF check_invariant
  <2>6. b \in ArenaType
    BY <1>1, <2>2, <2>3, <2>5 DEF ArenaType
  <2>7. /\ s \in FreeSlots(a)
        /\ FreeSlots(b) = FreeSlots(a) \ {s}
        /\ \A i, j \in 1 .. Len(b.free_list) :
             b.free_list[i] = b.free_list[j] => i = j
    BY <2>1, <2>4, <2>6, FreeAfterPop DEF Accounts
  <2>8. s \notin held
    BY <2>7 DEF Accounts
  <2>9. b.used_count = Cardinality(grown)
    BY <1>2, <2>4, <2>8 DEF Accounts
  <2>10. Accounts(b, grown)
    <3> HIDE DEF b, s
    <3> QED
      BY <2>4, <2>7, <2>8, <2>9 DEF Accounts
  <2>11. check_invariant(b)
    BY <1>1, <2>2, <2>4 DEF check_invariant
  <2> QED
    BY <2>2, <2>6, <2>8, <2>10, <2>11
<1>4. CASE ~ Recycles(a)
  <2>1. s = a.bump_ptr /\ a.free_list = << >> /\ a.bump_ptr < Capacity
    BY <1>1, <1>4 DEF NextSlot, Recycles, Exhausted
  <2>2. b = [a EXCEPT !.bump_ptr = @ + 1, !.used_count = @ + 1]
    BY <1>4 DEF Allocated
  <2>3. b.bump_ptr = a.bump_ptr + 1 /\ b.free_list = << >>
          /\ b.used_count = a.used_count + 1
    BY <2>1, <2>2 DEF ArenaType
  <2>4. a.used_count + 1 \in 0 .. Capacity
    BY <1>1, <2>1, EmptySeq DEF check_invariant
  <2>5. b \in ArenaType
    <3>1. a.bump_ptr + 1 \in 0 .. Capacity
      BY <1>1, <2>1
    <3> QED
      BY <1>1, <2>2, <2>4, <3>1 DEF ArenaType
  <2>6. FreeSlots(a) = {} /\ FreeSlots(b) = {}
    BY <2>1, <2>3 DEF FreeSlots
  <2>7. held = 0 .. a.bump_ptr - 1 /\ s \notin held /\ s \in Slot
    BY <1>1, <2>1, <2>6 DEF Accounts, Slot
  <2>8. grown = 0 .. b.bump_ptr - 1
    BY <1>1, <2>1, <2>3, <2>7
  <2>9. b.used_count = Cardinality(grown)
    BY <1>2, <2>3, <2>7 DEF Accounts
  <2>10. Accounts(b, grown)
    <3> HIDE DEF b, s
    <3>1. Len(b.free_list) = 0
      BY <2>3
    <3> QED
      BY <2>6, <2>8, <2>9, <3>1 DEF Accounts
  <2>11. check_invariant(b)
    BY <1>1, <2>1, <2>3 DEF check_invariant
  <2> QED
    BY <2>5, <2>7, <2>10, <2>11
<1> QED
  BY <1>3, <1>4

(* deallocate() of a held slot leaves an arena that accounts for the rest. *)
LEMMA DeallocatedAccounts ==
  ASSUME NEW a \in ArenaType, NEW held \in SUBSET Slot, NEW s \in held,
         Accounts(a, held), check_invariant(a)
  PROVE  /\ Deallocated(a, s) \in ArenaType
         /\ Accounts(Deallocated(a, s), held \ {s})
         /\ check_invariant(Deallocated(a, s))
<1> DEFINE b == Deallocated(a, s)
           fewer == held \ {s}
<1>1. a.bump_ptr \in 0 .. Capacity /\ a.used_count \in 0 .. Capacity
        /\ a.free_list \in Seq(Slot) /\ Capacity \in Nat /\ s \in Slot
  BY CapacityAssumption DEF ArenaType
<1>2. IsFiniteSet(held) /\ IsFiniteSet(fewer)
        /\ Cardinality(held) \in 0 .. Capacity /\ Cardinality(fewer) \in 0 .. Capacity
  BY SlotsFinite
<1>3. Cardinality(fewer) = Cardinality(held) - 1
  BY <1>2, FS_RemoveElement
<1>4. b = [a EXCEPT !.free_list = << s >> \o @, !.used_count = @ - 1]
  BY DEF Deallocated
<1>5. b.bump_ptr = a.bump_ptr /\ b.free_list = << s >> \o a.free_list
        /\ b.used_count = a.used_count - 1
  BY <1>4 DEF ArenaType
<1>6. a.used_count - 1 \in 0 .. Capacity /\ b.used_count = Cardinality(fewer)
  BY <1>2, <1>3, <1>5 DEF Accounts
<1>7. b \in ArenaType
  <2>1. << s >> \o a.free_list \in Seq(Slot)
    BY <1>1
  <2> QED
    BY <1>1, <1>4, <1>6, <2>1 DEF ArenaType
<1>8. s \notin FreeSlots(a)
  BY DEF Accounts
<1>9. /\ FreeSlots(b) = {s} \cup FreeSlots(a)
      /\ \A i, j \in 1 .. Len(b.free_list) :
           b.free_list[i] = b.free_list[j] => i = j
  BY <1>1, <1>5, <1>7, <1>8, FreeAfterPush DEF Accounts
<1>10. Accounts(b, fewer)
  <2> HIDE DEF b
  <2> QED
    BY <1>5, <1>6, <1>8, <1>9 DEF Accounts
<1>11. check_invariant(b)
  <2>1. Len(<< s >> \o a.free_list) = Len(a.free_list) + 1
          /\ Len(a.free_list) \in Nat
    BY <1>1
  <2>2. Len(b.free_list) = Len(a.free_list) + 1
    BY <1>5, <2>1
  <2>3. b.bump_ptr = a.bump_ptr /\ b.used_count = a.used_count - 1
    BY <1>5
  <2>4. a.used_count + Len(a.free_list) = a.bump_ptr
    BY DEF check_invariant
  <2>5. b.used_count + Len(b.free_list) = b.bump_ptr
    <3> HIDE DEF b
    <3> QED
      BY <1>1, <2>1, <2>2, <2>3, <2>4
  <2> QED
    BY <2>5 DEF check_invariant
<1> QED
  BY <1>7, <1>10, <1>11

-----------------------------------------------------------------------------
(* The arena's accounting, and what it says of the last bad_alloc: the     *)
(* parts are inductive together, none of the first three is alone.         *)
ArenaInv == TypeOK /\ CheckInvariant /\ EachSlotOnce /\ ThrowsOnlyWhenFull

(* An exhausted arena that accounts for its slots has every slot held.     *)
LEMMA ExhaustedIsFull ==
  ASSUME NEW a \in ArenaType, NEW held, Accounts(a, held), Exhausted(a)
  PROVE  held = Slot
<1>1. a.bump_ptr = Capacity /\ a.free_list = << >>
  BY CapacityAssumption DEF Exhausted, Recycles, ArenaType
<1>2. FreeSlots(a) = {}
  BY <1>1 DEF FreeSlots
<1> QED
  BY <1>1, <1>2 DEF Accounts, Slot

LEMMA EmptyArenaAccounts ==
  EmptyArena \in ArenaType /\ Accounts(EmptyArena, {}) /\ check_invariant(EmptyArena)
<1>1. EmptyArena \in ArenaType
  BY CapacityAssumption DEF EmptyArena, ArenaType
<1>2. FreeSlots(EmptyArena) = {}
  BY DEF EmptyArena, FreeSlots
<1> QED
  BY <1>1, <1>2, FS_EmptySet DEF EmptyArena, Accounts, check_invariant

LEMMA ArenaInvInit == Init => ArenaInv
BY EmptyArenaAccounts
   DEF Init, ArenaInv, TypeOK, CheckInvariant, EachSlotOnce, ThrowsOnlyWhenFull

LEMMA ArenaInvStep == ArenaInv /\ [Next]_arenaVars => ArenaInv'
<1> SUFFICES ASSUME ArenaInv, [Next]_arenaVars PROVE ArenaInv'
  OBVIOUS
<1> USE DEF ArenaInv, TypeOK, CheckInvariant, EachSlotOnce, ThrowsOnlyWhenFull
<1>1. CASE Allocate
  BY <1>1, AllocatedAccounts DEF Allocate
<1>2. CASE AllocateThrows
  <2>1. live = Slot
    BY <1>2, ExhaustedIsFull DEF AllocateThrows
  <2> QED
    BY <1>2, <2>1 DEF AllocateThrows
<1>3. ASSUME NEW s \in Slot, Deallocate(s) PROVE ArenaInv'
  BY <1>3, DeallocatedAccounts DEF Deallocate
<1>4. CASE Reset
  BY <1>4, EmptyArenaAccounts DEF Reset
<1>5. CASE UNCHANGED arenaVars
  BY <1>5 DEF arenaVars
<1> QED
  BY <1>1, <1>2, <1>3, <1>4, <1>5 DEF Next

LEMMA ArenaInvAlways == Spec => []ArenaInv
BY ArenaInvInit, ArenaInvStep, PTL DEF Spec

(* The types of the arena's members, for every Capacity: in particular the *)
(* bump pointer never passes the end of the array.                         *)
THEOREM ArenaTypeCorrect == Spec => []TypeOK
BY ArenaInvAlways, PTL DEF ArenaInv

(* check_invariant() returns true after every sequence of calls.           *)
THEOREM ArenaCheckInvariant == Spec => []CheckInvariant
BY ArenaInvAlways, PTL DEF ArenaInv

(* No slot is lost and none is handed out twice.                           *)
THEOREM ArenaEachSlotOnce == Spec => []EachSlotOnce
BY ArenaInvAlways, PTL DEF ArenaInv

(* bad_alloc means that the clients hold every slot.                       *)
THEOREM ArenaThrowsOnlyWhenFull == Spec => []ThrowsOnlyWhenFull
BY ArenaInvAlways, PTL DEF ArenaInv

(* Fresh memory is touched only when nothing can be recycled.              *)
THEOREM ArenaBumpIsHighWater == Spec => BumpIsHighWater
<1> DEFINE HighWater ==
             arena'.bump_ptr > arena.bump_ptr => live = 0 .. arena.bump_ptr - 1
<1>1. ArenaInv /\ [Next]_arenaVars => [HighWater]_arenaVars
  <2> SUFFICES ASSUME ArenaInv, Next, arena'.bump_ptr > arena.bump_ptr
               PROVE  live = 0 .. arena.bump_ptr - 1
    BY DEF arenaVars
  <2> USE DEF ArenaInv, TypeOK, EachSlotOnce, ArenaType
  <2>1. Allocate
    <3>1. ~ AllocateThrows
      BY DEF AllocateThrows
    <3>2. ASSUME NEW s \in Slot, Deallocate(s) PROVE FALSE
      <4>1. arena'.bump_ptr = arena.bump_ptr
        BY <3>2 DEF Deallocate, Deallocated
      <4> QED
        BY <4>1
    <3>3. ~ Reset
      BY DEF Reset, EmptyArena
    <3> QED
      BY <3>1, <3>2, <3>3 DEF Next
  <2>2. ~ Recycles(arena)
    BY <2>1 DEF Allocate, Allocated
  <2>3. FreeSlots(arena) = {}
    BY <2>2 DEF Recycles, FreeSlots
  <2> QED
    BY <2>3 DEF Accounts
<1> QED
  BY <1>1, ArenaInvAlways, PTL DEF Spec, BumpIsHighWater

-----------------------------------------------------------------------------
(* Freeing a sequence of slots, call by call.                              *)
ArenaLike == [bump_ptr : 0 .. Capacity, free_list : Seq(Slot), used_count : Int]
Freeing(s) == [i \in 1 .. Len(s) |-> [x \in ArenaLike |-> Deallocated(x, s[i])]]

LEMMA FreeAllSteps ==
  ASSUME NEW a \in ArenaLike, NEW s \in Seq(Slot)
  PROVE  \E g \in Iterations(Len(s), ArenaLike, a, Freeing(s)) : g[Len(s)] = FreeAll(a, s)
<1>0. PICK n \in Nat : n = Len(s)
  OBVIOUS
<1> DEFINE step == Freeing(s)
           eq(f) == [t \in SUBSET (1 .. n) |->
                       IF t = {} THEN a ELSE Deallocated(f[t \ {Max(t)}], s[Max(t)])]
           F == CHOOSE f : f = eq(f)
<1>1. DOMAIN s = 1 .. n /\ \A i \in 1 .. n : s[i] \in Slot
  BY <1>0
<1>2. FreeAll(a, s) = F[1 .. n]
  BY <1>1 DEF FreeAll, FoldLeft, MapThenFoldSet
<1>3. \A i \in 1 .. n, x \in ArenaLike : Deallocated(x, s[i]) \in ArenaLike
  <2> SUFFICES ASSUME NEW i \in 1 .. n, NEW x \in ArenaLike
               PROVE  Deallocated(x, s[i]) \in ArenaLike
    OBVIOUS
  <2>1. << s[i] >> \o x.free_list \in Seq(Slot) /\ x.used_count - 1 \in Int
    BY <1>1 DEF ArenaLike
  <2> QED
    BY <2>1 DEF ArenaLike, Deallocated
<1>4. step \in [1 .. n -> [ArenaLike -> ArenaLike]]
  BY <1>0, <1>3 DEF Freeing
<1>5. \A i \in 1 .. n, x \in ArenaLike : step[i][x] = Deallocated(x, s[i])
  BY <1>0 DEF Freeing
<1>6. PICK f : f \in Folds(n, ArenaLike, a, step)
  BY <1>4, FoldExists
<1> HIDE DEF step
<1>7. \A t \in SUBSET (1 .. n) : t # {} => Max(t) \in 1 .. n
  BY MaxInUpTo
<1>8. f = eq(f)
  <2>1. ASSUME NEW t \in SUBSET (1 .. n), t # {}
        PROVE  f[t] = Deallocated(f[t \ {Max(t)}], s[Max(t)])
    <3>1. f[t] = step[Max(t)][f[t \ {Max(t)}]] /\ f[t \ {Max(t)}] \in ArenaLike
      BY <1>6, <2>1 DEF Folds
    <3> QED
      BY <1>5, <1>7, <2>1, <3>1
  <2>2. f \in [SUBSET (1 .. n) -> ArenaLike] /\ f[{}] = a
    BY <1>6 DEF Folds
  <2> QED
    BY <2>1, <2>2
<1>9. F = eq(F)
  BY <1>8
<1> HIDE DEF F
<1>10. F[{}] = a
  BY <1>9
<1>11. IsFold(F, n, ArenaLike, a, step)
  BY <1>5, <1>7, <1>9, <1>10 DEF IsFold
<1>12. \E g \in Iterations(n, ArenaLike, a, step) : g[n] = F[1 .. n]
  BY <1>4, <1>11, FoldRuns
<1> QED
  BY <1>0, <1>2, <1>12 DEF step

Distinct(sq) == \A i, j \in DOMAIN sq : sq[i] = sq[j] => i = j

(* Freeing slots that are held, each once, leaves the arena accounting for *)
(* the others.                                                             *)
LEMMA FreeAllAccounts ==
  ASSUME NEW a \in ArenaType, NEW held \in SUBSET Slot, NEW s \in Seq(Slot),
         Range(s) \subseteq held, Distinct(s),
         Accounts(a, held), check_invariant(a)
  PROVE  /\ FreeAll(a, s) \in ArenaType
         /\ Accounts(FreeAll(a, s), held \ Range(s))
         /\ check_invariant(FreeAll(a, s))
         /\ FreeAll(a, s).bump_ptr = a.bump_ptr
<1> USE DEF Distinct
<1>1. PICK n \in Nat : n = Len(s) /\ DOMAIN s = 1 .. n
  OBVIOUS
<1>2. a \in ArenaLike
  BY CapacityAssumption DEF ArenaType, ArenaLike
<1>3. PICK g \in Iterations(n, ArenaLike, a, Freeing(s)) : g[n] = FreeAll(a, s)
  BY <1>1, <1>2, FreeAllSteps
<1>4. /\ g[0] = a
      /\ \A i \in 1 .. n : g[i - 1] \in ArenaLike /\ g[i] = Freeing(s)[i][g[i - 1]]
  BY <1>3 DEF Iterations
<1>5. \A i \in 1 .. n : g[i] = Deallocated(g[i - 1], s[i])
  BY <1>1, <1>4 DEF Freeing
<1> DEFINE freed(i) == {s[j] : j \in 1 .. i}
           fine(i) == /\ g[i] \in ArenaType /\ Accounts(g[i], held \ freed(i))
                      /\ check_invariant(g[i]) /\ g[i].bump_ptr = a.bump_ptr
           Fine == {i \in 0 .. n : fine(i)}
<1>6. fine(0)
  <2>1. freed(0) = {}
    OBVIOUS
  <2>2. held \ freed(0) = held
    BY <2>1
  <2> HIDE DEF freed
  <2> QED
    BY <1>4, <2>2
<1>7. ASSUME NEW i \in 0 .. n - 1, fine(i)  PROVE  fine(i + 1)
  <2>1. i + 1 \in 1 .. n /\ (i + 1) - 1 = i
    OBVIOUS
  <2>2. s[i + 1] \in held \ freed(i)
    <3>1. s[i + 1] \in held
      BY <1>1, <2>1 DEF Range
    <3>2. ASSUME NEW j \in 1 .. i  PROVE  s[j] # s[i + 1]
      BY <1>1, <2>1
    <3> QED
      BY <3>1, <3>2
  <2>3. freed(i + 1) = freed(i) \cup {s[i + 1]}
    <3>1. 1 .. i + 1 = (1 .. i) \cup {i + 1}
      OBVIOUS
    <3> QED
      BY <3>1
  <2>4. held \ freed(i + 1) = (held \ freed(i)) \ {s[i + 1]}
    BY <2>3
  <2>5. g[i + 1] = Deallocated(g[i], s[i + 1])
    BY <1>5, <2>1
  <2>6. held \ freed(i) \in SUBSET Slot
    OBVIOUS
  <2> HIDE DEF freed
  <2>7. /\ g[i + 1] \in ArenaType
        /\ Accounts(g[i + 1], (held \ freed(i)) \ {s[i + 1]})
        /\ check_invariant(g[i + 1])
    BY <1>7, <2>2, <2>5, <2>6, DeallocatedAccounts
  <2>8. g[i + 1].bump_ptr = g[i].bump_ptr
    BY <1>7, <2>5 DEF Deallocated, ArenaType
  <2> QED
    BY <1>7, <2>4, <2>7, <2>8
<1> HIDE DEF fine
<1>8. 0 .. n \subseteq Fine
  <2>1. 0 \in Fine
    BY <1>6
  <2>2. \A i \in 0 .. n - 1 : i \in Fine => i + 1 \in Fine
    BY <1>7
  <2> HIDE DEF Fine
  <2> QED
    BY <2>1, <2>2, UpTo
<1>9. fine(n)
  BY <1>8
<1>10. freed(n) = Range(s)
  BY <1>1 DEF Range
<1> HIDE DEF freed
<1> QED
  BY <1>3, <1>9, <1>10 DEF fine

-----------------------------------------------------------------------------
(* Every point of a set of points is dominated by one that nothing         *)
(* strictly dominates: of those that dominate it take one of least sum.    *)
LEMMA MinimalCovers ==
  ASSUME NEW A \in SUBSET NatPoint, NEW a \in A
  PROVE  \E m \in Minimal(A) : WeaklyDominates(m, a)
<1> DEFINE above == {x \in A : WeaklyDominates(x, a)}
           sum(x) == x.arrival_time + x.secondary_cost
           sums == {sum(x) : x \in above}
<1>1. \A x \in A : x.arrival_time \in Nat /\ x.secondary_cost \in Nat
  BY DEF NatPoint
<1>2. a \in above
  BY <1>1 DEF WeaklyDominates
<1>3. sums \in SUBSET Nat /\ sums # {}
  BY <1>1, <1>2
<1>4. PICK l \in sums : \A k \in sums : l <= k
  BY <1>3, LeastNatural
<1>5. PICK m \in above : l = sum(m)
  BY <1>4
<1>6. ASSUME NEW q \in A, StrictlyDominates(q, m)  PROVE  FALSE
  <2>1. q \in above /\ sum(q) < sum(m)
    BY <1>1, <1>5, <1>6 DEF StrictlyDominates, WeaklyDominates
  <2>2. sum(m) <= sum(q)
    BY <1>4, <1>5, <2>1
  <2> QED
    BY <1>1, <2>1, <2>2
<1> QED
  BY <1>5, <1>6 DEF Minimal

(* So it makes no difference whether a point comes to the whole of a set   *)
(* or to its non-dominated part.                                           *)
LEMMA MinimalOfMinimal ==
  ASSUME NEW A \in SUBSET NatPoint, NEW p \in NatPoint
  PROVE  Minimal(Minimal(A) \cup {p}) = Minimal(A \cup {p})
<1>1. Minimal(A) \subseteq A
  BY DEF Minimal
<1>2. \A x, y, z \in NatPoint :
        WeaklyDominates(x, y) /\ StrictlyDominates(y, z) => StrictlyDominates(x, z)
  BY DEF NatPoint, StrictlyDominates, WeaklyDominates
<1>3. ASSUME NEW x \in Minimal(Minimal(A) \cup {p})  PROVE  x \in Minimal(A \cup {p})
  <2>1. x \in A \cup {p} /\ \A q \in Minimal(A) \cup {p} : ~ StrictlyDominates(q, x)
    BY <1>1 DEF Minimal
  <2>2. ASSUME NEW q \in A  PROVE  ~ StrictlyDominates(q, x)
    <3>1. PICK m \in Minimal(A) : WeaklyDominates(m, q)
      BY MinimalCovers
    <3> QED
      BY <1>1, <1>2, <2>1, <3>1
  <2> QED
    BY <2>1, <2>2 DEF Minimal
<1>4. ASSUME NEW x \in Minimal(A \cup {p})  PROVE  x \in Minimal(Minimal(A) \cup {p})
  BY <1>1 DEF Minimal
<1> QED
  BY <1>3, <1>4

-----------------------------------------------------------------------------
(* What insert_and_dominate does with a candidate p in a fresh slot s of   *)
(* the memory m: it frees distinct slots, keeps distinct slots, leaves no  *)
(* slot in between, and the labels in the slots kept are those that        *)
(* AfterInsert, on values instead of slots, would leave.                   *)
ViewOf(m, ls) == [i \in DOMAIN ls |-> m[ls[i]]]

SlotsMoved(ls, s, m, p, r) ==
  /\ r.freed \in Seq(Slot) /\ r.kept \in Seq(Slot)
  /\ Distinct(r.freed) /\ Distinct(r.kept)
  /\ Range(r.freed) \subseteq Range(ls) \cup {s}
  /\ Range(r.kept) = (Range(ls) \cup {s}) \ Range(r.freed)
  /\ ViewOf([m EXCEPT ![s] = p], r.kept) = AfterInsert(ViewOf(m, ls), p)

LEMMA InsertOnSlots ==
  ASSUME NEW ls \in Seq(Slot), Distinct(ls),
         NEW s \in Slot \ Range(ls), NEW m \in [Slot -> NatPoint], NEW p \in NatPoint
  PROVE  SlotsMoved(ls, s, m, p, insert_and_dominate(ls, ViewOf(m, ls), p, s))
<1> USE DEF Distinct, ViewOf
<1> DEFINE view == [i \in DOMAIN ls |-> m[ls[i]]]
           written == [m EXCEPT ![s] = p]
           r == insert_and_dominate(ls, view, p, s)
<1>1. PICK n \in Nat : n = Len(ls) /\ DOMAIN ls = 1 .. n /\ \A i \in 1 .. n : ls[i] \in Slot
  OBVIOUS
<1>2. view \in Seq(NatPoint) /\ Len(view) = n
  BY <1>1
<1>3. Costed(NatPoint)
  BY DEF Costed, NatPoint
<1>4. \A i \in 1 .. n : view[i] = m[ls[i]] /\ ls[i] # s
  BY <1>1 DEF Range
<1>5. written[s] = p /\ \A t \in Slot \ {s} : written[t] = m[t]
  OBVIOUS
<1>6. Range(ls) = {ls[i] : i \in 1 .. n}
  BY <1>1 DEF Range
<1> DEFINE goal ==
             /\ r.freed \in Seq(Slot) /\ r.kept \in Seq(Slot)
             /\ \A i, j \in DOMAIN r.freed : r.freed[i] = r.freed[j] => i = j
             /\ \A i, j \in DOMAIN r.kept : r.kept[i] = r.kept[j] => i = j
             /\ Range(r.freed) \subseteq Range(ls) \cup {s}
             /\ Range(r.kept) = (Range(ls) \cup {s}) \ Range(r.freed)
             /\ [i \in DOMAIN r.kept |-> written[r.kept[i]]] = AfterInsert(view, p)
<1> HIDE DEF view, written
<1>7. ASSUME Rejected(view, p)  PROVE  goal
  <2>1. r = [freed |-> << s >>, kept |-> ls]
    BY <1>7 DEF insert_and_dominate
  <2> HIDE DEF r
  <2>2. r.freed = << s >> /\ r.kept = ls
    BY <2>1
  <2>3. Range(r.freed) = {s}
    BY <2>2 DEF Range
  <2>4. [i \in DOMAIN r.kept |-> written[r.kept[i]]] = AfterInsert(view, p)
    <3>1. \A i \in 1 .. n : written[ls[i]] = view[i]
      BY <1>1, <1>4, <1>5
    <3>2. AfterInsert(view, p) = view
      BY <1>7 DEF AfterInsert
    <3>3. view = [i \in 1 .. n |-> view[i]]
      BY <1>1 DEF view
    <3> QED
      BY <1>1, <2>2, <3>1, <3>2, <3>3
  <2>5. r.freed \in Seq(Slot) /\ r.kept \in Seq(Slot) /\ DOMAIN r.freed = {1}
    BY <2>2
  <2> QED
    BY <2>2, <2>3, <2>4, <2>5
<1>8. ASSUME ~ Rejected(view, p)  PROVE  goal
  <2>0. PICK it \in 1 .. n + 1 : it = LowerBound(view, p)
    BY <1>2, <1>3, LowerBoundFirst
  <2>1. PICK end \in it .. n + 1 : it = LowerBound(view, p) /\ end = PruneEnd(view, p)
    BY <1>2, <1>3, <2>0, PruneEndFirst
  <2>s. s \in Slot /\ it \in 1 .. Len(ls) + 1 /\ end \in it .. Len(ls) + 1
    BY <1>1
  <2>v. /\ view \in Seq(NatPoint) /\ p \in NatPoint
        /\ it \in 1 .. Len(view) + 1 /\ end \in it .. Len(view) + 1
    BY <1>2
  <2>2. r.freed = SubSeq(ls, it, end - 1) /\ r.kept = Splice(ls, it, s, end)
    BY <1>8, <2>1 DEF insert_and_dominate, Splice
  <2> HIDE DEF r
  <2>3. /\ r.freed \in Seq(Slot) /\ Len(r.freed) = end - it /\ DOMAIN r.freed = 1 .. end - it
        /\ \A i \in 1 .. end - it : r.freed[i] = ls[it + i - 1]
    <3>1. \A i \in it .. end - 1 : ls[i] \in Slot
      BY <1>1
    <3>2. /\ SubSeq(ls, it, end - 1) \in Seq(Slot)
          /\ Len(SubSeq(ls, it, end - 1)) = IF it <= end - 1 THEN (end - 1) - it + 1 ELSE 0
          /\ \A i \in 1 .. (end - 1) - it + 1 : SubSeq(ls, it, end - 1)[i] = ls[it + i - 1]
      BY <3>1, SubSeqProperties
    <3>3. Len(r.freed) = end - it /\ (end - 1) - it + 1 = end - it
      BY <2>2, <3>2
    <3> QED
      BY <2>2, <3>2, <3>3
  <2>4. Range(r.freed) = {ls[i] : i \in it .. end - 1}
    <3>1. Range(r.freed) = {r.freed[i] : i \in 1 .. end - it}
      <4>1. DOMAIN r.freed = 1 .. end - it
        BY <2>3
      <4>2. Range(r.freed) = {r.freed[i] : i \in DOMAIN r.freed}
        BY Zenon DEF Range
      <4> QED
        BY <4>1, <4>2, Zenon
    <3>2. ASSUME NEW i \in 1 .. end - it
          PROVE  r.freed[i] \in {ls[j] : j \in it .. end - 1}
      <4>1. it + i - 1 \in it .. end - 1 /\ r.freed[i] = ls[it + i - 1]
        BY <2>3
      <4> QED
        BY <4>1
    <3>3. ASSUME NEW j \in it .. end - 1
          PROVE  ls[j] \in {r.freed[i] : i \in 1 .. end - it}
      <4>1. j - it + 1 \in 1 .. end - it /\ it + (j - it + 1) - 1 = j
        OBVIOUS
      <4>2. r.freed[j - it + 1] = ls[j]
        BY <2>3, <4>1
      <4> QED
        BY <4>1, <4>2
    <3> QED
      BY <3>1, <3>2, <3>3
  <2> DEFINE k == n + it - end + 1
  <2>5. /\ r.kept \in Seq(Slot) /\ Len(r.kept) = k /\ DOMAIN r.kept = 1 .. k
        /\ \A i \in 1 .. k : r.kept[i] = IF i < it THEN ls[i]
                                       ELSE IF i = it THEN s ELSE ls[i - it - 1 + end]
    <3>1. LET ins == Splice(ls, it, s, end)
          IN  /\ ins \in Seq(Slot)
              /\ Len(ins) = Len(ls) + it - end + 1
              /\ \A i \in 1 .. Len(ins) :
                   ins[i] = IF i < it THEN ls[i]
                            ELSE IF i = it THEN s ELSE ls[i - it - 1 + end]
      BY <2>s, SpliceParts
    <3> DEFINE spliced == Splice(ls, it, s, end)
    <3>2. r.kept = spliced /\ Len(spliced) = k
      BY <1>1, <2>2, <3>1
    <3> HIDE DEF spliced
    <3>3. r.kept \in Seq(Slot) /\ Len(r.kept) = k /\ DOMAIN r.kept = 1 .. k
      BY <3>1, <3>2 DEF spliced
    <3> QED
      BY <3>1, <3>2, <3>3 DEF spliced
  <2>6. \A i \in 1 .. k : /\ i < it => i \in 1 .. n
                          /\ i > it => i - it - 1 + end \in end .. n
    OBVIOUS
  <2>7. ASSUME NEW i \in DOMAIN r.freed, NEW j \in DOMAIN r.freed, r.freed[i] = r.freed[j]
        PROVE  i = j
    <3>1. it + i - 1 \in 1 .. n /\ it + j - 1 \in 1 .. n
      BY <2>3, SMTT(30)
    <3>2. it + i - 1 = it + j - 1
      BY <1>1, <2>3, <2>7, <3>1
    <3> QED
      BY <2>3, <3>2
  <2>8. ASSUME NEW i \in DOMAIN r.kept, NEW j \in DOMAIN r.kept, r.kept[i] = r.kept[j]
        PROVE  i = j
    <3> DEFINE at(x) == IF x < it THEN x ELSE x - it - 1 + end
    <3>1. i \in 1 .. k /\ j \in 1 .. k
      BY <2>5
    <3>2. CASE i = it \/ j = it
      <4>1. r.kept[i] = s /\ r.kept[j] = s
        BY <2>5, <2>8, <3>1, <3>2
      <4>2. ASSUME NEW x \in 1 .. k, r.kept[x] = s  PROVE  x = it
        <5>1. CASE x < it
          BY <1>4, <2>5, <2>6, <4>2, <5>1
        <5>2. CASE x > it
          <6>1. x - it - 1 + end \in 1 .. n /\ r.kept[x] = ls[x - it - 1 + end]
            BY <2>5, <2>6, <5>2
          <6> QED
            BY <1>4, <4>2, <6>1
        <5> QED
          BY <5>1, <5>2
      <4> QED
        BY <3>1, <4>1, <4>2
    <3>3. CASE i # it /\ j # it
      <4>1. /\ at(i) \in 1 .. n /\ at(j) \in 1 .. n
            /\ r.kept[i] = ls[at(i)] /\ r.kept[j] = ls[at(j)]
        <5>1. ASSUME NEW x \in 1 .. k, x # it
              PROVE  at(x) \in 1 .. n /\ r.kept[x] = ls[at(x)]
          <6>1. CASE x < it
            BY <2>5, <2>6, <6>1
          <6>2. CASE x > it
            <7>1. x - it - 1 + end \in end .. n /\ at(x) = x - it - 1 + end
              BY <2>6, <6>2
            <7>2. r.kept[x] = ls[x - it - 1 + end]
              BY <2>5, <6>2
            <7> QED
              BY <7>1, <7>2
          <6> QED
            BY <5>1, <6>1, <6>2
        <5> QED
          BY <3>1, <3>3, <5>1
      <4>2. at(i) = at(j)
        BY <1>1, <2>8, <4>1
      <4> QED
        BY <3>1, <3>3, <4>2, SMTT(30)
    <3> QED
      BY <3>2, <3>3
  <2>9. Range(r.kept) = {ls[i] : i \in 1 .. it - 1} \cup {s} \cup {ls[i] : i \in end .. n}
    <3>1. Range(r.kept) = {r.kept[i] : i \in 1 .. k}
      BY <2>5 DEF Range
    <3>2. ASSUME NEW i \in 1 .. k
          PROVE  r.kept[i] \in {ls[j] : j \in 1 .. it - 1} \cup {s} \cup {ls[j] : j \in end .. n}
      <4>1. CASE i < it
        BY <2>5, <4>1
      <4>2. CASE i = it
        BY <2>5, <4>2
      <4>3. CASE i > it
        <5>1. i - it - 1 + end \in end .. n /\ r.kept[i] = ls[i - it - 1 + end]
          BY <2>5, <2>6, <4>3
        <5> QED
          BY <5>1
      <4> QED
        BY <4>1, <4>2, <4>3
    <3>3. ASSUME NEW j \in 1 .. it - 1  PROVE  ls[j] \in {r.kept[i] : i \in 1 .. k}
      <4>1. j \in 1 .. k /\ j < it
        OBVIOUS
      <4> HIDE DEF k
      <4>2. r.kept[j] = ls[j]
        BY <2>5, <4>1
      <4> QED
        BY <4>1, <4>2
    <3>4. ASSUME NEW j \in end .. n  PROVE  ls[j] \in {r.kept[i] : i \in 1 .. k}
      <4>1. /\ j - end + it + 1 \in 1 .. k /\ j - end + it + 1 > it
            /\ (j - end + it + 1) - it - 1 + end = j
        OBVIOUS
      <4>2. r.kept[j - end + it + 1] = ls[j]
        BY <2>5, <4>1
      <4> QED
        BY <4>1, <4>2
    <3>5. it \in 1 .. k /\ r.kept[it] = s
      BY <2>5
    <3> QED
      BY <3>1, <3>2, <3>3, <3>4, <3>5
  <2>10. Range(r.freed) \subseteq Range(ls)
    BY <1>6, <2>4
  <2>11. Range(r.kept) = (Range(ls) \cup {s}) \ Range(r.freed)
    <3>1. s \notin Range(r.freed)
      BY <2>10
    <3>2. ASSUME NEW i \in 1 .. n, ls[i] \in Range(r.freed)  PROVE  i \in it .. end - 1
      BY <1>1, <2>4, <3>2
    <3>3. \A i \in 1 .. n : i \in 1 .. it - 1 \/ i \in it .. end - 1 \/ i \in end .. n
      OBVIOUS
    <3> QED
      BY <1>6, <2>4, <2>9, <3>1, <3>2, <3>3
  <2>12. [i \in DOMAIN r.kept |-> written[r.kept[i]]] = AfterInsert(view, p)
    <3> DEFINE ins == Inserted(view, p)
    <3>1. AfterInsert(view, p) = ins
      BY <1>8 DEF AfterInsert
    <3>2. ins = Splice(view, it, p, end)
      BY <1>2, <2>1 DEF Inserted, Splice
    <3> HIDE DEF ins
    <3>3. /\ ins \in Seq(NatPoint) /\ Len(ins) = k
          /\ \A i \in 1 .. k : ins[i] = IF i < it THEN view[i]
                                     ELSE IF i = it THEN p ELSE view[i - it - 1 + end]
      <4>1. LET new == Splice(view, it, p, end)
            IN  /\ new \in Seq(NatPoint)
                /\ Len(new) = Len(view) + it - end + 1
                /\ \A i \in 1 .. Len(new) :
                     new[i] = IF i < it THEN view[i]
                              ELSE IF i = it THEN p ELSE view[i - it - 1 + end]
        BY <2>v, SpliceParts
      <4>2. /\ ins \in Seq(NatPoint) /\ Len(ins) = Len(view) + it - end + 1
            /\ \A i \in 1 .. Len(ins) :
                 ins[i] = IF i < it THEN view[i]
                          ELSE IF i = it THEN p ELSE view[i - it - 1 + end]
        BY <3>2, <4>1
      <4> QED
        BY <1>2, <4>2
    <3>4. ASSUME NEW i \in 1 .. k  PROVE  written[r.kept[i]] = ins[i]
      <4>1. CASE i < it
        <5>1. i \in 1 .. n /\ r.kept[i] = ls[i] /\ ins[i] = view[i]
          BY <2>5, <2>6, <3>3, <4>1
        <5> QED
          BY <1>1, <1>4, <1>5, <5>1
      <4>2. CASE i = it
        BY <1>5, <2>5, <3>3, <4>2, SMTT(30)
      <4>3. CASE i > it
        <5>1. /\ i - it - 1 + end \in 1 .. n /\ r.kept[i] = ls[i - it - 1 + end]
              /\ ins[i] = view[i - it - 1 + end]
          BY <2>5, <2>6, <3>3, <4>3
        <5> QED
          BY <1>1, <1>4, <1>5, <5>1
      <4> QED
        BY <4>1, <4>2, <4>3
    <3>5. ins = [i \in 1 .. k |-> ins[i]]
      BY <3>3
    <3> QED
      BY <2>5, <3>1, <3>4, <3>5
  <2> QED
    BY <2>3, <2>5, <2>7, <2>8, <2>10, <2>11, <2>12
<1> QED
  BY <1>7, <1>8 DEF view, written, SlotsMoved

-----------------------------------------------------------------------------
(* The slots held are split among the nodes.                               *)
Partition(lab, held) ==
  /\ held = UNION {Range(lab[n]) : n \in Node}
  /\ \A m, n \in Node : \A i \in DOMAIN lab[m], j \in DOMAIN lab[n] :
       lab[m][i] = lab[n][j] => m = n /\ i = j

(* One node's labels may be replaced: those of fresh slots and its own that *)
(* are not freed stay with it, and no slot of another node is touched.     *)
LEMMA PartitionReplaced ==
  ASSUME NEW lab \in [Node -> Seq(Slot)], NEW held, Partition(lab, held), NEW n \in Node,
         NEW fresh \in SUBSET Slot, fresh \cap held = {},
         NEW freed \in SUBSET (Range(lab[n]) \cup fresh),
         NEW kept \in Seq(Slot), Distinct(kept),
         Range(kept) = (Range(lab[n]) \cup fresh) \ freed
  PROVE  /\ Partition([lab EXCEPT ![n] = kept], (held \cup fresh) \ freed)
         /\ \A k \in Node \ {n} : \A i \in DOMAIN lab[k] : lab[k][i] \notin fresh \cup freed
<1> USE DEF Distinct
<1> DEFINE new == [lab EXCEPT ![n] = kept]
<1>1. new[n] = kept /\ \A k \in Node \ {n} : new[k] = lab[k]
  OBVIOUS
<1>2. \A k \in Node : Range(lab[k]) \subseteq held
  BY DEF Partition
<1>3. \A k \in Node : \A i \in DOMAIN lab[k] : lab[k][i] \in Range(lab[k])
  BY DEF Range
<1>4. ASSUME NEW k \in Node \ {n}, NEW i \in DOMAIN lab[k]
      PROVE  lab[k][i] \notin Range(lab[n]) \cup fresh
  <2>1. lab[k][i] \notin fresh
    BY <1>2, <1>3
  <2>2. ASSUME NEW j \in DOMAIN lab[n]  PROVE  lab[k][i] # lab[n][j]
    BY Zenon DEF Partition
  <2> QED
    BY <2>1, <2>2 DEF Range
<1> HIDE DEF new
<1>5. ASSUME NEW k \in Node, NEW l \in Node, NEW i \in DOMAIN new[k], NEW j \in DOMAIN new[l],
             new[k][i] = new[l][j]
      PROVE  k = l /\ i = j
  <2>0. \A x \in DOMAIN kept : kept[x] \in Range(lab[n]) \cup fresh
    BY DEF Range
  <2>1. CASE k = n /\ l = n
    BY <1>1, <1>5, <2>1
  <2>2. CASE k # n /\ l = n
    <3>1. new[k][i] = lab[k][i] /\ i \in DOMAIN lab[k] /\ new[l][j] = kept[j] /\ j \in DOMAIN kept
      BY <1>1, <2>2
    <3> QED
      BY <1>4, <1>5, <2>0, <2>2, <3>1
  <2>3. CASE k = n /\ l # n
    <3>1. new[l][j] = lab[l][j] /\ j \in DOMAIN lab[l] /\ new[k][i] = kept[i] /\ i \in DOMAIN kept
      BY <1>1, <2>3
    <3> QED
      BY <1>4, <1>5, <2>0, <2>3, <3>1
  <2>4. CASE k # n /\ l # n
    <3>1. new[k] = lab[k] /\ new[l] = lab[l]
      BY <1>1, <2>4
    <3>2. lab[k][i] = lab[l][j] /\ i \in DOMAIN lab[k] /\ j \in DOMAIN lab[l]
      BY <1>5, <3>1
    <3>3. \A x \in DOMAIN lab[k], y \in DOMAIN lab[l] : lab[k][x] = lab[l][y] => k = l /\ x = y
      BY Zenon DEF Partition
    <3> QED
      BY <3>2, <3>3, Zenon
  <2> QED
    BY <2>1, <2>2, <2>3, <2>4
<1>6. (held \cup fresh) \ freed = UNION {Range(new[k]) : k \in Node}
  <2>1. \A k \in Node \ {n} : Range(lab[k]) \cap (Range(lab[n]) \cup fresh) = {}
    BY <1>4 DEF Range
  <2>2. held = UNION {Range(lab[k]) : k \in Node}
    BY DEF Partition
  <2>3. Range(new[n]) = (Range(lab[n]) \cup fresh) \ freed
    BY <1>1
  <2>4. \A k \in Node \ {n} : Range(new[k]) = Range(lab[k])
    BY <1>1
  <2>5. ASSUME NEW x \in (held \cup fresh) \ freed  PROVE  \E k \in Node : x \in Range(new[k])
    <3>1. CASE x \in fresh \/ x \in Range(lab[n])
      BY <2>3, <2>5, <3>1
    <3>2. CASE x \notin fresh /\ x \notin Range(lab[n])
      <4>1. PICK k \in Node : x \in Range(lab[k])
        BY <2>2, <2>5, <3>2
      <4> QED
        BY <2>4, <3>2, <4>1
    <3> QED
      BY <3>1, <3>2
  <2>6. ASSUME NEW k \in Node, NEW x \in Range(new[k])  PROVE  x \in (held \cup fresh) \ freed
    <3>1. CASE k = n
      <4>1. Range(lab[n]) \subseteq held
        BY <1>2
      <4>2. x \in (Range(lab[n]) \cup fresh) \ freed
        BY <2>3, <2>6, <3>1
      <4> QED
        BY <4>1, <4>2
    <3>2. CASE k # n
      BY <1>2, <2>1, <2>4, <2>6, <3>2
    <3> QED
      BY <3>1, <3>2
  <2> QED
    BY <2>5, <2>6
<1>7. Partition(new, (held \cup fresh) \ freed)
  BY <1>5, <1>6, Zenon DEF Partition
<1> QED
  BY <1>4, <1>7 DEF new

-----------------------------------------------------------------------------
(* The inductive invariant of the label sets: the arena accounts for its   *)
(* slots, the slots held are split among the frontiers, and each frontier, *)
(* read through the memory, is sorted and is the non-dominated part of     *)
(* what its node was offered.                                              *)
SetTypes ==
  /\ mem \in [Slot -> NatPoint]
  /\ labels \in [Node -> Seq(Slot)]
  /\ offered \in [Node -> SUBSET NatPoint]

FrontiersExact ==
  \A n \in Node : SortedFrontier(Read(n)) /\ Range(Read(n)) = Minimal(offered[n])

SetInv == ArenaInv /\ SetTypes /\ LiveSlotsAreLabels /\ FrontiersExact

LEMMA PointNatural == Point \subseteq NatPoint
BY PointsAreNatural DEF Point, NatPoint

(* A frontier as its memory shows it is a sequence of points.              *)
LEMMA ReadIsPoints ==
  ASSUME NEW m \in [Slot -> NatPoint], NEW ls \in Seq(Slot)
  PROVE  [i \in DOMAIN ls |-> m[ls[i]]] \in Seq(NatPoint)
OBVIOUS

(* A node with no labels has the frontier of a node with no offers.        *)
LEMMA NothingOffered ==
  ASSUME NEW m, NEW ls, ls = << >>
  PROVE  SortedFrontier(ViewOf(m, ls)) /\ Range(ViewOf(m, ls)) = Minimal({})
<1>1. DOMAIN ls = {}
  OBVIOUS
<1> QED
  BY <1>1 DEF ViewOf, SortedFrontier, Range, Minimal

LEMMA SetInvInit == SetInit => SetInv
<1> SUFFICES ASSUME SetInit PROVE SetInv
  OBVIOUS
<1>1. ArenaInv
  BY ArenaInvInit DEF SetInit
<1>2. SetTypes
  BY DEF SetInit, SetTypes, Blank, NatPoint
<1>3. LiveSlotsAreLabels
  <2>1. \A n \in Node : Range(labels[n]) = {} /\ DOMAIN labels[n] = {}
    BY DEF SetInit, Range
  <2>2. live = {}
    BY DEF SetInit, Init
  <2> QED
    BY <2>1, <2>2 DEF LiveSlotsAreLabels
<1>4. FrontiersExact
  <2>1. \A n \in Node : labels[n] = << >> /\ offered[n] = {}
    BY DEF SetInit
  <2> QED
    <3>1. \A n \in Node : SortedFrontier(Read(n)) /\ Range(Read(n)) = Minimal({})
      <4>1. \A n \in Node : Read(n) = ViewOf(mem, labels[n])
        BY DEF Read, ViewOf
      <4> QED
        BY <2>1, <4>1, NothingOffered
    <3> QED
      BY <2>1, <3>1, Zenon DEF FrontiersExact
<1> QED
  BY <1>1, <1>2, <1>3, <1>4 DEF SetInv

(* One candidate offered to one node, whatever becomes of it.              *)
LEMMA OfferKeepsSetInv ==
  ASSUME SetInv, NEW n \in Node, NEW p \in Point, OfferLabel(n, p)
  PROVE  SetInv'
<1> DEFINE s == NextSlot(arena)
           ls == labels[n]
           view == Read(n)
           r == insert_and_dominate(ls, view, p, s)
           written == [mem EXCEPT ![s] = p]
           after == ViewOf(written, r.kept)
<1>1. /\ arena \in ArenaType /\ live \in SUBSET Slot
      /\ Accounts(arena, live) /\ check_invariant(arena) /\ ~ Exhausted(arena)
  BY DEF SetInv, ArenaInv, TypeOK, CheckInvariant, EachSlotOnce, OfferLabel
<1>2. /\ s \in Slot \ live /\ Allocated(arena) \in ArenaType
      /\ Accounts(Allocated(arena), live \cup {s}) /\ check_invariant(Allocated(arena))
  BY <1>1, AllocatedAccounts
<1>3. /\ mem \in [Slot -> NatPoint] /\ labels \in [Node -> Seq(Slot)] /\ ls \in Seq(Slot)
      /\ offered \in [Node -> SUBSET NatPoint] /\ p \in NatPoint
  BY PointNatural DEF SetInv, SetTypes
<1>4. Partition(labels, live)
  BY DEF SetInv, LiveSlotsAreLabels, Partition
<1>5. Range(ls) \subseteq live /\ Distinct(ls)
  BY <1>4 DEF Partition, Distinct
<1>6. s \in Slot \ Range(ls)
  BY <1>2, <1>5
<1>7. view = ViewOf(mem, ls)
  BY DEF Read, ViewOf
<1>8. /\ r.freed \in Seq(Slot) /\ r.kept \in Seq(Slot)
      /\ Distinct(r.freed) /\ Distinct(r.kept)
      /\ Range(r.freed) \subseteq Range(ls) \cup {s}
      /\ Range(r.kept) = (Range(ls) \cup {s}) \ Range(r.freed)
      /\ after = AfterInsert(view, p)
  <2> HIDE DEF s, ls, view, written
  <2>1. SlotsMoved(ls, s, mem, p, insert_and_dominate(ls, ViewOf(mem, ls), p, s))
    BY <1>3, <1>5, <1>6, InsertOnSlots
  <2> QED
    BY <1>7, <2>1 DEF SlotsMoved, after, written
<1>9. /\ arena' = FreeAll(Allocated(arena), r.freed)
      /\ live' = (live \cup {s}) \ Range(r.freed)
      /\ mem' = Wiped(written, r.freed)
      /\ labels' = [labels EXCEPT ![n] = r.kept]
      /\ offered' = [offered EXCEPT ![n] = @ \cup {p}]
      /\ outcome' \in {"freed", "slot"}
  BY DEF OfferLabel
<1> HIDE DEF s, ls, view, r, written, after
<1>10. ArenaInv'
  <2>1. Range(r.freed) \subseteq live \cup {s} /\ live \cup {s} \in SUBSET Slot
    BY <1>1, <1>2, <1>5, <1>8
  <2>2. /\ FreeAll(Allocated(arena), r.freed) \in ArenaType
        /\ Accounts(FreeAll(Allocated(arena), r.freed), (live \cup {s}) \ Range(r.freed))
        /\ check_invariant(FreeAll(Allocated(arena), r.freed))
    BY <1>2, <1>8, <2>1, FreeAllAccounts
  <2> QED
    BY <1>9, <2>1, <2>2
       DEF ArenaInv, TypeOK, CheckInvariant, EachSlotOnce, ThrowsOnlyWhenFull
<1>11. written \in [Slot -> NatPoint] /\ mem' \in [Slot -> NatPoint]
  <2>1. Blank \in NatPoint
    BY DEF Blank, NatPoint
  <2>2. written \in [Slot -> NatPoint]
    BY <1>2, <1>3 DEF written
  <2> QED
    BY <1>9, <2>1, <2>2 DEF Wiped
<1>12. SetTypes'
  <2>1. labels' \in [Node -> Seq(Slot)]
    BY <1>3, <1>8, <1>9
  <2>2. offered' \in [Node -> SUBSET NatPoint]
    BY <1>3, <1>9
  <2> QED
    BY <1>11, <2>1, <2>2 DEF SetTypes
<1>13. /\ Partition(labels', live')
       /\ \A k \in Node \ {n} : \A i \in DOMAIN labels[k] :
            labels[k][i] \notin {s} \cup Range(r.freed)
  <2> DEFINE fresh == {s}
             freed == Range(r.freed)
             kept == r.kept
  <2>1. fresh \in SUBSET Slot /\ fresh \cap live = {}
    BY <1>2
  <2>2. freed \in SUBSET (Range(labels[n]) \cup fresh)
          /\ Range(kept) = (Range(labels[n]) \cup fresh) \ freed
    BY <1>8 DEF ls
  <2>3. kept \in Seq(Slot) /\ Distinct(kept)
    BY <1>8
  <2>4. labels' = [labels EXCEPT ![n] = kept] /\ live' = (live \cup fresh) \ freed
    BY <1>9
  <2> HIDE DEF fresh, freed, kept
  <2>5. Partition([labels EXCEPT ![n] = kept], (live \cup fresh) \ freed)
    BY <1>3, <1>4, <2>1, <2>2, <2>3, PartitionReplaced
  <2>6. \A k \in Node \ {n} : \A i \in DOMAIN labels[k] : labels[k][i] \notin fresh \cup freed
    BY <1>3, <1>4, <2>1, <2>2, <2>3, PartitionReplaced
  <2> QED
    BY <2>4, <2>5, <2>6 DEF fresh, freed
<1>14. LiveSlotsAreLabels'
  BY <1>13 DEF LiveSlotsAreLabels, Partition
<1>15. \A t \in Slot \ Range(r.freed) : mem'[t] = written[t]
  BY <1>9 DEF Wiped
<1>16. Read(n)' = AfterInsert(view, p)
  <2>1. labels'[n] = r.kept
    BY <1>3, <1>9
  <2>2. Read(n)' = [i \in DOMAIN r.kept |-> mem'[r.kept[i]]]
    BY <2>1 DEF Read
  <2>3. \A i \in DOMAIN r.kept : r.kept[i] \in Slot \ Range(r.freed)
    <3>1. \A i \in DOMAIN r.kept : r.kept[i] \in Range(r.kept)
      BY Zenon DEF Range
    <3>2. Range(r.kept) \subseteq Slot \ Range(r.freed)
      BY <1>1, <1>2, <1>5, <1>8
    <3> QED
      BY <3>1, <3>2
  <2>4. \A i \in DOMAIN r.kept : mem'[r.kept[i]] = written[r.kept[i]]
    BY <1>15, <2>3
  <2>5. [i \in DOMAIN r.kept |-> mem'[r.kept[i]]] = after
    BY <2>4 DEF after, ViewOf
  <2> QED
    BY <1>8, <2>2, <2>5
<1>17. SortedFrontier(Read(n)') /\ Range(Read(n)') = Minimal(offered[n] \cup {p})
  <2>1. view \in Seq(NatPoint) /\ SortedFrontier(view) /\ Range(view) = Minimal(offered[n])
    BY <1>3, <1>7, ReadIsPoints DEF view, ViewOf, SetInv, FrontiersExact
  <2>2. SortedFrontier(AfterInsert(view, p))
    <3>1. Costed(NatPoint)
      BY DEF Costed, NatPoint
    <3> QED
      BY <1>3, <2>1, <3>1, InsertFrontier
  <2>3. Range(AfterInsert(view, p)) = Minimal(Minimal(offered[n]) \cup {p})
    BY <1>3, <2>1, InsertKeepsMinimal
  <2>4. Minimal(Minimal(offered[n]) \cup {p}) = Minimal(offered[n] \cup {p})
    BY <1>3, MinimalOfMinimal
  <2> QED
    BY <1>16, <2>2, <2>3, <2>4
<1>18. \A k \in Node \ {n} : Read(k)' = Read(k)
  <2> SUFFICES ASSUME NEW k \in Node \ {n}  PROVE  Read(k)' = Read(k)
    OBVIOUS
  <2>1. \A t \in Slot \ ({s} \cup Range(r.freed)) : mem'[t] = mem[t]
    BY <1>3, <1>15 DEF written
  <2>2. \A i \in DOMAIN labels[k] : labels[k][i] \in Slot
    BY <1>3
  <2>3. \A i \in DOMAIN labels[k] : mem'[labels[k][i]] = mem[labels[k][i]]
    BY <1>13, <2>1, <2>2
  <2>4. labels'[k] = labels[k]
    BY <1>3, <1>9
  <2> QED
    BY <2>3, <2>4 DEF Read
<1>19. FrontiersExact'
  <2>1. offered'[n] = offered[n] \cup {p} /\ \A k \in Node \ {n} : offered'[k] = offered[k]
    BY <1>3, <1>9
  <2>2. \A k \in Node : SortedFrontier(Read(k)) /\ Range(Read(k)) = Minimal(offered[k])
    BY DEF SetInv, FrontiersExact
  <2>3. \A k \in Node : SortedFrontier(Read(k)') /\ Range(Read(k)') = Minimal(offered'[k])
    BY <1>17, <1>18, <2>1, <2>2
  <2> QED
    BY <2>3 DEF FrontiersExact
<1> QED
  BY <1>10, <1>12, <1>14, <1>19 DEF SetInv

(* allocate() throws: nothing but the outcome changes.                     *)
LEMMA ThrowKeepsSetInv == SetInv /\ OfferThrows => SetInv'
<1> SUFFICES ASSUME SetInv, OfferThrows PROVE SetInv'
  OBVIOUS
<1>1. AllocateThrows /\ UNCHANGED << mem, labels, offered >>
  BY DEF OfferThrows
<1>2. ArenaInv'
  BY <1>1, ArenaInvStep DEF SetInv, Next
<1>3. UNCHANGED live
  BY <1>1 DEF AllocateThrows
<1> QED
  BY <1>1, <1>2, <1>3 DEF SetInv, SetTypes, LiveSlotsAreLabels, FrontiersExact, Read

(* clear(arena) gives back the slots of one node and of no other.          *)
LEMMA ClearKeepsSetInv ==
  ASSUME SetInv, NEW n \in Node, Clear(n)
  PROVE  SetInv'
<1> DEFINE freed == Range(labels[n])
           kept == << >>
           fresh == {}
<1>1. /\ arena \in ArenaType /\ live \in SUBSET Slot
      /\ Accounts(arena, live) /\ check_invariant(arena)
  BY DEF SetInv, ArenaInv, TypeOK, CheckInvariant, EachSlotOnce
<1>2. /\ mem \in [Slot -> NatPoint] /\ labels \in [Node -> Seq(Slot)]
      /\ labels[n] \in Seq(Slot) /\ offered \in [Node -> SUBSET NatPoint]
  BY DEF SetInv, SetTypes
<1>3. Partition(labels, live)
  BY DEF SetInv, LiveSlotsAreLabels, Partition
<1>4. freed \subseteq live /\ Distinct(labels[n])
  BY <1>3 DEF Partition, Distinct
<1>5. /\ arena' = FreeAll(arena, labels[n]) /\ live' = live \ freed
      /\ mem' = Wiped(mem, labels[n])
      /\ labels' = [labels EXCEPT ![n] = kept]
      /\ offered' = [offered EXCEPT ![n] = {}]
      /\ outcome' = "freed"
  BY DEF Clear
<1>6. ArenaInv'
  <2>1. /\ FreeAll(arena, labels[n]) \in ArenaType
        /\ Accounts(FreeAll(arena, labels[n]), live \ freed)
        /\ check_invariant(FreeAll(arena, labels[n]))
    BY <1>1, <1>2, <1>4, FreeAllAccounts
  <2> QED
    BY <1>1, <1>5, <2>1
       DEF ArenaInv, TypeOK, CheckInvariant, EachSlotOnce, ThrowsOnlyWhenFull
<1>7. SetTypes'
  <2>1. Blank \in NatPoint
    BY DEF Blank, NatPoint
  <2>2. mem' \in [Slot -> NatPoint]
    BY <1>2, <1>5, <2>1 DEF Wiped
  <2> QED
    BY <1>2, <1>5, <2>2 DEF SetTypes
<1>8. kept \in Seq(Slot) /\ Distinct(kept) /\ Range(kept) = {}
  BY DEF Distinct, Range
<1>9. /\ fresh \in SUBSET Slot /\ fresh \cap live = {}
      /\ freed \in SUBSET (Range(labels[n]) \cup fresh)
      /\ Range(kept) = (Range(labels[n]) \cup fresh) \ freed
  BY <1>8
<1>10. live' = (live \cup fresh) \ freed
  BY <1>5
<1> HIDE DEF freed, kept, fresh
<1>11. Partition([labels EXCEPT ![n] = kept], (live \cup fresh) \ freed)
  BY <1>2, <1>3, <1>8, <1>9, PartitionReplaced
<1>12. \A k \in Node \ {n} : \A i \in DOMAIN labels[k] : labels[k][i] \notin fresh \cup freed
  BY <1>2, <1>3, <1>8, <1>9, PartitionReplaced
<1>13. LiveSlotsAreLabels'
  BY <1>5, <1>10, <1>11 DEF LiveSlotsAreLabels, Partition
<1>14. \A k \in Node \ {n} : Read(k)' = Read(k)
  <2> SUFFICES ASSUME NEW k \in Node \ {n}  PROVE  Read(k)' = Read(k)
    OBVIOUS
  <2>1. \A t \in Slot \ freed : mem'[t] = mem[t]
    BY <1>5 DEF Wiped, freed
  <2>2. \A i \in DOMAIN labels[k] : labels[k][i] \in Slot
    BY <1>2
  <2>3. \A i \in DOMAIN labels[k] : mem'[labels[k][i]] = mem[labels[k][i]]
    BY <1>12, <2>1, <2>2
  <2>4. labels'[k] = labels[k]
    BY <1>2, <1>5
  <2> QED
    BY <2>3, <2>4 DEF Read
<1>15. FrontiersExact'
  <2>1. labels'[n] = << >> /\ offered'[n] = {}
        /\ \A k \in Node \ {n} : offered'[k] = offered[k]
    BY <1>2, <1>5 DEF kept
  <2>2. SortedFrontier(Read(n)') /\ Range(Read(n)') = Minimal({})
    <3>1. Read(n)' = ViewOf(mem', labels'[n])
      BY DEF Read, ViewOf
    <3> QED
      BY <2>1, <3>1, NothingOffered
  <2>3. \A k \in Node : SortedFrontier(Read(k)) /\ Range(Read(k)) = Minimal(offered[k])
    BY DEF SetInv, FrontiersExact
  <2>4. \A k \in Node : SortedFrontier(Read(k)') /\ Range(Read(k)') = Minimal(offered'[k])
    BY <1>14, <2>1, <2>2, <2>3
  <2> QED
    BY <2>4 DEF FrontiersExact
<1> QED
  BY <1>6, <1>7, <1>13, <1>15 DEF SetInv

(* The start of a query empties every frontier with the arena.             *)
LEMMA ResetKeepsSetInv == SetInv /\ ResetQuery => SetInv'
<1> SUFFICES ASSUME SetInv, ResetQuery PROVE SetInv'
  OBVIOUS
<1>1. /\ Reset /\ UNCHANGED mem
      /\ labels' = [k \in Node |-> << >>]
      /\ offered' = [k \in Node |-> {}]
  BY DEF ResetQuery
<1>2. ArenaInv'
  BY <1>1, ArenaInvStep DEF SetInv, Next
<1>3. SetTypes'
  BY <1>1 DEF SetInv, SetTypes
<1>4. \A k \in Node : labels'[k] = << >> /\ offered'[k] = {}
  BY <1>1
<1>5. LiveSlotsAreLabels'
  <2>1. \A k \in Node : Range(labels'[k]) = {} /\ DOMAIN labels'[k] = {}
    BY <1>4 DEF Range
  <2>2. live' = {}
    BY <1>1 DEF Reset
  <2> QED
    BY <2>1, <2>2 DEF LiveSlotsAreLabels
<1>6. FrontiersExact'
  <2>1. \A k \in Node : Read(k)' = ViewOf(mem', labels'[k])
    BY DEF Read, ViewOf
  <2>2. \A k \in Node : SortedFrontier(Read(k)') /\ Range(Read(k)') = Minimal({})
    BY <1>4, <2>1, NothingOffered
  <2> QED
    BY <1>4, <2>2 DEF FrontiersExact
<1> QED
  BY <1>2, <1>3, <1>5, <1>6 DEF SetInv

LEMMA SetInvStep == SetInv /\ [SetNext]_setVars => SetInv'
<1> SUFFICES ASSUME SetInv, [SetNext]_setVars PROVE SetInv'
  OBVIOUS
<1>1. ASSUME NEW n \in Node, NEW p \in Point, OfferLabel(n, p)  PROVE  SetInv'
  BY <1>1, OfferKeepsSetInv
<1>2. CASE OfferThrows
  BY <1>2, ThrowKeepsSetInv
<1>3. ASSUME NEW n \in Node, Clear(n)  PROVE  SetInv'
  BY <1>3, ClearKeepsSetInv
<1>4. CASE ResetQuery
  BY <1>4, ResetKeepsSetInv
<1>5. CASE UNCHANGED setVars
  BY <1>5 DEF setVars, arenaVars, SetInv, ArenaInv, TypeOK, CheckInvariant, EachSlotOnce,
              ThrowsOnlyWhenFull, SetTypes, LiveSlotsAreLabels, FrontiersExact, Read
<1> QED
  BY <1>1, <1>2, <1>3, <1>4, <1>5 DEF SetNext

LEMMA SetInvAlways == SetSpec => []SetInv
BY SetInvInit, SetInvStep, PTL DEF SetSpec

-----------------------------------------------------------------------------
(* Nothing leaks and no two frontiers alias, whatever is offered to        *)
(* whichever node, cleared or reset.                                       *)
THEOREM SetLiveSlotsAreLabels == SetSpec => []LiveSlotsAreLabels
BY SetInvAlways, PTL DEF SetInv

(* The label sets respect the arena's contract: every slot handed out is   *)
(* in a frontier or on the free list, once.                                *)
THEOREM SetEachSlotOnce == SetSpec => []EachSlotOnce
BY SetInvAlways, PTL DEF SetInv, ArenaInv

(* A candidate is refused by bad_alloc only when every slot is a label.    *)
THEOREM SetThrowsOnlyWhenFull == SetSpec => []ThrowsOnlyWhenFull
BY SetInvAlways, PTL DEF SetInv, ArenaInv

(* An exhausted free list is the only reason to touch fresh memory, also   *)
(* when labels are freed within the call that allocated one.               *)
THEOREM SetBumpIsHighWater == SetSpec => BumpIsHighWater
<1> DEFINE HighWater ==
             arena'.bump_ptr > arena.bump_ptr => live = 0 .. arena.bump_ptr - 1
<1>1. SetInv /\ [SetNext]_setVars => [HighWater]_arenaVars
  <2> SUFFICES ASSUME SetInv, SetNext, arena'.bump_ptr > arena.bump_ptr
               PROVE  live = 0 .. arena.bump_ptr - 1
    BY DEF setVars, arenaVars
  <2>1. arena \in ArenaType /\ live \in SUBSET Slot /\ Accounts(arena, live)
          /\ check_invariant(arena) /\ arena.bump_ptr \in Nat
    BY CapacityAssumption
       DEF SetInv, ArenaInv, TypeOK, CheckInvariant, EachSlotOnce, ArenaType
  <2>2. ASSUME NEW n \in Node, NEW p \in Point, OfferLabel(n, p), Recycles(arena)
        PROVE  FALSE
    <3> DEFINE freed == insert_and_dominate(labels[n], Read(n), p, NextSlot(arena)).freed
    <3>1. Allocated(arena).bump_ptr = arena.bump_ptr
      BY <2>1, <2>2 DEF Allocated, ArenaType
    <3>2. FreeAll(Allocated(arena), freed).bump_ptr = Allocated(arena).bump_ptr
      <4> DEFINE s == NextSlot(arena)
      <4>1. /\ s \in Slot \ live /\ Allocated(arena) \in ArenaType
            /\ Accounts(Allocated(arena), live \cup {s}) /\ check_invariant(Allocated(arena))
        BY <2>1, <2>2, AllocatedAccounts DEF OfferLabel
      <4>2. /\ mem \in [Slot -> NatPoint] /\ labels[n] \in Seq(Slot) /\ p \in NatPoint
        BY PointNatural DEF SetInv, SetTypes
      <4>3. Range(labels[n]) \subseteq live /\ Distinct(labels[n])
        BY DEF SetInv, LiveSlotsAreLabels, Distinct
      <4>4. Read(n) = ViewOf(mem, labels[n]) /\ s \in Slot \ Range(labels[n])
        BY <4>1, <4>3 DEF Read, ViewOf
      <4> HIDE DEF s
      <4>5. SlotsMoved(labels[n], s, mem, p,
                       insert_and_dominate(labels[n], ViewOf(mem, labels[n]), p, s))
        BY <4>2, <4>3, <4>4, InsertOnSlots
      <4>6. /\ freed \in Seq(Slot) /\ Distinct(freed)
            /\ Range(freed) \subseteq live \cup {s} /\ live \cup {s} \in SUBSET Slot
        BY <2>1, <4>1, <4>3, <4>4, <4>5 DEF SlotsMoved, s
      <4> HIDE DEF freed
      <4> QED
        BY <4>1, <4>6, FreeAllAccounts
    <3>3. arena'.bump_ptr = arena.bump_ptr
      BY <2>2, <3>1, <3>2 DEF OfferLabel
    <3> QED
      BY <2>1, <3>3
  <2>3. ASSUME NEW n \in Node, Clear(n)  PROVE  FALSE
    <3>1. labels[n] \in Seq(Slot) /\ Range(labels[n]) \subseteq live /\ Distinct(labels[n])
      BY DEF SetInv, SetTypes, LiveSlotsAreLabels, Distinct
    <3>2. FreeAll(arena, labels[n]).bump_ptr = arena.bump_ptr
      BY <2>1, <3>1, FreeAllAccounts
    <3> QED
      BY <2>1, <2>3, <3>2 DEF Clear
  <2>4. ~ OfferThrows
    BY <2>1 DEF OfferThrows, AllocateThrows
  <2>5. ~ ResetQuery
    BY <2>1 DEF ResetQuery, Reset, EmptyArena
  <2>6. ~ Recycles(arena)
    BY <2>2, <2>3, <2>4, <2>5 DEF SetNext
  <2>7. FreeSlots(arena) = {}
    BY <2>6 DEF Recycles, FreeSlots
  <2> QED
    BY <2>1, <2>7 DEF Accounts
<1> QED
  BY <1>1, SetInvAlways, PTL DEF SetSpec, BumpIsHighWater

-----------------------------------------------------------------------------
(* The refinement: an offer is the abstract offer, whether the candidate   *)
(* is rejected or prunes others, because both ends of the step are exact.  *)
LEMMA AbstractMinimal == \A A : Abstract!Minimal(A) = Minimal(A)
BY DEF Minimal, StrictlyDominates, WeaklyDominates,
       Abstract!Minimal, Abstract!StrictlyDominates, Abstract!WeaklyDominates

(* Every behaviour of the label sets over the shared arena is one of the   *)
(* abstract family: each node keeps exactly the non-dominated points among *)
(* those offered to it since it was last cleared.                          *)
THEOREM SetImplementsFrontier == SetSpec => ImplementsFrontier
<1> DEFINE frontier == [n \in Node |-> Range(Read(n))]
<1>1. SetInit => Abstract!Init
  <2> SUFFICES ASSUME SetInit PROVE Abstract!Init
    OBVIOUS
  <2>1. \A n \in Node : DOMAIN labels[n] = {}
    BY DEF SetInit
  <2>2. \A n \in Node : Range(Read(n)) = {}
    BY <2>1 DEF Read, Range
  <2> QED
    BY <2>2 DEF SetInit, Abstract!Init
<1>2. SetInv /\ SetInv' /\ [SetNext]_setVars => [Abstract!Next]_<< offered, frontier >>
  <2> SUFFICES ASSUME SetInv, SetInv', [SetNext]_setVars
               PROVE  [Abstract!Next]_<< offered, frontier >>
    OBVIOUS
  <2>1. /\ offered \in [Node -> SUBSET NatPoint]
        /\ frontier = [n \in Node |-> Minimal(offered[n])]
        /\ frontier' = [n \in Node |-> Minimal(offered'[n])]
    BY DEF SetInv, SetTypes, FrontiersExact
  <2>2. Minimal({}) = {}
    BY DEF Minimal
  <2>3. ASSUME NEW n \in Node, NEW p \in Point, OfferLabel(n, p)  PROVE  Abstract!Next
    <3>1. offered' = [offered EXCEPT ![n] = @ \cup {p}]
      BY <2>3 DEF OfferLabel
    <3>2. frontier' = [frontier EXCEPT ![n] = Minimal(offered'[n])]
      <4> HIDE DEF frontier
      <4> QED
        BY <2>1, <3>1
    <3>3. frontier' = [frontier EXCEPT ![n] = Abstract!Minimal(offered'[n])]
      BY <3>2, AbstractMinimal
    <3> QED
      BY <3>1, <3>3 DEF Abstract!Next, Abstract!Offer
  <2>4. ASSUME NEW n \in Node, Clear(n)  PROVE  Abstract!Next
    <3>1. offered' = [offered EXCEPT ![n] = {}]
      BY <2>4 DEF Clear
    <3>2. frontier' = [frontier EXCEPT ![n] = {}]
      <4> HIDE DEF frontier
      <4> QED
        BY <2>1, <2>2, <3>1
    <3> QED
      BY <3>1, <3>2 DEF Abstract!Next, Abstract!Forget
  <2>5. CASE ResetQuery
    <3>1. offered' = [n \in Node |-> {}]
      BY <2>5 DEF ResetQuery
    <3>2. frontier' = [n \in Node |-> {}]
      BY <2>1, <2>2, <3>1
    <3> QED
      BY <3>1, <3>2 DEF Abstract!Next, Abstract!ForgetAll
  <2>6. CASE OfferThrows \/ UNCHANGED setVars
    BY <2>6 DEF OfferThrows, setVars, Read
  <2> QED
    BY <2>3, <2>4, <2>5, <2>6 DEF SetNext
<1> QED
  BY <1>1, <1>2, SetInvAlways, PTL DEF SetSpec, ImplementsFrontier, Abstract!Spec

-----------------------------------------------------------------------------
(* One link of one graph, asked about at times t and u. *)
Cands(g, c, t) == Candidates(g, c, t, Origin, Target)
Exam(g, c, t) == Examined(g, c, t, Origin, Target)
Chosen(g, c, t) == select_optimal_departure(g, c, t, Origin, Target)
Deps(g) == g.edges[Origin]

(* The edges out of Origin are edges, in order of departure.               *)
LEMMA GraphFacts ==
  ASSUME NEW g \in Graphs
  PROVE  /\ Len(Deps(g)) \in Nat
         /\ DOMAIN Deps(g) = 1 .. Len(Deps(g))
         /\ \A i \in DOMAIN Deps(g) : Deps(g)[i] \in Edge
         /\ \A i \in DOMAIN Deps(g) : Deps(g)[i].departure_time \in Nat
         /\ \A i, j \in DOMAIN Deps(g) :
              i <= j => Deps(g)[i].departure_time <= Deps(g)[j].departure_time
<1>1. Deps(g) \in Seq(Edge) /\ SortedByDeparture(Deps(g))
  BY GraphsAssumption DEF Deps
<1>2. /\ Len(Deps(g)) \in Nat
      /\ DOMAIN Deps(g) = 1 .. Len(Deps(g))
      /\ \A i \in DOMAIN Deps(g) : Deps(g)[i] \in Edge
  BY <1>1
<1>3. \A i \in DOMAIN Deps(g) : Deps(g)[i].departure_time \in Nat
  BY <1>2 DEF Edge
<1>4. \A i, j \in DOMAIN Deps(g) :
        i <= j => Deps(g)[i].departure_time <= Deps(g)[j].departure_time
  BY <1>1 DEF SortedByDeparture
<1> QED
  BY <1>2, <1>3, <1>4

(* They are a range of departures.                                         *)
LEMMA DepartureFacts == \A g \in Graphs : DepartureRange(Deps(g))
BY GraphFacts DEF DepartureRange, Edge

(* Composites are naturals.                                                *)
LEMMA CompositeType ==
  ASSUME NEW g \in Graphs, NEW c \in Configs, NEW i \in DOMAIN Deps(g)
  PROVE  Composite(g, c, Deps(g)[i]) \in Nat
BY DepartureFacts, CompositeNat, ConfigsAssumption DEF Deps

(* Only finitely many departures are candidates.                           *)
LEMMA CandidatesFinite ==
  ASSUME NEW g \in Graphs, NEW c \in Configs, NEW t \in Nat
  PROVE  /\ Cands(g, c, t) \subseteq 1 .. Len(Deps(g))
         /\ \A S \in SUBSET Cands(g, c, t) : IsFiniteSet(S) /\ Cardinality(S) \in Nat
<1>1. Cands(g, c, t) \subseteq 1 .. Len(Deps(g))
  BY GraphFacts DEF Cands, Candidates, Deps
<1>2. IsFiniteSet(1 .. Len(Deps(g)))
  <2>1. Len(Deps(g)) \in Int
    BY GraphFacts
  <2>2. 1 \in Int
    OBVIOUS
  <2>3. \A i, j \in Int : IsFiniteSet(i .. j)
    BY FS_Interval
  <2> QED
    BY <2>1, <2>2, <2>3, Zenon
<1> QED
  BY <1>1, <1>2, FS_Subset, FS_CardinalityType

(* The choice, if there is one, is the first of least composite.           *)
LEMMA ChosenBoards ==
  ASSUME NEW g \in Graphs, NEW c \in Configs, NEW t \in Nat, Exam(g, c, t) # {}
  PROVE  /\ Chosen(g, c, t) \in DOMAIN Deps(g)
         /\ Boards(g, c, t, Origin, Target, Chosen(g, c, t))
BY DepartureFacts, SelectionBoards, ConfigsAssumption DEF Deps, Exam, Chosen

(* The budget is a property of what comes before: a candidate is examined  *)
(* if what comes before it also comes before an examined departure.        *)
LEMMA ExaminedByBefore ==
  ASSUME NEW g \in Graphs, NEW c \in Configs, NEW t \in Nat, NEW u \in Nat,
         NEW i \in Exam(g, c, t), NEW j \in Cands(g, c, u),
         {k \in Cands(g, c, u) : k < j} \subseteq {k \in Cands(g, c, t) : k < i}
  PROVE  j \in Exam(g, c, u)
<1> DEFINE A == {k \in Cands(g, c, t) : k < i}
           B == {k \in Cands(g, c, u) : k < j}
<1>1. A = {} \/ Cardinality(A) < c.k_departures
  BY DEF Exam, Examined, Cands
<1>2. IsFiniteSet(A) /\ Cardinality(A) \in Nat /\ Cardinality(B) \in Nat
  BY CandidatesFinite
<1>3. Cardinality(B) <= Cardinality(A)
  BY <1>2, FS_Subset
<1>4. c.k_departures \in Nat
  BY ConfigsAssumption
<1>5. B = {} \/ Cardinality(B) < c.k_departures
  BY <1>1, <1>2, <1>3, <1>4
<1> QED
  BY <1>5 DEF Exam, Examined, Cands

(* What it is to be a candidate.                                           *)
LEMMA IsCandidate ==
  ASSUME NEW g \in Graphs, NEW c \in Configs, NEW t \in Nat, NEW i
  PROVE  i \in Cands(g, c, t) <=>
           /\ i \in DOMAIN Deps(g)
           /\ Deps(g)[i].destination = Target
           /\ t <= Deps(g)[i].departure_time
           /\ Deps(g)[i].departure_time <= t + c.W_max_seconds
BY DEF Cands, Candidates, Deps

(* A departure examined at t is examined at any later time it can still be *)
(* caught.                                                                 *)
LEMMA StaysExamined ==
  ASSUME NEW g \in Graphs, NEW c \in Configs, NEW t \in Nat, NEW u \in Nat,
         t <= u, NEW i \in Exam(g, c, t), u <= Deps(g)[i].departure_time
  PROVE  i \in Exam(g, c, u)
<1>1. i \in Cands(g, c, t)
  BY DEF Exam, Examined, Cands
<1>2. c.W_max_seconds \in Nat
  BY ConfigsAssumption
<1>3. i \in Cands(g, c, u)
  BY <1>1, <1>2, IsCandidate, GraphFacts
<1>4. ASSUME NEW k \in Cands(g, c, u), k < i PROVE k \in Cands(g, c, t)
  <2>1. k \in DOMAIN Deps(g) /\ i \in DOMAIN Deps(g)
    BY <1>1, <1>4, IsCandidate
  <2>2. Deps(g)[k].departure_time <= Deps(g)[i].departure_time
    BY <1>4, <2>1, GraphFacts
  <2>3. /\ Deps(g)[k].destination = Target /\ u <= Deps(g)[k].departure_time
        /\ Deps(g)[i].departure_time <= t + c.W_max_seconds
    BY <1>1, <1>4, IsCandidate
  <2>4. Deps(g)[k].departure_time \in Nat /\ Deps(g)[i].departure_time \in Nat
    BY <2>1, GraphFacts
  <2>5. /\ t <= Deps(g)[k].departure_time
        /\ Deps(g)[k].departure_time <= t + c.W_max_seconds
    BY <1>2, <2>2, <2>3, <2>4
  <2> QED
    BY <2>1, <2>3, <2>5, IsCandidate
<1> QED
  BY <1>3, <1>4, ExaminedByBefore

(* A candidate before an examined one is examined.                         *)
LEMMA EarlierExamined ==
  ASSUME NEW g \in Graphs, NEW c \in Configs, NEW t \in Nat,
         NEW i \in Exam(g, c, t), NEW j \in Cands(g, c, t), j < i
  PROVE  j \in Exam(g, c, t)
<1>1. i \in DOMAIN Deps(g) /\ j \in DOMAIN Deps(g) /\ i \in Int /\ j \in Int
  BY IsCandidate, GraphFacts DEF Exam, Examined, Cands
<1>2. \A k \in Cands(g, c, t) : k \in Int
  BY CandidatesFinite, GraphFacts
<1>3. ASSUME NEW k \in Cands(g, c, t), k < j PROVE k < i
  <2>1. k \in Int
    BY <1>2
  <2> QED
    BY <1>1, <1>3, <2>1
<1> QED
  BY <1>3, ExaminedByBefore

-----------------------------------------------------------------------------
(* Asked again before the chosen train leaves, a departure is still found, *)
(* of no greater composite.                                                *)
LEMMA StillServed ==
  ASSUME NEW g \in Graphs, NEW c \in Configs, NEW t \in Nat, NEW u \in Nat,
         t <= u, Chosen(g, c, t) # NoDeparture,
         u <= Deps(g)[Chosen(g, c, t)].departure_time
  PROVE  /\ Chosen(g, c, u) # NoDeparture
         /\ Composite(g, c, Deps(g)[Chosen(g, c, u)])
              <= Composite(g, c, Deps(g)[Chosen(g, c, t)])
<1> DEFINE i == Chosen(g, c, t)
           j == Chosen(g, c, u)
<1>1. Exam(g, c, t) # {}
  BY DEF Chosen, select_optimal_departure, Exam
<1>2. i \in Exam(g, c, t)
  BY <1>1, ChosenBoards DEF Boards, Exam
<1>3. i \in Exam(g, c, u)
  BY <1>2, StaysExamined
<1>4. j \in DOMAIN Deps(g) /\ Boards(g, c, u, Origin, Target, j)
  BY <1>3, ChosenBoards
<1>5. j # NoDeparture
  BY <1>4, GraphFacts DEF NoDeparture
<1>6. i \in DOMAIN Deps(g)
  BY <1>1, ChosenBoards
<1>7. Composite(g, c, Deps(g)[j]) <= Composite(g, c, Deps(g)[i])
  BY <1>3, <1>4, <1>6, CompositeType DEF Boards, Exam, Deps
<1> QED
  BY <1>5, <1>7

(* The choice never moves back to an earlier departure: were j < i chosen  *)
(* later, both would have been examined both times, and the two choices    *)
(* would contradict each other.                                            *)
LEMMA NeverMovesBack ==
  ASSUME NEW g \in Graphs, NEW c \in Configs, NEW t \in Nat, NEW u \in Nat,
         t <= u, Chosen(g, c, t) # NoDeparture, Chosen(g, c, u) # NoDeparture
  PROVE  Chosen(g, c, t) <= Chosen(g, c, u)
<1> DEFINE i == Chosen(g, c, t)
           j == Chosen(g, c, u)
<1>1. Exam(g, c, t) # {} /\ Exam(g, c, u) # {}
  BY DEF Chosen, select_optimal_departure, Exam
<1>2. /\ i \in DOMAIN Deps(g) /\ Boards(g, c, t, Origin, Target, i)
      /\ j \in DOMAIN Deps(g) /\ Boards(g, c, u, Origin, Target, j)
  BY <1>1, ChosenBoards
<1>3. i \in Exam(g, c, t) /\ j \in Exam(g, c, u)
  BY <1>2 DEF Boards, Exam
<1>4. i \in Cands(g, c, t) /\ j \in Cands(g, c, u)
  BY <1>3 DEF Exam, Examined, Cands
<1>5. i \in Int /\ j \in Int
  BY <1>2, GraphFacts
<1>6. c.W_max_seconds \in Nat
  BY ConfigsAssumption
<1> SUFFICES ASSUME j < i PROVE FALSE
  BY <1>5
<1>7. Deps(g)[j].departure_time <= Deps(g)[i].departure_time
  BY <1>2, <1>5, GraphFacts
<1>8. j \in Exam(g, c, t)
  <2>1. /\ j \in DOMAIN Deps(g) /\ Deps(g)[j].destination = Target
        /\ u <= Deps(g)[j].departure_time
        /\ Deps(g)[i].departure_time <= t + c.W_max_seconds
    BY <1>4, IsCandidate
  <2>2. /\ Deps(g)[j].departure_time \in Nat
        /\ Deps(g)[i].departure_time \in Nat
    BY <1>4, IsCandidate, GraphFacts
  <2>3. /\ t <= Deps(g)[j].departure_time
        /\ Deps(g)[j].departure_time <= t + c.W_max_seconds
    BY <1>2, <1>6, <1>7, <2>1, <2>2
  <2>4. j \in Cands(g, c, t)
    BY <2>1, <2>3, IsCandidate
  <2> QED
    BY <1>3, <2>4, EarlierExamined
<1>9. i \in Exam(g, c, u)
  <2>1. u <= Deps(g)[i].departure_time
    BY <1>2, <1>4, <1>7, IsCandidate, GraphFacts
  <2> QED
    BY <1>3, <2>1, StaysExamined
<1>10. Composite(g, c, Deps(g)[i]) < Composite(g, c, Deps(g)[j])
  BY <1>2, <1>5, <1>8, CompositeType DEF Boards, Exam, Deps
<1>11. Composite(g, c, Deps(g)[j]) <= Composite(g, c, Deps(g)[i])
  BY <1>2, <1>9, CompositeType DEF Boards, Exam, Deps
<1> QED
  BY <1>2, <1>10, <1>11, CompositeType

-----------------------------------------------------------------------------
(* The state: the inputs stay, and the answer is the one for the clock.    *)
AnswerInv == ClockTypeOK /\ InputsOK /\ boarded = Answer(clock)

LEMMA AnswerIsChosen ==
  InputsOK => \A t \in Nat : Answer(t) = Chosen(graph, config, t)
BY DEF InputsOK, Answer, Chosen

LEMMA AnswerType ==
  ASSUME InputsOK, NEW t \in Nat
  PROVE  Answer(t) \in {NoDeparture} \cup DOMAIN graph.edges[Origin]
<1>1. CASE Exam(graph, config, t) = {}
  BY <1>1 DEF Answer, Exam, select_optimal_departure
<1>2. CASE Exam(graph, config, t) # {}
  BY <1>2, ChosenBoards, AnswerIsChosen DEF InputsOK, Deps
<1> QED
  BY <1>1, <1>2

LEMMA AnswerInvInit == ClockInit => AnswerInv
BY HorizonAssumption, AnswerType DEF ClockInit, AnswerInv, ClockTypeOK, InputsOK

LEMMA AnswerInvStep == AnswerInv /\ [ClockNext]_clockVars => AnswerInv'
<1> SUFFICES ASSUME AnswerInv, [ClockNext]_clockVars PROVE AnswerInv'
  OBVIOUS
<1>1. ASSUME NEW t \in 0 .. Horizon, Ask(t) PROVE AnswerInv'
  <2>1. graph' = graph /\ config' = config /\ clock' = t /\ boarded' = Answer(t)
    BY <1>1 DEF Ask
  <2>2. InputsOK' /\ Answer(t) = Answer(t)'
    BY <2>1 DEF AnswerInv, InputsOK, Answer
  <2>3. Answer(t) \in {NoDeparture} \cup DOMAIN graph.edges[Origin]
    BY AnswerType, HorizonAssumption DEF AnswerInv
  <2>4. ClockTypeOK'
    BY <2>1, <2>3 DEF ClockTypeOK
  <2>5. boarded' = Answer(clock)'
    BY <2>1 DEF Answer
  <2> QED
    BY <2>2, <2>4, <2>5 DEF AnswerInv
<1>2. CASE UNCHANGED clockVars
  BY <1>2 DEF clockVars, AnswerInv, ClockTypeOK, InputsOK, Answer
<1> QED
  BY <1>1, <1>2 DEF ClockNext

LEMMA AnswerInvAlways == ClockSpec => []AnswerInv
BY AnswerInvInit, AnswerInvStep, PTL DEF ClockSpec

(* The answer is a departure of the stop or the sentinel for none.         *)
THEOREM LookaheadTypeCorrect == ClockSpec => []ClockTypeOK
BY AnswerInvAlways, PTL DEF AnswerInv

(* What a step does, in terms of the two choices.                          *)
LEMMA StepIsAsk ==
  ASSUME AnswerInv, ClockNext
  PROVE  /\ graph \in Graphs /\ config \in Configs
         /\ clock \in Nat /\ clock' \in Nat /\ clock <= clock'
         /\ graph' = graph /\ config' = config
         /\ boarded = Chosen(graph, config, clock)
         /\ boarded' = Chosen(graph, config, clock')
<1>1. PICK t \in 0 .. Horizon : Ask(t)
  BY DEF ClockNext
<1>2. clock \in Nat /\ t \in Nat /\ clock' = t /\ clock < t
  BY <1>1, HorizonAssumption DEF AnswerInv, ClockTypeOK, Ask
<1> QED
  BY <1>1, <1>2, AnswerIsChosen DEF Ask, AnswerInv, InputsOK

(* Waiting does no harm while the selected train has not left, and the     *)
(* selection never moves back, for every timetable, budget and window.     *)
THEOREM LookaheadSelectionStable == ClockSpec => SelectionStable
<1> DEFINE Stable ==
      boarded # NoDeparture =>
        /\ clock' <= Train(boarded).departure_time =>
             /\ boarded' # NoDeparture
             /\ Composite(graph, config, Train(boarded'))
                  <= Composite(graph, config, Train(boarded))
        /\ boarded' # NoDeparture => boarded <= boarded'
<1>1. AnswerInv /\ [ClockNext]_clockVars => [Stable]_clockVars
  <2> SUFFICES ASSUME AnswerInv, ClockNext PROVE Stable
    BY DEF clockVars
  <2>1. \A p : Train(p) = Deps(graph)[p]
    BY DEF Train, Deps
  <2> QED
    BY <2>1, StepIsAsk, StillServed, NeverMovesBack
<1> QED
  BY <1>1, AnswerInvAlways, PTL DEF ClockSpec, SelectionStable

(* A link without overtaking is FIFO, for every timetable, objective,      *)
(* budget and window.                                                      *)
THEOREM LookaheadFIFOWithoutOvertaking == ClockSpec => FIFOWithoutOvertaking
<1> DEFINE Later ==
      BothBoarded /\ NoOvertaking(graph, Origin, Target)
        => Arrival(boarded) <= Arrival(boarded')
<1>1. AnswerInv /\ [ClockNext]_clockVars => [Later]_clockVars
  <2> SUFFICES ASSUME AnswerInv, ClockNext, BothBoarded,
                      NoOvertaking(graph, Origin, Target)
               PROVE  Arrival(boarded) <= Arrival(boarded')
    BY DEF clockVars
  <2>1. boarded <= boarded'
    BY StepIsAsk, NeverMovesBack DEF BothBoarded
  <2>2. Exam(graph, config, clock) # {} /\ Exam(graph, config, clock') # {}
    BY StepIsAsk DEF BothBoarded, Chosen, Exam, select_optimal_departure
  <2>3. /\ boarded \in DOMAIN Deps(graph)
        /\ Boards(graph, config, clock, Origin, Target, boarded)
        /\ boarded' \in DOMAIN Deps(graph)
        /\ Boards(graph, config, clock', Origin, Target, boarded')
    BY <2>2, StepIsAsk, ChosenBoards
  <2>4. /\ Deps(graph)[boarded].destination = Target
        /\ Deps(graph)[boarded'].destination = Target
    BY <2>3 DEF Boards, Examined, Candidates, Deps
  <2>5. ArrivalOf(Deps(graph)[boarded]) <= ArrivalOf(Deps(graph)[boarded'])
    BY <2>1, <2>3, <2>4 DEF NoOvertaking, Deps
  <2> QED
    BY <2>5, StepIsAsk DEF Arrival, Train, Deps
<1> QED
  BY <1>1, AnswerInvAlways, PTL DEF ClockSpec, FIFOWithoutOvertaking
=============================================================================
