--------------------------- MODULE ArenaAllocator ---------------------------
(***************************************************************************)
(* The fixed-capacity arena of include/arena_allocator.hpp: slots are      *)
(* handed out from an intrusive LIFO free list first, from a bump pointer  *)
(* second, and allocate() throws std::bad_alloc when both are empty.       *)
(*                                                                         *)
(* The arena is a record and its member functions are operators on it, so  *)
(* that a client (ParetoLabelSet) can make several calls in one step.  The *)
(* state machine below drives one arena with every legal call sequence.    *)
(***************************************************************************)
EXTENDS Naturals, Sequences, FiniteSets

CONSTANT Capacity            \* template parameter: number of slots

ASSUME CapacityAssumption == Capacity \in Nat \ {0}

Slot == 0 .. Capacity - 1    \* a T* is modelled by its index in arena_

(* The intrusive list is the sequence of its nodes, head first. *)
EmptyArena == [bump_ptr |-> 0, free_list |-> << >>, used_count |-> 0]

(* Path 1 of allocate() is preferred to path 2.  (Mutant: bump first.) *)
BumpFirst(a) == a.free_list # << >> /\ a.bump_ptr >= Capacity
Recycles(a) == a.free_list # << >>

(* Mutant: the free list is not consulted. *)
FreeListIgnored(a) == a.bump_ptr >= Capacity
Exhausted(a) == ~ Recycles(a) /\ a.bump_ptr >= Capacity

(* The slot allocate() returns on an arena that is not exhausted. *)
NextSlot(a) == IF Recycles(a) THEN Head(a.free_list) ELSE a.bump_ptr

(* Mutant: the recycled slot stays at the head of the free list. *)
HeadNotPopped(a) ==
  IF Recycles(a) THEN [a EXCEPT !.used_count = @ + 1]
                 ELSE [a EXCEPT !.bump_ptr = @ + 1, !.used_count = @ + 1]
Allocated(a) ==
  IF Recycles(a) THEN [a EXCEPT !.free_list = Tail(@), !.used_count = @ + 1]
                 ELSE [a EXCEPT !.bump_ptr = @ + 1, !.used_count = @ + 1]

Deallocated(a, s) ==
  [a EXCEPT !.free_list = << s >> \o @, !.used_count = @ - 1]

(* check_invariant(), the arena's own self-test. *)
check_invariant(a) == a.used_count + Len(a.free_list) = a.bump_ptr

(* The slots on the free list, and what it is for an arena to account for  *)
(* the slots its clients hold: every slot handed out since the last reset  *)
(* is held by a client or sits on the free list, once.                     *)
FreeSlots(a) == {a.free_list[i] : i \in 1 .. Len(a.free_list)}

Accounts(a, held) ==
  /\ held \cap FreeSlots(a) = {}
  /\ held \cup FreeSlots(a) = 0 .. a.bump_ptr - 1
  /\ \A i, j \in 1 .. Len(a.free_list) :
       a.free_list[i] = a.free_list[j] => i = j
  /\ a.used_count = Cardinality(held)

-----------------------------------------------------------------------------
VARIABLES
  arena,      \* the allocator's three members
  live,       \* history: the slots its clients hold
  outcome     \* how the last call ended

arenaVars == << arena, live, outcome >>

ArenaType ==
  [bump_ptr : 0 .. Capacity, free_list : Seq(Slot), used_count : 0 .. Capacity]

TypeOK ==
  /\ arena \in ArenaType
  /\ live \subseteq Slot
  /\ outcome \in {"none", "slot", "freed", "reset", "bad_alloc"}

Init ==
  /\ arena = EmptyArena
  /\ live = {}
  /\ outcome = "none"

Allocate ==
  /\ ~ Exhausted(arena)
  /\ arena' = Allocated(arena)
  /\ live' = live \cup {NextSlot(arena)}
  /\ outcome' = "slot"

(* std::bad_alloc leaves the arena as it was. *)
AllocateThrows ==
  /\ Exhausted(arena)
  /\ outcome' = "bad_alloc"
  /\ UNCHANGED << arena, live >>

(* The caller's contract: p came from allocate() and was not freed since.  *)
(* The assertion owns(ptr) checks less than that.                          *)
Deallocate(s) ==
  /\ s \in live
  /\ arena' = Deallocated(arena, s)
  /\ live' = live \ {s}
  /\ outcome' = "freed"

(* reset() invalidates every pointer handed out. *)
Reset ==
  /\ arena' = EmptyArena
  /\ live' = {}
  /\ outcome' = "reset"

Next ==
  \/ Allocate
  \/ AllocateThrows
  \/ \E s \in Slot : Deallocate(s)
  \/ Reset

Spec == Init /\ [][Next]_arenaVars

-----------------------------------------------------------------------------
(* The documented self-test never fails: used + free = bump, in slots.     *)
CheckInvariant == check_invariant(arena)

(* Every slot ever handed out is held by exactly one client or sits on the *)
(* free list exactly once: no slot is lost, and none is handed out twice,  *)
(* whatever the interleaving of allocate, deallocate and reset.            *)
EachSlotOnce == Accounts(arena, live)

(* allocate() throws only when every slot of the arena is held: recycling  *)
(* never strands a slot.                                                   *)
ThrowsOnlyWhenFull == outcome = "bad_alloc" => live = Slot

(* Fresh memory is touched only when nothing can be recycled, so           *)
(* bump_index() is the high-water mark of live slots since the last reset. *)
BumpIsHighWater ==
  [][arena'.bump_ptr > arena.bump_ptr => live = 0 .. arena.bump_ptr - 1]_arenaVars
=============================================================================
