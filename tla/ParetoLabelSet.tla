--------------------------- MODULE ParetoLabelSet ---------------------------
(***************************************************************************)
(* The frontiers of several nodes over one shared arena: ParetoLabelSet    *)
(* and ArenaAllocator as the engine composes them (include/routing.hpp,    *)
(* src/routing.cpp).  labels_ holds pointers, so a frontier is read        *)
(* through the arena's memory: a slot freed too early or handed out twice  *)
(* would change a frontier behind its back.                                *)
(***************************************************************************)
EXTENDS ArenaAllocator, Dominance, SequencesExt

CONSTANTS
  Node,       \* the nodes whose frontiers share the arena
  Time,       \* the arrival times explored
  Cost        \* the secondary costs explored

ASSUME PointsAreNatural == Time \subseteq Nat /\ Cost \subseteq Nat

Point == [arrival_time : Time, secondary_cost : Cost]

VARIABLES
  mem,        \* the contents of each slot of arena_
  labels,     \* labels_ of each node: a sequence of slots
  offered     \* history: the points offered to each node since a clear

setVars == << arenaVars, mem, labels, offered >>

(* allocate() zeroes the slot; a free slot's first words hold the link. *)
Blank == [arrival_time |-> 0, secondary_cost |-> 0]

(* The labels of a node as a reader of labels() sees them. *)
Read(n) == [i \in DOMAIN labels[n] |-> mem[labels[n][i]]]

SetInit ==
  /\ Init
  /\ mem = [s \in Slot |-> Blank]
  /\ labels = [n \in Node |-> << >>]
  /\ offered = [n \in Node |-> {}]

(* Freeing a sequence of slots, first to last, overwrites their contents.  *)
FreeAll(a, freed) == FoldLeft(Deallocated, a, freed)
Wiped(m, freed) == [s \in Slot |-> IF s \in Range(freed) THEN Blank ELSE m[s]]

(* The pair (slots freed, labels_ afterwards) of insert_and_dominate when  *)
(* the candidate p sits in slot s.  (Mutants: a pruned label is not freed; one *)
(* label too many is freed.)                                               *)
PrunedNotFreed(ls, view, p, s) ==
  IF Rejected(view, p)
  THEN [freed |-> << s >>, kept |-> ls]
  ELSE [freed |-> << >>,
        kept  |-> SubSeq(ls, 1, LowerBound(view, p) - 1) \o << s >>
                    \o SubSeq(ls, PruneEnd(view, p), Len(ls))]
OneTooManyFreed(ls, view, p, s) ==
  IF Rejected(view, p)
  THEN [freed |-> << s >>, kept |-> ls]
  ELSE [freed |-> SubSeq(ls, LowerBound(view, p), Min({PruneEnd(view, p), Len(ls)})),
        kept  |-> SubSeq(ls, 1, LowerBound(view, p) - 1) \o << s >>
                    \o SubSeq(ls, PruneEnd(view, p), Len(ls))]
insert_and_dominate(ls, view, p, s) ==
  IF Rejected(view, p)
  THEN [freed |-> << s >>, kept |-> ls]
  ELSE [freed |-> SubSeq(ls, LowerBound(view, p), PruneEnd(view, p) - 1),
        kept  |-> SubSeq(ls, 1, LowerBound(view, p) - 1) \o << s >>
                    \o SubSeq(ls, PruneEnd(view, p), Len(ls))]

(* What the engine does with a candidate: allocate, construct, insert. *)
OfferLabel(n, p) ==
  /\ ~ Exhausted(arena)
  /\ LET s == NextSlot(arena)
         r == insert_and_dominate(labels[n], Read(n), p, s)
     IN  /\ arena' = FreeAll(Allocated(arena), r.freed)
         /\ live' = (live \cup {s}) \ Range(r.freed)
         /\ mem' = Wiped([mem EXCEPT ![s] = p], r.freed)
         /\ labels' = [labels EXCEPT ![n] = r.kept]
         /\ offered' = [offered EXCEPT ![n] = @ \cup {p}]
         /\ outcome' = IF s \in Range(r.freed) THEN "freed" ELSE "slot"

(* allocate() throws before the candidate reaches the frontier. *)
OfferThrows ==
  /\ AllocateThrows
  /\ UNCHANGED << mem, labels, offered >>

(* clear(arena): every label of one node goes back to the free list. *)
Clear(n) ==
  /\ arena' = FreeAll(arena, labels[n])
  /\ live' = live \ Range(labels[n])
  /\ mem' = Wiped(mem, labels[n])
  /\ labels' = [labels EXCEPT ![n] = << >>]
  /\ offered' = [offered EXCEPT ![n] = {}]
  /\ outcome' = "freed"

(* The start of a query: arena reset, then unsafe_clear_after_arena_reset  *)
(* on every frontier; the memory itself is not touched.  (Mutant: the      *)
(* frontiers keep their pointers.)                                         *)
FrontiersKept ==
  /\ Reset
  /\ offered' = [n \in Node |-> {}]
  /\ UNCHANGED << mem, labels >>
ResetQuery ==
  /\ Reset
  /\ labels' = [n \in Node |-> << >>]
  /\ offered' = [n \in Node |-> {}]
  /\ UNCHANGED mem

SetNext ==
  \/ \E n \in Node, p \in Point : OfferLabel(n, p)
  \/ OfferThrows
  \/ \E n \in Node : Clear(n)
  \/ ResetQuery

SetSpec == SetInit /\ [][SetNext]_setVars

-----------------------------------------------------------------------------
(* Every live slot is in exactly one frontier, once: nothing leaks when    *)
(* labels are rejected or pruned, and no two frontiers alias.              *)
LiveSlotsAreLabels ==
  /\ live = UNION {Range(labels[n]) : n \in Node}
  /\ \A m, n \in Node : \A i \in DOMAIN labels[m], j \in DOMAIN labels[n] :
       labels[m][i] = labels[n][j] => m = n /\ i = j

(* The family of frontiers implements the abstract one. *)
Abstract == INSTANCE ParetoFrontier
  WITH frontier <- [n \in Node |-> Range(Read(n))]
ImplementsFrontier == Abstract!Spec
=============================================================================
