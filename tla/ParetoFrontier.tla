--------------------------- MODULE ParetoFrontier ---------------------------
(***************************************************************************)
(* What a family of ParetoLabelSets promises its caller: after any calls,  *)
(* the frontier of a node is exactly the set of non-dominated points among *)
(* all the points offered to it since it was last cleared.                 *)
(***************************************************************************)
EXTENDS Dominance

CONSTANTS Node, Point

VARIABLES
  offered,    \* the points offered to each node since it was cleared
  frontier    \* the points each node keeps

Init ==
  /\ offered = [n \in Node |-> {}]
  /\ frontier = [n \in Node |-> {}]

Offer(n, p) ==
  /\ offered' = [offered EXCEPT ![n] = @ \cup {p}]
  /\ frontier' = [frontier EXCEPT ![n] = Minimal(offered'[n])]

Forget(n) ==
  /\ offered' = [offered EXCEPT ![n] = {}]
  /\ frontier' = [frontier EXCEPT ![n] = {}]

ForgetAll == offered' = [n \in Node |-> {}] /\ frontier' = [n \in Node |-> {}]

Next ==
  \/ \E n \in Node, p \in Point : Offer(n, p)
  \/ \E n \in Node : Forget(n)
  \/ ForgetAll

Spec == Init /\ [][Next]_<< offered, frontier >>
=============================================================================
