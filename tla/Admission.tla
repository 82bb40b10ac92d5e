------------------------------ MODULE Admission ------------------------------
(* What a check-then-enter gate promises when it holds no lock: an agent is   *)
(* cleared while there is room and enters later, on the clearance it holds.   *)
(* Nothing is reserved, so members and clearances together may exceed the     *)
(* limit, but only by the agents cleared at the same time.                    *)
EXTENDS Naturals, FiniteSets

CONSTANTS Agents, Limit
VARIABLES members, cleared

vars == <<members, cleared>>

Init == members = {} /\ cleared = {}

Clear(a) ==
    /\ Cardinality(members) < Limit
    /\ cleared' = cleared \union {a}
    /\ UNCHANGED members

(* Whoever enters may push members out, and may not count as one himself.     *)
Enter(a) ==
    /\ a \in cleared
    /\ cleared' = cleared \ {a}
    /\ IsFiniteSet(members' \ members) /\ Cardinality(members' \ members) <= 1

Withdraw(A) == cleared' = cleared \ A /\ members' \subseteq members

Next ==
    \/ \E a \in Agents : Clear(a) \/ Enter(a)
    \/ \E A \in SUBSET Agents : Withdraw(A)

Spec == Init /\ [][Next]_vars

(* The overshoot is at most one for every agent but the first.                *)
Bounded == Cardinality(members) + Cardinality(cleared) < Limit + Cardinality(Agents)

(* It is inductive with what makes the two sets sets of this gate.            *)
IInv == IsFiniteSet(members) /\ cleared \subseteq Agents /\ Bounded
=============================================================================
