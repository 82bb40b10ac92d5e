------------------------------ MODULE MCSiphon ------------------------------
EXTENDS Siphon

CONSTANTS c1, c2, s1

Plain ==
    [category |-> [i \in Ideas |-> c1], supers |-> {}, stem |-> [i \in Ideas |-> None],
     alike |-> {}, akin |-> {}, tokens |-> Pairs, feasibility |-> [i \in Ideas |-> i], marked |-> {}]

Chain == {{1, 2}, {2, 3}, {3, 4}}
TwoAndTwo == [i \in Ideas |-> IF i < 3 THEN c1 ELSE c2]
ThreeAndOne == [i \in Ideas |-> IF i < 4 THEN c1 ELSE c2]

(* Near-duplicates in a chain and in a ring of both thresholds, over one       *)
(* category and two; supers in a chain, all clones of one concept; clones some *)
(* of which are alike; a crowd next to marked ideas; two alike ideas whose one *)
(* common token is too common until the crowd around them is thinned.          *)
MCTexts ==
    {[Plain EXCEPT !.alike = Chain, !.akin = Chain, !.category = ThreeAndOne],
     [Plain EXCEPT !.alike = {{1, 2}, {3, 4}}, !.akin = {{1, 3}, {2, 4}},
                   !.category = TwoAndTwo, !.marked = {4}],
     [Plain EXCEPT !.alike = Chain, !.stem = [i \in Ideas |-> s1],
                   !.category = TwoAndTwo, !.supers = {1, 2, 3}],
     [Plain EXCEPT !.akin = {{1, 4}}, !.category = ThreeAndOne,
                   !.stem = [i \in Ideas |-> IF i > 2 THEN s1 ELSE None],
                   !.marked = {2}],
     [Plain EXCEPT !.alike = {{1, 2}}, !.akin = {{2, 3}},
                   !.category = [TwoAndTwo EXCEPT ![4] = SelfImprovement]],
     [Plain EXCEPT !.akin = {{1, 4}}, !.tokens = {{1, 3, 4}},
                   !.category = ThreeAndOne]}
=============================================================================
