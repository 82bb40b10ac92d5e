----------------------------- MODULE MCDedupGate -----------------------------
EXTENDS DedupGate

CONSTANTS d1, d2, d3, s1

Pairs == {{d, e} : d \in Drafts, e \in Drafts} \ {{d} : d \in Drafts}
Unrelated ==
    [supers |-> {}, stem |-> [d \in Drafts |-> None],
     kin |-> {}, hash |-> {}, hard |-> {}, borderline |-> {}, far |-> {}]

(* A family of clones, near-identical taglines two of which are of one        *)
(* combination, supers of one base, and doubtful pairs.                       *)
MCTexts ==
    {[Unrelated EXCEPT !.stem = [d \in Drafts |-> s1]],
     [Unrelated EXCEPT !.hard = Pairs, !.hash = {{d1, d2}}],
     [Unrelated EXCEPT !.supers = Drafts, !.kin = Pairs],
     [Unrelated EXCEPT !.stem = [d \in Drafts |-> IF d = d3 THEN None ELSE s1],
                       !.hard = {{d1, d3}, {d2, d3}}, !.borderline = {{d1, d2}},
                       !.far = {{d2, d3}}]}
=============================================================================
