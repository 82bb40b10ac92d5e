----------------------------- MODULE MCJudging -----------------------------
(* One challenge of the idea, and one of an idea deleted long ago.          *)
EXTENDS Judging, TLC

CONSTANTS i1, c1, c2

MCAbout == c1 :> i1 @@ c2 :> Nil

(* Bound: while somebody has a row in hand the others at work are those    *)
(* that deny, reject, delete or apply, or have a row in hand themselves.   *)
RowInHand == \E t \in Tasks : task[t].at = "row"
Aside == {"round", "model", "next", "sample", "evaluate", "audit",
          "review", "archive", "reviewed"}

(* Bound: the idea loses a round, or its challenge is applied, and each    *)
(* only where the old challenge is there to be drawn.                      *)
Working(of, labels) ==
  \E t \in Tasks : task[t].of = of /\ {task[t].at, task[t].then} \cap labels # {}
Lost == Fact("lost", i1) \in view.facts \/ Working(i1, {"loser", "results"})
Applied ==
  \/ \E k \in {"written", "undone", "applied"} : Fact(k, c1) \in view.facts
  \/ Working(c1, {"apply", "reread", "mark"})

Bound ==
  /\ RowInHand => timer = Nil
                  /\ \A t \in Tasks : {task[t].at, task[t].then} \cap Aside = {}
  /\ ~(Lost /\ Applied)
  /\ Lost \/ Applied => Fact("challenge", c2) \in view.facts

MCSpec == Init /\ [][Next /\ Bound']_vars /\ Fairness
=============================================================================
