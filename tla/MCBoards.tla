------------------------------ MODULE MCBoards ------------------------------
(* Two ideas: one whose fundability lies in the band of the model, one     *)
(* whose time to the first dollar does.  The first is a snipe the model is *)
(* asked about unless its category was nudged down.                        *)
EXTENDS Boards

MCText ==
  <<[found |-> {"paid", "stack"}, proofs |-> 0, frontier |-> 5,
     bonus |-> [fundability |-> 5, cashflow |-> 0, ambition |-> 24]],
    [found |-> {"fast", "demand", "slow", "wedge", "whyNow", "short"},
     proofs |-> 3, frontier |-> 1,
     bonus |-> [fundability |-> 0, cashflow |-> 12, ambition |-> 0]]>>

(* A server without keys and programs works as one that is switched off.   *)
MCDeployed ==
  {e \in Environments : SwitchedOff(e) \/ ResolveCheap(e) # "nothing"}
=============================================================================
