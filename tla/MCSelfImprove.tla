--------------------------- MODULE MCSelfImprove ---------------------------
(* To one issue the answer is an edit and a new file, or none at all, to the *)
(* other none.  The new file is alone in its directory and comes first.      *)
EXTENDS SelfImprove

CONSTANTS n1, n2

MCProposals == [n \in Issues |-> IF n = n1 THEN {Files, {}} ELSE {{}}]
MCPlace == [f \in Files |-> IF f \in Tracked THEN 2 ELSE 1]
MCDir == [f \in Files |-> IF f \in Tracked THEN "old" ELSE "new"]
=============================================================================
