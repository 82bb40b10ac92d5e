------------------------- MODULE IdeaLifecycleLive -------------------------
(***************************************************************************)
(* The life of an idea under fairness: what the cadences owe an idea in    *)
(* the end.                                                                *)
(***************************************************************************)
EXTENDS IdeaLifecycle, Restarts

CONSTANT Light  \* bound: slots that only promotions and back-fills use

ASSUME LightAssumption == Light \subseteq Tasks

liveVars == <<vars, settled>>
Slots == Tasks \ Light

LiveInit == Init /\ settled = FALSE

(* A light slot works on a row next to any other handler, so two promotes, *)
(* or a promote and a whole-row save, overlap.  Bound: only as long as     *)
(* nothing has been scaffolded or merged.                                  *)
LightLabels == {"idle", "promote:file", "promote:save", "score:read", "score:save"}
StaysLight ==
  \A t \in Light :
    /\ pc[t] \in LightLabels
    /\ pc[t] # "idle" => landed = {} /\ \A i \in Ideas : repos[i] = "none"

LiveNext ==
  \/ Running /\ StaysLight' /\ UNCHANGED settled
  \/ Reload /\ ~settled /\ UNCHANGED settled
  \/ SettleDown /\ UNCHANGED vars

Work(A) == A /\ UNCHANGED settled

(* A coroutine that has begun is resumed until it ends: the event loop     *)
(* starves nobody and every await here has a timeout.  The cadences come   *)
(* round again for as long as the process lives; in the model they share   *)
(* their slots with the handlers, so they need strong fairness to get one. *)
(* gh may fail any number of times, not for ever.  No fairness on the      *)
(* operator or on GitHub; the process is not restarted for ever.           *)
Fairness ==
  /\ WF_liveVars(SettleDown /\ UNCHANGED vars)
  /\ \A t \in Tasks : WF_liveVars(Work(Continues(t)))
  /\ \A t \in Slots : SF_liveVars(Work(SyncFetch(t)))
  /\ \A i \in Ideas :
       /\ SF_liveVars(Work(\E t \in Slots : SyncSelect(t, i)))
       /\ SF_liveVars(Work(\E t \in Slots : ReconcileSelect(t, i)))

FairSpec == LiveInit /\ [][LiveNext]_liveVars /\ Fairness

-----------------------------------------------------------------------------
(* Once the issue of a promoted idea is closed as completed or not         *)
(* planned, the idea does not stay "promoted" on the dashboard.            *)
ClosedOnGitHub(i) ==
  /\ i \in stored
  /\ Promoted(row[i])
  /\ issues[i][row[i].issue] \in {"completed", "not_planned"}

SyncDrains == \A i \in Ideas : ClosedOnGitHub(i) ~> ~ClosedOnGitHub(i)

(* An idea the newest commits name does not stay on the Think Tank's open  *)
(* list while they do, even when the process died between the merge and    *)
(* the write that marks it.                                                *)
ReconcilerCatchesUp == \A i \in Ideas : Reconcilable(i) ~> ~Reconcilable(i)

=============================================================================
