------------------------ MODULE MissionRotationLive ------------------------
(***************************************************************************)
(* The rotation of missions under fairness.                                *)
(***************************************************************************)
EXTENDS MissionRotation, Restarts

liveVars == <<vars, settled>>

LiveInit == Init /\ settled = FALSE

(* Clicks stop like restarts do: each one that succeeds puts the cadence   *)
(* off by an interval.                                                     *)
LiveNext ==
  \/ (Operator \/ Ticking) /\ UNCHANGED settled
  \/ (Clicking \/ Reload) /\ ~settled /\ UNCHANGED settled
  \/ SettleDown /\ UNCHANGED vars

Work(A) == A /\ UNCHANGED settled

(* Time passes, the loop gets its turn and a run once begun goes on.  The  *)
(* delay query, the model and the database may fail any number of times    *)
(* but not for ever.                                                       *)
Fairness ==
  /\ WF_liveVars(SettleDown /\ UNCHANGED vars)
  /\ WF_liveVars(Work(Pass))
  /\ SF_liveVars(Work(FireTick))
  /\ SF_liveVars(Work(PickNone \/ \E m \in Missions : PickMission(m)))
  /\ SF_liveVars(Work(CallModel(Cadence)))
  /\ SF_liveVars(Work(Draft(Cadence)))
  /\ SF_liveVars(Work(Store(Cadence) \/ Reject(Cadence)))
  /\ SF_liveVars(Work(TouchMission(Cadence)))

FairSpec == LiveInit /\ [][LiveNext]_liveVars /\ Fairness

(* An active mission that has waited an interval gets its generation, or   *)
(* is taken out of the rotation: none starves behind the others.           *)
Waiting(m) == m \in Active /\ last[m] = Interval

EveryMissionServed == \A m \in Missions : Waiting(m) ~> ~Waiting(m)
=============================================================================
