-------------------------- MODULE MissionRotation --------------------------
(***************************************************************************)
(* Missions: operators give the forge briefs, and a cadence takes the      *)
(* active ones in turn, one generation an interval.  An operator may also  *)
(* ask for a generation at once, and pause, archive or resume a mission    *)
(* whenever they like.  The rows of the missions are both the schedule's   *)
(* watermark and the order of the rotation.                                *)
(*                                                                         *)
(* Left out: the brief, the URLs, and the idea that comes of it.           *)
(***************************************************************************)
EXTENDS CadenceSleep

CONSTANTS
  Missions,  \* missions that may ever be created
  Cadence,   \* the run of the cadence
  Clicks,    \* generate requests of operators that can be in flight at once
  Nil

ASSUME MissionsAssumption == Cadence \notin Clicks /\ Nil \notin Missions

VARIABLES
  status,     \* Mission.status, "absent" before it is created
  last,       \* time since last_generated_at, like an age
  generated,  \* missions whose last_generated_at is not NULL
  before,     \* <<m, n>>: m comes before n in pick_next_mission's order
  pc,         \* where each run stands
  target,     \* the mission it works for
  called,     \* history: the mission of the cadence's last model call
  burn,       \* history: time since that call, like an age; Interval when
              \* it led to no idea or died before the watermark
  passed      \* history: missions the cadence has served while m waits

missionVars == <<status, last, generated, before>>
historyVars == <<called, burn, passed>>
vars == <<nap, missionVars, pc, target, historyVars>>

Runs == {Cadence} \cup Clicks
Called == {"generating", "gate", "touch"}
Labels == {"idle", "pick", "seed"} \cup Called

Known == {m \in Missions : status[m] # "absent"}
Active == {m \in Missions : status[m] = "active"}

Init ==
  /\ SleepInit
  /\ status = [m \in Missions |-> "absent"]
  /\ last = [m \in Missions |-> Interval]
  /\ generated = {}
  /\ before = {}
  /\ pc = [t \in Runs |-> "idle"]
  /\ target = [t \in Runs |-> Nil]
  /\ called = Nil
  /\ burn = Interval
  /\ passed = [m \in Missions |-> {}]

-----------------------------------------------------------------------------
(* What operators do to missions.                                          *)

(* A new row has no last_generated_at: it goes before those that have one  *)
(* and, being the youngest, after the others.                              *)
CreateMission(m) ==
  /\ status[m] = "absent"
  /\ status' = [status EXCEPT ![m] = "active"]
  /\ before' = before \cup {<<n, m>> : n \in Known \ generated}
                      \cup {<<m, n>> : n \in generated}
  /\ UNCHANGED <<nap, last, generated, pc, target, historyVars>>

(* POST /api/missions/{id}/status.  A mission that is taken out of the     *)
(* rotation does not wait for its turn.                                    *)
SetStatus(m, s) ==
  /\ m \in Known
  /\ s \in {"active", "paused", "archived"}
  /\ status' = [status EXCEPT ![m] = s]
  /\ passed' = IF s = "active" THEN passed ELSE [passed EXCEPT ![m] = {}]
  /\ UNCHANGED <<nap, last, generated, before, pc, target, called, burn>>

-----------------------------------------------------------------------------
(* touch_mission_generated: the youngest last_generated_at of all.         *)
Touch(m) ==
  /\ last' = [last EXCEPT ![m] = 0]
  /\ generated' = generated \cup {m}
  /\ before' = {p \in before : p[1] # m /\ p[2] # m}
                 \cup {<<n, m>> : n \in Known \ {m}}
  /\ UNCHANGED status

(* Run t goes from one await to the next.                                  *)
Step(t, from, to) ==
  /\ pc[t] = from
  /\ pc' = [pc EXCEPT ![t] = to]
  /\ UNCHANGED <<nap, missionVars, target, historyVars>>

(* The run is over; the cadence's loop goes to sleep.                      *)
Return(t) ==
  /\ pc' = [pc EXCEPT ![t] = "idle"]
  /\ IF t = Cadence THEN SleepAgain ELSE UNCHANGED nap
  /\ target' = [target EXCEPT ![t] = Nil]

-----------------------------------------------------------------------------
(* seconds_until_next_mission = 0: nothing to do without an active one;    *)
(* MAX(last_generated_at) over the active ones ignores those without.      *)
Overdue == Active # {} /\ \A m \in Active : last[m] = Interval

(* Not overdue, or the query raised.                                       *)
SkipTick ==
  /\ pc[Cadence] = "idle"
  /\ nap = 0
  /\ SleepAgain
  /\ UNCHANGED <<missionVars, pc, target, historyVars>>

FireTick ==
  /\ nap = 0
  /\ Overdue
  /\ Step(Cadence, "idle", "pick")

(* Mutant: the first active row, in the order of creation or in any other. *)
PickAnyMission(m) ==
  /\ pc[Cadence] = "pick"
  /\ m \in Active
  /\ pc' = [pc EXCEPT ![Cadence] = "seed"]
  /\ target' = [target EXCEPT ![Cadence] = m]
  /\ UNCHANGED <<nap, missionVars, historyVars>>

(* Mutant: ORDER BY ... DESC.                                              *)
PickLatestMission(m) ==
  /\ pc[Cadence] = "pick"
  /\ m \in Active
  /\ \A n \in Active : <<m, n>> \notin before
  /\ pc' = [pc EXCEPT ![Cadence] = "seed"]
  /\ target' = [target EXCEPT ![Cadence] = m]
  /\ UNCHANGED <<nap, missionVars, historyVars>>

(* pick_next_mission.                                                      *)
PickMission(m) ==
  /\ pc[Cadence] = "pick"
  /\ m \in Active
  /\ \A n \in Active : <<n, m>> \notin before
  /\ pc' = [pc EXCEPT ![Cadence] = "seed"]
  /\ target' = [target EXCEPT ![Cadence] = m]
  /\ UNCHANGED <<nap, missionVars, historyVars>>

(* The last active mission was paused since the delay query.               *)
PickNone ==
  /\ pc[Cadence] = "pick"
  /\ Active = {}
  /\ Return(Cadence)
  /\ UNCHANGED <<missionVars, historyVars>>

(* POST /api/missions/{id}/generate: a paused one will do.                 *)
ClickGenerate(t, m) ==
  /\ t \in Clicks
  /\ pc[t] = "idle"
  /\ status[m] \in {"active", "paused"}
  /\ pc' = [pc EXCEPT ![t] = "seed"]
  /\ target' = [target EXCEPT ![t] = m]
  /\ UNCHANGED <<nap, missionVars, historyVars>>

-----------------------------------------------------------------------------
(* generate_mission_idea: the grounding URLs are fetched and the prompt is *)
(* built, then the model is called.                                        *)
CallModel(t) ==
  /\ pc[t] = "seed"
  /\ pc' = [pc EXCEPT ![t] = "generating"]
  /\ IF t = Cadence
     THEN called' = target[t] /\ burn' = 0
     ELSE UNCHANGED <<called, burn>>
  /\ UNCHANGED <<nap, missionVars, target, passed>>

(* The cadence's model call led to nothing that moves the watermark.       *)
Excuse(t) ==
  /\ burn' = IF t = Cadence /\ pc[t] \in Called THEN Interval ELSE burn
  /\ UNCHANGED <<called, passed>>

(* No backend, or an answer that cannot be parsed: the watermark stays, so *)
(* that the cadence retries at its next pass.                              *)
NoIdea(t) ==
  /\ pc[t] \in {"seed", "generating"}
  /\ Return(t)
  /\ Excuse(t)
  /\ UNCHANGED missionVars

Draft(t) == Step(t, "generating", "gate")

(* filter_and_save stores the idea or rejects it as a duplicate.           *)
Store(t) == Step(t, "gate", "touch")

(* Mutant: a rejected idea is no attempt.                                  *)
RejectUntouched(t) ==
  /\ pc[t] = "gate"
  /\ Return(t)
  /\ UNCHANGED <<missionVars, historyVars>>

Reject(t) == Step(t, "gate", "touch")

TouchMission(t) ==
  /\ pc[t] = "touch"
  /\ Touch(target[t])
  /\ Return(t)
  /\ passed' = [n \in Missions |->
       IF n = target[t] THEN {}
       ELSE IF t = Cadence /\ n \in Active THEN passed[n] \cup {target[t]}
       ELSE passed[n]]
  /\ UNCHANGED <<called, burn>>

(* A fetch, the scorer or the database raises.                             *)
Raise(t) ==
  /\ pc[t] # "idle"
  /\ Return(t)
  /\ Excuse(t)
  /\ UNCHANGED missionVars

(* The process restarts.                                                   *)
Reload ==
  /\ pc' = [t \in Runs |-> "idle"]
  /\ StartAfresh
  /\ target' = [t \in Runs |-> Nil]
  /\ Excuse(Cadence)
  /\ UNCHANGED missionVars

Pass ==
  /\ Doze
  /\ last' = [m \in Missions |-> Older(last[m])]
  /\ burn' = Older(burn)
  /\ UNCHANGED <<status, generated, before, pc, target, called, passed>>

-----------------------------------------------------------------------------
Continue(t) ==
  \/ CallModel(t)
  \/ NoIdea(t)
  \/ Draft(t)
  \/ Store(t)
  \/ Reject(t)
  \/ TouchMission(t)
  \/ Raise(t)

Operator ==
  \E m \in Missions :
    \/ CreateMission(m)
    \/ \E s \in {"active", "paused", "archived"} : SetStatus(m, s)

Clicking == \E t \in Clicks, m \in Missions : ClickGenerate(t, m)

Ticking ==
  \/ SkipTick
  \/ FireTick
  \/ \E m \in Missions : PickMission(m)
  \/ PickNone
  \/ \E t \in Runs : Continue(t)
  \/ Pass

Next == Operator \/ Clicking \/ Ticking \/ Reload

Spec == Init /\ [][Next]_vars

-----------------------------------------------------------------------------
TypeOK ==
  /\ nap \in Nat
  /\ status \in [Missions -> {"absent", "active", "paused", "archived"}]
  /\ last \in [Missions -> Ages]
  /\ generated \subseteq Missions
  /\ before \subseteq Missions \X Missions
  /\ pc \in [Runs -> Labels]
  /\ target \in [Runs -> Missions \cup {Nil}]
  /\ called \in Missions \cup {Nil}
  /\ burn \in Ages
  /\ passed \in [Missions -> SUBSET Missions]

(* "rejection streaks can't hammer the backend": after a call that brought *)
(* an idea, kept or rejected, the cadence waits an interval, unless an     *)
(* operator takes that very mission out of the rotation.  Others that are  *)
(* created, paused, resumed or generated for meanwhile change nothing.     *)
NoEarlyFire ==
  [][FireTick => burn = Interval \/ called \notin Active]_vars

(* Round-robin: the cadence serves no mission a second time while another  *)
(* one waits all along, whatever operators create, pause, resume or        *)
(* generate for in the middle of its runs.                                 *)
RoundRobin ==
  [][TouchMission(Cadence) =>
       \A n \in Missions : target[Cadence] \notin passed[n]]_vars
=============================================================================
