------------------------------ MODULE BotProbe ------------------------------
(***************************************************************************)
(* The money-bot probe.  It works like the PKI probe, but it runs for two: *)
(* for its cadence, when the newest row of bot_probes is old enough, and   *)
(* for an operator who clicks Churn Now, at once and in that request's own *)
(* coroutine.  Every run narrates itself in one in-memory progress tail.   *)
(*                                                                         *)
(* Left out: which strategy came of a program, its verdict and its row in  *)
(* the ideas table; and which program a sweep offers, so that picking an   *)
(* unseen one, revisiting one and taking the operator's venue are all the  *)
(* same choice here.                                                       *)
(***************************************************************************)
EXTENDS CadenceLoop

CONSTANTS
  Cadence,  \* the run of the cadence
  Clicks    \* requests of operators that can be in flight at once

ASSUME ClicksAssumption == Cadence \notin Clicks

VARIABLES
  pc,       \* where each run stands
  running,  \* bot_progress._running
  burn,     \* history: time since the cadence last called the model
  excused   \* history: that call's cycle died without leaving a row

vars == <<loopVars, pc, running, burn, excused>>

Runs == {Cadence} \cup Clicks
Called == {"generating", "stress", "score", "save", "record"}
Steps == {"list", "fetch", "pick", "generate"} \cup Called \cup {"crash"}

InFlight == {t \in Runs : pc[t] # "idle"}

Init ==
  /\ LoopInit
  /\ pc = [t \in Runs |-> "idle"]
  /\ running = FALSE
  /\ burn = Interval
  /\ excused = FALSE

-----------------------------------------------------------------------------
(* Run t goes from one await to the next.                                  *)
Step(t, from, to) ==
  /\ pc[t] = from
  /\ pc' = [pc EXCEPT ![t] = to]
  /\ UNCHANGED <<loopVars, running, burn, excused>>

StartRun == running' = TRUE
FinishRun == running' = FALSE

(* The run returns; the cadence's loop goes to sleep, an operator's        *)
(* request is answered from the newest row.                                *)
Return(t) ==
  /\ pc' = [pc EXCEPT ![t] = "idle"]
  /\ IF t = Cadence THEN SleepAgain ELSE UNCHANGED nap

-----------------------------------------------------------------------------
SkipTick ==
  /\ pc[Cadence] = "idle"
  /\ nap = 0
  /\ SleepAgain
  /\ UNCHANGED <<age, pc, running, burn, excused>>

(* Mutant: the delay query is not asked.                                   *)
FireTickUngated ==
  /\ pc[Cadence] = "idle"
  /\ nap = 0
  /\ pc' = [pc EXCEPT ![Cadence] = "list"]
  /\ StartRun
  /\ UNCHANGED <<loopVars, burn, excused>>

FireTick ==
  /\ pc[Cadence] = "idle"
  /\ nap = 0
  /\ Overdue
  /\ pc' = [pc EXCEPT ![Cadence] = "list"]
  /\ StartRun
  /\ UNCHANGED <<loopVars, burn, excused>>

(* POST /api/churn with lab = money.                                       *)
ChurnNow(t) ==
  /\ t \in Clicks
  /\ pc[t] = "idle"
  /\ pc' = [pc EXCEPT ![t] = "list"]
  /\ StartRun
  /\ UNCHANGED <<loopVars, burn, excused>>

ListProbes(t) == Step(t, "list", "fetch")

(* pick_top_program returned one: the category is chosen from the board.   *)
PickProgram(t) == Step(t, "fetch", "pick")

(* Nothing surfaced, or the operator's venue cannot be traded.             *)
NoProgram(t) == Step(t, "fetch", "record")

(* The lessons of past rejections are read.                                *)
ReadLessons(t) == Step(t, "pick", "generate")

CallModel(t) ==
  /\ pc[t] = "generate"
  /\ pc' = [pc EXCEPT ![t] = "generating"]
  /\ burn' = IF t = Cadence THEN 0 ELSE burn
  /\ excused' = IF t = Cadence THEN FALSE ELSE excused
  /\ UNCHANGED <<loopVars, running>>

NoDraft(t) == Step(t, "generating", "record")
Draft(t) == Step(t, "generating", "stress")

(* The panel's verdict is put on the card; it stops nothing.               *)
Stress(t) == Step(t, "stress", "score")

(* The gate refuses what is not legitimate or has no spec; what it does    *)
(* not admit for any other reason is stored with its verdict.              *)
Refuse(t) == Step(t, "score", "record")
Publish(t) == Step(t, "score", "save")
Save(t) == Step(t, "save", "record")

(* Mutant: the row is written, the narration never ends.                   *)
RecordSilently(t) ==
  /\ pc[t] = "record"
  /\ Stamp
  /\ Return(t)
  /\ excused' = IF t = Cadence THEN FALSE ELSE excused
  /\ UNCHANGED <<running, burn>>

(* record_bot_probe, on whichever path, and the end of the narration.      *)
Record(t) ==
  /\ pc[t] = "record"
  /\ Stamp
  /\ FinishRun
  /\ Return(t)
  /\ excused' = IF t = Cadence THEN FALSE ELSE excused
  /\ UNCHANGED burn

(* Any step can raise: the narration ends, then the crash is recorded.     *)
Raise(t) ==
  /\ pc[t] \in Steps \ {"crash"}
  /\ pc' = [pc EXCEPT ![t] = "crash"]
  /\ FinishRun
  /\ UNCHANGED <<loopVars, burn, excused>>

RecordCrash(t) ==
  /\ pc[t] = "crash"
  /\ Stamp
  /\ Return(t)
  /\ excused' = IF t = Cadence THEN FALSE ELSE excused
  /\ UNCHANGED <<running, burn>>

RecordCrashFails(t) ==
  /\ pc[t] = "crash"
  /\ Return(t)
  /\ excused' = (excused \/ t = Cadence)
  /\ UNCHANGED <<age, running, burn>>

(* The process restarts: runs and narration are gone, the rows stay.       *)
Reload ==
  /\ pc' = [t \in Runs |-> "idle"]
  /\ FinishRun
  /\ Restart
  /\ excused' = (excused \/ pc[Cadence] \in Called \cup {"crash"})
  /\ UNCHANGED burn

Pass ==
  /\ Elapse
  /\ burn' = Older(burn)
  /\ UNCHANGED <<pc, running, excused>>

-----------------------------------------------------------------------------
Continue(t) ==
  \/ ListProbes(t)
  \/ PickProgram(t)
  \/ NoProgram(t)
  \/ ReadLessons(t)
  \/ CallModel(t)
  \/ NoDraft(t)
  \/ Draft(t)
  \/ Stress(t)
  \/ Refuse(t)
  \/ Publish(t)
  \/ Save(t)
  \/ Record(t)
  \/ Raise(t)
  \/ RecordCrash(t)
  \/ RecordCrashFails(t)

Next ==
  \/ SkipTick
  \/ FireTick
  \/ \E t \in Clicks : ChurnNow(t)
  \/ \E t \in Runs : Continue(t)
  \/ Reload
  \/ Pass

Spec == Init /\ [][Next]_vars

-----------------------------------------------------------------------------
TypeOK ==
  /\ age \in Ages
  /\ nap \in Nat
  /\ pc \in [Runs -> {"idle"} \cup Steps]
  /\ running \in BOOLEAN
  /\ burn \in Ages
  /\ excused \in BOOLEAN

(* The cadence calls the model again only after a full interval, unless    *)
(* its last cycle could leave no row.  Operators may click at any time:    *)
(* their rows delay the cadence and never make it fire early.              *)
NoBurnLoop == [][CallModel(Cadence) => burn = Interval \/ excused]_vars

(* The spinner the operator watches never outlives the last run, whichever *)
(* run was the last to start or to end, and however it ended.              *)
SpinnerStops == running => InFlight # {}
=============================================================================
