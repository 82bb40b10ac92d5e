--------------------------- MODULE CadenceProofs ----------------------------
(***************************************************************************)
(* What the cadences do, for any number of missions, operators and ideas   *)
(* and any interval: the rotation of missions keeps its distance and       *)
(* serves in turn; the back-fills of the boards, which save a whole row    *)
(* they read earlier, let nothing onto a gated board.                      *)
(***************************************************************************)
EXTENDS MissionRotation, Boards, FiniteSetTheorems, WellFoundedInduction, TLAPS


(* The watermark of the cadence's last mission is no older than the call,  *)
(* once the run that made it is over; while it is not, it works for that   *)
(* mission.                                                                *)
Gated ==
  /\ called = Nil => burn = Interval
  /\ IF pc[Cadence] \in Called
     THEN called = target[Cadence]
     ELSE called # Nil => last[called] <= burn \/ burn = Interval

(* Whoever waits comes before those that were served meanwhile, so the     *)
(* mission the cadence has picked is not one of them.                      *)
Queued ==
  /\ \A n \in Missions : \A m \in passed[n] :
       n \in Active /\ n # m /\ <<n, m>> \in before
  /\ \A n \in Missions : target[Cadence] \notin passed[n]

(* A run that has a mission to work for has one.                           *)
Aimed ==
  /\ \A t \in Runs : pc[t] \in {"seed"} \cup Called => target[t] \in Missions
  /\ \A t \in Clicks : pc[t] # "pick"

IInv == TypeOK /\ Gated /\ Queued /\ Aimed

-----------------------------------------------------------------------------
LEMMA CadenceRuns == Cadence \in Runs
BY DEF Runs

LEMMA OlderKeeps ==
  ASSUME NEW a \in Ages, NEW b \in Ages
  PROVE  /\ Older(a) \in Ages
         /\ a <= b => Older(a) <= Older(b)
         /\ a = Interval => Older(a) = Interval
BY TimesAssumption DEF Ages, Older

LEMMA InitEstablishes == Init => IInv
<1> SUFFICES ASSUME Init PROVE IInv
  OBVIOUS
<1>1. TypeOK
  BY TimesAssumption DEF Init, SleepInit, TypeOK, Ages, Labels
<1>2. Gated /\ Aimed
  BY CadenceRuns DEF Init, Gated, Aimed, Called, Runs
<1>3. Queued
  BY CadenceRuns DEF Init, Queued
<1> QED BY <1>1, <1>2, <1>3 DEF IInv

-----------------------------------------------------------------------------
(* A run goes from one await to another on the same side of its model call *)
(* and nothing else happens.                                               *)
LEMMA MoveKeeps ==
  ASSUME IInv, NEW t \in Runs, NEW from \in Labels, NEW to \in Labels,
         Step(t, from, to),
         to \in Called <=> from \in Called,
         to \in {"seed"} \cup Called => from \in {"seed"} \cup Called,
         to = "pick" => t = Cadence
  PROVE  IInv'
<1>1. pc' = [pc EXCEPT ![t] = to] /\ pc[t] = from
  BY DEF Step
<1>2. UNCHANGED <<nap, status, last, generated, before, target, called, burn,
                  passed>>
  BY DEF Step, missionVars, historyVars
<1>3. TypeOK'
  BY <1>1, <1>2 DEF IInv, TypeOK
<1>4. Gated'
  BY <1>1, <1>2, CadenceRuns DEF IInv, TypeOK, Gated
<1>5. Queued'
  BY <1>2 DEF IInv, Queued, Active
<1>6. Aimed'
  BY <1>1, <1>2, MissionsAssumption DEF IInv, TypeOK, Aimed, Called, Runs
<1> QED BY <1>3, <1>4, <1>5, <1>6 DEF IInv

(* A run takes up a mission that no earlier one waits for.                 *)
LEMMA TakeUpKeeps ==
  ASSUME IInv, NEW t \in Runs, NEW m \in Missions,
         pc[t] \in {"idle", "pick"},
         pc' = [pc EXCEPT ![t] = "seed"],
         target' = [target EXCEPT ![t] = m],
         t = Cadence => \A n \in Active : <<n, m>> \notin before,
         UNCHANGED <<nap, missionVars, historyVars>>
  PROVE  IInv'
<1>1. UNCHANGED <<nap, status, last, generated, before, called, burn, passed>>
  BY DEF missionVars, historyVars
<1>2. TypeOK'
  BY <1>1 DEF IInv, TypeOK, Labels
<1>3. Gated'
  BY <1>1, CadenceRuns DEF IInv, TypeOK, Gated, Called
<1>4. Queued'
  <2>1. \A n \in Missions : \A k \in passed[n] :
          n \in Active /\ n # k /\ <<n, k>> \in before
    BY DEF IInv, Queued
  <2>2. ASSUME NEW n \in Missions, t = Cadence PROVE m \notin passed[n]
    BY <2>1, <2>2
  <2>3. \A n \in Missions : target'[Cadence] \notin passed[n]
    BY <2>2, CadenceRuns DEF IInv, TypeOK, Queued
  <2> QED BY <1>1, <2>1, <2>3 DEF Queued, Active
<1>5. Aimed'
  BY <1>1 DEF IInv, TypeOK, Aimed, Runs
<1> QED BY <1>2, <1>3, <1>4, <1>5 DEF IInv

(* A run is over and leaves the missions as they are.                      *)
LEMMA EndKeeps ==
  ASSUME IInv, NEW t \in Runs, Return(t), Excuse(t), UNCHANGED missionVars
  PROVE  IInv'
<1>1. pc' = [pc EXCEPT ![t] = "idle"] /\ target' = [target EXCEPT ![t] = Nil]
  BY DEF Return
<1>2. nap' \in Nat
  BY TimesAssumption DEF Return, SleepAgain, IInv, TypeOK
<1>3. burn' \in Ages /\ UNCHANGED <<status, last, generated, before, called, passed>>
  BY TimesAssumption DEF Excuse, missionVars, IInv, TypeOK, Ages
<1>4. TypeOK'
  BY <1>1, <1>2, <1>3 DEF IInv, TypeOK, Labels
<1>5. Gated'
  <2>1. CASE t = Cadence
    <3>1. pc'[Cadence] \notin Called
      BY <1>1, <2>1, CadenceRuns DEF IInv, TypeOK, Called
    <3>2. burn' = IF pc[Cadence] \in Called THEN Interval ELSE burn
      BY <2>1 DEF Excuse
    <3> QED BY <1>3, <3>1, <3>2 DEF IInv, Gated
  <2>2. CASE t # Cadence
    <3>1. pc'[Cadence] = pc[Cadence] /\ target'[Cadence] = target[Cadence]
      BY <1>1, <2>2, CadenceRuns DEF IInv, TypeOK
    <3>2. burn' = burn
      BY <2>2 DEF Excuse
    <3> QED BY <1>3, <3>1, <3>2 DEF IInv, Gated
  <2> QED BY <2>1, <2>2
<1>6. Queued'
  <2>1. target'[Cadence] \in {target[Cadence], Nil}
    BY <1>1, CadenceRuns DEF IInv, TypeOK
  <2>2. \A n \in Missions : target'[Cadence] \notin passed[n]
    BY <2>1, MissionsAssumption DEF IInv, TypeOK, Queued
  <2> QED BY <1>3, <2>2 DEF IInv, Queued, Active
<1>7. Aimed'
  BY <1>1 DEF IInv, TypeOK, Aimed, Called, Runs
<1> QED BY <1>4, <1>5, <1>6, <1>7 DEF IInv

-----------------------------------------------------------------------------
LEMMA OperatorKeeps ==
  ASSUME IInv, NEW m \in Missions
  PROVE  /\ CreateMission(m) => IInv'
         /\ \A s \in {"active", "paused", "archived"} : SetStatus(m, s) => IInv'
<1>1. ASSUME CreateMission(m) PROVE IInv'
  <2>1. /\ status[m] = "absent" /\ status' = [status EXCEPT ![m] = "active"]
        /\ before \subseteq before' /\ before' \subseteq Missions \X Missions
        /\ UNCHANGED <<nap, last, generated, pc, target, called, burn, passed>>
    BY <1>1 DEF CreateMission, historyVars, Known, IInv, TypeOK
  <2>2. TypeOK' BY <2>1 DEF IInv, TypeOK
  <2>3. Gated' BY <2>1 DEF IInv, Gated
  <2>4. Active \subseteq Active' BY <2>1 DEF Active, IInv, TypeOK
  <2>5. Queued' BY <2>1, <2>4 DEF IInv, Queued
  <2>6. Aimed' BY <2>1 DEF IInv, Aimed
  <2> QED BY <2>2, <2>3, <2>5, <2>6 DEF IInv
<1>2. ASSUME NEW s \in {"active", "paused", "archived"}, SetStatus(m, s)
      PROVE  IInv'
  <2>1. /\ status' = [status EXCEPT ![m] = s]
        /\ passed' = IF s = "active" THEN passed ELSE [passed EXCEPT ![m] = {}]
        /\ UNCHANGED <<nap, last, generated, before, pc, target, called, burn>>
    BY <1>2 DEF SetStatus
  <2>2. TypeOK' BY <2>1 DEF IInv, TypeOK
  <2>3. Gated' BY <2>1 DEF IInv, Gated
  <2>4. ASSUME NEW n \in Missions, NEW k \in passed'[n]
        PROVE  k \in passed[n] /\ n \in Active'
    <3>1. CASE s = "active"
      BY <2>1, <2>4, <3>1 DEF IInv, TypeOK, Queued, Active
    <3>2. CASE s # "active"
      BY <2>1, <2>4, <3>2 DEF IInv, TypeOK, Queued, Active
    <3> QED BY <3>1, <3>2
  <2>5. \A n \in Missions : target'[Cadence] \notin passed'[n]
    BY <2>1, <2>4 DEF IInv, Queued
  <2>6. Queued' BY <2>1, <2>4, <2>5 DEF IInv, Queued
  <2>7. Aimed' BY <2>1 DEF IInv, Aimed
  <2> QED BY <2>2, <2>3, <2>6, <2>7 DEF IInv
<1> QED BY <1>1, <1>2

LEMMA CallKeeps ==
  ASSUME IInv, NEW t \in Runs, CallModel(t)
  PROVE  IInv'
<1>1. /\ pc[t] = "seed" /\ pc' = [pc EXCEPT ![t] = "generating"]
      /\ UNCHANGED <<nap, status, last, generated, before, target, passed>>
  BY DEF CallModel, missionVars
<1>2. target[t] \in Missions
  BY <1>1 DEF IInv, Aimed
<1>3. called' \in Missions \cup {Nil} /\ burn' \in Ages
  BY <1>2, TimesAssumption DEF CallModel, IInv, TypeOK, Ages
<1>4. TypeOK'
  BY <1>1, <1>3 DEF IInv, TypeOK, Labels, Called
<1>5. Gated'
  <2>1. CASE t = Cadence
    <3>1. pc'[Cadence] = "generating" /\ called' = target[Cadence]
      BY <1>1, <2>1, CadenceRuns DEF CallModel, IInv, TypeOK
    <3> QED BY <1>1, <1>2, <2>1, <3>1, MissionsAssumption DEF Gated, Called
  <2>2. CASE t # Cadence
    <3>1. pc'[Cadence] = pc[Cadence] /\ UNCHANGED <<called, burn>>
      BY <1>1, <2>2, CadenceRuns DEF CallModel, IInv, TypeOK
    <3> QED BY <1>1, <3>1 DEF IInv, Gated
  <2> QED BY <2>1, <2>2
<1>6. Queued'
  BY <1>1 DEF IInv, Queued, Active
<1>7. Aimed'
  BY <1>1 DEF IInv, TypeOK, Aimed, Called, Runs
<1> QED BY <1>4, <1>5, <1>6, <1>7 DEF IInv

(* The touched mission goes to the end of the order: whoever waits comes   *)
(* before it, and those it waited for are forgotten.                       *)
LEMMA TouchKeeps ==
  ASSUME IInv, NEW t \in Runs, TouchMission(t)
  PROVE  IInv'
<1> DEFINE m == target[t]
<1>1. m \in Missions /\ pc[t] = "touch"
  BY DEF TouchMission, IInv, Aimed, Called
<1>2. /\ last' = [last EXCEPT ![m] = 0]
      /\ generated' = generated \cup {m}
      /\ before' = {p \in before : p[1] # m /\ p[2] # m}
                      \cup {<<n, m>> : n \in Known \ {m}}
      /\ UNCHANGED <<status, called, burn>>
  BY DEF TouchMission, Touch
<1>3. pc' = [pc EXCEPT ![t] = "idle"] /\ target' = [target EXCEPT ![t] = Nil]
  BY DEF TouchMission, Return
<1>4. nap' \in Nat
  BY TimesAssumption DEF TouchMission, Return, SleepAgain, IInv, TypeOK
<1>5. ASSUME NEW n \in Missions
      PROVE  /\ passed'[n] \subseteq Missions
             /\ n = m => passed'[n] = {}
             /\ n # m => \A k \in passed'[n] :
                  k \in passed[n] \/ (t = Cadence /\ n \in Active /\ k = m)
  BY <1>1, <1>5 DEF TouchMission, IInv, TypeOK
<1>6. passed' \in [Missions -> SUBSET Missions]
  <2>1. passed' = [n \in Missions |-> passed'[n]]
    BY DEF TouchMission
  <2> QED BY <1>5, <2>1
<1>7. before' \subseteq Missions \X Missions
  BY <1>1, <1>2 DEF Known, IInv, TypeOK
<1>8. TypeOK'
  <2>1. last' \in [Missions -> Ages] /\ generated' \subseteq Missions
    BY <1>1, <1>2, TimesAssumption DEF IInv, TypeOK, Ages
  <2>2. pc' \in [Runs -> Labels] /\ target' \in [Runs -> Missions \cup {Nil}]
    BY <1>3 DEF IInv, TypeOK, Labels
  <2> QED BY <1>2, <1>4, <1>6, <1>7, <2>1, <2>2 DEF IInv, TypeOK
<1>9. Gated'
  <2>1. \A n \in Missions : last'[n] = 0 \/ last'[n] = last[n]
    BY <1>1, <1>2 DEF IInv, TypeOK
  <2>2. burn \in Ages /\ 0 <= burn
    BY TimesAssumption DEF IInv, TypeOK, Ages
  <2>3. CASE t = Cadence
    <3>1. called = m /\ pc'[Cadence] \notin Called
      BY <1>1, <1>3, <2>3, CadenceRuns DEF IInv, TypeOK, Gated, Called
    <3>2. last'[m] = 0 BY <1>1, <1>2 DEF IInv, TypeOK
    <3> QED BY <1>1, <1>2, <2>2, <3>1, <3>2, MissionsAssumption DEF Gated
  <2>4. CASE t # Cadence
    <3>1. pc'[Cadence] = pc[Cadence] /\ target'[Cadence] = target[Cadence]
      BY <1>3, <2>4, CadenceRuns DEF IInv, TypeOK
    <3>2. called # Nil => called \in Missions
      BY DEF IInv, TypeOK
    <3> QED BY <1>2, <2>1, <2>2, <3>1, <3>2 DEF IInv, Gated
  <2> QED BY <2>3, <2>4
<1>10. Queued'
  <2>1. Active' = Active /\ Active \subseteq Known
    BY <1>2 DEF Active, Known
  <2>2. ASSUME NEW n \in Missions, NEW k \in passed'[n]
        PROVE  n \in Active' /\ n # k /\ <<n, k>> \in before'
    <3>1. n # m BY <1>5, <2>2
    <3>2. CASE k = m
      <4>1. n \in Active
        BY <1>5, <2>2, <3>1, <3>2 DEF IInv, Queued
      <4> QED BY <1>2, <2>1, <3>1, <3>2, <4>1
    <3>3. CASE k # m
      <4>1. k \in passed[n] BY <1>5, <2>2, <3>1, <3>3
      <4>2. n \in Active /\ n # k /\ <<n, k>> \in before
        BY <4>1 DEF IInv, Queued
      <4> QED BY <1>2, <2>1, <3>1, <3>3, <4>2
    <3> QED BY <3>2, <3>3
  <2>3. ASSUME NEW n \in Missions PROVE target'[Cadence] \notin passed'[n]
    <3>1. CASE t = Cadence
      <4>1. target'[Cadence] = Nil
        BY <1>3, <3>1, CadenceRuns DEF IInv, TypeOK
      <4> QED BY <1>5, <4>1, MissionsAssumption
    <3>2. CASE t # Cadence
      <4>1. target'[Cadence] = target[Cadence]
        BY <1>3, <3>2, CadenceRuns DEF IInv, TypeOK
      <4>2. \A k \in passed'[n] : k \in passed[n]
        BY <1>5, <3>2
      <4> QED BY <4>1, <4>2 DEF IInv, Queued
    <3> QED BY <3>1, <3>2
  <2> QED BY <2>2, <2>3 DEF Queued
<1>11. Aimed'
  BY <1>3 DEF IInv, TypeOK, Aimed, Called, Runs
<1> QED BY <1>8, <1>9, <1>10, <1>11 DEF IInv

-----------------------------------------------------------------------------
LEMMA RunKeeps ==
  ASSUME IInv, NEW t \in Runs, Continue(t)
  PROVE  IInv'
<1>1. CASE CallModel(t) BY <1>1, CallKeeps
<1>2. CASE NoIdea(t) BY <1>2, EndKeeps DEF NoIdea
<1>3. CASE Draft(t) BY <1>3, MoveKeeps DEF Draft, Labels, Called
<1>4. CASE Store(t) BY <1>4, MoveKeeps DEF Store, Labels, Called
<1>5. CASE Reject(t) BY <1>5, MoveKeeps DEF Reject, Labels, Called
<1>6. CASE TouchMission(t) BY <1>6, TouchKeeps
<1>7. CASE Raise(t) BY <1>7, EndKeeps DEF Raise
<1> QED BY <1>1, <1>2, <1>3, <1>4, <1>5, <1>6, <1>7 DEF Continue

LEMMA StepKeeps == IInv /\ [Next]_vars => IInv'
<1> SUFFICES ASSUME IInv, [Next]_vars PROVE IInv'
  OBVIOUS
<1>1. CASE Operator
  BY <1>1, OperatorKeeps DEF Operator
<1>2. CASE Clicking
  <2>1. PICK t \in Clicks, m \in Missions : ClickGenerate(t, m)
    BY <1>2 DEF Clicking
  <2>2. t \in Runs /\ t # Cadence
    BY MissionsAssumption DEF Runs
  <2> QED BY <2>1, <2>2, TakeUpKeeps DEF ClickGenerate
<1>3. CASE SkipTick
  <2>1. UNCHANGED <<status, last, generated, before, pc, target, called, burn, passed>>
    BY <1>3 DEF SkipTick, missionVars, historyVars
  <2>2. nap' \in Nat
    BY <1>3, TimesAssumption DEF SkipTick, SleepAgain
  <2> QED BY <2>1, <2>2 DEF IInv, TypeOK, Gated, Queued, Active, Aimed
<1>4. CASE FireTick
  BY <1>4, MoveKeeps, CadenceRuns DEF FireTick, Labels, Called
<1>5. ASSUME NEW m \in Missions, PickMission(m) PROVE IInv'
  BY <1>5, TakeUpKeeps, CadenceRuns DEF PickMission
<1>6. CASE PickNone
  <2>1. Excuse(Cadence)
    BY <1>6 DEF PickNone, Excuse, historyVars, Called
  <2> QED BY <1>6, <2>1, EndKeeps, CadenceRuns DEF PickNone
<1>7. ASSUME NEW t \in Runs, Continue(t) PROVE IInv'
  BY <1>7, RunKeeps
<1>8. CASE Pass
  <2>1. /\ last' = [m \in Missions |-> Older(last[m])] /\ burn' = Older(burn)
        /\ UNCHANGED <<status, generated, before, pc, target, called, passed>>
    BY <1>8 DEF Pass
  <2>2. nap' \in Nat
    BY <1>8 DEF Pass, Doze, IInv, TypeOK
  <2>3. TypeOK'
    BY <2>1, <2>2, OlderKeeps DEF IInv, TypeOK
  <2>4. Gated'
    BY <2>1, OlderKeeps DEF IInv, TypeOK, Gated
  <2> QED BY <2>1, <2>3, <2>4 DEF IInv, Queued, Active, Aimed
<1>9. CASE Reload
  <2>1. /\ pc' = [t \in Runs |-> "idle"] /\ target' = [t \in Runs |-> Nil]
        /\ burn' = IF pc[Cadence] \in Called THEN Interval ELSE burn
        /\ UNCHANGED <<status, last, generated, before, called, passed>>
    BY <1>9 DEF Reload, Excuse, missionVars
  <2>2. nap' \in Nat
    BY <1>9, TimesAssumption DEF Reload, StartAfresh
  <2>3. TypeOK'
    BY <2>1, <2>2, TimesAssumption DEF IInv, TypeOK, Labels, Ages
  <2>4. Gated'
    BY <2>1, CadenceRuns DEF IInv, Gated, Called
  <2>5. Queued'
    BY <2>1, CadenceRuns, MissionsAssumption DEF IInv, TypeOK, Queued, Active
  <2>6. Aimed'
    BY <2>1 DEF Aimed, Called, Runs
  <2> QED BY <2>3, <2>4, <2>5, <2>6 DEF IInv
<1>10. CASE UNCHANGED vars
  BY <1>10 DEF vars, missionVars, historyVars, IInv, TypeOK, Gated, Queued,
             Active, Aimed
<1> QED
  BY <1>1, <1>2, <1>3, <1>4, <1>5, <1>6, <1>7, <1>8, <1>9, <1>10
     DEF Next, Ticking

-----------------------------------------------------------------------------
(* Every variable stays in its range.                                      *)
THEOREM TypeCorrect == Spec => []TypeOK
<1>1. IInv => TypeOK BY DEF IInv
<1> QED BY <1>1, InitEstablishes, StepKeeps, PTL DEF Spec

(* After a call that brought an idea the cadence keeps its distance.       *)
THEOREM FiresAreSpaced == Spec => NoEarlyFire
<1>1. ASSUME IInv, FireTick PROVE burn = Interval \/ called \notin Active
  <2>1. SUFFICES ASSUME called \in Active PROVE burn = Interval
    OBVIOUS
  <2>2. pc[Cadence] = "idle" /\ last[called] = Interval
    BY <1>1, <2>1 DEF FireTick, Step, Overdue
  <2>3. last[called] <= burn \/ burn = Interval
    BY <1>1, <2>1, <2>2, MissionsAssumption DEF IInv, Gated, Called, Active
  <2> QED BY <1>1, <2>2, <2>3, TimesAssumption DEF IInv, TypeOK, Ages
<1>2. IInv /\ [Next]_vars
        => [FireTick => burn = Interval \/ called \notin Active]_vars
  BY <1>1
<1> QED BY <1>2, InitEstablishes, StepKeeps, PTL DEF Spec, NoEarlyFire

(* The rotation is round-robin, whatever operators do meanwhile.           *)
THEOREM ServesInTurn == Spec => RoundRobin
<1>1. IInv /\ [Next]_vars
        => [TouchMission(Cadence) =>
              \A n \in Missions : target[Cadence] \notin passed[n]]_vars
  BY DEF IInv, Queued
<1> QED BY <1>1, InitEstablishes, StepKeeps, PTL DEF Spec, RoundRobin

-----------------------------------------------------------------------------
(***************************************************************************)
(* The boards.  A row, what a scorer holds of it and what a generator is   *)
(* about to store agree on what the idea is, and each of them would keep   *)
(* an unreviewed idea off the gated boards; that is why a late save of an  *)
(* old copy does no harm.                                                  *)
(***************************************************************************)

(* Who has a row of idea i in hand.                                        *)
Readers(i) == {a \in Axes : scorer[a].pc \in {"ask", "save"} /\ Max(scorer[a].left) = i}
Copies(i) == ({row[i], draft[i]} \cup {scorer[a].read : a \in Readers(i)}) \ {NoRow}

Kin(r, s) == r.family = s.family /\ r.mode = s.mode

(* What a probe sets its mode on it has reviewed, and only its own cards   *)
(* have an edge.                                                           *)
Honest(r) ==
  /\ r.mode \in {"pki", "bot"} => r.gated
  /\ "bot" \in r.scores => r.mode = "bot"

Kindred ==
  /\ \A i \in Ideas : \A r, s \in Copies(i) : Kin(r, s)
  /\ \A i \in Ideas \ arrived : Copies(i) = {}
  /\ \A i \in scorer["bot"].left : i \in arrived /\ \A r \in Copies(i) : r.mode = "bot"

Busy(a) ==
  /\ scorer[a].pc # "rest" => scorer[a].left # {}
  /\ scorer[a].pc \in {"ask", "save"} => scorer[a].read # NoRow
  /\ scorer[a].pc = "ask" => env.cheap

Unlearned == ~env.autotune => stored = inherited /\ nudged = inherited

BoardsIInv ==
  /\ BoardsTypeOK
  /\ Kindred
  /\ \A i \in Ideas : \A r \in Copies(i) : Honest(r)
  /\ \A a \in Axes : Busy(a)
  /\ \A i \in Ideas : draft[i] # NoRow => env.cheap
  /\ Unlearned

-----------------------------------------------------------------------------
(* The newest of a list.                                                   *)

LEMMA NewestIn ==
  ASSUME NEW S \in SUBSET Ideas, S # {}
  PROVE  /\ Max(S) \in S
         /\ Newest(S, Batch) # {}
<1> DEFINE Above(i) == {j \in S : j > i}
           U == {Above(i) : i \in S}
<1>0. IsFiniteSet(S) /\ S \subseteq Nat
  BY IdeasAssumption, FS_Subset
<1>1. U \subseteq FiniteSubsetsOf(S)
  BY <1>0, FS_Subset DEF FiniteSubsetsOf
<1>2. U # {}
  OBVIOUS
<1>3. PICK A \in U : \A B \in U : ~(<<B, A>> \in StrictSubsetOrdering(S))
  <2> HIDE DEF U
  <2> QED BY <1>0, <1>1, <1>2, FS_StrictSubsetOrderingWellFounded, WFMin
<1>4. PICK m \in S : A = Above(m)
  OBVIOUS
<1>5. ASSUME NEW j \in S, j > m PROVE FALSE
  <2>1. Above(j) \subseteq Above(m)
    <3>1. ASSUME NEW k \in S, k > j PROVE k > m
      <4>1. j \in Nat /\ k \in Nat /\ m \in Nat
        BY <1>0
      <4> QED BY <1>5, <3>1, <4>1
    <3> QED BY <3>1
  <2>2. j \in Above(m) /\ j \notin Above(j)
    BY <1>0, <1>5
  <2>3. <<Above(j), A>> \in StrictSubsetOrdering(S)
    BY <1>4, <2>1, <2>2 DEF StrictSubsetOrdering
  <2> QED BY <1>3, <2>3
<1>6. \A j \in S : m >= j
  BY <1>0, <1>5
<1>7. Max(S) \in S
  BY <1>6 DEF Max
<1>8. {j \in S : j > m} = {}
  BY <1>5
<1>9. Cardinality({j \in S : j > m}) < Batch
  BY <1>8, FS_EmptySet, BatchAssumption
<1> QED BY <1>7, <1>9 DEF Newest

LEMMA SmallerIs ==
  ASSUME NEW m \in Nat, NEW n \in Nat
  PROVE  Min({m, n}) \in 0..n
<1>1. \E x \in {m, n} : \A y \in {m, n} : x <= y
  OBVIOUS
<1>2. Min({m, n}) \in {m, n} /\ \A y \in {m, n} : Min({m, n}) <= y
  BY <1>1 DEF Min
<1> QED BY <1>2

(* FORGE_LLM_BACKEND is heeded by every resolver.                          *)
LEMMA OffFindsNone == env \in Started => (env.off => ~env.cheap /\ ~env.role)
<1> SUFFICES ASSUME env \in Started, env.off PROVE ~env.cheap /\ ~env.role
  OBVIOUS
<1>1. PICK e \in Deployed, t \in BOOLEAN :
        env = [off |-> SwitchedOff(e), cheap |-> ResolveCheap(e) # "nothing",
               role |-> ResolveRole(e) # "nothing", autotune |-> t]
  BY DEF Started
<1>2. SwitchedOff(e)
  BY <1>1
<1>3. ResolveBackend(e, AnyKey(e)) = "nothing"
  BY <1>2 DEF ResolveBackend, SwitchedOff
<1>4. ResolveCheap(e) = "nothing" /\ ResolveRole(e) = "nothing"
  BY <1>2, <1>3 DEF ResolveCheap, ResolveRole
<1> QED BY <1>1, <1>4

-----------------------------------------------------------------------------
(* Copies of what there was are kin of what there was.                     *)
LEMMA CopiesOfCopies ==
  ASSUME BoardsIInv, arrived \subseteq arrived', scorer'["bot"].left \subseteq Ideas,
         \A i \in Ideas : \A r \in Copies(i)' : Honest(r) /\ \E s \in Copies(i) : Kin(r, s),
         \A i \in scorer'["bot"].left \ scorer["bot"].left :
            i \in arrived /\ \A s \in Copies(i) : s.mode = "bot"
  PROVE  Kindred' /\ \A i \in Ideas : \A r \in Copies(i)' : Honest(r)
<1>1. ASSUME NEW i \in Ideas, NEW r \in Copies(i)', NEW s \in Copies(i)' PROVE Kin(r, s)
  BY DEF BoardsIInv, Kindred, Kin
<1>2. ASSUME NEW i \in Ideas \ arrived' PROVE Copies(i)' = {}
  BY DEF BoardsIInv, Kindred
<1>3. ASSUME NEW i \in scorer'["bot"].left
      PROVE  i \in arrived' /\ \A r \in Copies(i)' : r.mode = "bot"
  <2>1. i \in arrived /\ \A s \in Copies(i) : s.mode = "bot"
    BY <1>3 DEF BoardsIInv, Kindred
  <2> QED BY <2>1 DEF Kin
<1> QED BY <1>1, <1>2, <1>3 DEF Kindred

(* The copies that are left when rows come and go and nobody reads.        *)
LEMMA CopiesFewer ==
  ASSUME BoardsIInv, arrived' = arrived,
         \A i \in Ideas : Copies(i)' \subseteq Copies(i),
         \A a \in Axes : scorer'[a].left \subseteq scorer[a].left
  PROVE  Kindred' /\ \A i \in Ideas : \A r \in Copies(i)' : Honest(r)
<1>1. scorer'["bot"].left \subseteq scorer["bot"].left /\ scorer["bot"].left \subseteq Ideas
  BY DEF BoardsIInv, BoardsTypeOK, Axes, Scorer
<1>2. ASSUME NEW i \in Ideas, NEW r \in Copies(i)'
      PROVE  Honest(r) /\ \E s \in Copies(i) : Kin(r, s)
  BY DEF BoardsIInv, Kin
<1>3. scorer'["bot"].left \subseteq Ideas /\ arrived \subseteq arrived'
  BY <1>1
<1>4. \A i \in scorer'["bot"].left \ scorer["bot"].left : i \in arrived /\ \A s \in Copies(i) : s.mode = "bot"
  BY <1>1
<1> QED BY <1>2, <1>3, <1>4, CopiesOfCopies

LEMMA Arrives ==
  ASSUME BoardsIInv, NEW i \in Ideas, i \notin arrived, NEW r \in Row, Honest(r),
         arrived' = arrived \cup {i}, scorer' = scorer,
         \/ row' = [row EXCEPT ![i] = r] /\ draft' = draft
         \/ draft' = [draft EXCEPT ![i] = r] /\ row' = row
  PROVE  Kindred' /\ \A j \in Ideas : \A s \in Copies(j)' : Honest(s)
<1>0. row \in [Ideas -> Row \cup {NoRow}] /\ draft \in [Ideas -> Row \cup {NoRow}]
  BY DEF BoardsIInv, BoardsTypeOK
<1>1. ASSUME NEW j PROVE Readers(j)' = Readers(j)
  BY DEF Readers
<1>2. ASSUME NEW j \in Ideas \ {i} PROVE Copies(j)' = Copies(j)
  BY <1>0, <1>1 DEF Copies
<1>3. Copies(i) = {}
  BY DEF BoardsIInv, Kindred
<1>4. Copies(i)' \subseteq {r}
  BY <1>0, <1>1, <1>3 DEF Copies
<1>5. i \notin scorer["bot"].left
  BY DEF BoardsIInv, Kindred
<1>6. \A j \in scorer["bot"].left : j \in Ideas
  BY DEF BoardsIInv, BoardsTypeOK, Axes, Scorer
<1>7. \A j \in Ideas : \A s, u \in Copies(j)' : Kin(s, u)
  BY <1>2, <1>4 DEF BoardsIInv, Kindred, Kin
<1>8. \A j \in Ideas \ arrived' : Copies(j)' = {}
  BY <1>2 DEF BoardsIInv, Kindred
<1>9. \A j \in scorer'["bot"].left : j \in arrived' /\ \A s \in Copies(j)' : s.mode = "bot"
  BY <1>2, <1>5, <1>6 DEF BoardsIInv, Kindred
<1>10. \A j \in Ideas : \A s \in Copies(j)' : Honest(s)
  BY <1>2, <1>4 DEF BoardsIInv
<1> QED BY <1>7, <1>8, <1>9, <1>10 DEF Kindred

-----------------------------------------------------------------------------
(* One step.                                                               *)
Rest == Kindred /\ \A i \in Ideas : \A r \in Copies(i) : Honest(r)

LEMMA DraftedIs ==
  ASSUME NEW family \in Families, NEW mode \in Modes,
         NEW scores \in SUBSET (Axes \cup {"snipe", "ambition"}), NEW gated \in BOOLEAN
  PROVE  /\ Drafted(family, mode, scores, gated) \in Row
         /\ (mode = "other" \/ gated) /\ ("bot" \in scores => mode = "bot")
              => Honest(Drafted(family, mode, scores, gated))
BY DEF Drafted, Row, Honest

LEMMA ScorersAre ==
  ASSUME BoardsIInv, NEW a \in Axes
  PROVE  /\ scorer[a] \in Scorer /\ scorer[a].left \subseteq Ideas
         /\ scorer[a].pc # "rest" => Max(scorer[a].left) \in scorer[a].left
         /\ scorer[a].pc \in {"ask", "save"} =>
              /\ scorer[a].read \in Row
              /\ scorer[a].read \in Copies(Max(scorer[a].left))
<1>1. scorer[a] \in Scorer /\ scorer[a].left \subseteq Ideas /\ Busy(a)
  BY DEF BoardsIInv, BoardsTypeOK, Scorer
<1>2. scorer[a].pc # "rest" => Max(scorer[a].left) \in scorer[a].left
  BY <1>1, NewestIn DEF Busy
<1>3. scorer[a].pc \in {"ask", "save"} => scorer[a].read \in Row
  BY <1>1 DEF Busy, Scorer
<1> QED BY <1>1, <1>2, <1>3 DEF Copies, Readers, Busy

LEMMA ArriveKeeps ==
  ASSUME BoardsIInv, NEW i \in Ideas, NEW r \in Row, Honest(r), Arrive(i, r)
  PROVE  BoardsIInv'
<1>1. Rest'
  BY Arrives DEF Arrive, Rest
<1>2. BoardsTypeOK'
  BY DEF Arrive, BoardsIInv, BoardsTypeOK, scoreboard
<1>3. \A a \in Axes : Busy(a)'
  BY DEF BoardsIInv, Busy, Arrive
<1> QED BY <1>1, <1>2, <1>3 DEF BoardsIInv, Rest, Arrive, scoreboard, Unlearned

LEMMA ArriveScoredKeeps ==
  ASSUME BoardsIInv, NEW i \in Ideas, NEW family \in Families,
         NEW axis \in {"pki", "cashflow", "fundability", "snipe", "ambition"},
         env.cheap, ArriveScored(i, family, axis)
  PROVE  BoardsIInv'
<1> DEFINE r == Drafted(family, "other", {axis}, FALSE)
<1>1. r \in Row /\ Honest(r)
  BY DraftedIs DEF Modes, Axes
<1>2. CASE Arrive(i, r)
  BY <1>1, <1>2, ArriveKeeps
<1>3. CASE /\ i \notin arrived /\ arrived' = arrived \cup {i}
           /\ draft' = [draft EXCEPT ![i] = r]
           /\ UNCHANGED <<row, scorer, env, scoreboard>>
  <2>1. Rest'
    BY <1>1, <1>3, Arrives DEF Rest
  <2>2. BoardsTypeOK'
    BY <1>1, <1>3 DEF BoardsIInv, BoardsTypeOK, scoreboard
  <2>3. \A a \in Axes : Busy(a)'
    BY <1>3 DEF BoardsIInv, Busy
  <2> QED BY <1>3, <2>1, <2>2, <2>3 DEF BoardsIInv, Rest, scoreboard, Unlearned
<1> QED BY <1>2, <1>3 DEF ArriveScored

(* What a step of nobody's scorer does to the rows.                        *)
LEMMA RowsMove ==
  ASSUME BoardsIInv, BoardsTypeOK', UNCHANGED <<arrived, scorer, env, scoreboard>>,
         \A j \in Ideas : \A r \in {row'[j], draft'[j]} \ {NoRow} :
            Honest(r) /\ \E s \in Copies(j) : Kin(r, s),
         \A j \in Ideas : draft'[j] \in {draft[j], NoRow}
  PROVE  BoardsIInv'
<1>1. ASSUME NEW j PROVE Readers(j)' = Readers(j)
  BY DEF Readers
<1>2. ASSUME NEW j \in Ideas, NEW r \in Copies(j)'
      PROVE  Honest(r) /\ \E s \in Copies(j) : Kin(r, s)
  <2>1. CASE r \in {row'[j], draft'[j]}
    BY <1>2, <2>1 DEF Copies
  <2>2. CASE r \notin {row'[j], draft'[j]}
    <3>1. r \in Copies(j)
      BY <1>1, <1>2, <2>2 DEF Copies
    <3> QED BY <3>1 DEF BoardsIInv, Kin
  <2> QED BY <2>1, <2>2
<1>3. scorer'["bot"].left \subseteq Ideas /\ arrived \subseteq arrived'
  BY ScorersAre DEF Axes
<1>4. \A i \in scorer'["bot"].left \ scorer["bot"].left : i \in arrived /\ \A s \in Copies(i) : s.mode = "bot"
  OBVIOUS
<1>5. Rest'
  BY <1>2, <1>3, <1>4, CopiesOfCopies DEF Rest
<1>6. \A a \in Axes : Busy(a)'
  BY DEF BoardsIInv, Busy
<1> QED BY <1>5, <1>6 DEF BoardsIInv, Rest, scoreboard, Unlearned

LEMMA OwnCopies ==
  ASSUME BoardsIInv, NEW j \in Ideas, NEW r \in {row[j], draft[j]} \ {NoRow}
  PROVE  r \in Copies(j) /\ r \in Row /\ Honest(r) /\ Kin(r, r)
BY DEF Copies, BoardsIInv, BoardsTypeOK, Kin

LEMMA AnswerKeeps ==
  ASSUME BoardsIInv, NEW i \in Ideas, Answer(i) PROVE BoardsIInv'
<1>1. BoardsTypeOK'
  BY OwnCopies DEF Answer, BoardsIInv, BoardsTypeOK, scoreboard
<1>2. ASSUME NEW j \in Ideas
      PROVE  /\ row'[j] \in {row[j], draft[j]} /\ draft'[j] \in {draft[j], NoRow}
  BY DEF Answer, BoardsIInv, BoardsTypeOK
<1>3. ASSUME NEW j \in Ideas, NEW r \in {row'[j], draft'[j]} \ {NoRow}
      PROVE  Honest(r) /\ \E s \in Copies(j) : Kin(r, s)
  BY <1>2, <1>3, OwnCopies
<1> QED BY <1>1, <1>2, <1>3, RowsMove DEF Answer

LEMMA CloseKeeps ==
  ASSUME BoardsIInv, NEW i \in Ideas, Close(i) PROVE BoardsIInv'
<1>0. row[i] \in Row /\ row \in [Ideas -> Row \cup {NoRow}]
  BY DEF Close, BoardsIInv, BoardsTypeOK
<1> DEFINE c == [row[i] EXCEPT !.open = FALSE]
<1>1. c \in Row /\ Kin(c, row[i]) /\ (Honest(row[i]) => Honest(c))
  BY <1>0 DEF Row, Kin, Honest
<1>2. row' = [row EXCEPT ![i] = c] /\ draft' = draft
  BY DEF Close
<1>3. BoardsTypeOK'
  BY <1>0, <1>1, <1>2 DEF Close, BoardsIInv, BoardsTypeOK, scoreboard
<1>4. ASSUME NEW j \in Ideas, NEW r \in {row'[j], draft'[j]} \ {NoRow}
      PROVE  Honest(r) /\ \E s \in Copies(j) : Kin(r, s)
  <2>1. CASE r \in {row[j], draft[j]}
    BY <1>4, <2>1, OwnCopies
  <2>2. CASE r \notin {row[j], draft[j]}
    <3>1. j = i /\ r = c /\ row[i] # NoRow
      BY <1>0, <1>2, <1>4, <2>2 DEF Close
    <3> QED BY <1>1, <3>1, OwnCopies
  <2> QED BY <2>1, <2>2
<1> QED BY <1>2, <1>3, <1>4, RowsMove DEF Close

LEMMA DeleteKeeps ==
  ASSUME BoardsIInv, NEW i \in Ideas, Delete(i) PROVE BoardsIInv'
<1>1. BoardsTypeOK'
  BY DEF Delete, BoardsIInv, BoardsTypeOK, scoreboard
<1>2. ASSUME NEW j \in Ideas PROVE row'[j] \in {row[j], NoRow} /\ draft' = draft
  BY DEF Delete, BoardsIInv, BoardsTypeOK
<1>3. ASSUME NEW j \in Ideas, NEW r \in {row'[j], draft'[j]} \ {NoRow}
      PROVE  Honest(r) /\ \E s \in Copies(j) : Kin(r, s)
  BY <1>2, <1>3, OwnCopies
<1>4. UNCHANGED <<arrived, draft, scorer, env, scoreboard>>
  BY DEF Delete
<1> QED BY <1>1, <1>3, <1>4, RowsMove

-----------------------------------------------------------------------------
LEMMA ScorerMoves ==
  ASSUME BoardsIInv, BoardsTypeOK', NEW a \in Axes, NEW s \in Scorer, Becomes(a, s),
         UNCHANGED <<arrived, draft, env, scoreboard>>,
         s.pc # "rest" => s.left # {},
         s.pc \in {"ask", "save"} =>
           /\ s.read # NoRow /\ Honest(s.read)
           /\ \E c \in Copies(Max(s.left)) : Kin(s.read, c),
         s.pc = "ask" => env.cheap,
         \A j \in Ideas : row'[j] # NoRow =>
            Honest(row'[j]) /\ \E c \in Copies(j) : Kin(row'[j], c),
         a = "bot" => \A j \in s.left \ scorer[a].left :
                        j \in arrived /\ \A c \in Copies(j) : c.mode = "bot"
  PROVE  BoardsIInv'
<1>1. scorer'[a] = s /\ \A b \in Axes \ {a} : scorer'[b] = scorer[b]
  BY DEF Becomes, BoardsIInv, BoardsTypeOK
<1>2. ASSUME NEW j \in Ideas, NEW r \in Copies(j)'
      PROVE  Honest(r) /\ \E c \in Copies(j) : Kin(r, c)
  <2>1. CASE r = row'[j]
    BY <1>2, <2>1 DEF Copies
  <2>2. CASE r = draft'[j]
    BY <1>2, <2>2, OwnCopies DEF Copies
  <2>3. CASE r \notin {row'[j], draft'[j]}
    <3>1. PICK b \in Axes : /\ scorer'[b].pc \in {"ask", "save"}
                           /\ Max(scorer'[b].left) = j /\ r = scorer'[b].read
      BY <1>2, <2>3 DEF Copies, Readers
    <3>2. CASE b = a
      BY <1>1, <3>1, <3>2
    <3>3. CASE b # a
      <4>1. r \in Copies(j)
        BY <1>1, <1>2, <3>1, <3>3 DEF Copies, Readers
      <4> QED BY <4>1 DEF BoardsIInv, Kin
    <3> QED BY <3>2, <3>3
  <2> QED BY <2>1, <2>2, <2>3
<1>3. /\ "bot" \in Axes
      /\ scorer'["bot"].left \subseteq Ideas /\ arrived \subseteq arrived'
  BY DEF Axes, Scorer, BoardsTypeOK
<1>4. \A i \in scorer'["bot"].left \ scorer["bot"].left : i \in arrived /\ \A c \in Copies(i) : c.mode = "bot"
  BY <1>1, <1>3
<1>5. Rest'
  BY <1>2, <1>3, <1>4, CopiesOfCopies DEF Rest
<1>6. \A b \in Axes : Busy(b)'
  BY <1>1 DEF BoardsIInv, Busy
<1> QED BY <1>5, <1>6 DEF BoardsIInv, Rest, scoreboard, Unlearned

LEMMA RowsStay ==
  ASSUME BoardsIInv, row' = row, NEW j \in Ideas, row'[j] # NoRow
  PROVE  Honest(row'[j]) /\ \E c \in Copies(j) : Kin(row'[j], c)
BY OwnCopies

LEMMA ScorerTypes ==
  ASSUME BoardsIInv, NEW a \in Axes, NEW s \in Scorer, Becomes(a, s),
         row' \in [Ideas -> Row \cup {NoRow}], UNCHANGED <<arrived, draft, env, scoreboard>>
  PROVE  BoardsTypeOK'
BY DEF Becomes, BoardsIInv, BoardsTypeOK, scoreboard

LEMMA RestingIs == Resting \in Scorer /\ Resting.pc = "rest" /\ Resting.left = {}
BY DEF Resting, Scorer

LEMMA FireKeeps ==
  ASSUME BoardsIInv, NEW a \in Axes, Fire(a) PROVE BoardsIInv'
<1> DEFINE due == {i \in Ideas : Unscored(a, i)}
           s == [Resting EXCEPT !.pc = "next", !.left = Taken(a, due)]
<1>1. due \in SUBSET Ideas /\ due # {} /\ Becomes(a, s)
  BY DEF Fire
<1>2. Taken(a, due) # {} /\ Taken(a, due) \subseteq due
  BY <1>1, NewestIn DEF Taken, Newest
<1>3. s \in Scorer /\ s.pc = "next" /\ s.left = Taken(a, due)
  BY <1>1, <1>2 DEF Resting, Scorer
<1>4. ASSUME a = "bot", NEW j \in s.left
      PROVE  j \in arrived /\ \A c \in Copies(j) : c.mode = "bot"
  <2>1. j \in Ideas /\ row[j] # NoRow /\ row[j].mode = "bot"
    BY <1>2, <1>3, <1>4 DEF Unscored, InScope, BotScope
  <2>2. row[j] \in Copies(j)
    BY <2>1, OwnCopies
  <2> QED BY <2>1, <2>2 DEF BoardsIInv, Kindred, Kin
<1>5. UNCHANGED <<row, arrived, draft, env, scoreboard>>
  BY DEF Fire
<1>6. BoardsTypeOK'
  BY <1>1, <1>3, <1>5, ScorerTypes DEF BoardsIInv, BoardsTypeOK
<1> HIDE DEF s, due
<1> QED BY <1>1, <1>2, <1>3, <1>4, <1>5, <1>6, RowsStay, ScorerMoves

LEMMA ScoreKeeps ==
  ASSUME BoardsIInv, NEW a \in Axes, Score(a) PROVE BoardsIInv'
<1> DEFINE i == Max(scorer[a].left)
<1>0. /\ scorer[a] \in Scorer /\ scorer[a].left \subseteq Ideas /\ i \in scorer[a].left
      /\ UNCHANGED <<row, arrived, draft, env, scoreboard>>
  BY ScorersAre DEF Score
<1>1. ASSUME NEW s \in Scorer, Becomes(a, s), s.left \subseteq scorer[a].left,
             s.pc # "rest" => s.left # {},
             s.pc \in {"ask", "save"} => row[i] # NoRow /\ s.left = scorer[a].left /\ s.read = row[i],
             s.pc = "ask" => env.cheap
      PROVE  BoardsIInv'
  <2>1. BoardsTypeOK'
    BY <1>0, <1>1, ScorerTypes DEF BoardsIInv, BoardsTypeOK
  <2>2. s.pc \in {"ask", "save"} =>
           /\ s.read # NoRow /\ Honest(s.read)
           /\ \E c \in Copies(Max(s.left)) : Kin(s.read, c)
    BY <1>0, <1>1, OwnCopies
  <2> QED BY <1>0, <1>1, <2>1, <2>2, RowsStay, ScorerMoves
<1>2. CASE row[i] = NoRow
  <2>1. CASE scorer[a].left = {i}
    <3>1. Becomes(a, Resting)
      BY <1>2, <2>1 DEF Score
    <3> QED BY <1>1, <3>1, RestingIs
  <2>2. CASE scorer[a].left # {i}
    <3> DEFINE s == [scorer[a] EXCEPT !.left = @ \ {i}]
    <3>1. Becomes(a, s)
      BY <1>2, <2>2 DEF Score
    <3>2. s \in Scorer /\ s.pc = "next" /\ s.left = scorer[a].left \ {i}
      BY <1>0 DEF Score, Scorer
    <3>3. s.left # {}
      BY <1>0, <2>2, <3>2
    <3> HIDE DEF s
    <3> QED BY <1>1, <3>1, <3>2, <3>3
  <2> QED BY <2>1, <2>2
<1>3. CASE row[i] # NoRow
  <2>1. PICK wants \in Wants(a, i) :
          Becomes(a, [scorer[a] EXCEPT !.pc = IF env.cheap /\ wants THEN "ask" ELSE "save",
                                       !.read = row[i]])
    BY <1>3 DEF Score
  <2>2. PICK way \in {"ask", "save"} :
          /\ way = "ask" => env.cheap
          /\ Becomes(a, [scorer[a] EXCEPT !.pc = way, !.read = row[i]])
    BY <2>1
  <2> DEFINE s == [scorer[a] EXCEPT !.pc = way, !.read = row[i]]
  <2>3. row[i] \in Row
    BY <1>0, <1>3 DEF BoardsIInv, BoardsTypeOK
  <2>4. s \in Scorer /\ s.pc = way /\ s.left = scorer[a].left /\ s.read = row[i]
    BY <1>0, <2>3 DEF Scorer
  <2> HIDE DEF s
  <2> QED BY <1>0, <1>1, <1>3, <2>2, <2>4 DEF s
<1> QED BY <1>2, <1>3

LEMMA SaveKeeps ==
  ASSUME BoardsIInv, NEW a \in Axes, Save(a) PROVE BoardsIInv'
<1> DEFINE i == Max(scorer[a].left)
           read == scorer[a].read
           saved == [read EXCEPT !.scores = @ \cup {a}]
           s == IF scorer[a].left = {i} THEN Resting
                ELSE [pc |-> "next", left |-> scorer[a].left \ {i}, read |-> NoRow]
<1>0. /\ scorer[a].left \subseteq Ideas /\ i \in scorer[a].left
      /\ read \in Row /\ read \in Copies(i)
  BY ScorersAre DEF Save
<1>1. Becomes(a, s) /\ row' = [row EXCEPT ![i] = saved] /\ UNCHANGED <<arrived, draft, env, scoreboard>>
  BY DEF Save
<1>2. s \in Scorer /\ s.pc \in {"rest", "next"} /\ s.left \subseteq scorer[a].left
  BY <1>0 DEF Scorer, Resting
<1>3. s.pc # "rest" => s.left # {}
  BY <1>0 DEF Resting
<1>4. saved \in Row /\ Kin(saved, read) /\ saved.scores = read.scores \cup {a}
      /\ saved.mode = read.mode /\ saved.gated = read.gated
  BY <1>0 DEF Row, Kin, Axes
<1>5. Honest(saved)
  <2>1. Honest(read)
    BY <1>0 DEF BoardsIInv
  <2>2. a = "bot" => read.mode = "bot"
    BY <1>0 DEF BoardsIInv, Kindred
  <2> QED BY <1>4, <2>1, <2>2 DEF Honest
<1> HIDE DEF s, saved
<1>6. row' \in [Ideas -> Row \cup {NoRow}]
  BY <1>1, <1>4 DEF BoardsIInv, BoardsTypeOK
<1>7. ASSUME NEW j \in Ideas, row'[j] # NoRow
      PROVE  Honest(row'[j]) /\ \E c \in Copies(j) : Kin(row'[j], c)
  <2>1. CASE j = i
    <3>1. row'[j] = saved
      BY <1>1, <2>1, <1>7 DEF BoardsIInv, BoardsTypeOK
    <3> QED BY <1>0, <1>4, <1>5, <2>1, <3>1
  <2>2. CASE j # i
    <3>1. row'[j] = row[j]
      BY <1>1, <2>2, <1>7 DEF BoardsIInv, BoardsTypeOK
    <3> QED BY <1>7, <3>1, OwnCopies
  <2> QED BY <2>1, <2>2
<1>8. BoardsTypeOK'
  BY <1>1, <1>2, <1>6, ScorerTypes
<1> QED BY <1>1, <1>2, <1>3, <1>7, <1>8, ScorerMoves

LEMMA RaisesKeeps ==
  ASSUME BoardsIInv, NEW a \in Axes, ScorerRaises(a) PROVE BoardsIInv'
<1>1. Becomes(a, Resting) /\ UNCHANGED <<row, arrived, draft, env, scoreboard>>
  BY DEF ScorerRaises
<1>2. BoardsTypeOK'
  BY <1>1, RestingIs, ScorerTypes DEF BoardsIInv, BoardsTypeOK
<1> QED BY <1>1, <1>2, RestingIs, RowsStay, ScorerMoves

-----------------------------------------------------------------------------
LEMMA BoardsInitEstablishes == BoardsInit => BoardsIInv
<1> SUFFICES ASSUME BoardsInit PROVE BoardsIInv
  OBVIOUS
<1>1. BoardsTypeOK
  <2>1. row \in [Ideas -> Row \cup {NoRow}] /\ draft \in [Ideas -> Row \cup {NoRow}]
    BY DEF BoardsInit
  <2>2. scorer \in [Axes -> Scorer]
    BY RestingIs DEF BoardsInit
  <2>3. signals \in [Ideas -> 0..MinSignals]
    BY MinSignalsAssumption DEF BoardsInit
  <2> QED BY <2>1, <2>2, <2>3 DEF BoardsInit, BoardsTypeOK
<1>2. ASSUME NEW i \in Ideas PROVE Copies(i) = {}
  BY RestingIs DEF BoardsInit, Copies, Readers
<1>3. \A a \in Axes : scorer[a] = Resting
  BY DEF BoardsInit
<1>4. Rest
  BY <1>2, <1>3, RestingIs DEF Rest, Kindred, Axes
<1>5. \A a \in Axes : Busy(a)
  BY <1>3, RestingIs DEF Busy
<1> QED BY <1>1, <1>4, <1>5 DEF BoardsIInv, BoardsInit, Rest, Unlearned

LEMMA BoardsStep == BoardsIInv /\ [BoardsNext]_boardsVars => BoardsIInv'
<1> SUFFICES ASSUME BoardsIInv, [BoardsNext]_boardsVars PROVE BoardsIInv'
  OBVIOUS
<1>1. ASSUME NEW i \in Ideas, NEW f \in Families, Produce(i, f) PROVE BoardsIInv'
  BY <1>1, DraftedIs, ArriveKeeps DEF Produce, Modes
<1>2. ASSUME NEW i \in Ideas, NEW f \in DOMAIN Lab, Churn(i, f) PROVE BoardsIInv'
  <2>1. f \in Families /\ Lab[f] \subseteq {"pki", "cashflow", "fundability", "snipe", "ambition"}
    BY DEF Lab, Families
  <2> QED BY <1>2, <2>1, ArriveScoredKeeps DEF Churn
<1>3. ASSUME NEW i \in Ideas, Snipe(i) \/ Pulse(i) PROVE BoardsIInv'
  BY <1>3, ArriveScoredKeeps DEF Snipe, Pulse, Families
<1>4. ASSUME NEW i \in Ideas, AdmitPki(i) PROVE BoardsIInv'
  <2>1. Drafted("pki", "pki", {"pki"}, TRUE) \in Row /\ Honest(Drafted("pki", "pki", {"pki"}, TRUE))
    BY DEF Drafted, Row, Honest, Families, Modes, Axes
  <2> QED BY <1>4, <2>1, ArriveKeeps DEF AdmitPki
<1>5. ASSUME NEW i \in Ideas, AdmitBot(i) PROVE BoardsIInv'
  <2>1. Drafted("money", "bot", {"bot"}, TRUE) \in Row /\ Honest(Drafted("money", "bot", {"bot"}, TRUE))
    BY DEF Drafted, Row, Honest, Families, Modes, Axes
  <2> QED BY <1>5, <2>1, ArriveKeeps DEF AdmitBot
<1>6. ASSUME NEW a \in Axes, Fire(a) \/ Score(a) \/ Save(a) \/ ScorerRaises(a) PROVE BoardsIInv'
  BY <1>6, FireKeeps, ScoreKeeps, SaveKeeps, RaisesKeeps
<1>7. ASSUME UNCHANGED <<row, arrived, draft, scorer, env>>, BoardsTypeOK', Unlearned'
      PROVE  BoardsIInv'
  <2>1. ASSUME NEW i PROVE Copies(i)' = Copies(i)
    BY <1>7 DEF Copies, Readers
  <2>2. Kindred'
    BY <1>7, <2>1 DEF BoardsIInv, Kindred
  <2>3. \A a \in Axes : Busy(a)'
    BY <1>7 DEF BoardsIInv, Busy
  <2> QED BY <1>7, <2>1, <2>2, <2>3 DEF BoardsIInv
<1>8. CASE Capture
  <2>1. signals' \in [Ideas -> 0..MinSignals]
    <3>1. ASSUME NEW i \in Ideas PROVE Min({signals[i] + 1, MinSignals}) \in 0..MinSignals
      BY SmallerIs, MinSignalsAssumption DEF BoardsIInv, BoardsTypeOK
    <3>2. PICK some : signals' = [i \in Ideas |-> IF i \in some THEN Min({signals[i] + 1, MinSignals})
                                                 ELSE signals[i]]
      BY <1>8 DEF Capture
    <3> QED BY <3>1, <3>2 DEF BoardsIInv, BoardsTypeOK
  <2>2. BoardsTypeOK'
    BY <1>8, <2>1 DEF Capture, BoardsIInv, BoardsTypeOK
  <2> QED BY <1>7, <1>8, <2>2 DEF Capture, BoardsIInv, Unlearned
<1>9. CASE Tune
  <2>1. stored' \in BOOLEAN /\ nudged' \in BOOLEAN /\ env.autotune
    BY <1>9 DEF Tune, BoardsIInv, BoardsTypeOK
  <2>2. BoardsTypeOK'
    BY <1>9, <2>1 DEF Tune, BoardsIInv, BoardsTypeOK
  <2> QED BY <1>7, <1>9, <2>1, <2>2 DEF Tune, Unlearned
<1>10. CASE Restart
  <2>1. env' \in Started /\ env'.cheap = env.cheap
    <3>1. PICK t \in BOOLEAN : env' = [env EXCEPT !.autotune = t]
      BY <1>10 DEF Restart
    <3> QED BY <3>1 DEF BoardsIInv, BoardsTypeOK, Started
  <2>2. BoardsTypeOK'
    BY <1>10, <2>1, RestingIs DEF Restart, BoardsIInv, BoardsTypeOK
  <2>3. \A a \in Axes : scorer'[a] = Resting
    BY <1>10 DEF Restart
  <2>4. ASSUME NEW i \in Ideas PROVE Copies(i)' \subseteq Copies(i)
    BY <1>10, <2>3, RestingIs DEF Restart, Copies, Readers
  <2>5. \A a \in Axes : scorer'[a].left \subseteq scorer[a].left
    BY <2>3, RestingIs
  <2>6. Rest'
    BY <1>10, <2>4, <2>5, CopiesFewer DEF Restart, Rest
  <2>7. \A a \in Axes : Busy(a)'
    BY <2>3, RestingIs DEF Busy
  <2> QED BY <1>10, <2>2, <2>6, <2>7 DEF Restart, BoardsIInv, Rest, Unlearned
<1>11. CASE UNCHANGED boardsVars
  <2>1. BoardsTypeOK' /\ Unlearned'
    BY <1>11 DEF boardsVars, BoardsIInv, BoardsTypeOK, Unlearned
  <2> QED BY <1>7, <1>11, <2>1 DEF boardsVars
<1> QED BY <1>1, <1>2, <1>3, <1>4, <1>5, <1>6, <1>8, <1>9, <1>10, <1>11,
           AnswerKeeps, CloseKeeps, DeleteKeeps DEF BoardsNext

LEMMA BoardsInvariant == BoardsSpec => []BoardsIInv
BY BoardsInitEstablishes, BoardsStep, PTL DEF BoardsSpec

(* The rows, the scorers' copies and the scoreboard stay in their ranges.  *)
THEOREM BoardsTypeCorrect == BoardsSpec => []BoardsTypeOK
<1>1. BoardsIInv => BoardsTypeOK
  BY DEF BoardsIInv
<1> QED BY <1>1, BoardsInvariant, PTL

(* Whatever the back-fills write and restore: what the two boards show     *)
(* their probes have reviewed.                                             *)
THEOREM BoardsStayGated == FairSpec => []BoardsGated
<1>1. BoardsIInv => BoardsGated
  <2> SUFFICES ASSUME BoardsIInv, NEW i \in Ideas, row[i] # NoRow,
                      OnPkiBoard(row[i]) \/ OnMoneyBoard(row[i])
               PROVE  row[i].gated
    BY DEF BoardsGated
  <2>1. Honest(row[i])
    BY OwnCopies
  <2> QED BY <2>1 DEF Honest, OnPkiBoard, OnMoneyBoard
<1> QED BY <1>1, BoardsInvariant, PTL DEF FairSpec

(* The kill switch holds in every environment, and with the auto-tune off  *)
(* nothing is learned.                                                     *)
THEOREM SwitchesAreHeeded == FairSpec => []SwitchesHold
<1>1. BoardsIInv => SwitchesHold
  BY OffFindsNone DEF BoardsIInv, BoardsTypeOK, Busy, SwitchesHold, Unlearned
<1> QED BY <1>1, BoardsInvariant, PTL DEF FairSpec
=============================================================================
