--------------------------- MODULE BotProbeProofs ---------------------------
(***************************************************************************)
(* The money-bot probe for any interval and any number of operators: its   *)
(* cadence calls the model at most once an interval, and the progress tail *)
(* never claims a run that is not there.  Its runs with the review of      *)
(* their drafts are such runs, and their cards are honest and balanced.    *)
(***************************************************************************)
EXTENDS BotReview, FiniteSetTheorems, TLAPS

(* As for the PKI probe.  Rows of the operators only make age smaller.     *)
Gated ==
  /\ pc[Cadence] \in {"list", "fetch", "pick", "generate"}
       => burn = Interval \/ excused
  /\ pc[Cadence] = "idle" => age <= burn \/ excused

(* SpinnerStops is not inductive: a run that records its crash is still in *)
(* flight when its narration has ended.                                    *)
Narrating == running => \E t \in Runs : pc[t] \notin {"idle", "crash"}

IInv == TypeOK /\ Gated /\ Narrating

-----------------------------------------------------------------------------
LEMMA CadenceRuns == Cadence \in Runs
BY DEF Runs

LEMMA OlderKeeps ==
  ASSUME NEW a \in Ages, NEW b \in Ages
  PROVE  /\ Older(a) \in Ages
         /\ a <= b => Older(a) <= Older(b)
         /\ a = Interval => Older(a) = Interval
BY TimesAssumption DEF Ages, Older

LEMMA InitEstablishes == Init => IInv
<1> SUFFICES ASSUME Init PROVE IInv
  OBVIOUS
<1>1. age \in Ages /\ nap \in Nat /\ burn \in Ages /\ age <= burn
  BY TimesAssumption DEF Init, LoopInit, SleepInit, Ages
<1>2. pc \in [Runs -> {"idle"} \cup Steps] /\ pc[Cadence] = "idle"
  BY CadenceRuns DEF Init
<1>3. running = FALSE /\ excused = FALSE
  BY DEF Init
<1> QED BY <1>1, <1>2, <1>3 DEF IInv, TypeOK, Gated, Narrating

-----------------------------------------------------------------------------
(* A run goes from one await to another and nothing else happens, unless   *)
(* it takes the cadence to a label before the model call from one after.   *)
LEMMA MoveKeeps ==
  ASSUME IInv, NEW t \in Runs, NEW from \in Steps \ {"crash"},
         NEW to \in Steps \ {"crash"}, Step(t, from, to),
         to \in {"list", "fetch", "pick", "generate"}
           => from \in {"list", "fetch", "pick", "generate"}
  PROVE  IInv'
<1>1. pc' = [pc EXCEPT ![t] = to] /\ pc[t] = from
  BY DEF Step
<1>2. UNCHANGED <<age, nap, running, burn, excused>>
  BY DEF Step, loopVars
<1>3. TypeOK'
  BY <1>1, <1>2 DEF IInv, TypeOK
<1>4. Gated'
  BY <1>1, <1>2, CadenceRuns DEF IInv, TypeOK, Gated, Steps, Called
<1>5. Narrating'
  BY <1>1, <1>2 DEF IInv, TypeOK, Narrating, Steps, Called
<1> QED BY <1>3, <1>4, <1>5 DEF IInv

(* A run starts: the cadence only when the newest row is an interval old.  *)
LEMMA StartKeeps ==
  ASSUME IInv, NEW t \in Runs, pc[t] = "idle", t = Cadence => Overdue,
         pc' = [pc EXCEPT ![t] = "list"], StartRun,
         UNCHANGED <<loopVars, burn, excused>>
  PROVE  IInv'
<1>1. TypeOK'
  BY DEF IInv, TypeOK, StartRun, loopVars, Steps
<1>2. Gated'
  <2>1. CASE t = Cadence
    <3>1. age = Interval BY <2>1 DEF Overdue
    <3>2. burn = Interval \/ excused
      BY <2>1, <3>1, TimesAssumption DEF IInv, TypeOK, Gated, Ages
    <3>3. pc'[Cadence] = "list"
      BY <2>1, CadenceRuns DEF IInv, TypeOK
    <3> QED BY <3>2, <3>3 DEF Gated
  <2>2. CASE t # Cadence
    <3>1. pc'[Cadence] = pc[Cadence] BY <2>2, CadenceRuns DEF IInv, TypeOK
    <3> QED BY <3>1 DEF IInv, Gated, loopVars
  <2> QED BY <2>1, <2>2
<1>3. Narrating'
  <2>1. pc'[t] = "list" BY DEF IInv, TypeOK
  <2> QED BY <2>1 DEF Narrating
<1> QED BY <1>1, <1>2, <1>3 DEF IInv

(* A run returns.  If it is the cadence's, it leaves a fresh row or is     *)
(* excused; if it ends the narration or was not narrating, the rest of     *)
(* the narration stands.                                                   *)
LEMMA ReturnKeeps ==
  ASSUME IInv, NEW t \in Runs, pc[t] \in {"record", "crash"}, Return(t),
         UNCHANGED burn, age' \in {0, age},
         excused' \in BOOLEAN,
         t = Cadence => age' = 0 \/ excused',
         t # Cadence => excused' = excused,
         running' = FALSE \/ (running' = running /\ pc[t] = "crash")
  PROVE  IInv'
<1>1. pc' = [pc EXCEPT ![t] = "idle"]
  BY DEF Return
<1>2. nap' \in Nat
  BY TimesAssumption DEF Return, SleepAgain, IInv, TypeOK
<1>3. age' \in Ages /\ age' <= age
  BY TimesAssumption DEF IInv, TypeOK, Ages
<1>4. TypeOK'
  <2>1. pc' \in [Runs -> {"idle"} \cup Steps]
    BY <1>1 DEF IInv, TypeOK
  <2>2. running' \in BOOLEAN
    BY DEF IInv, TypeOK
  <2>3. burn' \in Ages
    BY DEF IInv, TypeOK
  <2> QED BY <1>2, <1>3, <2>1, <2>2, <2>3 DEF TypeOK
<1>5. Gated'
  <2>1. CASE t = Cadence
    <3>1. pc'[Cadence] = "idle" BY <1>1, <2>1 DEF IInv, TypeOK
    <3>2. age' = 0 => age' <= burn'
      BY TimesAssumption DEF IInv, TypeOK, Ages
    <3> QED BY <2>1, <3>1, <3>2 DEF Gated
  <2>2. CASE t # Cadence
    <3>1. pc'[Cadence] = pc[Cadence] BY <1>1, <2>2, CadenceRuns DEF IInv, TypeOK
    <3>2. age <= burn => age' <= burn'
      BY <1>3, TimesAssumption DEF IInv, TypeOK, Ages
    <3> QED BY <2>2, <3>1, <3>2 DEF IInv, Gated
  <2> QED BY <2>1, <2>2
<1>6. Narrating'
  BY <1>1 DEF IInv, TypeOK, Narrating
<1> QED BY <1>4, <1>5, <1>6 DEF IInv

-----------------------------------------------------------------------------
LEMMA RunKeeps ==
  ASSUME IInv, NEW t \in Runs, Continue(t)
  PROVE  IInv'
<1>1. CASE ListProbes(t)
  BY <1>1, MoveKeeps DEF ListProbes, Steps, Called
<1>2. CASE PickProgram(t)
  BY <1>2, MoveKeeps DEF PickProgram, Steps, Called
<1>3. CASE NoProgram(t)
  BY <1>3, MoveKeeps DEF NoProgram, Steps, Called
<1>4. CASE ReadLessons(t)
  BY <1>4, MoveKeeps DEF ReadLessons, Steps, Called
<1>5. CASE CallModel(t)
  <2>1. pc' = [pc EXCEPT ![t] = "generating"] /\ UNCHANGED <<age, nap, running>>
    BY <1>5 DEF CallModel, loopVars
  <2>2. burn' \in Ages
    BY <1>5, TimesAssumption DEF CallModel, IInv, TypeOK, Ages
  <2>3. excused' \in BOOLEAN
    BY <1>5 DEF CallModel, IInv, TypeOK
  <2>4. TypeOK'
    BY <2>1, <2>2, <2>3 DEF IInv, TypeOK, Steps, Called
  <2>5. Gated'
    <3>1. CASE t = Cadence
      <4>1. pc'[Cadence] = "generating"
        BY <2>1, <3>1, CadenceRuns DEF IInv, TypeOK
      <4> QED BY <4>1 DEF Gated
    <3>2. CASE t # Cadence
      <4>1. pc'[Cadence] = pc[Cadence]
        BY <2>1, <3>2, CadenceRuns DEF IInv, TypeOK
      <4>2. burn' = burn /\ excused' = excused BY <1>5, <3>2 DEF CallModel
      <4> QED BY <2>1, <4>1, <4>2 DEF IInv, Gated
    <3> QED BY <3>1, <3>2
  <2>6. Narrating'
    BY <2>1 DEF IInv, TypeOK, Narrating
  <2> QED BY <2>4, <2>5, <2>6 DEF IInv
<1>6. CASE NoDraft(t)
  BY <1>6, MoveKeeps DEF NoDraft, Steps, Called
<1>7. CASE Draft(t)
  BY <1>7, MoveKeeps DEF Draft, Steps, Called
<1>8. CASE Stress(t)
  BY <1>8, MoveKeeps DEF Stress, Steps, Called
<1>9. CASE Refuse(t)
  BY <1>9, MoveKeeps DEF Refuse, Steps, Called
<1>10. CASE Publish(t)
  BY <1>10, MoveKeeps DEF Publish, Steps, Called
<1>11. CASE Save(t)
  BY <1>11, MoveKeeps DEF Save, Steps, Called
<1>12. CASE Record(t)
  <2>1. excused' \in BOOLEAN /\ (t # Cadence => excused' = excused)
    BY <1>12 DEF Record, IInv, TypeOK
  <2> QED BY <1>12, <2>1, ReturnKeeps DEF Record, Stamp, FinishRun
<1>13. CASE Raise(t)
  <2>1. pc' = [pc EXCEPT ![t] = "crash"] /\ UNCHANGED <<age, nap, burn, excused>>
    BY <1>13 DEF Raise, loopVars
  <2>2. running' = FALSE BY <1>13 DEF Raise, FinishRun
  <2>3. TypeOK' BY <2>1, <2>2 DEF IInv, TypeOK, Steps
  <2>4. Gated' BY <2>1, CadenceRuns DEF IInv, TypeOK, Gated
  <2>5. Narrating' BY <2>2 DEF Narrating
  <2> QED BY <2>3, <2>4, <2>5 DEF IInv
<1>14. CASE RecordCrash(t)
  <2>1. excused' \in BOOLEAN /\ (t # Cadence => excused' = excused)
    BY <1>14 DEF RecordCrash, IInv, TypeOK
  <2> QED BY <1>14, <2>1, ReturnKeeps DEF RecordCrash, Stamp
<1>15. CASE RecordCrashFails(t)
  <2>1. excused' \in BOOLEAN /\ (t # Cadence => excused' = excused)
    BY <1>15 DEF RecordCrashFails, IInv, TypeOK
  <2> QED BY <1>15, <2>1, ReturnKeeps DEF RecordCrashFails
<1> QED
  BY <1>1, <1>2, <1>3, <1>4, <1>5, <1>6, <1>7, <1>8, <1>9, <1>10, <1>11,
     <1>12, <1>13, <1>14, <1>15 DEF Continue

LEMMA StepKeeps == IInv /\ [Next]_vars => IInv'
<1> SUFFICES ASSUME IInv, [Next]_vars PROVE IInv'
  OBVIOUS
<1>1. CASE SkipTick
  BY <1>1, TimesAssumption
     DEF SkipTick, SleepAgain, IInv, TypeOK, Gated, Narrating
<1>2. CASE FireTick
  BY <1>2, StartKeeps, CadenceRuns DEF FireTick
<1>3. ASSUME NEW t \in Clicks, ChurnNow(t) PROVE IInv'
  BY <1>3, StartKeeps, ClicksAssumption DEF ChurnNow, Runs
<1>4. ASSUME NEW t \in Runs, Continue(t) PROVE IInv'
  BY <1>4, RunKeeps
<1>5. CASE Reload
  <2>1. UNCHANGED <<age, burn>> /\ nap' \in Nat
    BY <1>5, TimesAssumption DEF Reload, Restart, StartAfresh
  <2>2. pc' = [t \in Runs |-> "idle"] /\ running' = FALSE
    BY <1>5 DEF Reload, FinishRun
  <2>3. excused' \in BOOLEAN
    BY <1>5 DEF Reload, IInv, TypeOK
  <2>4. TypeOK' BY <2>1, <2>2, <2>3 DEF IInv, TypeOK
  <2>5. age <= burn \/ excused'
    <3>1. CASE pc[Cadence] \in Called \cup {"crash"}
      BY <1>5, <3>1 DEF Reload
    <3>2. CASE pc[Cadence] = "idle"
      BY <1>5, <3>2 DEF Reload, IInv, Gated
    <3>3. CASE pc[Cadence] \in {"list", "fetch", "pick", "generate"}
      <4>1. burn = Interval \/ excused BY <3>3 DEF IInv, Gated
      <4>2. excused => excused' BY <1>5 DEF Reload
      <4>3. burn = Interval => age <= burn
        BY TimesAssumption DEF IInv, TypeOK, Ages
      <4> QED BY <4>1, <4>2, <4>3
    <3> QED BY <3>1, <3>2, <3>3, CadenceRuns DEF IInv, TypeOK, Steps
  <2>6. Gated' BY <2>1, <2>2, <2>5, CadenceRuns DEF Gated
  <2> QED BY <2>2, <2>4, <2>6 DEF IInv, Narrating
<1>6. CASE Pass
  <2>1. age' \in Ages /\ burn' \in Ages /\ nap' \in Nat
    BY <1>6, OlderKeeps DEF Pass, Elapse, Doze, IInv, TypeOK
  <2>2. Gated'
    BY <1>6, OlderKeeps DEF Pass, Elapse, Doze, IInv, TypeOK, Gated
  <2> QED BY <1>6, <2>1, <2>2 DEF Pass, IInv, TypeOK, Narrating
<1>7. CASE UNCHANGED vars
  BY <1>7 DEF vars, loopVars, IInv, TypeOK, Gated, Narrating
<1> QED
  BY <1>1, <1>2, <1>3, <1>4, <1>5, <1>6, <1>7 DEF Next

-----------------------------------------------------------------------------
(* Every variable stays in its range, whatever the times and operators.    *)
THEOREM TypeCorrect == Spec => []TypeOK
<1>1. IInv => TypeOK BY DEF IInv
<1> QED BY <1>1, InitEstablishes, StepKeeps, PTL DEF Spec

(* The progress tail never spins for nobody.                               *)
THEOREM SpinnerAlwaysStops == Spec => []SpinnerStops
<1>1. IInv => SpinnerStops BY DEF IInv, Narrating, SpinnerStops, InFlight
<1> QED BY <1>1, InitEstablishes, StepKeeps, PTL DEF Spec

(* The cadence spaces its calls, however often operators click.            *)
THEOREM CallsAreSpaced == Spec => NoBurnLoop
<1>1. IInv /\ [Next]_vars => [CallModel(Cadence) => burn = Interval \/ excused]_vars
  BY DEF IInv, Gated, CallModel
<1> QED BY <1>1, InitEstablishes, StepKeeps, PTL DEF Spec, NoBurnLoop

-----------------------------------------------------------------------------
(* What a run does with its draft is something the probe alone leaves      *)
(* open: one step of the run with its review is one of the probe, or none. *)
LEMMA RunIsContinue ==
  ASSUME NEW t \in Runs, ReviewedRun(t)
  PROVE  Continue(t) \/ UNCHANGED vars
<1>1. CASE (ListProbes(t) \/ NoProgram(t) \/ ReadLessons(t) \/ CallModel(t) \/ NoDraft(t)) /\ Keep
  BY <1>1 DEF Continue
<1>2. CASE \E routed \in Categories : PickCategory(t, routed)
  BY <1>2 DEF PickCategory, Continue
<1>3. CASE \E legal \in BOOLEAN : DraftToReview(t, legal)
  BY <1>3 DEF DraftToReview, Continue
<1>4. CASE Review(t)
  <2>1. ASSUME NEW p \in Panels, Panel(t, p) PROVE Continue(t) \/ UNCHANGED vars
    BY <2>1 DEF Panel, Concluded, Continue
  <2>2. CASE RewriteSilent(t)
    BY <2>2 DEF RewriteSilent, Concluded, Continue
  <2>3. CASE RewriteUnusable(t)
    BY <2>3 DEF RewriteUnusable, Concluded, Continue
  <2>4. CASE Rewrite(t)
    BY <2>4 DEF Rewrite
  <2>5. ASSUME NEW s \in Severities, NEW legal \in BOOLEAN, Recheck(t, s, legal)
        PROVE  Continue(t)
    BY <2>5 DEF Recheck, Concluded, Continue
  <2>6. CASE Gate(t)
    BY <2>6 DEF Gate, RefuseIllegal, PublishCard, Continue
  <2>7. ASSUME NEW kept \in BOOLEAN, Store(t, kept) PROVE Continue(t)
    BY <2>7 DEF Store, Continue
  <2> QED BY <1>4, <2>1, <2>2, <2>3, <2>4, <2>5, <2>6, <2>7 DEF Review
<1>5. CASE (Record(t) \/ Raise(t) \/ RecordCrash(t) \/ RecordCrashFails(t)) /\ Forget(t)
  BY <1>5 DEF Continue
<1> QED BY <1>1, <1>2, <1>3, <1>4, <1>5 DEF ReviewedRun

(* Runs that review their drafts are runs of the probe, so what is proved  *)
(* of the probe holds of them.                                             *)
THEOREM ReviewIsProbe == ReviewSpec => Spec
<1>1. ReviewInit => Init
  BY DEF ReviewInit
<1>2. ReviewNext => Next \/ UNCHANGED vars
  <2>1. ASSUME NEW t \in Runs, ReviewedRun(t) PROVE Next \/ UNCHANGED vars
    BY <2>1, RunIsContinue DEF Next
  <2>2. ASSUME NEW c \in Categories, Remove(c) PROVE UNCHANGED vars
    BY <2>2 DEF Remove
  <2> QED BY <2>1, <2>2 DEF ReviewNext, Next
<1>3. [ReviewNext]_allVars => [Next]_vars
  BY <1>2 DEF allVars
<1> QED BY <1>1, <1>3, PTL DEF ReviewSpec, Spec

-----------------------------------------------------------------------------
(* What a run may hold when it stands at a label.  CardsAreHonest speaks   *)
(* of the stored card alone; it comes true one step at a time on the way:  *)
(* nothing touches the draft before a rewrite replaces it, the panel       *)
(* leaves no stale objection on a vetted text, the gate lets nothing       *)
(* illegitimate by and takes "vetted" from what missed the bar.            *)
Texts == {"none", "draft", "rewrite"}
Work == [category : Categories \cup {"none"},
         round : {"none", "panel", "rewrite", "recheck"},
         text : Texts, legal : BOOLEAN, objection : Texts,
         verdict : {"none", "vetted", "review-incomplete", "flagged", "below-bar"},
         clears : BOOLEAN, stored : BOOLEAN]

Fitting(w) == w.verdict = "vetted" => w.objection \in {"none", w.text}
Gained(w) == w.legal /\ (w.verdict = "vetted" => w.clears) /\ Fitting(w)

Honest(label, w) ==
  /\ label = "stress" => w.text = "draft"
  /\ label = "score" => Fitting(w)
  /\ label = "save" => Gained(w)
  /\ w.stored => label = "record" /\ Gained(w)

ReviewTypeOK ==
  /\ pc \in [Runs -> {"idle"} \cup Steps]
  /\ work \in [Runs -> Work]
  /\ count \in [Categories -> Nat]
  /\ removed \in Nat

HonestRuns == \A t \in Runs : Honest(pc[t], work[t])

(* A card in the making: its run picked the category c and has not yet     *)
(* given it up or stored it.                                               *)
Making == {"pick", "generate", "generating", "stress", "score", "save"}
Booked(c) == {t \in Runs : pc[t] \in Making /\ work[t].category = c}

(* CategoriesBalanced is not inductive: a run stores into a category that  *)
(* others have filled since it picked it.  What it is about to add is      *)
(* counted from the start.                                                 *)
Bound == 1 + Cardinality(Runs) + removed
BookedWithin ==
  /\ \E c \in Categories : count[c] = 0
  /\ \A c \in Categories : count[c] + Cardinality(Booked(c)) <= Bound

ReviewInv == ReviewTypeOK /\ HonestRuns /\ BookedWithin

-----------------------------------------------------------------------------
(* A step of a run, as far as the cards go: it takes the run to a label    *)
(* and leaves it with what fits there.  Picking books a card in a category *)
(* that is not far ahead, storing turns the booking into a card, and       *)
(* nothing else makes a booking.                                           *)
Quiet(t, label, w) ==
  /\ UNCHANGED <<count, removed>>
  /\ label \in Making => pc[t] \in Making /\ w.category = work[t].category
Picks(label, w) ==
  /\ UNCHANGED <<count, removed>>
  /\ w.category \in Categories
  /\ count[w.category] <= 1
Stores(t, label) ==
  /\ UNCHANGED removed
  /\ pc[t] = "save" /\ label = "record"
  /\ Level([count EXCEPT ![work[t].category] = @ + 1])

Moves(t, label, w) ==
  /\ pc' = [pc EXCEPT ![t] = label]
  /\ work' = [work EXCEPT ![t] = w]
  /\ Honest(label, w)
  /\ Quiet(t, label, w) \/ Picks(label, w) \/ Stores(t, label)

Labels == {"idle"} \cup Steps
RunStep(t) == \E label \in Labels, w \in Work : Moves(t, label, w)

(* Nothing of the draft changes between most awaits.                       *)
LEMMA KeepMoves ==
  ASSUME ReviewInv, NEW t \in Runs, NEW from \in Labels, NEW to \in Labels,
         Step(t, from, to), UNCHANGED <<work, count, removed>>,
         from \notin {"save", "record"}, to \notin {"stress", "score", "save"},
         to \in Making => from \in Making
  PROVE  RunStep(t)
<1>1. pc' = [pc EXCEPT ![t] = to] /\ pc[t] = from
  BY DEF Step
<1>2. work[t] \in Work /\ work' = [work EXCEPT ![t] = work[t]]
  BY DEF ReviewInv, ReviewTypeOK
<1>3. ~work[t].stored
  BY <1>1 DEF ReviewInv, HonestRuns, Honest
<1>4. Honest(to, work[t])
  BY <1>3 DEF Honest
<1>5. Quiet(t, to, work[t])
  BY <1>1 DEF Quiet
<1> QED BY <1>1, <1>2, <1>4, <1>5 DEF RunStep, Moves

(* The draft is forgotten when the run ends or dies.                       *)
LEMMA ForgetMoves ==
  ASSUME ReviewInv, NEW t \in Runs, NEW to \in {"idle", "crash"},
         pc' = [pc EXCEPT ![t] = to], Forget(t)
  PROVE  RunStep(t)
<1>1. NoWork \in Work /\ ~NoWork.stored
  BY DEF NoWork, Work, Texts
<1>2. work' = [work EXCEPT ![t] = NoWork] /\ UNCHANGED <<count, removed>>
  BY DEF Forget, Set
<1>3. Honest(to, NoWork)
  BY <1>1 DEF Honest
<1>4. Quiet(t, to, NoWork)
  BY <1>2 DEF Quiet, Making
<1>5. to \in Labels
  BY DEF Labels, Steps
<1> QED BY <1>1, <1>2, <1>3, <1>4, <1>5 DEF RunStep, Moves

(* The panel is done with a text.                                          *)
LEMMA ConcludedMoves ==
  ASSUME ReviewInv, NEW t \in Runs, NEW w \in Work, Concluded(t, w),
         UNCHANGED <<count, removed>>, Fitting(w),
         w.category = work[t].category, w.stored = work[t].stored
  PROVE  RunStep(t)
<1> DEFINE done == [w EXCEPT !.round = "none"]
<1>1. pc' = [pc EXCEPT ![t] = "score"] /\ pc[t] = "stress"
  BY DEF Concluded, Stress, Step
<1>2. work' = [work EXCEPT ![t] = done]
  BY DEF Concluded, Set
<1>3. done \in Work
  BY DEF Work
<1>4. /\ done.text = w.text /\ done.objection = w.objection
      /\ done.verdict = w.verdict /\ done.stored = w.stored
      /\ done.category = w.category
  BY DEF Work
<1>5. ~done.stored
  BY <1>1, <1>4 DEF ReviewInv, HonestRuns, Honest
<1>6. Honest("score", done)
  BY <1>4, <1>5 DEF Honest, Fitting
<1>7. Quiet(t, "score", done)
  BY <1>1, <1>4 DEF Quiet, Making
<1>8. "score" \in Labels
  BY DEF Labels, Steps, Called
<1> QED BY <1>1, <1>2, <1>3, <1>6, <1>7, <1>8 DEF RunStep, Moves
LEMMA PickMoves ==
  ASSUME ReviewInv, NEW t \in Runs, NEW routed \in Categories,
         PickCategory(t, routed)
  PROVE  RunStep(t)
<1>1. pc' = [pc EXCEPT ![t] = "pick"] /\ pc[t] = "fetch"
  BY DEF PickCategory, PickProgram, Step
<1>2. PICK c \in Categories :
        /\ IF count[routed] <= 1 THEN c = routed ELSE count[c] = 0
        /\ Set(t, [work[t] EXCEPT !.category = c])
  BY DEF PickCategory
<1> DEFINE w == [work[t] EXCEPT !.category = c]
<1>3. work[t] \in Work BY DEF ReviewInv, ReviewTypeOK
<1>4. w \in Work /\ w.category = c /\ w.stored = work[t].stored
  BY <1>3 DEF Work
<1>5. Honest("pick", w)
  BY <1>1, <1>4 DEF ReviewInv, HonestRuns, Honest
<1>6. count[c] <= 1 BY <1>2
<1>7. UNCHANGED <<count, removed>> BY DEF PickCategory
<1>8. Picks("pick", w) BY <1>4, <1>6, <1>7 DEF Picks
<1>9. work' = [work EXCEPT ![t] = w] BY <1>2 DEF Set
<1>10. "pick" \in Labels BY DEF Labels, Steps
<1> QED BY <1>1, <1>4, <1>5, <1>8, <1>9, <1>10 DEF RunStep, Moves

LEMMA DraftMoves ==
  ASSUME ReviewInv, NEW t \in Runs, NEW legal \in BOOLEAN,
         DraftToReview(t, legal)
  PROVE  RunStep(t)
<1> DEFINE w == [work[t] EXCEPT !.round = "panel", !.text = "draft", !.legal = legal]
<1>1. pc' = [pc EXCEPT ![t] = "stress"] /\ pc[t] = "generating"
  BY DEF DraftToReview, Draft, Step
<1>2. work' = [work EXCEPT ![t] = w] BY DEF DraftToReview, Set
<1>3. work[t] \in Work BY DEF ReviewInv, ReviewTypeOK
<1>4. /\ w \in Work /\ w.category = work[t].category
      /\ w.stored = work[t].stored /\ w.text = "draft"
  BY <1>3 DEF Work, Texts
<1>5. Honest("stress", w)
  BY <1>1, <1>4 DEF ReviewInv, HonestRuns, Honest
<1>6. UNCHANGED <<count, removed>> BY DEF DraftToReview
<1>7. Quiet(t, "stress", w)
  BY <1>1, <1>4, <1>6 DEF Quiet, Making
<1>8. "stress" \in Labels BY DEF Labels, Steps, Called
<1> QED BY <1>1, <1>2, <1>4, <1>5, <1>7, <1>8 DEF RunStep, Moves

LEMMA PanelMoves ==
  ASSUME ReviewInv, NEW t \in Runs, NEW p \in Panels, Panel(t, p)
  PROVE  RunStep(t)
<1>1. work[t] \in Work /\ UNCHANGED <<count, removed>>
  BY DEF ReviewInv, ReviewTypeOK, Panel
<1>2. CASE p.killed
  <2> DEFINE w == [work[t] EXCEPT !.round = "rewrite"]
  <2>1. pc[t] = "stress" /\ UNCHANGED vars /\ work' = [work EXCEPT ![t] = w]
    BY <1>2 DEF Panel, Set
  <2>2. pc' = [pc EXCEPT ![t] = "stress"]
    BY <2>1 DEF vars, ReviewInv, ReviewTypeOK
  <2>3. /\ w \in Work /\ w.category = work[t].category
        /\ w.stored = work[t].stored /\ w.text = work[t].text
    BY <1>1 DEF Work
  <2>4. Honest("stress", w)
    BY <2>1, <2>3 DEF ReviewInv, HonestRuns, Honest
  <2>5. Quiet(t, "stress", w)
    BY <1>1, <2>1, <2>3 DEF Quiet
  <2>6. "stress" \in Labels BY DEF Labels, Steps, Called
  <2> QED BY <2>1, <2>2, <2>3, <2>4, <2>5, <2>6 DEF RunStep, Moves
<1>3. CASE ~p.killed
  <2> DEFINE o == IF p.landed THEN "draft" ELSE "none"
             w == [work[t] EXCEPT !.verdict = "vetted", !.objection = o]
  <2>1. Concluded(t, w) BY <1>3 DEF Panel
  <2>2. work[t].text = "draft"
    BY <2>1 DEF Concluded, Stress, Step, ReviewInv, HonestRuns, Honest
  <2>3. o \in Texts BY DEF Texts
  <2>4. /\ w \in Work /\ w.category = work[t].category /\ w.stored = work[t].stored
        /\ w.text = work[t].text /\ w.objection = o
    BY <1>1, <2>3 DEF Work
  <2>5. Fitting(w) BY <2>2, <2>4 DEF Fitting
  <2> HIDE DEF w
  <2> QED BY <1>1, <2>1, <2>4, <2>5, ConcludedMoves
<1> QED BY <1>2, <1>3

(* The card keeps the draft, and a verdict that says what is wrong.        *)
LEMMA FlaggedMoves ==
  ASSUME ReviewInv, NEW t \in Runs, NEW o \in Texts,
         NEW v \in {"review-incomplete", "flagged"},
         Concluded(t, [work[t] EXCEPT !.verdict = v, !.objection = o]),
         UNCHANGED <<count, removed>>
  PROVE  RunStep(t)
<1> DEFINE w == [work[t] EXCEPT !.verdict = v, !.objection = o]
<1>1. work[t] \in Work BY DEF ReviewInv, ReviewTypeOK
<1>2. /\ w \in Work /\ w.category = work[t].category
      /\ w.stored = work[t].stored /\ w.verdict = v
  BY <1>1 DEF Work
<1>3. Fitting(w) BY <1>2 DEF Fitting
<1>4. Concluded(t, w) OBVIOUS
<1> HIDE DEF w
<1> QED BY <1>2, <1>3, <1>4, ConcludedMoves

LEMMA RewriteMoves ==
  ASSUME ReviewInv, NEW t \in Runs, Rewrite(t)
  PROVE  RunStep(t)
<1> DEFINE w == [work[t] EXCEPT !.round = "recheck"]
<1>1. pc[t] = "stress" /\ UNCHANGED vars /\ work' = [work EXCEPT ![t] = w]
  BY DEF Rewrite, Set
<1>2. pc' = [pc EXCEPT ![t] = "stress"]
  BY <1>1 DEF vars, ReviewInv, ReviewTypeOK
<1>3. /\ w \in Work /\ w.category = work[t].category
      /\ w.stored = work[t].stored /\ w.text = work[t].text
  BY DEF Work, ReviewInv, ReviewTypeOK
<1>4. Honest("stress", w)
  BY <1>1, <1>3 DEF ReviewInv, HonestRuns, Honest
<1>5. Quiet(t, "stress", w)
  BY <1>1, <1>3 DEF Quiet, Rewrite
<1>6. "stress" \in Labels BY DEF Labels, Steps, Called
<1> QED BY <1>1, <1>2, <1>3, <1>4, <1>5, <1>6 DEF RunStep, Moves

LEMMA RecheckMoves ==
  ASSUME ReviewInv, NEW t \in Runs, NEW s \in Severities, NEW legal \in BOOLEAN,
         Recheck(t, s, legal)
  PROVE  RunStep(t)
<1>1. UNCHANGED <<count, removed>> BY DEF Recheck
<1>2. CASE Fatal(s)
  <2>1. Concluded(t, [work[t] EXCEPT !.verdict = "flagged", !.objection = "rewrite"])
    BY <1>2 DEF Recheck
  <2> QED BY <1>1, <2>1, FlaggedMoves DEF Texts
<1>3. CASE ~Fatal(s)
  <2> DEFINE o == IF s > 0 THEN "rewrite" ELSE "none"
             w == [work[t] EXCEPT !.verdict = "vetted", !.text = "rewrite",
                                  !.legal = legal, !.objection = o]
  <2>1. Concluded(t, w) BY <1>3 DEF Recheck
  <2>2. o \in {"none", "rewrite"} OBVIOUS
  <2> HIDE DEF o
  <2>3. /\ w \in Work /\ w.category = work[t].category /\ w.stored = work[t].stored
        /\ w.text = "rewrite" /\ w.objection = o
    BY <2>2 DEF Work, Texts, ReviewInv, ReviewTypeOK
  <2>4. Fitting(w) BY <2>2, <2>3 DEF Fitting
  <2> HIDE DEF w
  <2> QED BY <1>1, <2>1, <2>3, <2>4, ConcludedMoves
<1> QED BY <1>2, <1>3

LEMMA GateMoves ==
  ASSUME ReviewInv, NEW t \in Runs, Gate(t)
  PROVE  RunStep(t)
<1>1. CASE RefuseIllegal(t)
  <2>1. Step(t, "score", "record") /\ UNCHANGED <<work, count, removed>>
    BY <1>1 DEF RefuseIllegal, Refuse, Keep, reviewVars
  <2> QED BY <2>1, KeepMoves DEF Labels, Steps, Called, Making
<1>2. ASSUME NEW clears \in BOOLEAN, PublishCard(t, clears) PROVE RunStep(t)
  <2> DEFINE old == work[t]
             v == IF clears \/ old.verdict = "flagged" THEN old.verdict ELSE "below-bar"
             w == [old EXCEPT !.clears = clears, !.verdict = v]
  <2>1. pc' = [pc EXCEPT ![t] = "save"] /\ pc[t] = "score"
    BY <1>2 DEF PublishCard, Publish, Step
  <2>2. old.legal /\ UNCHANGED <<count, removed>>
    BY <1>2 DEF PublishCard
  <2>3. work' = [work EXCEPT ![t] = w]
    BY <1>2 DEF PublishCard, Set
  <2>4. old \in Work BY DEF ReviewInv, ReviewTypeOK
  <2>5. v \in {"none", "vetted", "review-incomplete", "flagged", "below-bar"}
    BY <2>4 DEF Work
  <2>6. v = "vetted" => clears /\ old.verdict = "vetted"
    OBVIOUS
  <2> HIDE DEF v
  <2>7. /\ w \in Work /\ w.category = old.category /\ w.stored = old.stored
        /\ w.text = old.text /\ w.objection = old.objection
        /\ w.legal = old.legal /\ w.clears = clears /\ w.verdict = v
    BY <2>4, <2>5 DEF Work
  <2>8. Fitting(old) /\ ~old.stored
    BY <2>1 DEF ReviewInv, HonestRuns, Honest
  <2>9. Gained(w)
    BY <2>2, <2>6, <2>7, <2>8 DEF Gained, Fitting
  <2>10. Honest("save", w)
    BY <2>7, <2>8, <2>9 DEF Honest
  <2>11. Quiet(t, "save", w)
    BY <2>1, <2>2, <2>7 DEF Quiet, Making
  <2>12. "save" \in Labels BY DEF Labels, Steps, Called
  <2> QED BY <2>1, <2>3, <2>7, <2>10, <2>11, <2>12 DEF RunStep, Moves
<1>3. ASSUME NEW legal \in BOOLEAN, NEW checkable, NEW status, NEW over
      PROVE  Admits(legal, checkable, status, over) \in BOOLEAN
  BY DEF Admits
<1>4. work[t].legal \in BOOLEAN
  BY DEF ReviewInv, ReviewTypeOK, Work
<1> QED BY <1>1, <1>2, <1>3, <1>4 DEF Gate

LEMMA StoreMoves ==
  ASSUME ReviewInv, NEW t \in Runs, NEW kept \in BOOLEAN, Store(t, kept)
  PROVE  RunStep(t)
<1> DEFINE w == [work[t] EXCEPT !.stored = kept]
<1>1. pc' = [pc EXCEPT ![t] = "record"] /\ pc[t] = "save"
  BY DEF Store, Save, Step
<1>2. work' = [work EXCEPT ![t] = w] BY DEF Store, Set
<1>3. work[t] \in Work BY DEF ReviewInv, ReviewTypeOK
<1>4. /\ w \in Work /\ w.category = work[t].category /\ w.stored = kept
      /\ w.text = work[t].text /\ w.objection = work[t].objection
      /\ w.verdict = work[t].verdict /\ w.legal = work[t].legal
      /\ w.clears = work[t].clears
  BY <1>3 DEF Work
<1>5. Gained(w)
  BY <1>1, <1>4 DEF ReviewInv, HonestRuns, Honest, Gained, Fitting
<1>6. Honest("record", w) BY <1>5 DEF Honest
<1>7. Quiet(t, "record", w) \/ Stores(t, "record")
  BY <1>1 DEF Store, Quiet, Stores, Making
<1>8. "record" \in Labels BY DEF Labels, Steps, Called
<1> QED BY <1>1, <1>2, <1>4, <1>6, <1>7, <1>8 DEF RunStep, Moves

LEMMA ReviewedRunMoves ==
  ASSUME ReviewInv, NEW t \in Runs, ReviewedRun(t)
  PROVE  RunStep(t)
<1>1. CASE (ListProbes(t) \/ NoProgram(t) \/ ReadLessons(t) \/ NoDraft(t)) /\ Keep
  BY <1>1, KeepMoves
     DEF ListProbes, NoProgram, ReadLessons, NoDraft, Keep, reviewVars,
         Labels, Steps, Called, Making
<1>2. CASE CallModel(t) /\ Keep
  <2>1. pc' = [pc EXCEPT ![t] = "generating"] /\ pc[t] = "generate"
    BY <1>2 DEF CallModel
  <2>2. work[t] \in Work /\ work' = [work EXCEPT ![t] = work[t]]
    BY <1>2 DEF Keep, reviewVars, ReviewInv, ReviewTypeOK
  <2>3. Honest("generating", work[t])
    BY <2>1 DEF ReviewInv, HonestRuns, Honest
  <2>4. Quiet(t, "generating", work[t])
    BY <1>2, <2>1 DEF Quiet, Making, Keep, reviewVars
  <2>5. "generating" \in Labels BY DEF Labels, Steps, Called
  <2> QED BY <2>1, <2>2, <2>3, <2>4, <2>5 DEF RunStep, Moves
<1>3. ASSUME NEW routed \in Categories, PickCategory(t, routed) PROVE RunStep(t)
  BY <1>3, PickMoves
<1>4. ASSUME NEW legal \in BOOLEAN, DraftToReview(t, legal) PROVE RunStep(t)
  BY <1>4, DraftMoves
<1>5. ASSUME Review(t) PROVE RunStep(t)
  <2>1. CASE RewriteSilent(t)
    BY <2>1, FlaggedMoves DEF RewriteSilent, Texts
  <2>2. CASE RewriteUnusable(t)
    BY <2>2, FlaggedMoves DEF RewriteUnusable, Texts
  <2> QED BY <1>5, <2>1, <2>2, PanelMoves, RewriteMoves, RecheckMoves,
             GateMoves, StoreMoves DEF Review
<1>6. CASE (Record(t) \/ Raise(t) \/ RecordCrash(t) \/ RecordCrashFails(t)) /\ Forget(t)
  <2>1. \E to \in {"idle", "crash"} : pc' = [pc EXCEPT ![t] = to]
    BY <1>6 DEF Record, Raise, RecordCrash, RecordCrashFails, Return
  <2> QED BY <1>6, <2>1, ForgetMoves
<1> QED BY <1>1, <1>2, <1>3, <1>4, <1>5, <1>6 DEF ReviewedRun
-----------------------------------------------------------------------------
(* Levelling counts whose least is known.                                  *)
LEMMA Levelled ==
  ASSUME NEW n \in [Categories -> Int], NEW m \in Categories,
         \A c \in Categories : n[m] <= n[c], Level(n)
  PROVE  /\ count' = [c \in Categories |-> n[c] - n[m]]
         /\ count' \in [Categories -> Nat]
         /\ count'[m] = 0
<1> DEFINE S == {n[c] : c \in Categories}
<1>1. Min(S) = n[m]
  <2>1. n[m] \in S /\ \A y \in S : n[m] <= y
    OBVIOUS
  <2>2. \A x \in S : (\A y \in S : x <= y) => x = n[m]
    <3> SUFFICES ASSUME NEW c \in Categories, \A y \in S : n[c] <= y
                 PROVE  n[c] = n[m]
      OBVIOUS
    <3>1. n[c] <= n[m] /\ n[m] <= n[c] BY <2>1
    <3> QED BY <3>1
  <2> QED BY <2>1, <2>2 DEF Min
<1>2. count' = [c \in Categories |-> n[c] - n[m]]
  BY <1>1 DEF Level
<1>3. \A c \in Categories : n[c] - n[m] \in Nat
  OBVIOUS
<1> QED BY <1>2, <1>3

(* A card more in one category: it gets one further ahead, or the others   *)
(* are one less behind.                                                    *)
LEMMA LevelUp ==
  ASSUME count \in [Categories -> Nat], \E c \in Categories : count[c] = 0,
         NEW k \in Categories, Level([count EXCEPT ![k] = @ + 1])
  PROVE  /\ count' \in [Categories -> Nat]
         /\ \E c \in Categories : count'[c] = 0
         /\ count'[k] <= count[k] + 1
         /\ \A c \in Categories : c # k => count'[c] <= count[c]
<1> DEFINE n == [count EXCEPT ![k] = @ + 1]
<1>1. n \in [Categories -> Int] /\ n[k] = count[k] + 1
  OBVIOUS
<1>2. \A c \in Categories : c # k => n[c] = count[c]
  OBVIOUS
<1>3. \E m \in Categories : n[m] \in {0, 1} /\ \A c \in Categories : n[m] <= n[c]
  <2>1. CASE \E m \in Categories : m # k /\ count[m] = 0
    BY <2>1, <1>1, <1>2
  <2>2. CASE \A m \in Categories : m # k => count[m] # 0
    <3>1. count[k] = 0 BY <2>2
    <3>2. \A c \in Categories : n[k] <= n[c]
      BY <1>1, <1>2, <2>2, <3>1
    <3> QED BY <1>1, <3>1, <3>2
  <2> QED BY <2>1, <2>2
<1>4. PICK m \in Categories : n[m] \in {0, 1} /\ \A c \in Categories : n[m] <= n[c]
  BY <1>3
<1>5. Level(n) OBVIOUS
<1> HIDE DEF n
<1>6. /\ count' = [c \in Categories |-> n[c] - n[m]]
      /\ count' \in [Categories -> Nat]
      /\ count'[m] = 0
  BY <1>1, <1>4, <1>5, Levelled
<1>7. \A c \in Categories : count'[c] <= n[c]
  BY <1>1, <1>4, <1>6
<1> QED BY <1>1, <1>2, <1>6, <1>7

(* A card less: nothing gets more than one further ahead.                  *)
LEMMA LevelDown ==
  ASSUME count \in [Categories -> Nat], \E c \in Categories : count[c] = 0,
         NEW k \in Categories, Level([count EXCEPT ![k] = @ - 1])
  PROVE  /\ count' \in [Categories -> Nat]
         /\ \E c \in Categories : count'[c] = 0
         /\ \A c \in Categories : count'[c] <= count[c] + 1
<1> DEFINE n == [count EXCEPT ![k] = @ - 1]
<1>1. n \in [Categories -> Int] /\ n[k] = count[k] - 1
  OBVIOUS
<1>2. \A c \in Categories : c # k => n[c] = count[c]
  OBVIOUS
<1>3. \E m \in Categories : n[m] \in {-1, 0} /\ \A c \in Categories : n[m] <= n[c]
  <2>1. CASE count[k] = 0
    <3>1. \A c \in Categories : n[k] <= n[c]
      BY <1>1, <1>2, <2>1
    <3> QED BY <1>1, <2>1, <3>1
  <2>2. CASE count[k] # 0
    <3>1. PICK m \in Categories : count[m] = 0 OBVIOUS
    <3>2. n[m] = 0 BY <1>2, <2>2, <3>1
    <3>3. \A c \in Categories : n[c] >= 0
      BY <1>1, <1>2, <2>2
    <3> QED BY <1>1, <3>2, <3>3
  <2> QED BY <2>1, <2>2
<1>4. PICK m \in Categories : n[m] \in {-1, 0} /\ \A c \in Categories : n[m] <= n[c]
  BY <1>3
<1>5. Level(n) OBVIOUS
<1> HIDE DEF n
<1>6. /\ count' = [c \in Categories |-> n[c] - n[m]]
      /\ count' \in [Categories -> Nat]
      /\ count'[m] = 0
  BY <1>1, <1>4, <1>5, Levelled
<1>7. \A c \in Categories : count'[c] <= n[c] + 1
  BY <1>1, <1>4, <1>6
<1>8. \A c \in Categories : n[c] <= count[c]
  BY <1>1, <1>2
<1>9. \A c \in Categories : count'[c] \in Int /\ n[c] \in Int /\ count[c] \in Int
  BY <1>1, <1>6
<1> QED BY <1>6, <1>7, <1>8, <1>9

-----------------------------------------------------------------------------
LEMMA RunsFinite == IsFiniteSet(Runs) /\ Cardinality(Runs) \in Nat
<1>1. IsFiniteSet(Runs)
  BY RequestsAssumption, FS_Singleton, FS_Union DEF Runs
<1> QED BY <1>1, FS_CardinalityType

(* Fewer bookings count for less, and there is at most one for each run.   *)
LEMMA BookedCounts ==
  ASSUME NEW A, NEW B, A \subseteq B, B \subseteq Runs
  PROVE  /\ Cardinality(A) \in Nat /\ Cardinality(B) \in Nat
         /\ Cardinality(A) <= Cardinality(B)
         /\ Cardinality(A) <= Cardinality(Runs)
<1>1. IsFiniteSet(A) /\ IsFiniteSet(B)
  BY RunsFinite, FS_Subset
<1>2. Cardinality(A) <= Cardinality(B) /\ Cardinality(A) <= Cardinality(Runs)
  BY <1>1, RunsFinite, FS_Subset
<1> QED BY <1>1, <1>2, FS_CardinalityType

LEMMA MovesKeep ==
  ASSUME ReviewInv, NEW t \in Runs, RunStep(t)
  PROVE  ReviewInv'
<1>1. PICK label \in Labels, w \in Work : Moves(t, label, w)
  BY DEF RunStep
<1>2. pc' = [pc EXCEPT ![t] = label] /\ work' = [work EXCEPT ![t] = w]
  BY <1>1 DEF Moves
<1>3. pc' \in [Runs -> Labels] /\ work' \in [Runs -> Work]
  BY <1>2 DEF ReviewInv, ReviewTypeOK, Labels
<1>4. HonestRuns'
  <2> SUFFICES ASSUME NEW r \in Runs PROVE Honest(pc'[r], work'[r])
    BY DEF HonestRuns
  <2>1. CASE r = t
    BY <1>1, <1>2, <2>1 DEF ReviewInv, ReviewTypeOK, Moves
  <2>2. CASE r # t
    <3>1. pc'[r] = pc[r] /\ work'[r] = work[r]
      BY <1>2, <2>2 DEF ReviewInv, ReviewTypeOK
    <3> QED BY <3>1 DEF ReviewInv, HonestRuns
  <2> QED BY <2>1, <2>2
<1>5. \A c \in Categories : ~(label \in Making /\ w.category = c)
                             => Booked(c)' \subseteq Booked(c) \ {t}
  BY <1>2 DEF ReviewInv, ReviewTypeOK, Booked
<1>6. \A c : Booked(c) \subseteq Runs /\ Booked(c)' \subseteq Runs
  BY DEF Booked, Runs
<1>7. Cardinality(Runs) \in Nat BY RunsFinite
<1>8. CASE Quiet(t, label, w)
  <2>1. UNCHANGED <<count, removed>> BY <1>8 DEF Quiet
  <2>2. \A c \in Categories : Booked(c)' \subseteq Booked(c)
    BY <1>2, <1>8 DEF ReviewInv, ReviewTypeOK, Booked, Quiet
  <2>3. \A c \in Categories : count[c] + Cardinality(Booked(c)') <= Bound
    <3> TAKE c \in Categories
    <3>1. /\ Cardinality(Booked(c)') \in Nat /\ Cardinality(Booked(c)) \in Nat
          /\ Cardinality(Booked(c)') <= Cardinality(Booked(c))
      BY <1>6, <2>2, BookedCounts
    <3> QED BY <1>7, <3>1 DEF ReviewInv, ReviewTypeOK, BookedWithin, Bound
  <2> QED BY <1>3, <1>4, <2>1, <2>3
          DEF ReviewInv, ReviewTypeOK, BookedWithin, Bound, Labels
<1>9. CASE Picks(label, w)
  <2>1. UNCHANGED <<count, removed>> /\ count[w.category] <= 1
    BY <1>9 DEF Picks
  <2>2. \A c \in Categories : count[c] + Cardinality(Booked(c)') <= Bound
    <3> TAKE c \in Categories
    <3>1. /\ Cardinality(Booked(c)') \in Nat
          /\ Cardinality(Booked(c)') <= Cardinality(Runs)
      BY <1>6, BookedCounts
    <3>2. CASE c = w.category
      BY <1>7, <2>1, <3>1, <3>2 DEF ReviewInv, ReviewTypeOK, Bound
    <3>3. CASE c # w.category
      <4>1. Booked(c)' \subseteq Booked(c) BY <1>5, <3>3
      <4>2. /\ Cardinality(Booked(c)) \in Nat
            /\ Cardinality(Booked(c)') <= Cardinality(Booked(c))
        BY <1>6, <4>1, BookedCounts
      <4> QED BY <1>7, <3>1, <4>2 DEF ReviewInv, ReviewTypeOK, BookedWithin, Bound
    <3> QED BY <3>2, <3>3
  <2> QED BY <1>3, <1>4, <2>1, <2>2
          DEF ReviewInv, ReviewTypeOK, BookedWithin, Bound, Labels
<1>10. CASE Stores(t, label)
  <2> DEFINE k == work[t].category
  <2>1. pc[t] = "save" /\ label = "record" /\ removed' = removed
    BY <1>10 DEF Stores
  <2>2. \A c \in Categories : Booked(c)' \subseteq Booked(c) \ {t}
    BY <1>5, <2>1 DEF Making
  <2>3. CASE k \in Categories
    <3>1. /\ count' \in [Categories -> Nat]
          /\ \E c \in Categories : count'[c] = 0
          /\ count'[k] <= count[k] + 1
          /\ \A c \in Categories : c # k => count'[c] <= count[c]
      BY <1>10, <2>3, LevelUp DEF Stores, ReviewInv, ReviewTypeOK, BookedWithin
    <3>2. \A c \in Categories : count'[c] + Cardinality(Booked(c)') <= Bound
      <4> TAKE c \in Categories
      <4>1. /\ Cardinality(Booked(c)') \in Nat /\ Cardinality(Booked(c)) \in Nat
            /\ Cardinality(Booked(c)') <= Cardinality(Booked(c))
        BY <1>6, <2>2, BookedCounts
      <4>2. count[c] + Cardinality(Booked(c)) <= Bound /\ Bound \in Nat
        BY <1>7 DEF ReviewInv, ReviewTypeOK, BookedWithin, Bound
      <4>3. count[c] \in Nat /\ count'[c] \in Nat
        BY <3>1 DEF ReviewInv, ReviewTypeOK
      <4>4. CASE c = k
        <5>1. t \in Booked(c)
          BY <2>1, <4>4 DEF Booked, Making
        <5>2. /\ Cardinality(Booked(c) \ {t}) = Cardinality(Booked(c)) - 1
              /\ Cardinality(Booked(c) \ {t}) \in Nat
          BY <1>6, <5>1, RunsFinite, FS_Subset, FS_RemoveElement, BookedCounts
        <5>3. Cardinality(Booked(c)') <= Cardinality(Booked(c) \ {t})
          BY <1>6, <2>2, BookedCounts
        <5> QED BY <3>1, <4>1, <4>2, <4>3, <4>4, <5>2, <5>3
      <4>5. CASE c # k
        <5>1. count'[c] <= count[c] BY <3>1, <4>5
        <5> QED BY <4>1, <4>2, <4>3, <5>1
      <4> QED BY <4>4, <4>5
    <3> QED BY <1>3, <1>4, <2>1, <3>1, <3>2
            DEF ReviewInv, ReviewTypeOK, BookedWithin, Bound, Labels
  <2>4. CASE k \notin Categories
    <3>1. [count EXCEPT ![k] = @ + 1] = count
      BY <2>4 DEF ReviewInv, ReviewTypeOK
    <3>2. PICK m \in Categories : count[m] = 0
      BY DEF ReviewInv, BookedWithin
    <3>3. count' = count
      <4>1. count \in [Categories -> Int] /\ \A c \in Categories : count[m] <= count[c]
        BY <3>2 DEF ReviewInv, ReviewTypeOK
      <4>2. count' = [c \in Categories |-> count[c] - count[m]]
        BY <1>10, <3>1, <4>1, Levelled DEF Stores
      <4> QED BY <3>2, <4>1, <4>2
    <3>4. \A c \in Categories : count[c] + Cardinality(Booked(c)') <= Bound
      <4> TAKE c \in Categories
      <4>1. /\ Cardinality(Booked(c)') \in Nat /\ Cardinality(Booked(c)) \in Nat
            /\ Cardinality(Booked(c)') <= Cardinality(Booked(c))
        BY <1>6, <2>2, BookedCounts
      <4> QED BY <1>7, <4>1 DEF ReviewInv, ReviewTypeOK, BookedWithin, Bound
    <3> QED BY <1>3, <1>4, <2>1, <3>3, <3>4
            DEF ReviewInv, ReviewTypeOK, BookedWithin, Bound, Labels
  <2> QED BY <2>3, <2>4
<1> QED BY <1>1, <1>8, <1>9, <1>10 DEF Moves
-----------------------------------------------------------------------------
LEMMA ReviewInitEstablishes == ReviewInit => ReviewInv
<1> SUFFICES ASSUME ReviewInit PROVE ReviewInv
  OBVIOUS
<1>1. NoWork \in Work /\ ~NoWork.stored
  BY DEF NoWork, Work, Texts
<1>2. ReviewTypeOK
  BY <1>1 DEF ReviewInit, Init, ReviewTypeOK
<1>3. HonestRuns
  BY <1>1 DEF ReviewInit, Init, HonestRuns, Honest
<1>4. BookedWithin
  <2> SUFFICES ASSUME NEW c \in Categories
               PROVE  count[c] + Cardinality(Booked(c)) <= Bound
    BY DEF ReviewInit, BookedWithin
  <2>1. Booked(c) = {} BY DEF ReviewInit, Init, Booked, Making
  <2>2. Cardinality(Booked(c)) = 0 BY <2>1, FS_EmptySet
  <2>3. Cardinality(Runs) >= 1
    <3>1. Cardinality(Runs) # 0
      BY RunsFinite, CadenceRuns, FS_EmptySet
    <3> QED BY <3>1, RunsFinite
  <2>4. count[c] \in 0..2 /\ removed = 0 BY DEF ReviewInit
  <2> QED BY <2>2, <2>3, <2>4, RunsFinite DEF Bound
<1> QED BY <1>2, <1>3, <1>4 DEF ReviewInv

(* A card taken away.                                                      *)
LEMMA RemoveKeeps ==
  ASSUME ReviewInv, NEW k \in Categories, Remove(k)
  PROVE  ReviewInv'
<1>1. UNCHANGED <<pc, work>> /\ removed' = removed + 1
  BY DEF Remove, vars
<1>2. /\ count' \in [Categories -> Nat]
      /\ \E c \in Categories : count'[c] = 0
      /\ \A c \in Categories : count'[c] <= count[c] + 1
  BY LevelDown DEF Remove, ReviewInv, ReviewTypeOK, BookedWithin
<1>3. \A c \in Categories : count'[c] + Cardinality(Booked(c)) <= Bound + 1
  <2> TAKE c \in Categories
  <2>1. Booked(c) \subseteq Runs BY DEF Booked, Runs
  <2>2. Cardinality(Booked(c)) \in Nat BY <2>1, BookedCounts
  <2>3. count[c] \in Nat /\ count'[c] \in Nat /\ removed \in Nat
    BY <1>2 DEF ReviewInv, ReviewTypeOK
  <2>4. count[c] + Cardinality(Booked(c)) <= Bound
    BY DEF ReviewInv, BookedWithin
  <2>5. Bound \in Nat BY <2>3, RunsFinite DEF Bound
  <2> QED BY <1>2, <2>2, <2>3, <2>4, <2>5
<1>4. Bound' = Bound + 1
  BY <1>1, RunsFinite DEF ReviewInv, ReviewTypeOK, Bound
<1>5. \A c \in Categories : Booked(c)' = Booked(c)
  BY <1>1 DEF Booked
<1>6. BookedWithin'
  BY <1>2, <1>3, <1>4, <1>5 DEF BookedWithin
<1> QED BY <1>1, <1>2, <1>6 DEF ReviewInv, ReviewTypeOK, HonestRuns

(* A step of another kind: runs may start, or all of them be gone.         *)
LEMMA OutsideKeeps ==
  ASSUME ReviewInv, UNCHANGED <<count, removed>>, pc' \in [Runs -> Labels],
         \/ /\ work' = work
            /\ \A t \in Runs : pc'[t] = pc[t] \/ (pc[t] = "idle" /\ pc'[t] = "list")
         \/ work' = [t \in Runs |-> NoWork] /\ pc' = [t \in Runs |-> "idle"]
  PROVE  ReviewInv'
<1>1. NoWork \in Work /\ ~NoWork.stored
  BY DEF NoWork, Work, Texts
<1>2. work' \in [Runs -> Work]
  BY <1>1 DEF ReviewInv, ReviewTypeOK
<1>3. HonestRuns'
  BY <1>1 DEF ReviewInv, HonestRuns, Honest
<1>4. \A c \in Categories : Booked(c)' \subseteq Booked(c)
  BY DEF Booked, Making
<1>5. \A c \in Categories : count[c] + Cardinality(Booked(c)') <= Bound
  <2> TAKE c \in Categories
  <2>1. Booked(c) \subseteq Runs BY DEF Booked, Runs
  <2>2. /\ Cardinality(Booked(c)') \in Nat /\ Cardinality(Booked(c)) \in Nat
        /\ Cardinality(Booked(c)') <= Cardinality(Booked(c))
    BY <1>4, <2>1, BookedCounts
  <2> QED BY <2>2, RunsFinite DEF ReviewInv, ReviewTypeOK, BookedWithin, Bound
<1>6. BookedWithin'
  BY <1>5 DEF ReviewInv, BookedWithin, Bound
<1> QED BY <1>2, <1>3, <1>6 DEF ReviewInv, ReviewTypeOK, Labels

LEMMA ReviewStepKeeps == ReviewInv /\ [ReviewNext]_allVars => ReviewInv'
<1> SUFFICES ASSUME ReviewInv, [ReviewNext]_allVars PROVE ReviewInv'
  OBVIOUS
<1>1. pc \in [Runs -> Labels]
  BY DEF ReviewInv, ReviewTypeOK, Labels
<1>2. CASE (SkipTick \/ FireTick \/ Pass) /\ Keep
  <2>1. pc' \in [Runs -> Labels]
    BY <1>1, <1>2 DEF SkipTick, FireTick, Pass, Labels, Steps
  <2>2. \A t \in Runs : pc'[t] = pc[t] \/ (pc[t] = "idle" /\ pc'[t] = "list")
    BY <1>1, <1>2 DEF SkipTick, FireTick, Pass
  <2> QED BY <1>2, <2>1, <2>2, OutsideKeeps DEF Keep, reviewVars
<1>3. ASSUME NEW r \in Clicks, ChurnNow(r), Keep PROVE ReviewInv'
  <2>1. pc' \in [Runs -> Labels]
    BY <1>1, <1>3 DEF ChurnNow, Labels, Steps
  <2>2. \A t \in Runs : pc'[t] = pc[t] \/ (pc[t] = "idle" /\ pc'[t] = "list")
    BY <1>1, <1>3 DEF ChurnNow
  <2> QED BY <1>3, <2>1, <2>2, OutsideKeeps DEF Keep, reviewVars
<1>4. ASSUME NEW t \in Runs, ReviewedRun(t) PROVE ReviewInv'
  BY <1>4, ReviewedRunMoves, MovesKeep
<1>5. CASE Reload /\ work' = [t \in Runs |-> NoWork] /\ UNCHANGED <<count, removed>>
  <2>1. pc' = [t \in Runs |-> "idle"] BY <1>5 DEF Reload
  <2>2. pc' \in [Runs -> Labels] BY <2>1 DEF Labels
  <2> QED BY <1>5, <2>1, <2>2, OutsideKeeps
<1>6. ASSUME NEW c \in Categories, Remove(c) PROVE ReviewInv'
  BY <1>6, RemoveKeeps
<1>7. CASE UNCHANGED allVars
  BY <1>1, <1>7, OutsideKeeps DEF allVars, vars, reviewVars
<1> QED BY <1>2, <1>3, <1>4, <1>5, <1>6, <1>7 DEF ReviewNext

(* No stored card claims to be vetted over a bar it missed, or shows an    *)
(* objection to a text that is no longer its own.                          *)
THEOREM CardsStayHonest == ReviewSpec => []CardsAreHonest
<1>1. ReviewInv => CardsAreHonest
  BY DEF ReviewInv, HonestRuns, Honest, Gained, Fitting, CardsAreHonest
<1> QED BY <1>1, ReviewInitEstablishes, ReviewStepKeeps, PTL DEF ReviewSpec

(* However many runs overlap, and whatever is taken off the board between  *)
(* a choice and the card it leads to, no category runs away.               *)
THEOREM BalanceKept == ReviewSpec => []CategoriesBalanced
<1>1. ReviewInv => CategoriesBalanced
  <2> SUFFICES ASSUME ReviewInv, NEW c \in Categories PROVE count[c] <= Bound
    BY DEF CategoriesBalanced, Bound
  <2>1. Booked(c) \subseteq Runs BY DEF Booked, Runs
  <2>2. Cardinality(Booked(c)) \in Nat BY <2>1, BookedCounts
  <2>3. count[c] \in Nat /\ count[c] + Cardinality(Booked(c)) <= Bound
    BY DEF ReviewInv, ReviewTypeOK, BookedWithin
  <2>4. Bound \in Nat BY RunsFinite DEF ReviewInv, ReviewTypeOK, Bound
  <2> QED BY <2>2, <2>3, <2>4
<1> QED BY <1>1, ReviewInitEstablishes, ReviewStepKeeps, PTL DEF ReviewSpec
=============================================================================
