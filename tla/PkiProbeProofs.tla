---------------------------- MODULE PkiProbeProofs ---------------------------
(***************************************************************************)
(* The PKI probe for any interval, any gaps and any window of the log: it  *)
(* calls the model at most once an interval.  The cycle with the review of *)
(* its draft is such a cycle; what the review drops it drops for a reason, *)
(* and the card it stores answers the objection it shows.                  *)
(***************************************************************************)
EXTENDS PkiReview, SequenceTheorems, FiniteSetTheorems, TLAPS

(* A cycle that has not called the model yet was begun when the newest row *)
(* was an interval old, and the last call is at least as old as that row:  *)
(* the cycle that made it left the row, or is excused.                     *)
Gated ==
  /\ pc \in {"list", "fetch", "generate"} => burn = Interval \/ excused
  /\ pc = "sleep" => age <= burn \/ excused

IInv == TypeOK /\ Gated

-----------------------------------------------------------------------------
(* What list_pki_probes returns stays within its limit.                    *)
LEMMA LoggedKeeps ==
  ASSUME TypeOK, NEW r \in Rows
  PROVE  Logged(r) \in Seq(Rows) /\ Len(Logged(r)) <= Window
<1> DEFINE all == <<r>> \o log
<1>1. all \in Seq(Rows) /\ Len(all) \in Nat
  BY DEF TypeOK
<1>2. CASE Len(all) > Window
  <2>1. SubSeq(all, 1, Window) \in Seq(Rows) /\ Len(SubSeq(all, 1, Window)) = Window
    BY <1>1, <1>2, GapsAssumption, SubSeqProperties
  <2> QED BY <1>2, <2>1, GapsAssumption DEF Logged
<1>3. CASE ~(Len(all) > Window)
  BY <1>1, <1>3, GapsAssumption DEF Logged
<1> QED BY <1>2, <1>3

(* Growing older keeps an age an age, and the order of two ages.           *)
LEMMA OlderKeeps ==
  ASSUME NEW a \in Ages, NEW b \in Ages
  PROVE  /\ Older(a) \in Ages
         /\ a <= b => Older(a) <= Older(b)
         /\ a = Interval => Older(a) = Interval
BY TimesAssumption DEF Ages, Older

-----------------------------------------------------------------------------
LEMMA InitEstablishes == Init => IInv
<1> SUFFICES ASSUME Init PROVE IInv
  OBVIOUS
<1>1. age \in Ages /\ nap \in Nat /\ burn \in Ages /\ age <= burn
  BY TimesAssumption DEF Init, LoopInit, SleepInit, Ages
<1>2. log \in Seq(Rows) /\ Len(log) <= Window
  BY GapsAssumption, EmptySeq DEF Init
<1>3. excused \in BOOLEAN /\ pc = "sleep"
  BY DEF Init
<1>4. seen \subseteq Gaps \cup Cited /\ gap \in Gaps \cup {Nil} /\ anchor \in Anchors
  BY DEF Init, Anchors
<1> QED BY <1>1, <1>2, <1>3, <1>4 DEF IInv, TypeOK, Gated

(* Steps of a cycle that leave no row.                                     *)
LEMMA QuietStepKeeps ==
  ASSUME IInv,
         \/ SkipTick \/ FireTick \/ ListProbes \/ (\E g \in Gaps : PickGap(g))
         \/ NoNewGap \/ CallModel \/ NoDraft \/ (\E a \in Anchors : Draft(a))
         \/ Drop \/ Survive \/ Save \/ Raise
  PROVE  IInv'
<1> USE TimesAssumption, GapsAssumption
        DEF IInv, TypeOK, Gated, loopVars, cycleVars, Goto, SleepAgain
<1>1. CASE SkipTick BY <1>1 DEF SkipTick
<1>2. CASE FireTick BY <1>2 DEF FireTick, Overdue, Ages, Steps
<1>3. CASE ListProbes
  <2>1. \A k \in DOMAIN log : log[k] \in Rows
    OBVIOUS
  <2>2. seen' \subseteq Gaps \cup Cited
    BY <1>3, <2>1 DEF ListProbes, Rows, Anchors
  <2> QED BY <1>3, <2>2 DEF ListProbes, Steps
<1>4. ASSUME NEW g \in Gaps, PickGap(g) PROVE IInv'
  BY <1>4 DEF PickGap, Steps
<1>5. CASE NoNewGap BY <1>5 DEF NoNewGap, Steps, Called
<1>6. CASE CallModel
  <2>1. burn' \in Ages BY <1>6 DEF CallModel, Ages
  <2>2. pc' = "generating" /\ excused' \in BOOLEAN BY <1>6 DEF CallModel
  <2>3. UNCHANGED <<age, nap, seen, gap, anchor, log>> BY <1>6 DEF CallModel
  <2> QED BY <2>1, <2>2, <2>3 DEF Steps, Called
<1>7. CASE NoDraft BY <1>7 DEF NoDraft, Steps, Called, Url, Anchors
<1>8. ASSUME NEW a \in Anchors, Draft(a) PROVE IInv'
  BY <1>8 DEF Draft, Steps, Called
<1>9. CASE Drop BY <1>9 DEF Drop, Steps, Called
<1>10. CASE Survive BY <1>10 DEF Survive, Steps, Called
<1>11. CASE Save BY <1>11 DEF Save, Steps, Called
<1>12. CASE Raise BY <1>12 DEF Raise, Steps
<1> QED
  BY <1>1, <1>2, <1>3, <1>4, <1>5, <1>6, <1>7, <1>8, <1>9, <1>10, <1>11, <1>12

(* The two steps that leave a row: nothing is older than a fresh one.      *)
LEMMA RowKeeps ==
  ASSUME IInv, NEW r \in Rows, Insert(r), Return, UNCHANGED burn,
         excused' = FALSE
  PROVE  IInv'
<1>1. log' \in Seq(Rows) /\ Len(log') <= Window
  BY LoggedKeeps DEF IInv, Insert
<1>2. age' = 0 /\ nap' = TickInterval
  BY DEF Insert, Stamp, Return, SleepAgain
<1>3. age' \in Ages /\ nap' \in Nat /\ burn' \in Ages /\ age' <= burn'
  BY <1>2, TimesAssumption DEF IInv, TypeOK, Ages
<1>4. pc' = "sleep" /\ excused' \in BOOLEAN
  BY DEF Return
<1>5. seen' = {} /\ gap' = Nil /\ anchor' = Nil
  BY DEF Return
<1> QED BY <1>1, <1>3, <1>4, <1>5 DEF IInv, TypeOK, Gated, Anchors

LEMMA StepKeeps == IInv /\ [Next]_vars => IInv'
<1> SUFFICES ASSUME IInv, [Next]_vars PROVE IInv'
  OBVIOUS
<1>1. CASE \/ SkipTick \/ FireTick \/ ListProbes \/ (\E g \in Gaps : PickGap(g))
           \/ NoNewGap \/ CallModel \/ NoDraft \/ (\E a \in Anchors : Draft(a))
           \/ Drop \/ Survive \/ Save \/ Raise
  BY <1>1, QuietStepKeeps
<1>2. CASE Record
  <2> DEFINE r == [gap |-> gap, anchor |-> anchor]
  <2>1. r \in Rows BY DEF IInv, TypeOK, Rows
  <2> QED BY <1>2, <2>1, RowKeeps DEF Record
<1>3. CASE RecordCrash
  <2> DEFINE r == [gap |-> gap, anchor |-> IF gap = Nil THEN Nil ELSE Url(gap)]
  <2>1. r \in Rows BY DEF IInv, TypeOK, Rows, Url, Anchors
  <2> QED BY <1>3, <2>1, RowKeeps DEF RecordCrash
<1>4. CASE RecordCrashFails
  BY <1>4, TimesAssumption
     DEF RecordCrashFails, Return, SleepAgain, IInv, TypeOK, Gated, Anchors
<1>5. CASE Reload
  <2>1. UNCHANGED <<age, log, burn>> /\ nap' \in Nat
    BY <1>5, TimesAssumption DEF Reload, Restart, StartAfresh
  <2>2. pc' = "sleep" /\ excused' \in BOOLEAN
    BY <1>5 DEF Reload, IInv, TypeOK
  <2>3. seen' = {} /\ gap' = Nil /\ anchor' = Nil
    BY <1>5 DEF Reload
  <2>4. age <= burn \/ excused'
    <3>1. CASE pc \in Called \cup {"crash"}
      BY <1>5, <3>1 DEF Reload
    <3>2. CASE pc = "sleep"
      BY <1>5, <3>2 DEF Reload, IInv, Gated
    <3>3. CASE pc \in {"list", "fetch", "generate"}
      <4>1. burn = Interval \/ excused BY <3>3 DEF IInv, Gated
      <4>2. excused => excused' BY <1>5 DEF Reload
      <4>3. burn = Interval => age <= burn
        BY TimesAssumption DEF IInv, TypeOK, Ages
      <4> QED BY <4>1, <4>2, <4>3
    <3> QED BY <3>1, <3>2, <3>3 DEF IInv, TypeOK, Steps
  <2> QED BY <2>1, <2>2, <2>3, <2>4 DEF IInv, TypeOK, Gated, Anchors
<1>6. CASE Pass
  <2>1. age' \in Ages /\ burn' \in Ages /\ nap' \in Nat
    BY <1>6, OlderKeeps DEF Pass, Elapse, Doze, IInv, TypeOK
  <2>2. Gated'
    BY <1>6, OlderKeeps DEF Pass, Elapse, Doze, cycleVars, IInv, TypeOK, Gated
  <2> QED BY <1>6, <2>1, <2>2 DEF Pass, cycleVars, IInv, TypeOK
<1>7. CASE UNCHANGED vars
  BY <1>7 DEF vars, loopVars, cycleVars, IInv, TypeOK, Gated
<1> QED
  BY <1>1, <1>2, <1>3, <1>4, <1>5, <1>6, <1>7 DEF Next, Running, Cycle

(* Every variable stays in its range, whatever the times and the window.   *)
THEOREM TypeCorrect == Spec => []TypeOK
<1>1. IInv => TypeOK BY DEF IInv
<1> QED BY <1>1, InitEstablishes, StepKeeps, PTL DEF Spec

(* No unbounded burn loop: between two calls of the model an interval goes *)
(* by, or the process died, or even the row about the crash was refused.   *)
THEOREM CallsAreSpaced == Spec => NoBurnLoop
<1>1. IInv /\ [Next]_vars => [CallModel => burn = Interval \/ excused]_vars
  BY DEF IInv, Gated, CallModel
<1> QED BY <1>1, InitEstablishes, StepKeeps, PTL DEF Spec, NoBurnLoop
-----------------------------------------------------------------------------
(* The review step by step.                                                *)
ReviewSpec == ReviewInit /\ [][ReviewNext]_allVars

(* CardAnswers speaks of the stored card; it comes true as the review goes *)
(* on.  A review has a stage only while the cycle stands at "review"; what *)
(* an earlier draft left is gone before another is reviewed; an objection  *)
(* worth showing is answered by the rewrite or dropped; only what clears   *)
(* the bar gets to the store.                                              *)
Answered == objection # 0 => revised

ReviewInv ==
  /\ stage \in Stages
  /\ revised \in BOOLEAN
  /\ clears \in BOOLEAN
  /\ stage # "none" => pc = "review"
  /\ objection # 0 => objection >= 40 /\ pc \in {"review", "save", "record"}
  /\ stage \in {"search", "panel"} => objection = 0
  /\ stage \in {"score", "gate"} => Answered
  /\ pc = "save" => clears /\ Answered
  /\ card # NoCard =>
       pc = "record" /\ card.clears
       /\ (card.objection # 0 => card.objection >= 40 /\ card.revised)
-----------------------------------------------------------------------------
(* A step of a reviewed cycle is a step of the cycle, or of the review     *)
(* alone.                                                                  *)
LEMMA ReviewedIsCycle ==
  ASSUME ReviewedCycle
  PROVE  Cycle \/ UNCHANGED vars
<1>1. CASE BeforeReview
  BY <1>1 DEF BeforeReview, Cycle
<1>2. ASSUME NEW a \in Anchors, DraftToReview(a) PROVE Cycle
  BY <1>2 DEF DraftToReview, Cycle
<1>3. CASE Review
  <2>1. ASSUME NEW found \in Findings, SearchPriorArt(found)
        PROVE  Cycle \/ UNCHANGED vars
    BY <2>1 DEF SearchPriorArt, Cycle
  <2>2. CASE NoPanel BY <2>2 DEF NoPanel
  <2>3. ASSUME NEW p \in Panels, Deepen(p) PROVE Cycle \/ UNCHANGED vars
    BY <2>3 DEF Deepen, Cycle
  <2>4. ASSUME NEW usable \in BOOLEAN, Revise(usable) PROVE UNCHANGED vars
    BY <2>4 DEF Revise
  <2>5. ASSUME NEW text \in Texts, NEW bonus \in {14, 20}, ScoreText(text, bonus)
        PROVE  UNCHANGED vars
    BY <2>5 DEF ScoreText
  <2>6. CASE Gate BY <2>6 DEF Gate, Cycle
  <2>7. ASSUME NEW kept \in BOOLEAN, Store(kept) PROVE Cycle
    BY <2>7 DEF Store, Cycle
  <2> QED BY <1>3, <2>1, <2>2, <2>3, <2>4, <2>5, <2>6, <2>7 DEF Review
<1>4. CASE Ends BY <1>4 DEF Ends, Cycle
<1> QED BY <1>1, <1>2, <1>3, <1>4 DEF ReviewedCycle

(* The probe that reviews its drafts is the probe, so it calls the model   *)
(* no more often.                                                          *)
THEOREM ReviewIsProbe == ReviewSpec => Spec
<1>1. ReviewInit => Init BY DEF ReviewInit
<1>2. [ReviewNext]_allVars => [Next]_vars
  BY ReviewedIsCycle DEF ReviewNext, Next, Running, allVars
<1> QED BY <1>1, <1>2, PTL DEF ReviewSpec, Spec

-----------------------------------------------------------------------------
LEMMA ForgetKeeps ==
  ASSUME Forget, pc' # "save"
  PROVE  ReviewInv'
BY DEF Forget, ReviewInv, Stages, Answered

(* Outside a review there is nothing to lose.                              *)
LEMMA ElsewhereKeeps ==
  ASSUME ReviewInv, UNCHANGED reviewVars, stage = "none", pc' # "save",
         pc \in {"sleep", "list", "fetch", "generate", "generating"} \/ pc' = pc
  PROVE  ReviewInv'
BY DEF ReviewInv, reviewVars, draftVars, Answered

LEMMA ReviewKeeps ==
  ASSUME ReviewInv, Review
  PROVE  ReviewInv'
<1>1. ASSUME NEW found \in Findings, SearchPriorArt(found) PROVE ReviewInv'
  <2>1. CASE Forget
    BY <1>1, <2>1, ForgetKeeps DEF SearchPriorArt, Drop, Goto, ReviewInv, vars, cycleVars
  <2>2. CASE ~Forget
    BY <1>1, <2>2 DEF SearchPriorArt, ReviewInv, Stages, Answered, vars, cycleVars
  <2> QED BY <2>1, <2>2
<1>2. CASE NoPanel
  BY <1>2 DEF NoPanel, ReviewInv, Stages, Answered, vars, cycleVars
<1>3. ASSUME NEW p \in Panels, Deepen(p) PROVE ReviewInv'
  <2>1. CASE Forget
    BY <1>3, <2>1, ForgetKeeps DEF Deepen, Drop, Goto, ReviewInv, vars, cycleVars
  <2>2. CASE ~Forget
    <3>1. /\ stage = "panel" /\ UNCHANGED <<pc, revised, clears, card>>
          /\ stage' = IF Hardest(p) = 0 THEN "score" ELSE "revise"
          /\ objection' = Strongest(p)
      BY <1>3, <2>2 DEF Deepen, vars, cycleVars
    <3>2. /\ Strongest(p) # 0 => Strongest(p) >= 40
          /\ Hardest(p) = 0 => Strongest(p) = 0
      BY DEF Strongest
    <3> QED BY <3>1, <3>2 DEF ReviewInv, Stages, Answered
  <2> QED BY <2>1, <2>2
<1>4. ASSUME NEW usable \in BOOLEAN, Revise(usable) PROVE ReviewInv'
  BY <1>4 DEF Revise, ReviewInv, Stages, Answered, vars, cycleVars
<1>5. ASSUME NEW text \in Texts, NEW bonus \in {14, 20}, ScoreText(text, bonus)
      PROVE  ReviewInv'
  <2>1. clears' \in BOOLEAN
    <3>1. \A score : (score >= PkiAdmitThreshold) \in BOOLEAN OBVIOUS
    <3> QED BY <1>5, <3>1 DEF ScoreText
  <2> QED BY <1>5, <2>1 DEF ScoreText, ReviewInv, Stages, Answered, vars, cycleVars
<1>6. CASE Gate
  <2>1. CASE ~Admits /\ Drop /\ Forget
    BY <2>1, ForgetKeeps DEF Drop, Goto
  <2>2. CASE ~(~Admits /\ Drop /\ Forget)
    <3>1. /\ stage = "gate" /\ Admits /\ Survive /\ stage' = "none"
          /\ UNCHANGED <<objection, revised, clears, card>>
      BY <1>6, <2>2 DEF Gate
    <3>2. pc' = "save" BY <3>1 DEF Survive, Goto
    <3> QED BY <3>1, <3>2 DEF ReviewInv, Stages, Answered, Admits
  <2> QED BY <2>1, <2>2
<1>7. ASSUME NEW kept \in BOOLEAN, Store(kept) PROVE ReviewInv'
  <2>1. pc = "save" /\ pc' = "record" /\ UNCHANGED <<stage, objection, revised, clears>>
    BY <1>7 DEF Store, Save, Goto, draftVars
  <2>2. card' = NoCard \/ card' = [clears |-> clears, objection |-> objection,
                                  revised |-> revised]
    BY <1>7 DEF Store
  <2>3. card' # NoCard =>
          card'.clears = clears /\ card'.objection = objection /\ card'.revised = revised
    BY <2>2
  <2> QED BY <2>1, <2>3 DEF ReviewInv, Answered
<1> QED BY <1>1, <1>2, <1>3, <1>4, <1>5, <1>6, <1>7 DEF Review

LEMMA ReviewStepKeeps == ReviewInv /\ [ReviewNext]_allVars => ReviewInv'
<1> SUFFICES ASSUME ReviewInv, [ReviewNext]_allVars PROVE ReviewInv'
  OBVIOUS
<1>1. CASE (SkipTick \/ FireTick) /\ UNCHANGED reviewVars
  <2>1. pc = "sleep" /\ pc' # "save"
    BY <1>1 DEF SkipTick, FireTick, Goto, cycleVars
  <2>2. stage = "none" BY <2>1 DEF ReviewInv
  <2> QED BY <1>1, <2>1, <2>2, ElsewhereKeeps
<1>2. CASE UNCHANGED <<pc, reviewVars>>
  BY <1>2 DEF ReviewInv, reviewVars, draftVars, Answered
<1>3. CASE BeforeReview /\ UNCHANGED reviewVars
  <2>1. pc \in {"list", "fetch", "generate", "generating"} /\ pc' # "save"
    BY <1>3 DEF BeforeReview, ListProbes, PickGap, NoNewGap, CallModel, NoDraft, Goto
  <2>2. stage = "none" BY <2>1 DEF ReviewInv
  <2> QED BY <1>3, <2>1, <2>2, ElsewhereKeeps
<1>4. ASSUME NEW a \in Anchors, DraftToReview(a) PROVE ReviewInv'
  BY <1>4 DEF DraftToReview, Draft, Goto, ReviewInv, Stages, Answered
<1>5. CASE Review BY <1>5, ReviewKeeps
<1>6. CASE (Ends \/ Reload) /\ Forget
  BY <1>6, ForgetKeeps
     DEF Ends, Record, Raise, RecordCrash, RecordCrashFails, Reload, Return, Goto
<1>7. Pass => pc' = pc BY DEF Pass, cycleVars
<1>8. UNCHANGED vars => pc' = pc BY DEF vars, cycleVars
<1> QED BY <1>1, <1>2, <1>3, <1>4, <1>5, <1>6, <1>7, <1>8
        DEF ReviewNext, ReviewedCycle, allVars

LEMMA ReviewInitEstablishes == ReviewInit => ReviewInv
BY DEF ReviewInit, Init, ReviewInv, Stages, Answered

(* What is on the board under an objection was rewritten to answer it, and *)
(* scores over the bar as it stands.                                       *)
THEOREM CardsAnswer == FairSpec => []CardAnswers
<1>1. ReviewInv => CardAnswers BY DEF ReviewInv, CardAnswers
<1>2. FairSpec => ReviewSpec BY DEF FairSpec, ReviewSpec
<1> QED BY <1>1, <1>2, ReviewInitEstablishes, ReviewStepKeeps, PTL DEF ReviewSpec

-----------------------------------------------------------------------------
(* A repository that shares one word of purpose, or that nobody uses,      *)
(* scores below the bar whatever else it shares.                           *)
LEMMA ScoreNeedsEvidence ==
  ASSUME NEW r \in Repos, ScoreMatch(r) >= 55
  PROVE  r.purpose >= 2 /\ r.stars # "abandoned"
<1> DEFINE shared == Capped(28 * Capped(r.purpose, 4) + 6 * Capped(r.topical, 2), 100)
           factor == StarFactor(r.stars)
<1>1. /\ r.purpose \in {0, 1, 2, 4} /\ r.topical \in {0, 2}
      /\ r.stars \in {"abandoned", "modest", "established"}
  BY DEF Repos
<1>2. factor \in {45, 75, 100} /\ (r.stars = "abandoned" => factor = 45)
  BY <1>1 DEF StarFactor
<1>3. shared \in 0..100 /\ (r.purpose \in {0, 1} => shared \in 0..40)
  BY <1>1 DEF Capped
<1>4. r.purpose # 0 /\ (shared * factor) \div 100 >= 55
  BY DEF ScoreMatch
<1> HIDE DEF shared, factor
<1>5. CASE factor = 45
  <2>1. (shared * 45) \div 100 <= 45 BY <1>3
  <2> QED BY <1>3, <1>4, <1>5, <2>1
<1>6. CASE factor # 45
  <2>1. r.stars # "abandoned" BY <1>2, <1>6
  <2>2. CASE r.purpose = 1
    <3>1. shared \in 0..40 BY <1>3, <2>2
    <3>2. (shared * 75) \div 100 <= 40 /\ (shared * 100) \div 100 <= 40
      BY <3>1
    <3> QED BY <1>2, <1>4, <1>6, <3>1, <3>2
  <2>3. CASE r.purpose # 1
    BY <1>1, <1>4, <2>1, <2>3
  <2> QED BY <2>2, <2>3
<1> QED BY <1>5, <1>6

(* A search that drops the draft found such a repository: outages, which   *)
(* find nothing, and the words every draft of this domain has in common    *)
(* kill nothing.                                                           *)
THEOREM PriorArtShown == FairSpec => PriorArtIsEvidence
<1>1. ASSUME ReviewInv, stage = "search", pc' = "record",
             NEW found \in Findings, SearchPriorArt(found)
      PROVE  \E r \in found : r.purpose >= 2 /\ r.stars # "abandoned"
  <2>1. pc = "review" BY <1>1 DEF ReviewInv
  <2>2. Exists(found)
    BY <1>1, <2>1 DEF SearchPriorArt, vars, cycleVars
  <2>3. found \subseteq Repos BY DEF Findings
  <2> QED BY <2>2, <2>3, ScoreNeedsEvidence DEF Exists
<1>2. ReviewInv /\ [ReviewNext]_allVars
        => [stage = "search" /\ pc' = "record" =>
              \A found \in Findings :
                SearchPriorArt(found) =>
                  \E r \in found : r.purpose >= 2 /\ r.stars # "abandoned"]_allVars
  BY <1>1
<1>3. FairSpec => ReviewSpec BY DEF FairSpec, ReviewSpec
<1> QED BY <1>2, <1>3, ReviewInitEstablishes, ReviewStepKeeps, PTL
        DEF ReviewSpec, PriorArtIsEvidence

-----------------------------------------------------------------------------
LEMMA TwoOf ==
  ASSUME NEW S \in SUBSET Lenses, Cardinality(S) >= 2
  PROVE  \E l, m \in S : l # m
<1> SUFFICES ASSUME \A l, m \in S : l = m PROVE FALSE
  OBVIOUS
<1>1. CASE S = {}
  BY <1>1, FS_EmptySet
<1>2. CASE S # {}
  <2>1. PICK l \in S : TRUE BY <1>2
  <2>2. S = {l} BY <2>1
  <2>3. Cardinality(S) = 1 BY <2>2, FS_Singleton
  <2> QED BY <2>3
<1> QED BY <1>1, <1>2

(* A lens whose objection landed was sure of it, and a factual one cites.  *)
LEMMA LandedIsVoice ==
  ASSUME NEW p \in Panels, NEW l \in Landed(p)
  PROVE  l \in Lenses /\ p[l].severity >= 70 /\ (l = "wrong" => p[l].cited)
<1>1. l \in Lenses /\ Severity(l, p[l]) >= 70 BY DEF Landed
<1>2. p[l] \in Replies BY <1>1 DEF Panels
<1>3. p[l].severity \in {0, 50, 75, 95} BY <1>2 DEF Replies
<1> QED BY <1>1, <1>3 DEF Severity, Capped

(* A panel that drops the draft had one lens show that it exists already,  *)
(* or two lenses against it.                                               *)
THEOREM PanelTakesTwo == FairSpec => PanelNeedsTwo
<1> DEFINE Voices(p) ==
      \/ p["solved"].severity >= 90
      \/ \E l, m \in Lenses :
           /\ l # m
           /\ \A v \in {l, m} : p[v].severity >= 70 /\ (v = "wrong" => p[v].cited)
<1>1. ASSUME ReviewInv, stage = "panel", pc' = "record",
             NEW p \in Panels, Deepen(p)
      PROVE  Voices(p)
  <2>1. pc = "review" BY <1>1 DEF ReviewInv
  <2>2. Killed(p)
    BY <1>1, <2>1 DEF Deepen, vars, cycleVars
  <2>3. CASE Severity("solved", p["solved"]) >= 90
    BY <2>3 DEF Severity
  <2>4. CASE Cardinality(Landed(p)) >= 2
    <3>1. Landed(p) \in SUBSET Lenses BY DEF Landed
    <3>2. PICK l, m \in Landed(p) : l # m BY <2>4, <3>1, TwoOf
    <3> QED BY <3>2, LandedIsVoice
  <2> QED BY <2>2, <2>3, <2>4 DEF Killed
<1>2. ReviewInv /\ [ReviewNext]_allVars
        => [stage = "panel" /\ pc' = "record" =>
              \A p \in Panels : Deepen(p) => Voices(p)]_allVars
  BY <1>1
<1>3. FairSpec => ReviewSpec BY DEF FairSpec, ReviewSpec
<1> QED BY <1>2, <1>3, ReviewInitEstablishes, ReviewStepKeeps, PTL
        DEF ReviewSpec, PanelNeedsTwo
=============================================================================
