----------------------------- MODULE BotReview ------------------------------
(***************************************************************************)
(* What a run of the money-bot probe does with its draft: the category it  *)
(* works, the four-lens panel, the one rewrite and its re-check, the score *)
(* and the gate, and the card that is stored.  BotProbe leaves all of them *)
(* open.  The four calls of the panel are one step: nothing they read or   *)
(* write is shared with another run.                                       *)
(*                                                                         *)
(* Scores and severities are hundredths.  Every draft has a spec:          *)
(* generate_bot_llm returns none without.                                  *)
(***************************************************************************)
EXTENDS BotProbe, Integers, FiniteSetsExt

CONSTANTS
  Categories,  \* MONEY_CATEGORIES
  Removals     \* bound: cards archived or rejected

ASSUME CategoriesAssumption == Categories # {}
ASSUME RequestsAssumption == IsFiniteSet(Clicks)

VARIABLES
  work,    \* what each run holds in memory
  count,   \* cards of a category on the board, over the least of them all
  removed  \* history: cards archived or rejected

reviewVars == <<work, count, removed>>
allVars == <<vars, reviewVars>>

NoWork == [category |-> "none", round |-> "none", text |-> "none",
           legal |-> FALSE, objection |-> "none", verdict |-> "none",
           clears |-> FALSE, stored |-> FALSE]

-----------------------------------------------------------------------------
(* The panel.  A lens that does not answer, that answers "none" or below   *)
(* the noise has no objection: severity 0.                                 *)
Lenses == {"arithmetic", "competition", "legality", "operations"}
Severities == {0, 45, 70, 90}

Fatal(severity) == severity >= 85
LandedOf(p) == {l \in Lenses : p[l] >= 60}

(* _killed: one fatal objection, or two that landed.                       *)
Killed(p) == (\E l \in Lenses : Fatal(p[l])) \/ Cardinality(LandedOf(p)) >= 2

(* What a panel can come to.                                               *)
Panels == {[killed |-> Killed(p), landed |-> LandedOf(p) # {}] :
             p \in [Lenses -> Severities]}

-----------------------------------------------------------------------------
(* score_bot_edge_heuristic: what the patterns find in the text adds up.   *)
Weight == [venue |-> 14, api |-> 14, yield |-> 16, capital |-> 9,
           decay |-> 12, stop |-> 10, validation |-> 5, primitive |-> 6,
           product |-> -28, handwave |-> -18, freelunch |-> -20]
Bonus == {2, 3, 5, 6}

(* A spec without a venue, an API and a stop is none.                      *)
Given == {"venue", "api", "stop"}

Clamped(n) == IF n < 0 THEN 0 ELSE IF n > 100 THEN 100 ELSE n
Heuristic(found, bonus) ==
  Clamped(8 + bonus + MapThenSumSet(LAMBDA w : Weight[w], found))

(* score_bot_edge: in the band the model may say something else.           *)
Scores(found, bonus) ==
  LET h == Heuristic(found, bonus) IN
  {h} \cup (IF h \in 35..75 THEN {0, 100} ELSE {})

BotAdmitThreshold == 55

(* Whether a legitimate text clears the bar, by what its patterns find.    *)
Overs ==
  {score >= BotAdmitThreshold :
     score \in UNION {Scores(Given \cup more, bonus) :
                       more \in SUBSET (DOMAIN Weight \ Given), bonus \in Bonus}}

(* venue_us_status: eligible only when the registry says so of every leg.  *)
UsStatus == {"eligible", "verify", "restricted"}

(* admits(idea, score).                                                    *)
Admits(legal, checkable, status, over) ==
  legal /\ checkable /\ status = "eligible" /\ over

-----------------------------------------------------------------------------
(* The board at the start is one that runs one after the other can leave.  *)
ReviewInit ==
  /\ Init
  /\ work = [t \in Runs |-> NoWork]
  /\ count \in [Categories -> 0..2]
  /\ \E c \in Categories : count[c] = 0
  /\ removed = 0

Set(t, w) == work' = [work EXCEPT ![t] = w]
Keep == UNCHANGED reviewVars

(* Counts are kept over their least.                                       *)
Level(n) ==
  LET least == Min({n[c] : c \in Categories}) IN
  count' = [c \in Categories |-> n[c] - least]

(* Mutant: the signal's own category is worked however full it is.         *)
PickCategoryRouted(t, routed) ==
  /\ PickProgram(t)
  /\ Set(t, [work[t] EXCEPT !.category = routed])
  /\ UNCHANGED <<count, removed>>

(* _pick_bot_category: the signal's own while it is within one of the      *)
(* least explored, that one otherwise.                                     *)
PickCategory(t, routed) ==
  /\ PickProgram(t)
  /\ \E c \in Categories :
       /\ IF count[routed] <= 1 THEN c = routed ELSE count[c] = 0
       /\ Set(t, [work[t] EXCEPT !.category = c])
  /\ UNCHANGED <<count, removed>>

DraftToReview(t, legal) ==
  /\ Draft(t)
  /\ Set(t, [work[t] EXCEPT !.round = "panel", !.text = "draft", !.legal = legal])
  /\ UNCHANGED <<count, removed>>

-----------------------------------------------------------------------------
(* stress() returns: the verdict goes on the card, and the objection with  *)
(* it when there is one.                                                   *)
Concluded(t, w) == Stress(t) /\ Set(t, [w EXCEPT !.round = "none"])

(* Without a backend the panel is a free no-op; otherwise it kills the     *)
(* draft or leaves its strongest landed objection.                         *)
Panel(t, p) ==
  /\ work[t].round = "panel"
  /\ IF p.killed
     THEN /\ pc[t] = "stress"
          /\ Set(t, [work[t] EXCEPT !.round = "rewrite"])
          /\ UNCHANGED vars
     ELSE Concluded(t, [work[t] EXCEPT
                          !.verdict = "vetted",
                          !.objection = IF p.landed THEN "draft" ELSE "none"])
  /\ UNCHANGED <<count, removed>>

(* No answer to the request for a rewrite is not a judgement.              *)
RewriteSilent(t) ==
  /\ work[t].round = "rewrite"
  /\ Concluded(t, [work[t] EXCEPT !.verdict = "review-incomplete", !.objection = "draft"])
  /\ UNCHANGED <<count, removed>>

(* It cannot be fixed, or nothing in the reply is usable.                  *)
RewriteUnusable(t) ==
  /\ work[t].round = "rewrite"
  /\ Concluded(t, [work[t] EXCEPT !.verdict = "flagged", !.objection = "draft"])
  /\ UNCHANGED <<count, removed>>

(* The rewrite is a copy: the draft stays what it was.                     *)
Rewrite(t) ==
  /\ work[t].round = "rewrite"
  /\ pc[t] = "stress"
  /\ Set(t, [work[t] EXCEPT !.round = "recheck"])
  /\ UNCHANGED <<vars, count, removed>>

(* Mutant: the objections of the first round stay on the rewritten card.   *)
RecheckKeeps(t, severity, legal) ==
  /\ work[t].round = "recheck"
  /\ Concluded(t, IF Fatal(severity)
                  THEN [work[t] EXCEPT !.verdict = "flagged", !.objection = "rewrite"]
                  ELSE [work[t] EXCEPT !.verdict = "vetted", !.text = "rewrite",
                                       !.legal = legal, !.objection = "draft"])
  /\ UNCHANGED <<count, removed>>

(* The lens that hit hardest reads the rewrite.  It stands unless that     *)
(* lens finds it fatal again; a failing call finds nothing.                *)
Recheck(t, severity, legal) ==
  /\ work[t].round = "recheck"
  /\ Concluded(t, IF Fatal(severity)
                  THEN [work[t] EXCEPT !.verdict = "flagged", !.objection = "rewrite"]
                  ELSE [work[t] EXCEPT !.verdict = "vetted", !.text = "rewrite",
                                       !.legal = legal,
                                       !.objection = IF severity > 0 THEN "rewrite" ELSE "none"])
  /\ UNCHANGED <<count, removed>>

-----------------------------------------------------------------------------
(* What is not legitimate is refused; the rest is stored, and what missed  *)
(* the bar says so unless the panel rejected it already.                   *)
PublishCard(t, clears) ==
  /\ Publish(t)
  /\ work[t].legal
  /\ Set(t, [work[t] EXCEPT !.clears = clears,
                            !.verdict = IF clears \/ @ = "flagged" THEN @ ELSE "below-bar"])
  /\ UNCHANGED <<count, removed>>

RefuseIllegal(t) == Refuse(t) /\ ~work[t].legal /\ Keep

Gate(t) ==
  \/ RefuseIllegal(t)
  \/ \E over \in Overs, checkable \in BOOLEAN, status \in UsStatus :
       PublishCard(t, Admits(work[t].legal, checkable, status, over))

(* filter_and_save has the last word.                                      *)
Store(t, kept) ==
  /\ Save(t)
  /\ Set(t, [work[t] EXCEPT !.stored = kept])
  /\ IF kept THEN Level([count EXCEPT ![work[t].category] = @ + 1])
     ELSE UNCHANGED count
  /\ UNCHANGED removed

(* The operator or the siphon takes a card off the board.                  *)
Remove(c) ==
  /\ removed < Removals
  /\ removed' = removed + 1
  /\ Level([count EXCEPT ![c] = @ - 1])
  /\ UNCHANGED <<vars, work>>

-----------------------------------------------------------------------------
Forget(t) == Set(t, NoWork) /\ UNCHANGED <<count, removed>>

Review(t) ==
  \/ \E p \in Panels : Panel(t, p)
  \/ RewriteSilent(t)
  \/ RewriteUnusable(t)
  \/ Rewrite(t)
  \/ \E severity \in Severities, legal \in BOOLEAN : Recheck(t, severity, legal)
  \/ Gate(t)
  \/ \E kept \in BOOLEAN : Store(t, kept)

ReviewedRun(t) ==
  \/ (ListProbes(t) \/ NoProgram(t) \/ ReadLessons(t) \/ CallModel(t) \/ NoDraft(t)) /\ Keep
  \/ \E routed \in Categories : PickCategory(t, routed)
  \/ \E legal \in BOOLEAN : DraftToReview(t, legal)
  \/ Review(t)
  \/ (Record(t) \/ Raise(t) \/ RecordCrash(t) \/ RecordCrashFails(t)) /\ Forget(t)

ReviewNext ==
  \/ (SkipTick \/ FireTick \/ Pass) /\ Keep
  \/ \E t \in Clicks : ChurnNow(t) /\ Keep
  \/ \E t \in Runs : ReviewedRun(t)
  \/ Reload /\ work' = [t \in Runs |-> NoWork] /\ UNCHANGED <<count, removed>>
  \/ \E c \in Categories : Remove(c)

ReviewSpec == ReviewInit /\ [][ReviewNext]_allVars

-----------------------------------------------------------------------------
(* A card is honest about itself: its text is legitimate, whichever text   *)
(* that came to be.  One that reads "vetted" cleared the bar, and the      *)
(* objection it shows was raised against the very text above it.           *)
CardsAreHonest ==
  \A t \in Runs :
    work[t].stored =>
      /\ work[t].legal
      /\ work[t].verdict = "vetted" =>
           work[t].clears /\ work[t].objection \in {"none", work[t].text}

(* Runs that overlap pick from counts that others are about to change, and *)
(* yet no category gets further ahead of the least explored one than one   *)
(* card, one for each run, and one for each card that was taken away.      *)
CategoriesBalanced ==
  \A c \in Categories : count[c] <= 1 + Cardinality(Runs) + removed
=============================================================================
