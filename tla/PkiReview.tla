----------------------------- MODULE PkiReview -----------------------------
(***************************************************************************)
(* The review of one draft of the PKI probe, step by step: the search for  *)
(* prior art, the red-team panel, the rewrite, the score and the gate.     *)
(* PkiProbe leaves what they say open; here it follows from what GitHub    *)
(* and the model answer.  The panel's three calls are one step: nothing    *)
(* they read or write is shared with another coroutine.                    *)
(*                                                                         *)
(* Scores and severities are hundredths.                                   *)
(***************************************************************************)
EXTENDS PkiProbe, Restarts, Integers, FiniteSetsExt

VARIABLES
  stage,      \* where the review stands
  objection,  \* severity of the objection to publish, 0 when there is none
  revised,    \* the rewrite landed
  clears,     \* the text as it stands scores over the bar
  card        \* the card of this cycle's draft, once it is stored

draftVars == <<stage, objection, revised, clears>>
reviewVars == <<draftVars, card>>
allVars == <<vars, reviewVars, settled>>

Stages == {"none", "search", "panel", "revise", "score", "gate"}
NoCard == [clears |-> FALSE, objection |-> 0, revised |-> FALSE]

Capped(n, top) == IF n > top THEN top ELSE n
Clamped(n) == IF n < 0 THEN 0 ELSE Capped(n, 100)

-----------------------------------------------------------------------------
(* A repository a search found, reduced to what score_match reads: how     *)
(* many words of purpose and of the domain it shares with the draft, and   *)
(* its stars: below 50, below 400, or more.                                *)
Repos == [purpose : {0, 1, 2, 4}, topical : {0, 2},
          stars : {"abandoned", "modest", "established"}]

StarFactor(stars) == CASE stars = "abandoned" -> 45
                       [] stars = "modest" -> 75
                       [] stars = "established" -> 100

(* Mutant: vocabulary of the domain counts although no purpose is shared.  *)
ScoreMatchByTopic(r) ==
  (Capped(28 * r.purpose + 28 * r.topical, 100) * StarFactor(r.stars)) \div 100

ScoreMatch(r) ==
  IF r.purpose = 0
  THEN 0
  ELSE (Capped(28 * Capped(r.purpose, 4) + 6 * Capped(r.topical, 2), 100)
          * StarFactor(r.stars)) \div 100

(* What the searches of GitHub bring, from the cache or from the network:  *)
(* nothing when none of them ran.  The best match decides, so one will do. *)
Findings == {{}} \cup {{r} : r \in Repos}

(* check_prior_art(idea).exists: it fails open.                            *)
Exists(found) == \E r \in found : ScoreMatch(r) >= 55

-----------------------------------------------------------------------------
Lenses == {"real", "solved", "wrong"}

(* One lens's reply.  Severity 0 stands for "none", for text that cannot   *)
(* be read and for a call that failed.                                     *)
Replies == [severity : {0, 50, 75, 95}, cited : BOOLEAN]
Panels == {p \in [Lenses -> Replies] : \A l \in Lenses : p[l].cited => l = "wrong"}

(* Mutant: a factual objection counts without a citation.                  *)
SeverityUncapped(lens, reply) == reply.severity

(* _parse_objection: "wrong" without a citation is a nit.                  *)
Severity(lens, reply) ==
  IF lens = "wrong" /\ ~reply.cited
  THEN Capped(reply.severity, 35) ELSE reply.severity

Landed(p) == {l \in Lenses : Severity(l, p[l]) >= 70}

(* _killed: the fatal lens alone, or two votes.                            *)
Killed(p) == Severity("solved", p["solved"]) >= 90 \/ Cardinality(Landed(p)) >= 2

Hardest(p) == Max({Severity(l, p[l]) : l \in Lenses})

(* _strongest: what is worth showing on the card.                          *)
Strongest(p) == IF Hardest(p) >= 40 THEN Hardest(p) ELSE 0

-----------------------------------------------------------------------------
(* What the patterns of engine/pki.py find in a text.                      *)
(* How many of deadline, blast radius and tooling gap it names, and        *)
(* whether it cites an artifact, speaks of PKI, and speaks like marketing. *)
Texts == [urgent : 0..3, cites : BOOLEAN, substance : BOOLEAN, handwave : BOOLEAN]

Heuristic(text, bonus) ==
  Clamped(10 + 16 * text.urgent + bonus
          + (IF text.cites THEN 12 ELSE 0)
          - (IF text.substance THEN 0 ELSE 20)
          - (IF text.handwave THEN 15 ELSE 0))

(* score_pki_urgency: in the band the model may say something else.        *)
Scores(text, bonus) ==
  LET h == Heuristic(text, bonus) IN
  {h} \cup (IF h \in 35..75 THEN {0, 100} ELSE {})

PkiAdmitThreshold == 55

-----------------------------------------------------------------------------
ReviewInit ==
  /\ Init
  /\ settled = FALSE
  /\ stage = "none"
  /\ objection = 0
  /\ revised = FALSE
  /\ clears = FALSE
  /\ card = NoCard

(* The idea object is dropped with the coroutine's frame.                  *)
Forget == /\ stage' = "none"
          /\ objection' = 0
          /\ revised' = FALSE
          /\ clears' = FALSE
          /\ card' = NoCard

DraftToReview(a) ==
  /\ Draft(a)
  /\ stage' = "search"
  /\ UNCHANGED <<objection, revised, clears, card>>

(* check_prior_art runs before the panel: a duplicate costs no call.       *)
SearchPriorArt(found) ==
  /\ stage = "search"
  /\ \/ /\ Exists(found)
        /\ Drop
        /\ Forget
     \/ /\ ~Exists(found)
        /\ stage' = "panel"
        /\ UNCHANGED <<vars, objection, revised, clears, card>>

(* deepen without a backend hands the draft back.                          *)
NoPanel ==
  /\ stage = "panel"
  /\ stage' = "score"
  /\ UNCHANGED <<vars, objection, revised, clears, card>>

Deepen(p) ==
  /\ stage = "panel"
  /\ \/ /\ Killed(p)
        /\ Drop
        /\ Forget
     \/ /\ ~Killed(p)
        /\ stage' = IF Hardest(p) = 0 THEN "score" ELSE "revise"
        /\ objection' = Strongest(p)
        /\ UNCHANGED <<vars, revised, clears, card>>

(* Mutant: the objection is published whether or not the text answers it.  *)
ReviseOrNot(usable) ==
  /\ stage = "revise"
  /\ stage' = "score"
  /\ revised' = usable
  /\ UNCHANGED <<vars, objection, clears, card>>

(* The rewrite is usable when it has every field and names what changed.   *)
Revise(usable) ==
  /\ stage = "revise"
  /\ stage' = "score"
  /\ revised' = usable
  /\ objection' = IF usable THEN objection ELSE 0
  /\ UNCHANGED <<vars, clears, card>>

(* The revised text is scored, not the draft the panel tore up.            *)
ScoreText(text, bonus) ==
  /\ stage = "score"
  /\ clears' \in {score >= PkiAdmitThreshold : score \in Scores(text, bonus)}
  /\ stage' = "gate"
  /\ UNCHANGED <<vars, objection, revised, card>>

Admits == anchor # Nil /\ clears

Gate ==
  /\ stage = "gate"
  /\ \/ /\ Admits
        /\ Survive
        /\ stage' = "none"
        /\ UNCHANGED <<objection, revised, clears, card>>
     \/ ~Admits /\ Drop /\ Forget

(* filter_and_save has the last word.                                      *)
Store(kept) ==
  /\ Save
  /\ card' = IF kept THEN [clears |-> clears, objection |-> objection,
                           revised |-> revised]
             ELSE NoCard
  /\ UNCHANGED draftVars

-----------------------------------------------------------------------------
(* What ends a cycle ends its review.                                      *)
Ends == Record \/ Raise \/ RecordCrash \/ RecordCrashFails

BeforeReview ==
  \/ ListProbes
  \/ \E g \in Gaps : PickGap(g)
  \/ NoNewGap
  \/ CallModel
  \/ NoDraft

Review ==
  \/ \E found \in Findings : SearchPriorArt(found)
  \/ NoPanel
  \/ \E p \in Panels : Deepen(p)
  \/ \E usable \in BOOLEAN : Revise(usable)
  \/ \E text \in Texts, bonus \in {14, 20} : ScoreText(text, bonus)
  \/ Gate
  \/ \E kept \in BOOLEAN : Store(kept)

ReviewedCycle ==
  \/ BeforeReview /\ UNCHANGED reviewVars
  \/ \E a \in Anchors : DraftToReview(a)
  \/ Review
  \/ Ends /\ Forget

ReviewNext ==
  \/ (SkipTick \/ FireTick \/ Pass) /\ UNCHANGED <<reviewVars, settled>>
  \/ ReviewedCycle /\ UNCHANGED settled
  \/ Reload /\ Forget /\ ~settled /\ UNCHANGED settled
  \/ SettleDown /\ UNCHANGED <<vars, reviewVars>>

Work(A) == A /\ UNCHANGED settled

(* A cycle once begun goes on: each of its calls has a timeout.  Time      *)
(* passes, and the loop gets its turn.  The database may refuse a query or *)
(* a row any number of times but not for ever, and the process is not      *)
(* restarted for ever.                                                     *)
Fairness ==
  /\ WF_allVars(SettleDown /\ UNCHANGED <<vars, reviewVars>>)
  /\ WF_allVars(Work(Pass /\ UNCHANGED reviewVars))
  /\ WF_allVars(Work(ReviewedCycle))
  /\ SF_allVars(Work(FireTick /\ UNCHANGED reviewVars))
  /\ SF_allVars(Work(RecordCrash /\ Forget))

FairSpec == ReviewInit /\ [][ReviewNext]_allVars /\ Fairness

-----------------------------------------------------------------------------
(* The hour after an overdue one is not silent: a cadence that is due      *)
(* leaves a row in the end, however many cycles fail before it does.       *)
KeepsProbing == Overdue ~> ~Overdue

(* Prior art kills a draft only on evidence: some search ran and found a   *)
(* repository that shares its purpose, not only its vocabulary, and that   *)
(* somebody uses.  Outages and the domain's common words kill nothing.     *)
PriorArtIsEvidence ==
  [][stage = "search" /\ pc' = "record" =>
       \A found \in Findings :
         SearchPriorArt(found) =>
           \E r \in found : r.purpose >= 2 /\ r.stars # "abandoned"]_allVars

(* One voice kills a draft only by showing that it exists already; else it *)
(* takes two, and a factual correction without a citation is no voice.     *)
PanelNeedsTwo ==
  [][stage = "panel" /\ pc' = "record" =>
       \A p \in Panels :
         Deepen(p) =>
           \/ p["solved"].severity >= 90
           \/ \E l, m \in Lenses :
                /\ l # m
                /\ \A v \in {l, m} : p[v].severity >= 70 /\ (v = "wrong" => p[v].cited)]_allVars

(* A card shows an objection only above a text that was rewritten to       *)
(* answer it, never one of an earlier draft, and its score is over the bar.*)
CardAnswers ==
  card # NoCard =>
    /\ card.clears
    /\ card.objection # 0 => card.objection >= 40 /\ card.revised
=============================================================================
