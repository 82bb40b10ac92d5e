------------------------------- MODULE Boards -------------------------------
(***************************************************************************)
(* The ranked boards: who writes the scores they rank by, and what they    *)
(* show.  A score puts an idea on a board.  The generators store an idea   *)
(* with the score of the board it was made for, or with none; a cadence    *)
(* per axis scores what has none.  It reads a row, may wait for a model,   *)
(* and saves the whole row it read.  Two boards, PKI and money, are for    *)
(* what their probe has reviewed.                                          *)
(*                                                                         *)
(* The scoreboard measures how the snipes fare and, when the operator opts *)
(* in, turns that into nudges of the snipe score.                          *)
(*                                                                         *)
(* An idea's number is its place in the order of generated_at.  What a     *)
(* score is, is left out: the models tell whether a row has one.           *)
(***************************************************************************)
EXTENDS LlmBackend, Integers, FiniteSetsExt

CONSTANTS
  Deployed,  \* the environments a server may be started in
  Ideas,     \* in the order of generated_at
  Text,      \* what the patterns of the scorers find in an idea, and its bonuses
  Batch,     \* rows a scorer takes while there is a model to ask: 5
  MinSignals,  \* _MIN_SIGNALS_FOR_NUDGE: 4
  NoRow

ASSUME IdeasAssumption == Ideas \subseteq Nat /\ IsFiniteSet(Ideas)
ASSUME DeployedAssumption == Deployed \subseteq Environments
ASSUME BatchAssumption == Batch \in Nat \ {0}
ASSUME MinSignalsAssumption == MinSignals \in Nat

VARIABLES
  row,      \* the ideas table
  arrived,  \* bound: every idea is generated once
  draft,    \* generated, their generator waiting for the model to score them
  scorer,   \* the back-fill of each axis
  env,      \* what this process found in its environment
  signals,  \* outcome_signals of an idea; bound: counted up to MinSignals
  stored,   \* calibration_weights holds learned nudges
  nudged,   \* so does _NUDGE_CACHE
  inherited \* history: calibration_weights held some when this process started

scoreboard == <<signals, stored, nudged, inherited>>
boardsVars == <<row, arrived, draft, scorer, env, signals, stored, nudged, inherited>>

(* The axes with a cadence.  Ambition and snipe have none: what is scored  *)
(* on them is scored on arrival.                                           *)
Axes == {"fundability", "cashflow", "pki", "bot"}

(* MONEY_, PKI_, CASHFLOW_CATEGORIES and the rest.                         *)
Families == {"money", "pki", "cashflow", "other"}

(* generation_mode: what only the two probes set, and all else.            *)
Modes == {"pki", "bot", "other"}

Row == [family: Families, mode: Modes, open: BOOLEAN,
        scores: SUBSET (Axes \cup {"snipe", "ambition"}), gated: BOOLEAN]

Scorer == [pc: {"rest", "next", "ask", "save"}, left: SUBSET Ideas, read: Row \cup {NoRow}]
Resting == [pc |-> "rest", left |-> {}, read |-> NoRow]

(* What a start leaves of the environment: the switch, whether a scorer or *)
(* a generator finds a model, whether the probes do, FORGE_SCOREBOARD_AUTOTUNE. *)
Started ==
  {[off |-> SwitchedOff(e), cheap |-> ResolveCheap(e) # "nothing",
    role |-> ResolveRole(e) # "nothing", autotune |-> t] :
     e \in Deployed, t \in BOOLEAN}

BoardsTypeOK ==
  /\ row \in [Ideas -> Row \cup {NoRow}]
  /\ arrived \subseteq Ideas
  /\ draft \in [Ideas -> Row \cup {NoRow}]
  /\ scorer \in [Axes -> Scorer]
  /\ env \in Started
  /\ signals \in [Ideas -> 0..MinSignals]
  /\ stored \in BOOLEAN /\ nudged \in BOOLEAN /\ inherited \in BOOLEAN

BoardsInit ==
  /\ row = [i \in Ideas |-> NoRow] /\ arrived = {} /\ draft = row
  /\ scorer = [a \in Axes |-> Resting]
  /\ env \in Started
  /\ signals = [i \in Ideas |-> 0]
  /\ stored = FALSE /\ nudged = FALSE /\ inherited = FALSE

-----------------------------------------------------------------------------
(* The heuristics, in hundredths: a base, what the patterns find, a bonus  *)
(* for the category and, on the one axis anything is learned about, the    *)
(* nudge.                                                                  *)

FundabilityWeight == [payments |-> 15, paid |-> 15, buyer |-> 15, recurring |-> 10]
CashflowWeight == [fast |-> 15, lowCapital |-> 15, demand |-> 15, direct |-> 10,
                   slow |-> -15]
SnipeWeight == [wedge |-> 15, whyNow |-> 10, beachhead |-> 5]
AmbitionWeight == [stack |-> 10, deep |-> 5, short |-> -5]

Sum(weight, found) ==
  MapThenSumSet(LAMBDA w : weight[w], found \cap DOMAIN weight)

(* The distinct keywords of a text count up to four.                       *)
Hits(n) == 5 * Min({n, 4})

(* The nudge of a category, if there is one for it.                        *)
Nudges == IF nudged THEN {-5, 0, 5} ELSE {0}

(* score_fundability, score_cashflow: in the band _llm_refine is asked.     *)
FundabilityAsks(text) ==
  20 + Sum(FundabilityWeight, text.found) + text.bonus.fundability \in 35..70
CashflowAsks(text) ==
  15 + Sum(CashflowWeight, text.found) + text.bonus.cashflow \in 35..70

(* score_snipe: a generated snipe always names its incumbent.              *)
SnipeAsks(text, nudge) ==
  15 + 25 + Hits(text.proofs) + Sum(SnipeWeight, text.found) + nudge \in 40..75

(* score_ambition.                                                         *)
AmbitionAsks(text) ==
  20 + text.bonus.ambition + Hits(text.frontier) + Sum(AmbitionWeight, text.found)
    \in 40..75

(* Whether the scorer of an axis wants a model; the two probes' axes have a*)
(* heuristic of their own, modelled with them.                             *)
Wants(axis, i) ==
  CASE axis = "fundability" -> {FundabilityAsks(Text[i])}
    [] axis = "cashflow"    -> {CashflowAsks(Text[i])}
    [] axis = "snipe"       -> {SnipeAsks(Text[i], n) : n \in Nudges}
    [] axis = "ambition"    -> {AmbitionAsks(Text[i])}
    [] OTHER                -> BOOLEAN

-----------------------------------------------------------------------------
(* The generators.  filter_and_save has its own model; here it saves.      *)

Drafted(family, mode, scores, gated) ==
  [family |-> family, mode |-> mode, open |-> TRUE, scores |-> scores, gated |-> gated]

Arrive(i, r) ==
  /\ i \notin arrived
  /\ arrived' = arrived \cup {i}
  /\ row' = [row EXCEPT ![i] = r]
  /\ UNCHANGED <<draft, scorer, env, scoreboard>>

(* Scored before it is saved, on one axis.                                 *)
ArriveScored(i, family, axis) ==
  LET r == Drafted(family, "other", {axis}, FALSE) IN
  \/ FALSE \in Wants(axis, i) /\ Arrive(i, r)
  \/ /\ TRUE \in Wants(axis, i)
     /\ i \notin arrived
     /\ arrived' = arrived \cup {i}
     /\ draft' = [draft EXCEPT ![i] = r]
     /\ UNCHANGED <<row, scorer, env, scoreboard>>

(* The model has answered: filter_and_save.                                *)
Answer(i) ==
  /\ draft[i] # NoRow
  /\ row' = [row EXCEPT ![i] = draft[i]]
  /\ draft' = [draft EXCEPT ![i] = NoRow]
  /\ UNCHANGED <<arrived, scorer, env, scoreboard>>

(* Missions, ingests, expansions and templates, with a model or without.   *)
Produce(i, family) == Arrive(i, Drafted(family, "other", {}, FALSE))

(* POST /api/churn, for every lab but the money one: the axis of the lab,  *)
(* whatever the gate of its board would say.                               *)
Lab == [pki |-> {"pki"}, cashflow |-> {"cashflow"},
        other |-> {"fundability", "snipe", "ambition"}]
Churn(i, family) ==
  /\ env.cheap
  /\ \E axis \in Lab[family] : ArriveScored(i, family, axis)

(* The snipe cadence, in any of the hunting grounds.                       *)
Snipe(i) ==
  /\ env.cheap
  /\ ArriveScored(i, "other", "snipe")

(* The pulse cadence, in a product category.                               *)
Pulse(i) ==
  /\ env.cheap
  /\ ArriveScored(i, "other", "fundability")

(* What the two probes admit.                                              *)
AdmitPki(i) ==
  /\ env.cheap
  /\ Arrive(i, Drafted("pki", "pki", {"pki"}, TRUE))

AdmitBot(i) ==
  /\ env.role
  /\ Arrive(i, Drafted("money", "bot", {"bot"}, TRUE))

-----------------------------------------------------------------------------
(* The operator archives, rejects or deletes.                              *)

Close(i) ==
  /\ row[i] # NoRow
  /\ row[i].open
  /\ row' = [row EXCEPT ![i].open = FALSE]
  /\ UNCHANGED <<arrived, draft, scorer, env, scoreboard>>

Delete(i) ==
  /\ row[i] # NoRow
  /\ row' = [row EXCEPT ![i] = NoRow]
  /\ UNCHANGED <<arrived, draft, scorer, env, scoreboard>>

-----------------------------------------------------------------------------
(* The back-fill.  The scope of each axis.                                 *)

(* score_pending_ideas.                                                    *)
FundabilityScope(r) == TRUE

(* score_pending_cashflow.                                                 *)
CashflowScope(r) == r.family = "cashflow"

(* score_pending_pki_urgency.                                              *)
PkiScope(r) == r.family = "pki" /\ r.mode = "pki"

(* Mutant: a bot category is enough.                                       *)
BotScopeUngated(r) == r.family = "money"

(* score_pending_bot_edge.                                                 *)
BotScope(r) == r.family = "money" /\ r.mode = "bot"

InScope(a, r) ==
  CASE a = "fundability" -> FundabilityScope(r)
    [] a = "cashflow"    -> CashflowScope(r)
    [] a = "pki"         -> PkiScope(r)
    [] a = "bot"         -> BotScope(r)

Unscored(a, i) ==
  /\ row[i] # NoRow
  /\ row[i].open
  /\ InScope(a, row[i])
  /\ a \notin row[i].scores

(* ORDER BY generated_at DESC LIMIT n; without a model all there are.      *)
Newest(S, n) == {i \in S : Cardinality({j \in S : j > i}) < n}
Taken(a, S) == IF env.cheap /\ a # "bot" THEN Newest(S, Batch) ELSE S

Becomes(a, s) == scorer' = [scorer EXCEPT ![a] = s]

(* Mutant: what has a score is taken again.                                *)
FireAll(a) ==
  /\ scorer[a].pc = "rest"
  /\ LET due == {i \in Ideas : row[i] # NoRow /\ row[i].open /\ InScope(a, row[i])} IN
     /\ due # {}
     /\ Becomes(a, [Resting EXCEPT !.pc = "next", !.left = Taken(a, due)])
  /\ UNCHANGED <<row, arrived, draft, env, scoreboard>>

(* score_pending_*: the list of ids, once a tick.                          *)
Fire(a) ==
  /\ scorer[a].pc = "rest"
  /\ LET due == {i \in Ideas : Unscored(a, i)} IN
     /\ due # {}
     /\ Becomes(a, [Resting EXCEPT !.pc = "next", !.left = Taken(a, due)])
  /\ UNCHANGED <<row, arrived, draft, env, scoreboard>>

-----------------------------------------------------------------------------
(* The next row of the list, if it is still there: read, and scored.       *)
Score(a) ==
  /\ scorer[a].pc = "next"
  /\ LET i == Max(scorer[a].left) IN
     IF row[i] = NoRow
     THEN Becomes(a, IF scorer[a].left = {i} THEN Resting
                     ELSE [scorer[a] EXCEPT !.left = @ \ {i}])
     ELSE \E wants \in Wants(a, i) :
            Becomes(a, [scorer[a] EXCEPT !.pc = IF env.cheap /\ wants THEN "ask" ELSE "save",
                                         !.read = row[i]])
  /\ UNCHANGED <<row, arrived, draft, env, scoreboard>>

(* The model has answered, or was not asked.  save_idea: the row as it was *)
(* read, with the score.                                                   *)
Save(a) ==
  /\ scorer[a].pc \in {"ask", "save"}
  /\ LET i == Max(scorer[a].left) IN
     /\ row' = [row EXCEPT ![i] = [scorer[a].read EXCEPT !.scores = @ \cup {a}]]
     /\ Becomes(a, IF scorer[a].left = {i} THEN Resting
                   ELSE [pc |-> "next", left |-> scorer[a].left \ {i}, read |-> NoRow])
  /\ UNCHANGED <<arrived, draft, env, scoreboard>>

(* Any of these calls raises: the list is given up until the next tick.    *)
ScorerRaises(a) ==
  /\ scorer[a].pc # "rest"
  /\ Becomes(a, Resting)
  /\ UNCHANGED <<row, arrived, draft, env, scoreboard>>

-----------------------------------------------------------------------------
(* The scoreboard cadence looks up how the open snipes fare; a look-up may *)
(* fail.  What is recorded is what the list said, so the awaits between    *)
(* the ideas do not show.                                                  *)
Capture ==
  /\ \E some \in SUBSET {i \in Ideas : row[i] # NoRow /\ row[i].open
                                       /\ "snipe" \in row[i].scores} :
       signals' = [i \in Ideas |-> IF i \in some THEN Min({signals[i] + 1, MinSignals})
                                   ELSE signals[i]]
  /\ UNCHANGED <<row, arrived, draft, scorer, env, stored, nudged, inherited>>

(* Then, opted in, it compares prediction and outcome by category, once the*)
(* ideas that are still there have signals enough, stores the nudges that  *)
(* gives, if any, and loads them with those of before, which no run        *)
(* removes.  A call in between may raise.                                  *)
Tune ==
  /\ env.autotune
  /\ LET enough == MapThenSumSet(LAMBDA i : signals[i],
                                 {i \in Ideas : row[i] # NoRow}) >= MinSignals
     IN stored' \in {stored, stored \/ enough}
  /\ nudged' \in {nudged, stored'}
  /\ UNCHANGED <<row, arrived, draft, scorer, env, signals, inherited>>

(* The process ends anywhere, its generators and scorers with it.  Its keys*)
(* and programs stay, the operator may have turned the auto-tune on or off;*)
(* either way the next process loads what is stored.                       *)
Restart ==
  /\ env' \in {[env EXCEPT !.autotune = t] : t \in BOOLEAN}
  /\ scorer' = [a \in Axes |-> Resting]
  /\ draft' = [i \in Ideas |-> NoRow]
  /\ nudged' = stored /\ inherited' = stored
  /\ UNCHANGED <<row, arrived, signals, stored>>

BoardsNext ==
  \/ \E i \in Ideas :
       \/ \E f \in Families : Produce(i, f)
       \/ \E f \in DOMAIN Lab : Churn(i, f)
       \/ Snipe(i)
       \/ Pulse(i)
       \/ AdmitPki(i)
       \/ AdmitBot(i)
       \/ Answer(i)
       \/ Close(i)
       \/ Delete(i)
  \/ \E a \in Axes : Fire(a) \/ Score(a) \/ Save(a) \/ ScorerRaises(a)
  \/ Capture
  \/ Tune
  \/ Restart

BoardsSpec == BoardsInit /\ [][BoardsNext]_boardsVars

(* Each cadence comes round for as long as the process lives, and the      *)
(* event loop resumes its coroutine.  A call may fail and the process may  *)
(* end any number of times, but not at every attempt for ever: strong      *)
(* fairness of what a failure cuts short.  None for generators, operator   *)
(* and scoreboard.                                                         *)
Fairness ==
  \A a \in Axes : WF_boardsVars(Fire(a)) /\ SF_boardsVars(Score(a)) /\ SF_boardsVars(Save(a))

FairSpec == BoardsSpec /\ Fairness

-----------------------------------------------------------------------------
(* What the boards show, best score first.                                 *)

(* /pki.                                                                   *)
OnPkiBoard(r) ==
  r.family = "pki" /\ r.open /\ "pki" \in r.scores /\ r.mode = "pki"

(* /money-bots.                                                            *)
OnMoneyBoard(r) == r.family = "money" /\ r.open /\ "bot" \in r.scores

(* What the PKI and the money board show comes from the probe that reviews *)
(* for it (a money card says how that went), although a click stores a PKI *)
(* score without one, other generators work the same categories, the money *)
(* board asks for a score only, and the back-fills write scores while      *)
(* others restore what they read before.                                   *)
BoardsGated ==
  \A i \in Ideas :
    row[i] # NoRow /\ (OnPkiBoard(row[i]) \/ OnMoneyBoard(row[i])) => row[i].gated

(* The operator's switches hold: while FORGE_LLM_BACKEND is static or none *)
(* no scorer waits for a model and neither click nor probe finds one,      *)
(* whatever keys and programs there are; and a process with the auto-tune  *)
(* off learns nothing.  It is no way back: what an earlier process stored  *)
(* stays in use, and none of it is lost over a tuning that was cut short.  *)
SwitchesHold ==
  /\ env.off => /\ ~env.cheap /\ ~env.role
                /\ \A a \in Axes : scorer[a].pc # "ask"
                /\ \A i \in Ideas : draft[i] = NoRow
  /\ ~env.autotune => stored = inherited /\ nudged = inherited

(* No idea on the board stays unscored for ever, although the lists are    *)
(* short and newest first, and each scorer's save undoes what the others   *)
(* wrote since it read.                                                    *)
EveryIdeaScored == <>[](\A a \in Axes, i \in Ideas : ~Unscored(a, i))
=============================================================================
