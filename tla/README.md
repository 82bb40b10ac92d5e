# Project Forge in TLA+

A model of [Project Forge](https://github.com/rayketcham-lab/project-forge), a
server that generates project ideas, judges them and turns some into
repositories: the life of an idea, what generates, admits, scores, reviews and
retires ideas, the cadences that do so on their own, and the two agents that
change the program's own code. TLC checks the modules on small instances; TLAPS
proves the main safety properties for every size.

Source paths below are relative to `src/src/project_forge/`.

## 1. The system

One uvicorn process. A FastAPI app, an in-process scheduler with 21 cadences and
one SQLite database behind a single shared `aiosqlite` connection. Everything
runs on one event loop: between two `await`s a coroutine runs alone, at an
`await` any other may run. `uvicorn --reload` is the deploy path, so the process
restarts at any moment, and what was in flight is lost.

| Component | State it keeps | Operations | Interacts with |
|---|---|---|---|
| Idea store, `storage/db.py`, `models.py` | `ideas` and about twenty other tables | `save_idea` (whole row), `update_idea_status`, `update_idea_urls`, `delete_idea`, raw `UPDATE`s of other files | every component, through the shared connection; only some writers take `_write_lock` |
| Operator routes, `web/routes.py` | none between requests, apart from a rate-limit table | promote, approve, reject, deny, scaffold, add to project, delete, mechanic approve, churn, ... | store, `gh`, engine |
| Scheduler, `web/lifespan_scheduler.py`, `web/app.py` | one task per cadence; watermarks are `MAX(ts)` queries | `cadence_tick`, `_cadence_loop`, `_fire_*` | store, engine, `cron/*` |
| Curation, `engine/siphon.py`, `cron/review_runner.py`, `cron/issue_sync_runner.py`, `engine/thinktank_reconcile.py`, the scorers | none | read a batch, wait (LLM, `gh`), write | store, `gh`, `git log` |
| PKI probe, `_fire_pki`, `feeds/pki_probe.py`, `engine/pki*.py` | `pki_probes` | one gap an interval: sweep, pick, draft, review, gate, store, log | feeds, LLM, store |
| Money-bot probe, `_fire_bot_strategy`, `engine/bot_*.py`, `feeds/venue_probe.py` | `bot_probes`; the in-memory tail of `engine/bot_progress.py` | as above, for the cadence and for Churn Now | feeds, LLM, store, `/api/money-bots/progress` |
| Missions, `engine/mission.py`, `_fire_mission` | `missions`: status and `last_generated_at`, both watermark and rotation order | create, change status, generate for one (a click), generate for the next (the cadence) | URLs, LLM, dedup gate |
| Dedup gate, `engine/dedup.py` | `filtered_ideas` | `should_accept`, `filter_and_save`: five checks and a save, each a query of its own | every generator |
| Expansion and scan, `cron/horizontal.py`, `cron/expand_runner.py`, `engine/super_ideas.py`, `cron/auto_scan.py` | `category_pair_log`, used combinations | a bridging idea, a super idea or a second bridge; a scan of templates | server and systemd timer, dedup gate |
| Introspection, `cron/introspect_runner.py`, `engine/introspect.py` | none: goes by its newest rows | a tournament of proposals in one of two modes | server and timer, dedup gate |
| Scores and boards, `engine/fundability.py`, `engine/snipe.py`, `engine/scoreboard.py`, ... | scores in `ideas`, `outcome_signals`, `calibration_weights` | score on arrival, back-fill, capture signals, learn nudges, rank | LLM, store, `/pki`, `/money-bots` |
| LLM backend, `engine/llm_backend.py` | environment variables | which model a caller gets | every caller |
| Mechanic, `engine/mechanic*.py`, `cron/mechanic_runner.py` | a status file, worktrees, branches, pull requests | run, approve, reject; a process of its own | `git`, `gh`, LLM |
| Self-improvement, `cron/self_improve_runner.py` | the checkout it runs in | pick an issue, edit, validate, branch, push, pull request, back to main | `git`, `gh`, LLM, the operator's own work in the tree |
| Challenges, rounds, reviews, audit | their tables | create, apply, compare, review, audit | store, LLM |
| Feeds, reports, scaffold templates, categories, static pages | caches at most | fetch, render | read-only |

### What is hard here

* A handler or cadence reads a row, waits for minutes, and writes what it read.
* `save_idea` is `INSERT OR REPLACE` of the whole row: it overwrites columns its
  caller never meant to touch, clears those it does not carry (`archived_reason`,
  `content_hash`), and brings back a row that was deleted meanwhile.
* All coroutines share one connection and so one transaction: whoever commits
  publishes the first half of somebody else's pair of statements.
* `gh` can time out after it has acted; a restart can fall between the effect on
  GitHub and the statement that records it.
* A check and the save it permits are separate awaits, for every generator at once.
* A cadence that schedules itself by a log must write to the log on every path,
  or it is due again on the next tick and calls the model each time.
* The same cycle can run for its cadence, for a click and for a systemd timer.
* A lock that is a file with an age goes stale while its holder lives, and reads as
  free while it is being rewritten.
* What a subprocess prints is stripped, cut and compared as if it were exact.
* The self-improvement runner and the operator work in one checkout.

`PROJECT.json` lists each of these hazards at the line where it bites.

## 2. Modules

```
IdeaStore <- GitHub <- EventLoop <- OperatorRoutes   \
                                 <- CurationCadences -> IdeaLifecycle <- IdeasProofs
                                                                      <- IdeaLifecycleLive
CadenceSleep <- CadenceLoop <- PkiProbe <- PkiReview <- PkiProbeProofs
                            <- BotProbe <- BotReview <- BotProbeProofs
             <- MissionRotation <- MissionRotationLive
                                <- CadenceProofs
             <- Introspection <- IdeasProofs
Admission <. DedupGate <- MCDedupGate, DedupGateProofs        (<. INSTANCE)
GeneratorTasks <- Expansion <- AutoScan <- Generators <- MCGenerators, ProcessProofs
SharedConnection <- Judging <- MCJudging, JudgingProofs
LlmBackend <- Boards <- MCBoards, CadenceProofs
SharedCheckout <- SelfImprove <- MCSelfImprove, UpkeepProofs
Mechanic <- MCMechanic, ProcessProofs
Siphon <- MCSiphon, UpkeepProofs
Restarts: "from some moment on no more restarts", for those with liveness
```

**IdeaStore** is the `ideas` table, reduced to the columns an idea's life depends
on: category (self-improvement or not), status, issue URL, repository URL,
promotion stamp, archive reason. One operator per SQL statement, which is what is
atomic. `SaveIdea` is the whole-row replace, with the columns it forgets and the
resurrection of a deleted row; `UpdateRow` has no effect without a row.

**GitHub** is what the outside can do: issues are filed and closed with or without
a reason, repositories appear and are deleted, commits land on the main branch.
`subjects` is what `git log -50` in the server's checkout shows of the landed
commits: `MoveCheckout` brings some in and buries others. Most of it is external;
`CreateIssue` and `CreateRepo` are the effect of the `gh` calls of
`scaffold/github.py`, `LandCommit` also that of `merge_pr`.

**EventLoop** gives each coroutine a slot: the label of the await it stands at
(`pc`), the idea it works on (`arg`), and the copy of the row it holds (`snap`).
`Reload` clears all of them at once. A cadence that walks a list is one slot per
idea, begun when the list is read (`NoneAt` keeps it from working on one idea
twice at a time); rows of different ideas never meet in a write.

**OperatorRoutes** has the handlers that move an idea, each cut at its awaits:
promote (read / file the issue / save), approve with its ci-queue issue, deny,
scaffold and Foundry create, add to project, delete, the maintenance dedup, and the mechanic's merge. A
synchronous `gh` call and the code up to the next statement are one action. Every
`gh` call can fail before or after its effect.

**CurationCadences** has the score back-fill, siphon and its undo, review, issue
sync and reconciler in the same style. Which ideas are duplicates, what the
review says and what a score is are free choices.

**IdeaLifecycle** composes them: `Next` is any step of any coroutine, a click, a
move on GitHub, or a restart.

**CadenceSleep** is the loop of a cadence: sleep, pass, sleep. Only differences of
times matter, so time is kept as ages, saturating at `Interval`, beyond which the
code never asks. **CadenceLoop** adds a log: a pass asks how old its newest row is,
and the cadence fires when that is at least the interval.

**PkiProbe** is `_fire_pki` with every return and the `except` path: list, fetch,
pick, generate, review, save, record. The log keeps the newest `Window` rows with
the gap worked and the anchor recorded. `burn` and `excused` are history: the time
since the last model call, and whether its cycle died without leaving a row.

**BotProbe** is `_fire_bot_strategy` run by the cadence and by any number of
operators' clicks, with the progress flag of `engine/bot_progress.py`.

**MissionRotation** is the table of missions, the cadence that takes the active ones
in turn, and operators who create, pause, archive, resume and generate for
missions while it runs. `before` is the order of `pick_next_mission`: a mission
without `last_generated_at` first, a touched one last. `called`, `burn` and
`passed` are history.

**PkiReview** and **BotReview** are the probes with the review of a draft, which
PkiProbe and BotProbe leave open: the search for prior art and its scoring, the
panels with their thresholds, the rewrite and its recheck, the score, the gate
and the card; for the money bots also the choice of the category from counts that
other runs are about to change. Every step of theirs is a step of the probe or
none of its business (`ReviewIsProbe`, proved). The calls of one panel are one
step: nothing they read or write is shared.

**Introspection** is the self-improvement generator in its two runners, the
server's cadence and the timer's process. Neither keeps a state: the cadence goes
by the newest of two tables and the mode by the newest idea, while the other
runner writes both.

**DedupGate** is `should_accept` and `filter_and_save` for any number of
generators, a check at a time, with everything that changes rows meanwhile. Which
texts are alike is an input, `text`. **Admission** is the abstract gate: agents
look whether there is room and enter later. DedupGate implements it twice, as the
vertical cap (`Cap`) and as "one of a kind" (`Copies`).

**GeneratorTasks**, **Expansion**, **AutoScan** and **Generators** are what
generates next to each other: the expansion of the server and of the timer and
the template scan. A task holds the pair, cluster and combination it has in hand;
counts of pairs are kept over the least of them. `taken` and `placed` are history.

**Siphon** is the five passes with their plans, archived a batch at a time by the
cadence and by `scripts/trim-now.py`. `tokens` says which ideas have a word in
common, on which `_CROSS_BUCKET_CAP` of the cross-category pass depends. `moved`,
`calm`, `linked`, `favour`, `settled` and `overlapped` are history: what others did
since a pass read the board, which pairs it compared, and which idea gave way to
which.

**LlmBackend** is which model a caller gets in every environment. **Boards** uses
it: ideas arrive with a score or without, a cadence per axis reads, waits and
saves, signals are captured and turned into nudges, which every start of the server
loads, and two boards show what their probe has gated.

**SharedConnection** is the one connection: `view` is what it reads, `disk` what is
committed; whoever commits publishes all. **Judging** runs denials, rejections,
rounds, challenges, their application, the audit and the reviews over it, with the
review process of the timer on a connection of its own. `ReadRow` and `SaveRow` stand
for whoever saves an idea's whole row after a wait; `Revived` and `Undone` are
history: what such a save has put back.

**Mechanic** is the run guard, whose file is truncated (`WriteStatus`) and then
written (`Flush`), a run stage by stage in a process of its own, its branch and pull request on GitHub, approval and rejection, timeouts and kills.
**SharedCheckout** is the git checkout the operator works in: HEAD, index, working
tree, branches, and the order and folding of what `git status` lists.
**SelfImprove** is the runner's cycle on it, a git or gh call per step, each of which
can fail or be the last before a kill. `DirtyPaths` is what its parser makes of the
list. `exposed` and `inert` are history: work that the check could not see, and
proposals that left every file as it was.

**IdeaLifecycleLive** and **MissionRotationLive** are these
specifications under fairness; the others state theirs themselves. `settled` of
**Restarts**: the process is restarted any number of times and then no more (in
MissionRotationLive, neither is it clicked at). "Not for ever" cannot be said of
the restart's own steps: the step that ends the only coroutine changes the state
just as a restart does, so forbidding the one for ever would forbid the other.

## 3. Runs

All twelve runs pass. `TypeOK` is not among their properties: where a component
has proofs its type invariant is proved.

| Run | Module | Checks |
|---|---|---|
| `lifecycle_live` | IdeaLifecycleLive | `StatusBacked`, `StampHasIssue`, `SyncDrains`, `ReconcilerCatchesUp` |
| `pki_probe` | PkiReview | `CardAnswers`, `PriorArtIsEvidence`, `PanelNeedsTwo`, `NoBurnLoop`, `KeepsProbing` |
| `bot_probe` | BotReview | `SpinnerStops`, `CardsAreHonest`, `CategoriesBalanced`, `NoBurnLoop` |
| `mission_rotation` | MissionRotationLive | `NoEarlyFire`, `RoundRobin`, `EveryMissionServed` |
| `dedup_gate` | MCDedupGate | `CapIsAdmission`, `CopiesAreAdmitted`, `NeverDisplacesKnown` |
| `mechanic` | MCMechanic | `OneRunAtATime`, `MergedAsViewed`, `GuardReleases` |
| `self_improve` | 2 files (one tracked, one alone in its directory), 2 issues, proposals of both files or none, 1 runner | An edit, a new file, the operator in the same file and with something staged, a second issue after the first went wrong, a change that is none. The operator's file is the first or not the first that git lists. |
| `judging` | 1 idea, 2 challenges (one perhaps of an idea deleted long ago), 2 coroutines, samples of one; `Bound` of MCJudging | Every pair of coroutines; the orphan that the audit can only skip. `Bound`: next to a row in hand are only those that write the idea, and one history has either a lost round or an applied challenge. |
| `generators` | 3 pairs, 1 cluster, which spans two of them, 1 combination, 2 tasks, `Lead` 1 | A pair that is first, one that is second, one that waits. Supers add to pairs only while these lead by less than `Lead`, which keeps counts finite. |
| `siphon` | MCSiphon | `Idempotent`, `Represented`, `AcceptedSpared` |
| `boards` | MCBoards | `BoardsGated`, `SwitchesHold`, `EveryIdeaScored` |
| `introspection` | Introspection | `DuplicatesDoNotHammer`, `BothModesTried` |

* `StatusBacked`: whatever a row says happened did happen. An approved idea was
  approved or promoted by an operator, a scaffolded one has (had) a repository, a
  contributed one an issue, an implemented one a commit, and its issue URL is that
  of an issue filed for it. It holds over every mix of stale saves, failures and
  restarts because handlers act first and record later, and a stale save writes
  back what was once true. `StampHasIssue`: the stamp and the issue's URL travel
  together.
* `SyncDrains`, `ReconcilerCatchesUp`: an idea whose issue is closed with a reason,
  or which the newest commits name, does not stay open for ever.
* `NoBurnLoop`: two model calls of a cadence are an interval apart, unless the
  earlier cycle could leave no row at all. `KeepsProbing`: an overdue probe leaves
  a row in the end. `SpinnerStops`: the progress flag is never up without a run in
  flight.
* `PriorArtIsEvidence`, `PanelNeedsTwo`: what kills a draft is a repository in use
  that shares its purpose, one lens that says it exists, or two that object; an
  outage, common vocabulary or an uncited correction kills nothing. `CardAnswers`:
  an objection is shown only above the text rewritten to answer it.
* `CardsAreHonest`: a money bot's card is legitimate and, when it reads "vetted",
  cleared the bar and shows no objection to another text. `CategoriesBalanced`:
  runs that overlap choose from stale counts and still no category runs ahead of
  the least explored by more than one card per run and per removal.
* `NoEarlyFire`: after a call that brought an idea, kept or rejected, the mission
  cadence waits an interval. The exception is in the property because it is in the
  code: the watermark is `MAX` over the missions active now, so pausing the one
  just served makes the cadence due at once. `RoundRobin`: the cadence serves no
  mission twice while another waits all along. `EveryMissionServed`: no active
  mission waits for ever.
* `CapIsAdmission`, `CopiesAreAdmitted`: the gate implements `Admission`; so a cap or
  a duplicate check is exceeded by less than the number of generators.
  `NeverDisplacesKnown`: `INSERT OR REPLACE` under the unique index never deletes a
  row that was there when its generator checked.
* `OneRunAtATime`: no click starts a run next to a live one, except on a report that
  is torn and past an agent that was given more time than `_STALE_AFTER`. `MergedAsViewed`: the commit merged is the one whose checks were
  viewed. `GuardReleases`: no death of a run locks the button for good.
* `MainUntouched`, `ClosedMeansPr`, `WipKept`: main gets no commit, an issue is
  closed only under a pull request and with its change, if the proposal changed
  anything, and unstaged work of the operator that the check could see survives,
  whatever fails and wherever the unit is stopped.
* `AppliedMeansWritten`: the mark that turns later calls away never stands without
  the fields, and `LosersOut`: a round that shows its results has its losers out of the
  running, unless the save of a whole row that was read before has put the older ones
  back since. Both exceptions do occur: without them the run finds either violated. `TransactionsEnd`: no transaction stays open. `EveryChallengeAudited`.
* `EvenCoverage`: bridging ideas spread over the pairs of categories, however many
  expansions overlap. `PlacedAreUsed`: no combination on the board counts as
  unused. `EveryPairExplored`.
* `Idempotent`: an undisturbed siphon run leaves nothing to do, except where it has
  itself made a word rare enough for the cross-category pass to compare a pair it
  had not. `Represented`:
  duplicates never all go in favour of each other. `AcceptedSpared`: an accepted
  idea is lost only if it was accepted behind the back of the pass.
* `BoardsGated`: what the PKI and money boards show comes from their probe.
  `SwitchesHold`: with the model switched off nobody waits for one, and a
  process with the auto-tune off learns nothing and forgets nothing: it uses what was
  stored when it started, whoever learned it. `EveryIdeaScored`.
* `DuplicatesDoNotHammer`: refused proposals count for the introspection cadence's
  watermark. `BothModesTried`: neither mode is left out for ever.

### Bounds

| Run | Instance | Why it is enough |
|---|---|---|
| `lifecycle_live` | 1 idea, 1 issue number, 2 slots, of which one is `Light` | No statement of these handlers reads one idea's row to write another's. Any coroutine takes the first slot; the second is for promotions and back-fills, as long as nothing is scaffolded or merged, so two promotes, and a promote or any other handler and a stale save, are in flight together. What is beyond that is covered by the proof. |
| `pki_probe` | 2 gaps (one with a URL), `Interval` 4, `Window` 2, one best match a search, severities 0, 50, 75, 95 | An hourly probe polled each quarter; a third row pushes the oldest out of the 200 that are read; a severity below, at and above each threshold. |
| `bot_probe` | cadence and 1 click, 2 categories, `Interval` 2, 1 removal, severities 0, 45, 70, 90 | Two overlapping runs; counts are kept over the least and start within two of it. |
| `mission_rotation` | 2 missions, 1 click, `Interval` 1, `TickInterval` 0 | One that is served and one that waits; any number of passes fall in an interval. |
| `dedup_gate` | 3 drafts, 2 generators, cap 1, four text profiles | Two that race and a third that was there; each kind of likeness, and mixtures. |
| `mechanic` | 1 item (urgent), 2 runs, 1 request, half-hours, an agent with three of them | A stale run, the one that replaces it on the same branch, and an approval; an agent that outlives `_STALE_AFTER`. |
| `self_improve` | 2 files (one tracked), 2 issues, 1 runner | An edit, a new file, the operator in the same file, a second issue after the first went wrong. |
| `judging` | 1 idea, 2 challenges (one perhaps of an idea deleted long ago), 2 coroutines, samples of one | Every pair of coroutines; the orphan that the audit can only skip. |
| `generators` | 3 pairs, 1 cluster, 1 combination, 2 tasks, `Lead` 1 | A pair that is first, one that is second, one that waits. Supers add to a pair only while it leads by less than `Lead`, which keeps counts finite. |
| `siphon` | 4 ideas, six arrangements, 2 runs, caps 1 and 2 (200 for words), 2 steps of others | Chains, rings and crowds over every pass; the likeness is constant, as texts are. |
| `boards` | 2 ideas each generated once, lists of one with a model, 2 signals to a nudge (4 in the code) | One that is newer and one that waits. Environments without keys or programs work as ones switched off. |
| `introspection` | tournaments of 2 (3 in the code), `Interval` 2 | A winner and one more; only the newest idea is kept, and any older may take its place when it is deleted. |

Time saturates at the interval, beyond which the code never asks. Every other bound
is a constant, named in the module that uses it.

### Fairness

Safety properties need none. Common to the liveness properties: a coroutine or
process that has begun goes on (weak fairness: the event loop starves nobody, every
`gh` and LLM call has a timeout), cadences repeat, and what can fail does not fail
at every attempt for ever (strong fairness of the steps a failure cuts short), nor is the
process restarted for ever (`settled`). Beyond that:

* `lifecycle_live`: the issue sync and the reconciler get a turn on an idea again and
  again; in the model they compete for slots (`Slots`, all but the light ones) that in the
  program they own.
* `mission_rotation`: operators do not click Generate for ever, since each success
  puts the cadence off; the model yields an idea for the mission at the head.
* `judging`: the audit draws at random, so it draws any one challenge in the end.
* `generators`: the expansion is started again and again.
* `boards`: none for generators, operators and scoreboard; there are finitely many
  ideas, without which the newest-first lists of the back-fill can starve an old one.
* `introspection`: proposals of the right category survive and are accepted again
  and again; none for the timer's starts. A server without a model and a timer with
  one can keep one mode out, which the property excludes.
* `mechanic`: time passes, runs and requests go on.

`CHECK_DEADLOCK FALSE` is set where a system whose operators stop clicking may stop.

## 4. Proofs

Proof modules hold the theorems of one or two components. Assumptions are the
named ones of the constants: times are naturals, sets of ideas, pairs and tasks
finite where something is counted, `Nil`s outside the sets they stand beside. TLC
evaluates them in every run, and it checked each inductive invariant below on the
run's instance before the proof.

Every component has its type invariant proved (`TypeCorrect`, or
`SiphonTypeCorrect`, `BoardsTypeCorrect`, `IntrospectionTypeCorrect`,
`GeneratorsTypeCorrect`), as part of the inductive invariant.

`IdeasProofs`, the lifecycle: `StatusAlwaysBacked` and `NeverHalfPromoted` for every
set of ideas, coroutines and issue numbers, from `NoIssueAssumption`. The
invariants are not inductive: a save writes a snapshot back, so the snapshot has to
be backed too, and a handler that is about to write "scaffolded" must have created
the repository in an earlier step. `IInv` is `TypeOK`, `StoreEvident` (every row of
the table is backed by evidence) and `TasksEntitled` (so is every snapshot, and
every coroutine has done what the write at its label claims). The argument is
monotone: the evidence only grows (`Grows`), so what is backed stays backed; each
statement then only has to be shown to write a backed row.

`IdeasProofs`, introspection: `DuplicatesAreCounted` (`DuplicatesDoNotHammer`). The
property speaks of the moment of a fire; what is inductive (`Answered`) is that a
cycle which is over, or has left a row, leaves a watermark no older than its call.
The row is dated when the proposal was generated, so the proposals in hand have to be
younger than the call as well, and a cycle that has not asked yet must not have left
a row. The timer's rows only make the watermark younger.

`PkiProbeProofs` and `BotProbeProofs`. `CallsAreSpaced` (`NoBurnLoop`) for every
interval, tick, window and set of gaps or clicks, from `TimesAssumption`,
`GapsAssumption`, `ClicksAssumption`; and `SpinnerAlwaysStops`. The strengthening
(`Gated`) has two parts, each "or excused": a cycle that has not yet called the model
has a full interval behind the last call, and while the cadence sleeps the newest row
is no older than the last call. The second carries the first over: the cadence fires
when the newest row is an interval old, so the last call is too. For the bot probe
the rows of clicks only make the newest row younger, which is why they delay the
cadence and never make it early. `Narrating` says that the flag is up only while some
run is neither idle nor recording its crash, whose narration has ended.

`PkiProbeProofs` and `BotProbeProofs`, the reviews: `CardsAnswer` (`CardAnswers`),
`PriorArtShown` and `PanelTakesTwo` for any gaps; `CardsStayHonest` for any number of
overlapping runs. What a card claims comes true one step at a time, so the invariants
say at every label of the review what the draft has passed by then. `BalanceKept`
(`CategoriesBalanced`, for finitely many clicks, `RequestsAssumption`): a run stores
into a category that others have filled since it picked it; `BookedWithin` counts what
it is about to add from the moment it picks. `ReviewIsProbe`: the probes with their reviews implement the
probes that leave the review open; each step maps to a step of the probe or to none.

`CadenceProofs`, missions: `FiresAreSpaced` (`NoEarlyFire`) and `ServesInTurn`
(`RoundRobin`) for any missions, requests and times, from `TimesAssumption`
and `MissionsAssumption`. `Gated` says that once the run of the
last call is over, the row it touched is no older than the call; clicks can only make
it younger. `Queued` says that whoever waits comes before those served meanwhile, in
the order the picker uses, so the mission that is picked, and still worked for after
any number of clicks and pauses, is not one of them.

`CadenceProofs`, boards: `BoardsStayGated` (`BoardsGated`) and `SwitchesAreHeeded`
(`SwitchesHold`), for any finite set of ideas and any texts. A scorer saves the whole
row it read before it waited, so what is on the board is only as good as the copies in
hand. `Kindred` says that all copies of an idea, in the table, at a scorer and at a
generator, agree on its family and mode, which nothing rewrites; each of them is
`Honest`: a mode set by a probe comes with its gate, and an edge with the mode. A late
save may then lose scores, but it brings nothing onto a gated board. `Unlearned`: only
the tuning writes the table or the cache, and it is not run while the auto-tune is off.

`ProcessProofs`, the mechanic: `GuardExcludes` and `OnlyViewedMerges` for any items,
runs, requests and any timeout of the agent (`MechanicAssumption` bounds the others by
`StaleAfter`): a run that is in a stage, and whose report nobody tore, has written it
no longer ago than the stage's timeout, or than two where one is silent, so a file is
stale only when it is nobody's or an agent's with too much time; and the head that
a merge names is the one its request viewed.

`ProcessProofs`, the generators: `CoverageStaysEven` (`EvenCoverage`) and
`PlacedStayUsed` (`PlacedAreUsed`) for any tasks, pairs and combinations. Tasks choose
by counts that others are about to raise, and the second pair of a cycle is the least
explored but for the first, so it may already be ahead. `Even` therefore counts with a
pair `p` not only the bridges on it and those in hand but, against each `q`, the tasks
that have logged `q` and have their second bridge to come (`Due`): logging `q` pays for
it. Levelling the counts, which keeps them finite, changes no difference that counts.

`UpkeepProofs`, self-improvement: `MainNeverCommitted`, `ClosedNeedsPr` and
`UnstagedWorkKept` with one runner (`OneRunner`; section 5 says what the lock leaves
out), for any order and directories of the files and any proposals: `Placed` says where HEAD is at each step of the cycle, `Carried` what the
branch holds, `Spared` which files the runner may undo.

`UpkeepProofs`, the siphon: `SiphonIdempotent` (`Idempotent`), `AlwaysRepresented`
(`Represented`) and `AcceptedAreSpared` (`AcceptedSpared`) for any ideas, likeness,
runs and batches. `Clean`
says of each pass what a board looks like on which it plans nothing, and that a clean
board stays clean as ideas leave it; `Thorough` then says that a run nobody disturbed
leaves a board clean for its pass and all before, so that later passes make no work for
earlier ones. For that the clusters, which the code grows bucket by bucket, are the least
sets closed under likeness. The cross-category pass is the exception: a board may lose
the ideas that made a word too common, so `Clean` holds of the pairs it has compared
(`linked`). For `Represented`, `Steady` says that what a pass archives
in favour of is on the board or gave way, in the same pass, to a more feasible one of
them; feasibility, with the age for ties, is a strict order on finitely many ideas,
so the best of any set did not give way within it.

`DedupGateProofs` (**Admission** itself holds no proof). `OvershootBounded`: a gate that
is checked before it is entered exceeds its limit by less than the number of agents.
The vertical cap and the duplicate checks implement it (`CapImplementsAdmission`,
`CopiesImplementAdmission`), so a family of clones exceeds the cap by less than the
number of generators (`FamilyNeverOverruns`) and there are never more copies of an idea
than generators (`CopiesNeverOutnumber`). `KnownRowsStay` is `NeverDisplacesKnown`.

`JudgingProofs`. `AppliedIsWritten` (`AppliedMeansWritten`) and `LosersStayOut`
(`LosersOut`) for any ideas, challenges, rounds and coroutines. Both hold
by the order of each coroutine's own statements, which nobody undoes in the one view
all share without leaving `Undone` or `Revived`: `Onward` says that of every write, and
`Placed` at each label what the coroutine has found or written on its way there. A commit, whoever asks for it, makes a prefix of that order durable, so
the same facts (`Solid`) hold of the view and of the disk.

### Only model-checked

The liveness properties: `SyncDrains`, `ReconcilerCatchesUp`, `KeepsProbing`,
`EveryMissionServed`, `GuardReleases`, `TransactionsEnd`, `EveryChallengeAudited`,
`EveryPairExplored`, `EveryIdeaScored`, `BothModesTried`. They need `ENABLED` and
fairness, which the prover does not handle; they hold on the runs' instances. Every
safety property and action property a run checks is stated by a theorem.

What the prover cannot do either: induction over data (the induction theorems of its
library take an operator, which its backends cannot instantiate), so `Represented` is
proved by way of well-founded relations of finite sets and not by induction on an
order of archiving; and `RECURSIVE` operators, of which the modules have none.

## 5. What reading the code for the model showed

Places where the code and what is said about it differ, met while modelling. None
of them is a run; each was followed in the model or in the source.

* `README.md:21`: "Nothing can flip an idea to `approved` without an operator".
  Approve, back-fill reads, reject, back-fill saves (`engine/fundability.py:203`):
  approved again. In the same way the denied loser of a round is back in the running,
  and an applied challenge loses its text while its mark refuses to apply it again.
* Two promote requests can overlap: two issues, one URL (`web/routes.py:722`).
* `engine/siphon.py:13`: "Idempotent". Two alike taglines of different categories whose
  every common word is in more than 200 taglines are not compared (`:640`); when the
  density pass of the same run thins these, the next run archives one of the two.
* `engine/siphon.py:211`: the `UPDATE` does not repeat the status test of its
  `SELECT`; an idea accepted in between is archived. An idea archived by the siphon
  keeps its reason through later status changes, and the undo restores it then.
  `trim-now.py` names a restore command that does not exist; "three passes", "all
  four siphons" are five. `trim-now` and the cadence overlapping can archive a whole
  cluster.
* A scaffold whose push failed leaves a repository the row does not name; delete
  does not look for it. The PKI log retires the anchor the draft cites, not the gap.
  Overlapping money-bot runs share one narration.
* `web/routes.py:2787`: applying a challenge is "idempotent"; two calls that overlap
  both apply. A denial is two statements and no lock (`storage/db.py:1037`).
* `web/routes.py:1977`: "one run at a time". A click that reads the status file between
  its truncation and its write (`engine/mechanic_status.py:53`) sees an idle one
  (`:67`) and launches a second run; so does a click past an agent whose
  `FORGE_MECHANIC_AGENT_TIMEOUT` was raised over the hour of `_STALE_AFTER`.
* `engine/mechanic_review.py:88`: refuses "unless every check passes"; a conclusion
  `_ci_state` (`:32`) does not know, beside a success, passes. `engine/mechanic.py:328` ignores the exit codes of
  push and pull request; an item whose branch exists can never be pushed again.
* `cron/self_improve_runner.py:479`: "Never touch files the operator has uncommitted
  work in". `_run_cmd` (`:40`) strips the output of `git status --porcelain` as a whole,
  so that of a first line ` M src/x` the parser (`:107`) makes `rc/x`, and a new
  directory is one line: work there is edited, committed or reverted.
* A proposal with `"changes": []`, or with changes that change nothing
  (`cron/self_improve_runner.py:239`), goes on to the commit: if the operator has
  something staged, that is committed and pushed, and the issue is closed.
* `cron/self_improve_runner.py:372` commits what else the operator has staged; the
  armed cadence (`web/lifespan_scheduler.py:445`) takes no lock next to the timer's
  process. `TimeoutStartSec=300` predates the tournament of three.
* `cron/introspect_runner.py:46`: "strict alternation with no extra state" fails when a
  fire stores nothing or the runners overlap. `engine/introspect.py` calls the model
  synchronously on the event loop. A failing telemetry query keeps the mode.
* `models.py:202`: the general rotation "must not produce into" gated categories;
  `pick_cross_category_pair` (`cron/horizontal.py:57`) leaves out self-improvement only.
  `horizontal.py:126` "producing exactly 2 ideas": fewer when the gate refuses.
* `models.py:266`: "objection-stands" is never written. `engine/bot_depth.py:62`: only
  the hardest lens rechecks. `web/lifespan_scheduler.py:997` relabels an incomplete
  review "below-bar", which the next prompt takes as a lesson.
* `web/lifespan_scheduler.py:240`: the watermarks of snipe and pulse are stored
  ideas, so while the gate refuses what they generate they fire at every tick. `expand`'s watermark is any idea. `:1385`: three fetchers never
  consult the TTL the comment speaks of.
* `README.md:331`: `FORGE_SCOREBOARD_AUTOTUNE` is "Whether learned scorer nudges are
  applied"; "Default off → the scorers see an empty nudge cache"
  (`web/lifespan_scheduler.py:1139`). The server loads the stored ones at every start
  whatever the switch says (`web/app.py:112`), and no row is ever removed: once learned,
  always applied. A score that is not a number clamps to the top.
* `web/routes.py:870`: Churn Now may answer with another run's row. A PKI idea by
  churn carries a score and never shows on `/pki`. `_resolve_generator` ignores the
  kill switch when an API key is there.
* The maintenance dedup (`storage/db.py:1133`) rejects all but one of a group whatever
  their status. `cron/scheduler.py:258` and `cron/runner.py:31` (a log line that reads
  the name of no idea) belong to runners the server does not start.

## 6. Abstractions

* Lifecycle: `update_idea_urls` with both URLs is two statements in the code and one
  here. One repository per idea; reopened issues are left out. Denial, review and
  filtered rows are not kept. The Think Tank reject is the plain reject. Which
  commits name an idea is an input. The maintenance dedup works a row at a time, and
  which row is the best of its group is open.
* Probes: the text of drafts is what the patterns find in it; every bot draft has a
  spec; ties between categories are open. The clock only goes forward.
* Dedup and siphon: which texts are alike, and which words they share, is an input. `content_hash` is set where the
  code sets it. A batch of the siphon is one transaction; in the server, statements of
  others in between commute with it, and `StopHalfway` is the crash that publishes a
  part. Who is marked is constant; ties go by id or age; the dry run writes nothing.
* Expansion: clusters, names and perspectives are open. A poor tagline in a cluster
  that is not the last is as if another had been picked. A scan is one idea at a time.
* Judging: rows of denials, rounds and reviews only open the transaction. The inputs
  of a review are enumerated, not tied to the idea. Restores are left out. A row in hand
  is its status and which challenges it has the fields of; saved after a deletion it
  brings the idea back, as in the code.
* Boards: what a score is worth is left out, and with it float edges of a band.
  Environments stay over restarts except for the auto-tune.
* Mechanic: the status file can always be opened, and is read whole or torn; what the
  agent writes is an input. The clone never has the item's branch: that the server's own
  checkout holds one, and pushes to it by others, are left out.
* Self-improvement: one runner. The `flock` of `scripts/self-improve.sh` keeps out a
  second process of the timer and not the armed cadence of the server (section 5). The
  operator edits and stages, but does not delete, rename or switch branches while a run
  is under way, so the source of a rename, which the parser drops, does not occur. A
  directory is one level.
* Introspection: proposals made in the same unit of time are told apart by nothing. Rows
  of the category that came from elsewhere, without a mode, are left out.

## 7. Not modelled, and why

Prompts, parsing, feeds and reports change no state that another component depends
on; the feed cache is a file replaced whole. Templates, categories, the strategy
library and the seed scripts are data. Authentication checks a token and the rate
limiter runs without an await. `cron/scheduler.py` (its own `GenerationJob` loop) and
`cron/runner.py` are not started by the server, nor are `score_pending_ambition`,
`score_pending_snipe` and the auto-promote cycle scheduled. Cadences that only
write a report or refresh a feed have the loop of `CadenceSleep` and nothing else.
