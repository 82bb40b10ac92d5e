---------------------------- MODULE Introspection ---------------------------
(***************************************************************************)
(* Self-introspection: the forge asks a model for improvements of its own  *)
(* code, in two modes by turns.  Two runners do it, the server's cadence   *)
(* and the systemd timer's process.  Neither keeps a state: the cadence    *)
(* goes by the newest self-improvement (SI) row, an idea or one the dedup  *)
(* gate refused, and the mode by the newest SI idea.                       *)
(*                                                                         *)
(* Left out: what the prompts say and the proposals, of which a run makes  *)
(* Size, and which of two passing ones scores better.                      *)
(***************************************************************************)
EXTENDS CadenceSleep, FiniteSetsExt, Restarts

CONSTANTS
  Size,        \* _TOURNAMENT_SIZE
  Deployments  \* which runners find neither key nor program, in each

Runners == {"server", "timer"}

ASSUME SizeAssumption == Size \in Nat \ {0}
ASSUME DeploymentsAssumption == Deployments \subseteq SUBSET Runners

VARIABLES
  newest,    \* the newest SI idea: when generated and in which mode, or NoIdea
  filtered,  \* time since the newest SI row of filtered_ideas
  run,       \* the two runners
  keyless,   \* runners that find neither key nor program
  burn,      \* history: time since the cadence last began to ask a model;
             \* Interval when that left no SI row or an SI idea was deleted
  logged     \* history: the cadence's cycle in flight has left an SI row

introspectVars == <<nap, newest, filtered, run, keyless, burn, logged, settled>>

Modes == {"code-fix", "generation"}

(* An SI idea; a static one carries no mode.  To be without one is like    *)
(* having one of long ago.                                                 *)
Idea == [mode : Modes \cup {"none"}, age : Ages]
NoIdea == [mode |-> "none", age |-> Interval]

(* A proposal.  By the API a model may answer with a category of its own.  *)
(* Two made in the same unit of time are told apart by nothing else.       *)
Candidate == [si : BOOLEAN, age : Ages]

Run == [pc : {"idle", "read", "signals", "ask", "save"}, mode : Modes \cup {"none"},
        left : 0..Size, pool : SUBSET Candidate]
Idle == [pc |-> "idle", mode |-> "none", left |-> 0, pool |-> {}]

IntrospectionTypeOK ==
  /\ nap \in 0..(TickInterval + InitialDelay)
  /\ newest \in Idea
  /\ filtered \in Ages
  /\ run \in [Runners -> Run]
  /\ keyless \in Deployments
  /\ burn \in Ages /\ logged \in BOOLEAN /\ settled \in BOOLEAN

IntrospectionInit ==
  /\ SleepInit
  /\ newest = NoIdea /\ filtered = Interval
  /\ run = [r \in Runners |-> Idle]
  /\ keyless \in Deployments
  /\ burn = Interval /\ logged = FALSE
  /\ settled = FALSE

Becomes(r, s) == run' = [run EXCEPT ![r] = s]

-----------------------------------------------------------------------------
(* When and what.                                                          *)

(* Mutant: the ideas only.                                                 *)
WatermarkOfIdeas == newest.age

(* seconds_until_next_introspect: the newest of both tables.               *)
Watermark == Min({newest.age, filtered})

Overdue == Watermark = Interval

(* Mutant: the mode of the newest again.                                   *)
PickSameMode == IF newest.mode = "generation" THEN "generation" ELSE "code-fix"

(* _pick_introspect_mode.                                                  *)
PickIntrospectMode == IF newest.mode = "code-fix" THEN "generation" ELSE "code-fix"

-----------------------------------------------------------------------------
(* A run.                                                                  *)

(* The cadence's pass: nothing to do, or a cycle, which reads the commits  *)
(* and lets the reconciler mark what has landed.                           *)
Pass ==
  /\ run["server"].pc = "idle" /\ nap = 0 /\ ~Overdue
  /\ SleepAgain
  /\ UNCHANGED <<newest, filtered, run, keyless, burn, logged, settled>>

Fire ==
  /\ run["server"].pc = "idle" /\ nap = 0 /\ Overdue
  /\ Becomes("server", [Idle EXCEPT !.pc = "read"])
  /\ UNCHANGED <<nap, newest, filtered, keyless, burn, logged, settled>>

(* systemd starts the timer's run once a day, late, or by hand.  It asks no *)
(* watermark; flock keeps a second one out.                                *)
Ready(r) == run[r].pc = IF r = "server" THEN "read" ELSE "idle"

(* gather_self_context: issues, commits, lint and sizes, each left out when *)
(* its command fails, make the prompt of Size proposals.                   *)
Prompted(mode) == [pc |-> "ask", mode |-> mode, left |-> Size, pool |-> {}]

(* With a model: the mode, and for generation what the telemetry says.     *)
Read(r) ==
  /\ Ready(r) /\ r \notin keyless
  /\ LET mode == PickIntrospectMode IN
     /\ Becomes(r, IF mode = "generation" THEN [Idle EXCEPT !.pc = "signals", !.mode = mode]
                    ELSE Prompted(mode))
     /\ burn' = IF r = "server" /\ mode = "code-fix" THEN 0 ELSE burn
  /\ UNCHANGED <<nap, newest, filtered, keyless, logged, settled>>

(* gather_generation_signals, a query after the other.                     *)
GatherSignals(r) ==
  /\ run[r].pc = "signals"
  /\ Becomes(r, Prompted(run[r].mode))
  /\ burn' = IF r = "server" THEN 0 ELSE burn
  /\ UNCHANGED <<nap, newest, filtered, keyless, logged, settled>>

(* Without: what static analysis finds, untested and large files, each of  *)
(* them a proposal; nothing where there is no source tree.                 *)
Finds == {{}, {[si |-> TRUE, age |-> 0]}}

GenerateStaticProposals(r) ==
  /\ Ready(r) /\ r \in keyless
  /\ \E pool \in Finds : Becomes(r, [Idle EXCEPT !.pc = "save", !.pool = pool])
  /\ UNCHANGED <<nap, newest, filtered, keyless, burn, logged, settled>>

(* The next of the tournament is generated.                                *)
Generate(r, pool) ==
  /\ run[r].pc = "ask"
  /\ Becomes(r, [run[r] EXCEPT !.pc = IF run[r].left = 1 THEN "save" ELSE "ask",
                               !.left = @ - 1, !.pool = pool])
  /\ UNCHANGED <<nap, newest, filtered, keyless, burn, logged, settled>>

(* No answer, or one that _passes_mode_gate or review_idea refuses.        *)
Refuse(r) == Generate(r, run[r].pool)

Survive(r, si) ==
  Generate(r, run[r].pool \cup {[si |-> si, age |-> 0]})

(* filter_and_save: refused as a duplicate, with a row in its category;    *)
(* the next best has its turn.                                             *)
Filter(r, c) ==
  /\ run[r].pc = "save" /\ c \in run[r].pool
  /\ filtered' = IF c.si THEN 0 ELSE filtered
  /\ logged' = (logged \/ (r = "server" /\ c.si))
  /\ Becomes(r, [run[r] EXCEPT !.pool = @ \ {c}])
  /\ UNCHANGED <<nap, newest, keyless, burn, settled>>

(* ORDER BY generated_at DESC, with one more row; of rows of the same unit *)
(* of time the one stored last counts as the newest.                       *)
With(idea) == IF idea.age <= newest.age THEN idea ELSE newest

(* How a run ends, with a row of this step or without: the cadence sleeps. *)
End(r, row) ==
  /\ Becomes(r, Idle)
  /\ IF r = "server"
     THEN /\ SleepAgain
          /\ burn' = IF logged \/ row THEN burn ELSE Interval
          /\ logged' = FALSE
     ELSE UNCHANGED <<nap, burn, logged>>

(* Accepted, and stored as of when it was generated: the winner.           *)
Accept(r, c) ==
  /\ run[r].pc = "save" /\ c \in run[r].pool
  /\ newest' = IF c.si THEN With([mode |-> run[r].mode, age |-> c.age]) ELSE newest
  /\ End(r, c.si)
  /\ UNCHANGED <<filtered, keyless, settled>>

NoWinner(r) ==
  /\ run[r].pc = "save" /\ run[r].pool = {}
  /\ End(r, FALSE)
  /\ UNCHANGED <<newest, filtered, keyless, settled>>

(* A query or a write raises; the model's own failures are caught.         *)
Raise(r) ==
  /\ run[r].pc \in {"read", "save"}
  /\ End(r, FALSE)
  /\ UNCHANGED <<newest, filtered, keyless, settled>>

(* One of telemetry's queries raises.                                      *)
TelemetryFails(r) ==
  /\ run[r].pc = "signals"
  /\ End(r, FALSE)
  /\ UNCHANGED <<newest, filtered, keyless, settled>>

(* systemd stops the timer's run after TimeoutStartSec.                    *)
Timeout ==
  /\ run["timer"].pc # "idle"
  /\ End("timer", FALSE)
  /\ UNCHANGED <<newest, filtered, keyless, settled>>

-----------------------------------------------------------------------------
(* Around it.                                                              *)

Aged(c) == [c EXCEPT !.age = Older(@)]

(* The age of a proposal of another category is of no use.                 *)
AgedPool(pool) == {IF c.si THEN Aged(c) ELSE c : c \in pool}

Tick ==
  /\ Doze
  /\ newest' = Aged(newest)
  /\ filtered' = Older(filtered) /\ burn' = Older(burn)
  /\ run' = [r \in Runners |-> [run[r] EXCEPT !.pool = AgedPool(@)]]
  /\ UNCHANGED <<keyless, logged, settled>>

(* The operator deletes the newest SI idea; some older one takes its       *)
(* place, which the model has not kept, or none.  The server answers       *)
(* nobody while it waits for a model here: generate calls it on the event  *)
(* loop.                                                                   *)
Delete ==
  /\ ~settled /\ run["server"].pc # "ask"
  /\ newest # NoIdea
  /\ newest' \in {i \in Idea : i.age >= newest.age}
  /\ logged' = FALSE
  /\ burn' = IF run["server"].pc = "idle" THEN Interval ELSE burn
  /\ UNCHANGED <<nap, filtered, run, keyless, settled>>

Restart ==
  /\ ~settled
  /\ StartAfresh
  /\ Becomes("server", Idle)
  /\ burn' = IF logged \/ run["server"].pc = "idle" THEN burn ELSE Interval
  /\ logged' = FALSE
  /\ UNCHANGED <<newest, filtered, keyless, settled>>

Settle == SettleDown /\ UNCHANGED <<nap, newest, filtered, run, keyless, burn, logged>>

IntrospectionNext ==
  \/ Pass \/ Fire
  \/ \E r \in Runners :
       \/ Read(r) \/ GatherSignals(r) \/ TelemetryFails(r) \/ GenerateStaticProposals(r)
       \/ NoWinner(r) \/ Raise(r) \/ Refuse(r)
       \/ \E si \in BOOLEAN : Survive(r, si)
       \/ \E c \in run[r].pool : Filter(r, c) \/ Accept(r, c)
  \/ Timeout \/ Tick \/ Delete \/ Restart \/ Settle

(* Time passes, the loop makes its passes and a run goes on.  What queries,*)
(* a model and the gate may deny at one attempt they do not at every       *)
(* attempt for ever.  Operators stop deleting and restarting.  None for    *)
(* the timer's starts.                                                     *)
Fairness ==
  /\ WF_introspectVars(Tick) /\ WF_introspectVars(Pass) /\ WF_introspectVars(Fire) /\ WF_introspectVars(Settle)
  /\ SF_introspectVars(Read("server")) /\ SF_introspectVars(GatherSignals("server"))
  /\ \A r \in Runners :
       /\ WF_introspectVars(Refuse(r) \/ NoWinner(r) \/ \E c \in run[r].pool : Filter(r, c))
       /\ SF_introspectVars(Survive(r, TRUE))
       /\ SF_introspectVars(\E c \in run[r].pool : c.si /\ Accept(r, c))

IntrospectionSpec == IntrospectionInit /\ [][IntrospectionNext]_introspectVars /\ Fairness

-----------------------------------------------------------------------------
(* seconds_until_next_introspect's promise: however many proposals the     *)
(* dedup gate refuses, the server does not ask a model again within the    *)
(* interval.  Only a cycle none of whose proposals came as far as the      *)
(* gate, or an operator who deletes SI ideas, lets it.                     *)
DuplicatesDoNotHammer ==
  [][Fire /\ "server" \notin keyless => burn = Interval]_introspectVars

(* With a model, the two modes take turns for ever: no mix of overlapping  *)
(* runs, stale reads, deletions and restarts leaves one of them out.       *)
BothModesTried ==
  keyless = {} =>
    \A m \in Modes : []<>(\E r \in Runners : run[r].pc = "ask" /\ run[r].mode = m)
=============================================================================
