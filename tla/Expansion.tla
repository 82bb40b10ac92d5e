----------------------------- MODULE Expansion -----------------------------
(***************************************************************************)
(* cron/horizontal.py and engine/super_ideas.py: a cycle generates an idea *)
(* that bridges the least explored pair of categories, logs the pair,      *)
(* synthesises a super idea from a cluster of ideas, or a second bridge    *)
(* where that fails.  The server's cadence and a timer both run it.        *)
(*                                                                         *)
(* Left out: what the ideas say, and the gate's reasons (DedupGate).  Only *)
(* the differences between the pairs' counts matter, so the least explored *)
(* pair stands at zero.                                                    *)
(***************************************************************************)
EXTENDS GeneratorTasks, Naturals, FiniteSets, Sequences

CONSTANTS
  Pairs,      \* pairs of categories, those with self-improvement apart
  Clusters,   \* clusters of ideas a super can be made of
  Spans,      \* the pairs of the categories a cluster spans, in order
  Tuples,     \* combinations of the template generator
  Reasoning,  \* tasks started with FORGE_SUPER_REASONING
  Lead        \* bound: supers are stored while their pairs lead by less

ASSUME ExpansionAssumption ==
  /\ IsFiniteSet(Pairs) /\ Cardinality(Pairs) > 1 /\ Nil \notin Pairs
  /\ Spans \in [Clusters -> Seq(Pairs)]
  /\ Reasoning \subseteq Tasks /\ IsFiniteSet(Tasks) /\ Lead \in Nat

VARIABLES
  count,  \* rows of category_pair_log, by pair
  taken,  \* history: those by bridging ideas
  super,  \* by cluster, its super in ideas
  used,   \* used_tuples
  placed  \* history: the combinations whose idea was admitted

expansionVars == <<count, taken, super, used, placed>>

ExpansionInit ==
  /\ count = [p \in Pairs |-> 0]
  /\ taken = count
  /\ super = [c \in Clusters |-> "none"]
  /\ used = {} /\ placed = {}

Step(t, from, to) ==
  /\ task[t].at = from
  /\ Goto(t, to)
  /\ UNCHANGED expansionVars

-----------------------------------------------------------------------------
(* get_least_explored_pairs.                                               *)
Least(S) == {p \in S : \A q \in S : count[p] <= count[q]}

Below(f) == CHOOSE m \in {f[p] : p \in Pairs} : \A p \in Pairs : m <= f[p]
Less(n, m) == IF n < m THEN 0 ELSE n - m
Leveled(f, g) == [p \in Pairs |-> Less(f[p], Below(g))]

(* record_category_pair, for an idea that has no row in the log.           *)
Log(p, bridging) ==
  LET more == [count EXCEPT ![p] = @ + 1]
  IN /\ count' = Leveled(more, more)
     /\ taken' = Leveled(IF bridging THEN [taken EXCEPT ![p] = @ + 1] ELSE taken, more)
     /\ UNCHANGED <<super, used, placed>>

(* A step that logs p raises its count, or lowers all others' when it alone *)
(* stood at zero.                                                          *)
Logs(p) ==
  \/ count'[p] > count[p]
  \/ count[p] = 0 /\ \E q \in Pairs : count'[q] < count[q]

(* generate_idea_llm: an idea, or none; generate_cross_idea then takes a    *)
(* template's, whose combination is to be recorded.                        *)
ModelAnswers == {"save", "tuple"}

Bridge(t, p) ==
  /\ \E to \in ModelAnswers : Become(t, [task[t] EXCEPT !.at = to, !.pair = p])
  /\ UNCHANGED expansionVars

(* Mutant: the pair is drawn.                                              *)
PickAnyPair(t, p) == task[t] = Idle /\ Bridge(t, p)

(* pick_cross_category_pair: among the least explored ones the density     *)
(* decides.                                                                *)
PickPair(t, p) ==
  /\ task[t] = Idle
  /\ p \in Least(Pairs)
  /\ Bridge(t, p)

(* Mutant: the combination is not recorded.                                *)
RecordTupleNowhere(t, from, to) ==
  /\ task[t].at = from
  /\ \E x \in Tuples : Become(t, [task[t] EXCEPT !.at = to, !.tuple = x])
  /\ UNCHANGED expansionVars

(* The combination is recorded before the idea is looked at.               *)
RecordTuple(t, from, to) ==
  /\ task[t].at = from
  /\ \E x \in Tuples :
       /\ Become(t, [task[t] EXCEPT !.at = to, !.tuple = x])
       /\ used' = used \cup {x}
  /\ UNCHANGED <<count, taken, super, placed>>

Refuse(t, from, to) ==
  /\ task[t].at = from
  /\ Become(t, [task[t] EXCEPT !.at = to, !.tuple = Nil])
  /\ UNCHANGED expansionVars

(* filter_and_save.                                                        *)
Admit(t, from, to) ==
  /\ task[t].at = from
  /\ Become(t, [task[t] EXCEPT !.at = to, !.tuple = Nil])
  /\ placed' = placed \cup ({task[t].tuple} \ {Nil})
  /\ UNCHANGED <<count, taken, super, used>>

RecordTemplate(t) == RecordTuple(t, "tuple", "save")

(* review_idea, for the first idea, and the gate: the cycle goes on        *)
(* whatever they say.                                                      *)
Save(t) == Admit(t, "save", "record") \/ Refuse(t, "save", "record")

(* Mutant: a pair counts when its idea was admitted.                       *)
RecordAdmitted(t) ==
  /\ task[t].at = "record"
  /\ Log(task[t].pair, TRUE) \/ UNCHANGED expansionVars
  /\ Become(t, IF task[t].first = Nil
               THEN [Idle EXCEPT !.at = "super", !.first = task[t].pair] ELSE Idle)

RecordPair(t) ==
  /\ task[t].at = "record"
  /\ Log(task[t].pair, TRUE)
  /\ Become(t, IF task[t].first = Nil
               THEN [Idle EXCEPT !.at = "super", !.first = task[t].pair] ELSE Idle)

-----------------------------------------------------------------------------
(* generate_seeded.                                                        *)
Covered(c) == super[c] = "active"

FallBack(t, from) ==
  /\ task[t].at = from
  /\ Become(t, [Idle EXCEPT !.at = "fallback", !.first = task[t].first])
  /\ UNCHANGED expansionVars

(* The clusters one after the other; with reasoning, those that have a     *)
(* super are passed over before the model is asked for a name.             *)
PickCluster(t, c) ==
  /\ task[t].at = "super"
  /\ t \in Reasoning => ~Covered(c)
  /\ Become(t, [task[t] EXCEPT !.at = "name", !.cluster = c])
  /\ UNCHANGED expansionVars

(* Too few ideas, none of six clusters will do, or only poor ones.         *)
NoCluster(t) == FallBack(t, "super")

(* synthesize_super_idea finds no concept for the tagline: it walks on, as *)
(* if it had picked another cluster, or, after the last, gives up.         *)
PoorTagline(t) == FallBack(t, "name")

(* After the naming the board is read again: by signature, or by base name *)
(* and first concept, which other supers can share.                        *)
RefuseNamed(t) == FallBack(t, "name")
AcceptNamed(t) == Step(t, "name", "store") /\ ~Covered(task[t].cluster)

(* filter_and_save.                                                        *)
RefuseSuper(t) == FallBack(t, "store")

StoreSuper(t) ==
  LET c == task[t].cluster
  IN /\ task[t].at = "store"
     /\ \A i \in DOMAIN Spans[c] : count[Spans[c][i]] < Lead
     /\ super' = [super EXCEPT ![c] = "active"]
     /\ Goto(t, "stored")
     /\ UNCHANGED <<count, taken, used, placed>>

(* The row is read back; an operator may have deleted it.                  *)
SuperGone(t) == FallBack(t, "stored") /\ super[task[t].cluster] = "none"
SuperStored(t) ==
  /\ task[t].at = "stored"
  /\ super[task[t].cluster] # "none"
  /\ LET S == Spans[task[t].cluster]
     IN Become(t, IF S = <<>> THEN Idle ELSE [Idle EXCEPT !.at = "spans", !.spans = S])
  /\ UNCHANGED expansionVars

(* A pair at a time.                                                       *)
RecordSpan(t) ==
  /\ task[t].at = "spans"
  /\ Log(Head(task[t].spans), FALSE)
  /\ LET rest == Tail(task[t].spans)
     IN Become(t, IF rest = <<>> THEN Idle ELSE [Idle EXCEPT !.at = "spans", !.spans = rest])

(* A second bridge, over another pair than the first.                      *)
PickSecondPair(t, p) ==
  /\ task[t].at = "fallback"
  /\ p \in Least(Pairs \ {task[t].first})
  /\ Bridge(t, p)

-----------------------------------------------------------------------------
(* Operators and curation.                                                 *)
CurateSuper(c, s) ==
  /\ super[c] # "none" /\ s # super[c]
  /\ super' = [super EXCEPT ![c] = s]
  /\ UNCHANGED <<count, taken, used, placed, task>>

Continue(t) ==
  \/ RecordTemplate(t) \/ Save(t) \/ RecordPair(t)
  \/ (\E c \in Clusters : PickCluster(t, c)) \/ NoCluster(t)
  \/ PoorTagline(t) \/ RefuseNamed(t) \/ AcceptNamed(t) \/ StoreSuper(t) \/ RefuseSuper(t)
  \/ SuperGone(t) \/ SuperStored(t) \/ RecordSpan(t)
  \/ (\E p \in Pairs : PickSecondPair(t, p))

Curation ==
  \E c \in Clusters, s \in {"active", "archived", "none"} : CurateSuper(c, s)
=============================================================================
