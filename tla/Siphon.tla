------------------------------- MODULE Siphon -------------------------------
(***************************************************************************)
(* engine/siphon.py: five passes, one after the other, each of which reads *)
(* the board, plans which ideas give way to which, and archives them by id *)
(* a batch at a time.  The weekly cadence runs it in the server, and       *)
(* scripts/trim-now.py in a process of its own, while operators, scorers   *)
(* and generators go on.                                                   *)
(*                                                                         *)
(* Ideas are numbered by age.  What they say is an input: only which are   *)
(* alike, by the thresholds of a pass, is kept.  A batch is one            *)
(* transaction of trim-now.  In the server others may step in between its  *)
(* statements, which commute with theirs, and commit a part of it.         *)
(***************************************************************************)
EXTENDS Naturals, FiniteSets

CONSTANTS
  Ideas,        \* numbers, the older the less
  Categories, SelfImprovement,
  Stems, None,  \* concepts of an 'X for Y' name, and none
  Texts,        \* what the ideas can be
  Runs, Server, \* trim-now's and the cadence's
  VerticalCap, DensityCap,
  BucketCap,    \* _CROSS_BUCKET_CAP
  Outside       \* bound: steps of others

ASSUME SiphonAssumption ==
  /\ Ideas \subseteq Nat /\ IsFiniteSet(Ideas)
  /\ SelfImprovement \in Categories /\ None \notin Stems /\ Server \in Runs
  /\ {VerticalCap, DensityCap, BucketCap, Outside} \subseteq Nat \ {0}

Pairs == {{i, j} : i, j \in Ideas} \ {{i} : i \in Ideas}

Text ==
  [category : [Ideas -> Categories], supers : SUBSET Ideas,
   stem : [Ideas -> Stems \cup {None}],
   alike : SUBSET Pairs,        \* by name or tagline; supers by their parts
   akin : SUBSET Pairs,         \* by tagline, at the cross-category threshold
   tokens : SUBSET SUBSET Ideas,  \* per token, the ideas whose tagline has it
   feasibility : [Ideas -> Nat],
   marked : SUBSET Ideas]       \* of a mission, ingested, or promoted

ASSUME TextsAssumption == Texts \subseteq Text

VARIABLES
  text,
  status,      \* "accepted": approved, scaffolded, implemented, contributed
  worth,       \* the best of the board's scores
  tagged,      \* archived_reason is one of the siphon's
  run,         \* per run: its pass, what it has planned, and as history the
               \* ideas others moved since it read, whether any step of
               \* others fell into it, and what its cross pass linked
  favour,      \* history: for an archived duplicate, the ideas it gave way to
  settled,     \* history: per run that went through before anything else
               \* happened, the pairs its cross pass had linked
  overlapped,  \* history: two runs were under way at once
  steps

boardVars == <<status, worth, tagged, favour>>
siphonVars == <<text, boardVars, run, settled, overlapped, steps>>

Status == {"none", "new", "accepted", "rejected", "archived"}
Batch == [keep : SUBSET Ideas, gone : SUBSET Ideas]
RunState == [pass : 0..5, todo : SUBSET Batch, moved : SUBSET Ideas, calm : BOOLEAN,
             linked : SUBSET Pairs]
Idle == [pass |-> 0, todo |-> {}, moved |-> {}, calm |-> FALSE, linked |-> {}]

(* Every variable stays in its range: a pass plans batches of ideas.        *)
SiphonTypeOK ==
  /\ text \in Texts
  /\ status \in [Ideas -> Status]
  /\ worth \in [Ideas -> 0..1]
  /\ tagged \subseteq Ideas
  /\ run \in [Runs -> RunState]
  /\ favour \in [Ideas -> SUBSET Ideas]
  /\ settled \subseteq SUBSET Pairs /\ overlapped \in BOOLEAN
  /\ steps \in 0..Outside

SiphonInit ==
  /\ text \in Texts
  /\ status = [i \in Ideas |-> "new"]
  /\ worth = [i \in Ideas |-> 0]
  /\ tagged = {}
  /\ run = [r \in Runs |-> Idle]
  /\ favour = [i \in Ideas |-> {}]
  /\ settled = {} /\ overlapped = FALSE /\ steps = 0

-----------------------------------------------------------------------------
(* What a pass finds.                                                      *)

(* Mutant: the queries do not leave archived rows out.                     *)
BoardAndAttic == {i \in Ideas : status[i] \notin {"none", "rejected"}}
Board == {i \in Ideas : status[i] \in {"new", "accepted"}}

(* Mutant: accepted ideas count as any other.                              *)
FreshOrAccepted(S) == S

(* The ideas that _TERMINAL_STATUSES does not protect.                     *)
Fresh(S) == {i \in S : status[i] = "new"}

(* Ties go to the lower id.                                                *)
MoreFeasible(i, j) ==
  \/ text.feasibility[i] > text.feasibility[j]
  \/ text.feasibility[i] = text.feasibility[j] /\ i < j

(* _density_composite; ties go to the older idea.                          *)
Worthier(i, j) ==
  \/ worth[i] > worth[j]
  \/ worth[i] = worth[j] /\ i < j

First(S, n, Before(_, _)) ==
  {i \in S : Cardinality({j \in S : Before(j, i)}) < n}

(* Connected components of S under links.                                  *)
Clusters(S, links) ==
  LET Closed == {C \in (SUBSET S) \ {{}} :
                   \A i \in C, j \in S : {i, j} \in links => j \in C}
  IN {C \in Closed : \A D \in Closed : D \subseteq C => D = C}

InOneCategory(S) == \A i, j \in S : text.category[i] = text.category[j]

Protected(i) == status[i] # "new" \/ i \in text.marked \/ i \in text.supers

Planned(batches) == {b \in batches : b.gone # {}}

-----------------------------------------------------------------------------
(* The passes.                                                             *)

(* Mutant: a cluster gives up its least feasible idea only.                *)
LeastOfCluster ==
  LET links == {p \in text.alike : InOneCategory(p)}
      Batches == {LET top == First(C, 1, MoreFeasible)
                      last == First(C \ top, 1, LAMBDA i, j : MoreFeasible(j, i))
                  IN [keep |-> top, gone |-> Fresh(last)] :
                    C \in Clusters(Board \ text.supers, links)}
  IN Planned(Batches)

Duplicates ==
  LET links == {p \in text.alike : InOneCategory(p)}
      Batches == {LET top == First(C, 1, MoreFeasible)
                  IN [keep |-> top, gone |-> Fresh(C \ top)] :
                    C \in Clusters(Board \ text.supers, links)}
  IN Planned(Batches)

(* Pairwise: a super goes when a more feasible one is alike.               *)
SupersByComponents ==
  LET S == Fresh(Board) \cap text.supers
      Winner(i) == First({j \in S : {i, j} \in text.alike /\ MoreFeasible(j, i)},
                         1, MoreFeasible)
  IN Planned({[keep |-> {j}, gone |-> {i \in S : Winner(i) = {j}}] : j \in S})

Verticals ==
  Planned({LET family == {i \in Board : text.stem[i] = s}
               kept == First(Fresh(family), VerticalCap, MoreFeasible)
           IN [keep |-> kept \cup (family \ Fresh(family)),
               gone |-> Fresh(family) \ kept] : s \in Stems})

Comparable(B) == {i \in B \ text.supers : text.category[i] # SelfImprovement}

(* Only taglines that share a token few of the pass's rows have are compared. *)
Links(S) ==
  {p \in text.akin : \E t \in text.tokens : p \subseteq t /\ Cardinality(t \cap S) <= BucketCap}

CrossCategory ==
  LET S == Comparable(Board)
  IN Planned({LET best == First(C, 1, Worthier)
              IN [keep |-> best, gone |-> {i \in C \ best : ~Protected(i)}] :
                C \in {D \in Clusters(S, Links(S)) : ~InOneCategory(D)}})

(* A category over its cap keeps the protected and the best of the others. *)
Density ==
  Planned({LET members == {i \in Board : text.category[i] = c}
               pool == {i \in members : ~Protected(i)}
               guarded == Cardinality(members \ pool)
               room == IF guarded < DensityCap THEN DensityCap - guarded ELSE 0
           IN [keep |-> {}, gone |-> IF Cardinality(members) > DensityCap
                                     THEN pool \ First(pool, room, Worthier)
                                     ELSE {}] :
             c \in Categories \ {SelfImprovement}})

Plan(pass) == CASE pass = 1 -> Duplicates
                [] pass = 2 -> SupersByComponents
                [] pass = 3 -> Verticals
                [] pass = 4 -> CrossCategory
                [] pass = 5 -> Density

-----------------------------------------------------------------------------
(* A run.                                                                  *)

Enter(r, pass, calm) ==
  run' = [run EXCEPT ![r] = [pass |-> pass, todo |-> Plan(pass),
                             moved |-> {}, calm |-> calm,
                             linked |-> IF pass = 4 THEN Links(Comparable(Board))
                                        ELSE run[r].linked]]

Due(r) == UNION {b.gone : b \in run[r].todo}

Start(r) ==
  /\ run[r] = Idle
  /\ Enter(r, 1, TRUE)
  /\ overlapped' = (overlapped \/ \E q \in Runs : run[q] # Idle)
  /\ favour' = IF overlapped' THEN [i \in Ideas |-> {}] ELSE favour
  /\ UNCHANGED <<text, status, worth, tagged, settled, steps>>

(* Ideas were moved, which the run that did it expects and others do not.  *)
Noticed(moved, own) ==
  [q \in Runs |-> IF q \in own \/ run[q] = Idle THEN run[q]
                  ELSE [run[q] EXCEPT !.moved = @ \cup (moved \cap Due(q)),
                                      !.calm = FALSE]]

(* UPDATE ... WHERE id = ?, whatever the row has become.                   *)
Archived(ideas, keep) ==
  LET rows == {i \in ideas : status[i] # "none"} IN
  /\ status' = [i \in Ideas |-> IF i \in rows THEN "archived" ELSE status[i]]
  /\ tagged' = tagged \cup rows
  /\ favour' = [i \in Ideas |-> IF i \in rows /\ ~overlapped THEN keep
                            ELSE favour[i]]
  /\ UNCHANGED <<text, worth, overlapped, steps>>

Archive(r, b) ==
  /\ b \in run[r].todo
  /\ Archived(b.gone, b.keep)
  /\ run' = [Noticed(b.gone, {r}) EXCEPT ![r].todo = @ \ {b}, ![r].moved = @ \ b.gone]
  /\ settled' = {}

NextPass(r) ==
  /\ run[r].pass \in 1..4 /\ run[r].todo = {}
  /\ Enter(r, run[r].pass + 1, run[r].calm)
  /\ UNCHANGED <<text, boardVars, settled, overlapped, steps>>

Finish(r) ==
  /\ run[r].pass = 5 /\ run[r].todo = {}
  /\ settled' = settled \cup {L \in {run[r].linked} : run[r].calm}
  /\ run' = [run EXCEPT ![r] = Idle]
  /\ UNCHANGED <<text, boardVars, overlapped, steps>>

(* An error, a restart, or the end of trim-now by hand.                    *)
Stop(r) ==
  /\ run[r] # Idle
  /\ run' = [run EXCEPT ![r] = Idle]
  /\ UNCHANGED <<text, boardVars, settled, overlapped, steps>>

(* The server dies in the middle of a batch that another commit published. *)
StopHalfway(b) ==
  /\ b \in run[Server].todo
  /\ \E part \in (SUBSET b.gone) \ {{}, b.gone} :
       /\ Archived(part, b.keep)
       /\ run' = [Noticed(part, {Server}) EXCEPT ![Server] = Idle]
  /\ settled' = {}

-----------------------------------------------------------------------------
(* What others do meanwhile.                                               *)

Others(moved) ==
  /\ steps < Outside
  /\ steps' = steps + 1
  /\ run' = Noticed(moved, {})
  /\ settled' = {}
  /\ UNCHANGED <<text, overlapped>>

Becomes(i, s) ==
  /\ status' = [status EXCEPT ![i] = s]
  /\ favour' = [favour EXCEPT ![i] = {}]
  /\ Others({i})

(* A status is written, the reason of an archive stays.                    *)
UpdateStatus(i, s) ==
  /\ status[i] \notin {"none", s}
  /\ Becomes(i, s)
  /\ UNCHANGED <<worth, tagged>>

(* Some handlers write the status, others save the row without the reason. *)
Accept(i) ==
  /\ status[i] \notin {"none", "accepted"}
  /\ Becomes(i, "accepted")
  /\ tagged' \in {tagged, tagged \ {i}}
  /\ UNCHANGED worth
Reject(i) == UpdateStatus(i, "rejected")
Retire(i) == UpdateStatus(i, "archived")

Delete(i) ==
  /\ status[i] # "none"
  /\ Becomes(i, "none")
  /\ tagged' = tagged \ {i}
  /\ UNCHANGED worth

(* A scorer saves the row it read when the idea was new: a new score, an   *)
(* idea that is back on the board, or both.                                *)
SaveScore(i, w) ==
  /\ <<status[i], worth[i]>> # <<"new", w>>
  /\ Becomes(i, "new")
  /\ worth' = [worth EXCEPT ![i] = w]
  /\ tagged' = tagged \ {i}

(* restore_dedup_archive, by hand: all rows that carry a reason.           *)
RestoreArchive ==
  /\ tagged # {}
  /\ status' = [i \in Ideas |-> IF i \in tagged THEN "new" ELSE status[i]]
  /\ favour' = [i \in Ideas |-> IF i \in tagged THEN {} ELSE favour[i]]
  /\ tagged' = {}
  /\ Others(tagged)
  /\ UNCHANGED worth

SiphonNext ==
  \/ \E r \in Runs : \/ Start(r) \/ NextPass(r) \/ Finish(r) \/ Stop(r)
                     \/ \E b \in run[r].todo : Archive(r, b)
  \/ \E b \in run[Server].todo : StopHalfway(b)
  \/ \E i \in Ideas : \/ Accept(i) \/ Reject(i) \/ Retire(i) \/ Delete(i)
                      \/ \E w \in 0..1 : SaveScore(i, w)
  \/ RestoreArchive

SiphonSpec == SiphonInit /\ [][SiphonNext]_siphonVars

-----------------------------------------------------------------------------
(* "Idempotent on a clean corpus", but for what the bucket cap hides: after *)
(* a run in which nobody else moved an idea, and until somebody does, no    *)
(* pass finds anything, though the later passes have changed the board the  *)
(* earlier ones saw.  Only the cross-category pass may, once it compares a  *)
(* pair it had passed over: the density pass has made a token rare enough.  *)
Idempotent ==
  \A linked \in settled : \A pass \in 1..5 :
    Plan(pass) = {} \/ (pass = 4 /\ ~(Links(Comparable(Board)) \subseteq linked))

(* Passes rank by different scores, and runs stop halfway.  Yet unless two *)
(* runs overlap, duplicates never all go in favour of each other: who      *)
(* follows what an archived idea gave way to ends at one that is on the    *)
(* board or left it for a reason of its own.                               *)
Represented ==
  ~overlapped => \A S \in (SUBSET {i \in Ideas : favour[i] # {}}) \ {{}} :
                   \E i \in S : ~(favour[i] \subseteq S)

(* The siphon may archive an idea that is accepted, though the docstring   *)
(* denies it, but only one accepted since the pass that archives it read the board.      *)
AcceptedSpared ==
  [][\A r \in Runs : \A b \in run[r].todo :
       Archive(r, b) => \A i \in b.gone : status[i] = "accepted" => i \in run[r].moved]_siphonVars
=============================================================================
