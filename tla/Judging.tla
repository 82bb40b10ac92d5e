------------------------------ MODULE Judging ------------------------------
(***************************************************************************)
(* What judges an idea: an operator's denial or rejection, the comparison  *)
(* of a selection round, challenges by operators and by a cadence, the     *)
(* applying of what a challenge proposes, the audit of its verdict, and    *)
(* the periodic review, in the web process and from a timer; and what      *)
(* saves an idea's whole row and may put back what these wrote.  All but   *)
(* the timer's run as coroutines over one connection.                      *)
(*                                                                         *)
(* Left out: texts and scores, and the rows of denials, rounds and reviews,*)
(* which nothing here reads back: their writes only open the transaction.  *)
(* What is written about an idea or a challenge is a set of facts.         *)
(***************************************************************************)
EXTENDS SharedConnection, Naturals, FiniteSets

CONSTANTS
  Ideas,
  Challenges,  \* challenges that may ever be stored
  About,       \* the idea each is about, Nil for one deleted long ago
  Proposing,   \* those whose answer proposes changes
  Weaker,      \* ideas that lose a comparison: not the highest score
  Tasks,       \* coroutines that can be under way at once
  Nil

ASSUME JudgingAssumption ==
  /\ About \in [Challenges -> Ideas \cup {Nil}] /\ Nil \notin Ideas
  /\ Proposing \subseteq Challenges
  /\ Weaker \subseteq Ideas

VARIABLES
  task,   \* each coroutine: the statement it is at, what it is about, and
          \* where it goes after its next commit, and the row it read
  picks,  \* ideas the challenge cycle has still to take up
  timer   \* the idea the review process has to archive, or Nil

vars == <<connectionVars, task, picks, timer>>

Statuses == {"new", "rejected", "archived", "gone"}
Fact(kind, of) == [kind |-> kind, of |-> of]

Stored(i) == i \in Ideas /\ view.status[i] # "gone"
Holds(kind, of) == Fact(kind, of) \in view.facts

(* history facts: a whole-row save has put an idea that was out back into  *)
(* the running, or has put back a row that lacks what a challenge wrote.   *)
Revived(i) == Fact("revived", i)
Undone(c) == Fact("undone", c)

Idle == [at |-> "idle", of |-> Nil, then |-> "idle", read |-> Nil]
At(label, of) == [Idle EXCEPT !.at = label, !.of = of]

Init ==
  /\ \E old \in SUBSET {c \in Challenges : About[c] = Nil} :
       Connect([status |-> [i \in Ideas |-> "new"],
                facts |-> {Fact("challenge", c) : c \in old}])
  /\ task = [t \in Tasks |-> Idle]
  /\ picks = {}
  /\ timer = Nil

-----------------------------------------------------------------------------
Become(t, k) == task' = [task EXCEPT ![t] = k]

Begin(t, k) ==
  /\ task[t] = Idle
  /\ Become(t, k)
  /\ UNCHANGED <<connectionVars, picks, timer>>

(* Between two awaits, with no write.                                      *)
Go(t, from, to) ==
  /\ task[t].at = from
  /\ Become(t, to)
  /\ UNCHANGED <<connectionVars, picks, timer>>

AddFact(kind, of) == Execute([view EXCEPT !.facts = @ \cup {Fact(kind, of)}])

(* UPDATE ideas SET status: no row, no effect.                             *)
Out(d, i, s) ==
  IF d.status[i] = "gone" THEN d
  ELSE [d EXCEPT !.status[i] = s, !.facts = @ \ {Revived(i)}]

(* After its statement the coroutine goes to its commit.                   *)
ToCommit(t, then) == Become(t, [task[t] EXCEPT !.at = "commit", !.then = then])

Committing(t) == task[t].at \in {"commit", "locked_commit"}

FinishTask(t) ==
  /\ Committing(t)
  /\ Commit
  /\ Become(t, IF task[t].then \in {"idle", "next"} THEN At(task[t].then, Nil)
               ELSE At(task[t].then, task[t].of))
  /\ UNCHANGED <<picks, timer>>

(* _write_lock: save_idea, update_idea_status and delete_idea hold it from *)
(* their statement to their commit.  No other write here takes it.         *)
Unlocked == \A t \in Tasks : task[t].at # "locked_commit"

WriteLocked(t, d, then) ==
  /\ Unlocked
  /\ Execute(d)
  /\ Become(t, [task[t] EXCEPT !.at = "locked_commit", !.then = then, !.read = Nil])
  /\ UNCHANGED <<picks, timer>>

-----------------------------------------------------------------------------
(* Denials and rejections.                                                 *)

(* deny_idea: the idea was there when it was read.                         *)
RequestDenial(t, i) == Stored(i) /\ Begin(t, At("deny", i))

(* Mutant: the record alone, the status being another call's business.     *)
InsertDenialOnly(t) ==
  /\ task[t].at = "deny"
  /\ Execute(view)
  /\ ToCommit(t, task[t].then)
  /\ UNCHANGED <<picks, timer>>

(* save_denial: two statements and a commit.                               *)
InsertDenial(t) ==
  /\ task[t].at = "deny"
  /\ Execute(view)
  /\ Become(t, [task[t] EXCEPT !.at = "deny_status"])
  /\ UNCHANGED <<picks, timer>>

SetDenied(t) ==
  /\ task[t].at = "deny_status"
  /\ Execute(Out(view, task[t].of, "rejected"))
  /\ ToCommit(t, task[t].then)
  /\ UNCHANGED <<picks, timer>>

(* reject_idea.                                                            *)
RequestRejection(t, i) == Begin(t, At("reject", i))

Reject(t) ==
  /\ task[t].at = "reject"
  /\ WriteLocked(t, Out(view, task[t].of, "rejected"), "idle")

(* delete_idea: read, GitHub is asked about its repository, the row goes.  *)
(* Denials, challenges and audits of it stay.                              *)
RequestDelete(t, i) == Stored(i) /\ Begin(t, At("delete", i))

Delete(t) ==
  /\ task[t].at = "delete"
  /\ WriteLocked(t, Out(view, task[t].of, "gone"), "idle")

-----------------------------------------------------------------------------
(* Back-fills, promotions and the issue sync read a row, wait for their    *)
(* model or for GitHub, and save the whole row as they read it.            *)

ReadRow(t, i) ==
  /\ Stored(i)
  /\ Begin(t, [At("row", i) EXCEPT !.read =
       [status |-> view.status[i],
        written |-> {c \in Proposing : About[c] = i /\ Holds("written", c)}]])

RowDropped(t) == Go(t, "row", Idle)

(* save_idea: INSERT OR REPLACE.  The older status and texts are back, and *)
(* a row that was deleted.                                                 *)
PutBack(i, r) ==
  LET undone == {c \in Proposing \ r.written :
                   About[c] = i /\ (Holds("written", c) \/ ~Stored(i))}
      facts == (view.facts \ ({Fact("written", c) : c \in undone}
                               \cup {Undone(c) : c \in r.written}))
                 \cup {Fact("written", c) : c \in r.written} \cup {Undone(c) : c \in undone}
  IN [status |-> [view.status EXCEPT ![i] = r.status],
      facts |-> IF r.status # "new" THEN facts \ {Revived(i)}
                ELSE IF view.status[i] # "new" THEN facts \cup {Revived(i)} ELSE facts]

SaveRow(t) ==
  /\ task[t].at = "row"
  /\ WriteLocked(t, PutBack(task[t].of, task[t].read), "idle")

-----------------------------------------------------------------------------
(* Selection rounds.                                                       *)

(* create_round.                                                           *)
RequestRound(t) == Begin(t, At("round", Nil))

SaveRound(t) ==
  /\ task[t].at = "round"
  /\ Execute(view)
  /\ ToCommit(t, "idle")
  /\ UNCHANGED <<picks, timer>>

(* run_round_comparisons: the ideas are read and compared; every pair has  *)
(* a winner, and a pair that overlaps has a loser to deny.  Nothing happens *)
(* to the winner.                                                          *)
CompareDistinct(t) == Begin(t, At("results", Nil))

CompareSimilar(t, i) ==
  /\ i \in Weaker
  /\ Stored(i)
  /\ Begin(t, At("loser", i))

(* The loser is read again; it may be out already.                         *)
DenyLoser(t) ==
  /\ task[t].at = "loser"
  /\ view.status[task[t].of] = "new"
  /\ Go(t, "loser", [task[t] EXCEPT !.at = "deny", !.then = "results"])

SpareLoser(t) ==
  /\ task[t].at = "loser"
  /\ view.status[task[t].of] # "new"
  /\ Go(t, "loser", At("results", task[t].of))

(* save_round_results marks the round completed.                           *)
SaveResults(t) ==
  /\ task[t].at = "results"
  /\ IF task[t].of = Nil THEN Execute(view) ELSE AddFact("lost", task[t].of)
  /\ ToCommit(t, "idle")
  /\ UNCHANGED <<picks, timer>>

-----------------------------------------------------------------------------
(* Challenges.                                                             *)

InHand(c) == \E t \in Tasks : task[t].of = c /\ task[t].at = "model"
Fresh(c) == ~Holds("challenge", c) /\ ~InHand(c)

(* api_challenge_idea: the model is asked, for a minute or more.           *)
RequestChallenge(t, c) ==
  /\ Fresh(c)
  /\ Stored(About[c])
  /\ Begin(t, At("model", c))

(* pick_ideas_to_challenge: new ideas without a challenge, all in one      *)
(* query; the cycle takes them up one after the other without a new look.  *)
PickIdeas(t) ==
  /\ task[t] = Idle
  /\ \A u \in Tasks : "next" \notin {task[u].at, task[u].then}
  /\ picks' = {i \in Ideas : view.status[i] = "new"
                 /\ \A c \in Challenges : About[c] = i => ~Holds("challenge", c)}
  /\ picks' # {}
  /\ Become(t, At("next", Nil))
  /\ UNCHANGED <<connectionVars, timer>>

TakeUp(t, i) ==
  /\ task[t].at = "next"
  /\ i \in picks
  /\ picks' = picks \ {i}
  /\ \E c \in Challenges :
       About[c] = i /\ Fresh(c) /\ Become(t, [At("model", c) EXCEPT !.then = "next"])
  /\ UNCHANGED <<connectionVars, timer>>

(* No challenge is left to store (a bound of the model).                   *)
CycleEnds(t) ==
  /\ task[t].at = "next"
  /\ picks' = {}
  /\ \A i \in picks, c \in Challenges : About[c] = i => ~Fresh(c)
  /\ Become(t, Idle)
  /\ UNCHANGED <<connectionVars, timer>>

ModelFails(t) == Go(t, "model", At(task[t].then, Nil))

(* save_challenge.                                                         *)
SaveChallenge(t) ==
  /\ task[t].at = "model"
  /\ AddFact("challenge", task[t].of)
  /\ Become(t, [task[t] EXCEPT !.at = "commit"])
  /\ UNCHANGED <<picks, timer>>

-----------------------------------------------------------------------------
(* api_apply_challenge.                                                    *)

(* get_challenge, then is_challenge_applied.                               *)
RequestApply(t, c) ==
  /\ Holds("challenge", c)
  /\ ~Holds("applied", c)
  /\ Begin(t, At("apply", c))

(* apply_idea_field_updates; with nothing to change there is no statement. *)
UpdateFields(t) ==
  /\ task[t].at = "apply"
  /\ IF task[t].of \in Proposing
     THEN /\ Execute(IF Stored(About[task[t].of])
                     THEN [view EXCEPT !.facts = (@ \ {Undone(task[t].of)})
                                                 \cup {Fact("written", task[t].of)}]
                     ELSE view)
          /\ ToCommit(t, "reread")
     ELSE Become(t, At("reread", task[t].of)) /\ UNCHANGED connectionVars
  /\ UNCHANGED <<picks, timer>>

(* Mutant: the 404 is not raised.                                          *)
RereadUnchecked(t) ==
  /\ task[t].at = "reread"
  /\ Go(t, "reread", At("mark", task[t].of))

(* It returns the idea, or None for a 404.                                 *)
Reread(t) ==
  /\ task[t].at = "reread"
  /\ Go(t, "reread", IF Stored(About[task[t].of]) THEN At("mark", task[t].of) ELSE Idle)

MarkApplied(t) ==
  /\ task[t].at = "mark"
  /\ AddFact("applied", task[t].of)
  /\ ToCommit(t, "idle")
  /\ UNCHANGED <<picks, timer>>

-----------------------------------------------------------------------------
(* run_verdict_audit_cycle.                                                *)

Unaudited == {c \in Challenges : Holds("challenge", c) /\ ~Holds("audit", c)}
Auditing ==
  \E t \in Tasks : \/ task[t].at \in {"sample", "evaluate", "audit"}
                  \/ /\ task[t].at = "commit"
                     /\ Fact("audit", task[t].of) \in view.facts \ disk.facts

(* _ensure_table commits, whoever's statements are open.                   *)
StartAudit(t) ==
  /\ task[t] = Idle
  /\ ~Auditing
  /\ Commit
  /\ Become(t, At("sample", Nil))
  /\ UNCHANGED <<picks, timer>>

(* Mutant: the query's order, newest first, and no draw.                   *)
SampleGoneFirst(t, c) ==
  /\ task[t].at = "sample"
  /\ c \in Unaudited
  /\ Stored(About[c]) => \A d \in Unaudited : Stored(About[d])
  /\ Go(t, "sample", IF Stored(About[c]) THEN At("evaluate", c) ELSE Idle)

(* A tenth of them and at least one: one, for fewer than twenty.  A        *)
(* challenge of an idea that has gone is drawn too, and skipped.           *)
Sample(t, c) ==
  /\ task[t].at = "sample"
  /\ c \in Unaudited
  /\ Go(t, "sample", IF Stored(About[c]) THEN At("evaluate", c) ELSE Idle)

NothingToAudit(t) == Unaudited = {} /\ Go(t, "sample", Idle)

EvaluationFails(t) == Go(t, "evaluate", Idle)

(* _persist_audit: the table again, which commits, then the row.           *)
Evaluate(t) ==
  /\ task[t].at = "evaluate"
  /\ Commit
  /\ Become(t, At("audit", task[t].of))
  /\ UNCHANGED <<picks, timer>>

SaveAudit(t) ==
  /\ task[t].at = "audit"
  /\ AddFact("audit", task[t].of)
  /\ ToCommit(t, "idle")
  /\ UNCHANGED <<picks, timer>>

-----------------------------------------------------------------------------
(* run_review_cycle.                                                       *)

Reviewing ==
  \E t \in Tasks : \/ task[t].at \in {"review", "archive", "reviewed"}
                  \/ task[t].then \in {"archive", "reviewed"}

(* fetch_ideas_for_review; what it has read is not read again.             *)
StartReview(t, i) ==
  /\ ~Reviewing
  /\ view.status[i] \notin {"rejected", "archived", "gone"}
  /\ Begin(t, At("review", i))

ReviewFails(t) == Go(t, "review", Idle)

(* heuristic_review, in hundredths: without a key.  What the composite     *)
(* condemns it is never sure about; only age with a low feasibility is.    *)
Composite(age, feasibility, quality, room) ==
  LET youth == IF age >= 365 THEN 0 ELSE 100 - (100 * age) \div 365
  IN (40 * feasibility + 25 * youth + 15 * quality + 20 * room) \div 100

VerdictOf(composite) ==
  IF composite >= 75 THEN "keep"
  ELSE IF composite >= 60 THEN "strengthen"
  ELSE IF composite >= 45 THEN "narrow"
  ELSE IF composite >= 30 THEN "archive"
  ELSE "kill"

HeuristicReview(age, feasibility, quality, room) ==
  LET composite == Composite(age, feasibility, quality, room) IN
  IF (age > 180 /\ feasibility < 50) \/ (age > 365 /\ feasibility < 60)
  THEN [verdict |-> "archive", confidence |-> 80]
  ELSE [verdict |-> VerdictOf(composite), confidence |-> (9 * composite) \div 10 + 10]

(* With one the model says what it likes.                                  *)
ModelReviews == [verdict: {"keep", "pivot", "archive", "kill"}, confidence: {50, 75, 95}]

Reviews ==
  ModelReviews \cup
  {HeuristicReview(age, feasibility, quality, room) :
     age \in {8, 200, 400}, feasibility \in {20, 55, 90}, quality, room \in {0, 100}}

(* Archived at once: _KILL_AUTO_ARCHIVE_THRESHOLD.                          *)
SureKill(review) ==
  review.verdict \in {"kill", "archive"} /\ review.confidence >= 75

AfterReview == {IF SureKill(r) THEN "archive" ELSE "reviewed" : r \in Reviews}

(* record_review; a sure kill is archived after the commit.                *)
RecordReview(t) ==
  /\ task[t].at = "review"
  /\ Execute(view)
  /\ \E then \in AfterReview : ToCommit(t, then)
  /\ UNCHANGED <<picks, timer>>

Archive(t) ==
  /\ task[t].at = "archive"
  /\ WriteLocked(t, Out(view, task[t].of, "archived"), "reviewed")

NextReview(t) == Go(t, "reviewed", Idle)

(* The same in the process that a timer starts.                            *)
TimerReviews(i) ==
  /\ timer = Nil
  /\ disk.status[i] \notin {"rejected", "archived", "gone"}
  /\ ExecuteElsewhere(disk)
  /\ timer' = i
  /\ UNCHANGED <<task, picks>>

TimerArchives ==
  /\ timer # Nil
  /\ ExecuteElsewhere(Out(disk, timer, "archived"))
  /\ timer' = Nil
  /\ UNCHANGED <<task, picks>>

TimerLeaves == timer # Nil /\ timer' = Nil /\ UNCHANGED <<connectionVars, task, picks>>

-----------------------------------------------------------------------------
Restart ==
  /\ LoseUncommitted
  /\ task' = [t \in Tasks |-> Idle]
  /\ picks' = {}
  /\ UNCHANGED timer

Continue(t) ==
  \/ FinishTask(t)
  \/ InsertDenial(t) \/ SetDenied(t) \/ Reject(t) \/ Delete(t) \/ SaveRow(t) \/ RowDropped(t)
  \/ SaveRound(t) \/ DenyLoser(t) \/ SpareLoser(t) \/ SaveResults(t)
  \/ (\E i \in Ideas : TakeUp(t, i)) \/ CycleEnds(t) \/ SaveChallenge(t) \/ ModelFails(t)
  \/ UpdateFields(t) \/ Reread(t) \/ MarkApplied(t)
  \/ (\E c \in Challenges : Sample(t, c)) \/ NothingToAudit(t)
  \/ Evaluate(t) \/ EvaluationFails(t) \/ SaveAudit(t)
  \/ RecordReview(t) \/ ReviewFails(t) \/ Archive(t) \/ NextReview(t)

Start(t) ==
  \/ \E i \in Ideas :
       \/ RequestDenial(t, i) \/ RequestRejection(t, i) \/ RequestDelete(t, i)
       \/ CompareSimilar(t, i) \/ StartReview(t, i) \/ ReadRow(t, i)
  \/ RequestRound(t) \/ CompareDistinct(t) \/ PickIdeas(t) \/ StartAudit(t)
  \/ \E c \in Challenges : RequestChallenge(t, c) \/ RequestApply(t, c)

Next ==
  \/ \E t \in Tasks : Start(t) \/ Continue(t)
  \/ \E i \in Ideas : TimerReviews(i)
  \/ TimerArchives \/ TimerLeaves
  \/ Restart

Spec == Init /\ [][Next]_vars

(* A coroutine goes on: its calls have timeouts.  The audit cadence gets   *)
(* its turn, and since it draws at random it draws any one challenge       *)
(* again and again; the model does not fail, nor the process die, each     *)
(* time at the same point.                                                 *)
Of(c, A(_)) == \E t \in Tasks : task[t].of = c /\ A(t)

Fairness ==
  /\ \A t \in Tasks : WF_vars(Continue(t))
  /\ SF_vars(\E t \in Tasks : StartAudit(t))
  /\ \A c \in {d \in Challenges : About[d] # Nil} :
       /\ SF_vars(\E t \in Tasks : Sample(t, c))
       /\ SF_vars(Of(c, Evaluate))
       /\ SF_vars(Of(c, SaveAudit))
       /\ SF_vars(Holds("audit", c) /\ Of(c, FinishTask))

-----------------------------------------------------------------------------
Labels == {"idle", "deny", "deny_status", "reject", "delete", "row", "round", "loser",
           "results", "model", "next", "apply", "reread", "mark", "sample",
           "evaluate", "audit", "review", "archive", "reviewed", "commit", "locked_commit"}
Facts == {Fact(k, i) : k \in {"lost", "revived"}, i \in Ideas}
           \cup {Fact(k, c) : k \in {"challenge", "applied", "written", "undone", "audit"},
                              c \in Challenges}
Databases == [status : [Ideas -> Statuses], facts : SUBSET Facts]
Rows == [status : Statuses \ {"gone"}, written : SUBSET Proposing]

TypeOK ==
  /\ disk \in Databases /\ view \in Databases
  /\ open \in BOOLEAN
  /\ task \in [Tasks -> [at : Labels, of : Ideas \cup Challenges \cup {Nil},
                         then : Labels, read : Rows \cup {Nil}]]
  /\ picks \subseteq Ideas
  /\ timer \in Ideas \cup {Nil}
  /\ open \/ view = disk

(* The mark that a challenge was applied never stands in the database      *)
(* without the fields it proposed, whoever commits whose statements and    *)
(* wherever the process is killed (the mark turns every later call away),  *)
(* unless a save of the whole row, read before, has put the old ones back. *)
AppliedMeansWritten ==
  \A c \in Proposing :
    Fact("applied", c) \in disk.facts
      => Fact("written", c) \in disk.facts \/ Undone(c) \in disk.facts

(* A round that shows its results has its losers out of the running, unless*)
(* such a save has revived them since they were last taken out.            *)
LosersOut ==
  \A i \in Ideas :
    Fact("lost", i) \in disk.facts
      => disk.status[i] # "new" \/ Revived(i) \in disk.facts

(* The other processes get their turn to write: the connection's           *)
(* transaction is never left open.                                         *)
TransactionsEnd == []<>~open

(* The audit reaches every challenge of an idea that stays, although those *)
(* of deleted ideas can never be audited and stay among the candidates.    *)
EveryChallengeAudited ==
  \A c \in {d \in Challenges : About[d] # Nil} :
    Fact("challenge", c) \in disk.facts /\ Stored(About[c])
      ~> Fact("audit", c) \in disk.facts \/ ~Stored(About[c])

=============================================================================
