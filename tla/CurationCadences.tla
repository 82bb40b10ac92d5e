-------------------------- MODULE CurationCadences --------------------------
(***************************************************************************)
(* What the scheduler's cadences do to ideas that exist: score back-fill,  *)
(* siphon, review, issue sync and the Think Tank reconciler, and the       *)
(* siphon's undo, which an operator calls by hand.  Each reads, waits      *)
(* (for an LLM, for gh, or for its turn on the connection) and writes what *)
(* it decided from the earlier read.                                       *)
(***************************************************************************)
EXTENDS EventLoop

ScoreLabels == {"score:read", "score:save"}
SyncLabels == {"sync:fetch", "sync:read", "sync:save", "sync:archive"}

-----------------------------------------------------------------------------
(* Score back-fill: the list of ids, then per idea a fresh read, an LLM    *)
(* call and a save of the whole row.  The fresh read is not filtered.  The *)
(* scores, and which of the six an idea still lacks, are left out.         *)

ScoreSelect(t, i) ==
  /\ i \in stored
  /\ Active(row[i])
  /\ NoneAt(i, ScoreLabels)
  /\ Begin(t, i, "score:read", Blank)
  /\ UNCHANGED <<storeVars, gitHubVars, approvals>>

ScoreRead(t) ==
  /\ pc[t] = "score:read"
  /\ IF arg[t] \in stored THEN Goto(t, "score:save", row[arg[t]])
                          ELSE Finish(t)
  /\ UNCHANGED <<storeVars, gitHubVars, approvals>>

ScoreSave(t) ==
  /\ pc[t] = "score:save"
  /\ SaveIdea(arg[t], snap[t])
  /\ Finish(t)
  /\ UNCHANGED <<gitHubVars, approvals>>

-----------------------------------------------------------------------------
(* Siphon: every pass excludes archived and rejected rows in its query and *)
(* the statuses an operator has given afterwards, so only 'new' rows can   *)
(* be victims.  Which of them are near-duplicates is left open.            *)

SiphonSelect(t, i) ==
  /\ i \in stored
  /\ row[i].status = "new"
  /\ NoneAt(i, {"siphon:archive"})
  /\ Begin(t, i, "siphon:archive", Blank)
  /\ UNCHANGED <<storeVars, gitHubVars, approvals>>

SiphonArchive(t) ==
  /\ pc[t] = "siphon:archive"
  /\ MarkWithReason(arg[t], "archived", "siphon")
  /\ Finish(t)
  /\ UNCHANGED <<gitHubVars, approvals>>

RestoreSiphoned ==
  /\ RestoreDedupArchive
  /\ UNCHANGED <<gitHubVars, taskVars, approvals>>

-----------------------------------------------------------------------------
(* Review: a confident kill or archive verdict archives the idea.  Other   *)
(* verdicts write nothing to its row.                                      *)

ReviewFetch(t, i) ==
  /\ i \in stored
  /\ Active(row[i])
  /\ NoneAt(i, {"review:archive"})
  /\ Begin(t, i, "review:archive", Blank)
  /\ UNCHANGED <<storeVars, gitHubVars, approvals>>

ReviewArchive(t) ==
  /\ pc[t] = "review:archive"
  /\ UpdateIdeaStatus(arg[t], "archived")
  /\ Finish(t)
  /\ UNCHANGED <<gitHubVars, approvals>>

-----------------------------------------------------------------------------
(* Issue sync: the promoted ideas, then gh in a thread per issue.          *)

Promoted(r) == r.status = "approved" /\ r.stamped /\ r.issue # NoIssue

SyncSelect(t, i) ==
  /\ i \in stored
  /\ Promoted(row[i])
  /\ NoneAt(i, SyncLabels)
  /\ Begin(t, i, "sync:fetch", [Blank EXCEPT !.issue = row[i].issue])
  /\ UNCHANGED <<storeVars, gitHubVars, approvals>>

(* gh failed; or the issue is open, or closed without a reason.            *)
SyncGhFails(t) ==
  /\ pc[t] = "sync:fetch"
  /\ Finish(t)
  /\ UNCHANGED <<storeVars, gitHubVars, approvals>>

(* Mutant: only a completed issue is recognised.                           *)
SyncFetchCompletedOnly(t) ==
  /\ pc[t] = "sync:fetch"
  /\ IF issues[arg[t]][snap[t].issue] = "completed"
     THEN Goto(t, "sync:read", snap[t])
     ELSE Finish(t)
  /\ UNCHANGED <<storeVars, gitHubVars, approvals>>

SyncFetch(t) ==
  /\ pc[t] = "sync:fetch"
  /\ LET s == issues[arg[t]][snap[t].issue] IN
     CASE s = "completed"   -> Goto(t, "sync:read", snap[t])
       [] s = "not_planned" -> Goto(t, "sync:archive", Blank)
       [] OTHER             -> Finish(t)
  /\ UNCHANGED <<storeVars, gitHubVars, approvals>>

SyncFlipRead(t) ==
  /\ pc[t] = "sync:read"
  /\ IF arg[t] \in stored
     THEN Goto(t, "sync:save", [row[arg[t]] EXCEPT !.status = "contributed"])
     ELSE Finish(t)
  /\ UNCHANGED <<storeVars, gitHubVars, approvals>>

SyncFlipSave(t) ==
  /\ pc[t] = "sync:save"
  /\ SaveIdea(arg[t], snap[t])
  /\ Finish(t)
  /\ UNCHANGED <<gitHubVars, approvals>>

SyncArchive(t) ==
  /\ pc[t] = "sync:archive"
  /\ MarkWithReason(arg[t], "archived", "gh_closed_not_planned")
  /\ Finish(t)
  /\ UNCHANGED <<gitHubVars, approvals>>

-----------------------------------------------------------------------------
(* Think Tank reconciler, first thing in every introspect cycle.  What it  *)
(* takes for shipped is what the newest commit subjects name.              *)

Reconcilable(i) ==
  /\ i \in stored
  /\ row[i].category = "self-improvement"
  /\ row[i].status \in {"new", "approved"}
  /\ i \in subjects

ReconcileSelect(t, i) ==
  /\ Reconcilable(i)
  /\ NoneAt(i, {"reconcile:mark"})
  /\ Begin(t, i, "reconcile:mark", Blank)
  /\ UNCHANGED <<storeVars, gitHubVars, approvals>>

(* Mutant: the write is guarded by the status most open ideas have.        *)
ReconcileMarkNewOnly(t) ==
  /\ pc[t] = "reconcile:mark"
  /\ IF row[arg[t]].status = "new"
     THEN MarkWithReason(arg[t], "implemented", "auto_reconcile")
     ELSE UNCHANGED storeVars
  /\ Finish(t)
  /\ UNCHANGED <<gitHubVars, approvals>>

ReconcileMark(t) ==
  /\ pc[t] = "reconcile:mark"
  /\ MarkWithReason(arg[t], "implemented", "auto_reconcile")
  /\ Finish(t)
  /\ UNCHANGED <<gitHubVars, approvals>>

-----------------------------------------------------------------------------
CadenceBegins(t, i) ==
  \/ ScoreSelect(t, i)
  \/ SiphonSelect(t, i)
  \/ ReviewFetch(t, i)
  \/ SyncSelect(t, i)
  \/ ReconcileSelect(t, i)

CadenceContinues(t) ==
  \/ ScoreRead(t)
  \/ ScoreSave(t)
  \/ SiphonArchive(t)
  \/ ReviewArchive(t)
  \/ SyncGhFails(t)
  \/ SyncFetch(t)
  \/ SyncFlipRead(t)
  \/ SyncFlipSave(t)
  \/ SyncArchive(t)
  \/ ReconcileMark(t)
=============================================================================
