--------------------------- MODULE OperatorRoutes ---------------------------
(***************************************************************************)
(* The handlers of web/routes.py that move an idea through its life.  Each *)
(* runs only because an operator clicked.  An action is the code between   *)
(* two awaits; the gh calls of these handlers are synchronous, so a call   *)
(* and the code up to the next database statement are one action.  A gh    *)
(* call that raises may have reached GitHub all the same (its 60 s timeout *)
(* can expire after the issue is filed): the handler ends, the issue or    *)
(* the repository stays.                                                   *)
(***************************************************************************)
EXTENDS EventLoop

(* The operator's click that the two approving handlers stand for.         *)
Click(i) == approvals' = approvals \cup {i}

-----------------------------------------------------------------------------
(* POST /api/promote/{id}                                                  *)

PromoteRead(t, i) ==
  /\ i \in stored
  /\ Begin(t, i, "promote:file", row[i])
  /\ Click(i)
  /\ UNCHANGED <<storeVars, gitHubVars>>

PromoteKnown(t) ==
  /\ pc[t] = "promote:file"
  /\ snap[t].stamped
  /\ Finish(t)
  /\ UNCHANGED <<storeVars, gitHubVars, approvals>>

PromoteGhFails(t) ==
  /\ pc[t] = "promote:file"
  /\ ~snap[t].stamped
  /\ Finish(t)
  /\ UNCHANGED <<storeVars, gitHubVars, approvals>>

(* Mutant: the URL gh printed is dropped, the stamp is kept.               *)
PromoteFileKeepsNoUrl(t, n) ==
  /\ pc[t] = "promote:file"
  /\ ~snap[t].stamped
  /\ CreateIssue(arg[t], n)
  /\ Goto(t, "promote:save", [snap[t] EXCEPT !.status = "approved", !.stamped = TRUE])
  /\ UNCHANGED <<storeVars, approvals>>

PromoteFile(t, n) ==
  /\ pc[t] = "promote:file"
  /\ ~snap[t].stamped
  /\ CreateIssue(arg[t], n)
  /\ \/ Goto(t, "promote:save",
             [snap[t] EXCEPT !.status = "approved", !.issue = n,
                             !.stamped = TRUE])
     \/ Finish(t)
  /\ UNCHANGED <<storeVars, approvals>>

PromoteSave(t) ==
  /\ pc[t] = "promote:save"
  /\ SaveIdea(arg[t], snap[t])
  /\ Finish(t)
  /\ UNCHANGED <<gitHubVars, approvals>>

-----------------------------------------------------------------------------
(* POST /ideas/{id}/approve.  For a self-improvement idea this files a     *)
(* ci-queue issue first; POST /api/thinktank/{id}/promote does the same    *)
(* and takes no other category.                                            *)

ApproveRead(t, i) ==
  /\ i \in stored
  /\ Begin(t, i,
           IF row[i].category = "self-improvement" THEN "approve:file"
                                                   ELSE "approve:status",
           [Blank EXCEPT !.issue = row[i].issue])
  /\ Click(i)
  /\ UNCHANGED <<storeVars, gitHubVars>>

(* Already promoted, or gh failed: nothing is written.                     *)
ApproveStops(t) ==
  /\ pc[t] = "approve:file"
  /\ Finish(t)
  /\ UNCHANGED <<storeVars, gitHubVars, approvals>>

ApproveFile(t, n) ==
  /\ pc[t] = "approve:file"
  /\ snap[t].issue = NoIssue
  /\ CreateIssue(arg[t], n)
  /\ Goto(t, "approve:urls", [snap[t] EXCEPT !.issue = n]) \/ Finish(t)
  /\ UNCHANGED <<storeVars, approvals>>

ApproveUrls(t) ==
  /\ pc[t] = "approve:urls"
  /\ UpdateIdeaUrls(arg[t], snap[t].issue, "none")
  /\ Goto(t, "approve:status", Blank)
  /\ UNCHANGED <<gitHubVars, approvals>>

ApproveStatus(t) ==
  /\ pc[t] = "approve:status"
  /\ UpdateIdeaStatus(arg[t], "approved")
  /\ Finish(t)
  /\ UNCHANGED <<gitHubVars, approvals>>

-----------------------------------------------------------------------------
(* POST /ideas/{id}/reject and its Think Tank twin: one statement.         *)
RejectIdea(i) ==
  /\ i \in stored
  /\ UpdateIdeaStatus(i, "rejected")
  /\ UNCHANGED <<gitHubVars, taskVars, approvals>>

(* POST /api/maintenance/dedup: of the self-improvement ideas with similar *)
(* taglines that are not rejected yet, whatever else has become of them,   *)
(* all but the best are.  The ratings are read before, and which is best   *)
(* is left open.                                                           *)
DeduplicateSelfImprovement(i) ==
  /\ i \in stored
  /\ row[i].category = "self-improvement"
  /\ UpdateIdeaStatus(i, "rejected")
  /\ UNCHANGED <<gitHubVars, taskVars, approvals>>

(* POST /api/ideas/{id}/deny, and a selection round that denies a loser it *)
(* has just read as neither rejected nor archived.  The denial record      *)
(* itself is not in this model.                                            *)
DenyRead(t, i) ==
  /\ i \in stored
  /\ Begin(t, i, "deny:save", Blank)
  /\ UNCHANGED <<storeVars, gitHubVars, approvals>>

DenySave(t) ==
  /\ pc[t] = "deny:save"
  /\ UpdateIdeaStatus(arg[t], "rejected")
  /\ Finish(t)
  /\ UNCHANGED <<gitHubVars, approvals>>

-----------------------------------------------------------------------------
(* POST /ideas/{id}/scaffold and POST /api/foundry/create/{id}.            *)

ScaffoldRead(t, i) ==
  /\ i \in stored
  /\ row[i].status \in {"new", "approved"}
  /\ Begin(t, i, "scaffold:create", Blank)
  /\ UNCHANGED <<storeVars, gitHubVars, approvals>>

ScaffoldNoRepo(t) ==
  /\ pc[t] = "scaffold:create"
  /\ Finish(t)
  /\ UNCHANGED <<storeVars, gitHubVars, approvals>>

(* Mutant: a failed gh repo create is logged and the handler goes on.      *)
ScaffoldCreateUnchecked(t) ==
  /\ pc[t] = "scaffold:create"
  /\ CreateRepo(arg[t]) \/ UNCHANGED gitHubVars
  /\ Goto(t, "scaffold:urls", Blank)
  /\ UNCHANGED <<storeVars, approvals>>

(* The repository exists; the first push to it succeeds or raises.         *)
ScaffoldCreate(t) ==
  /\ pc[t] = "scaffold:create"
  /\ CreateRepo(arg[t])
  /\ Goto(t, "scaffold:urls", Blank) \/ Finish(t)
  /\ UNCHANGED <<storeVars, approvals>>

ScaffoldUrls(t) ==
  /\ pc[t] = "scaffold:urls"
  /\ UpdateIdeaUrls(arg[t], NoIssue, "own")
  /\ Goto(t, "scaffold:status", Blank)
  /\ UNCHANGED <<gitHubVars, approvals>>

ScaffoldStatus(t) ==
  /\ pc[t] = "scaffold:status"
  /\ UpdateIdeaStatus(arg[t], "scaffolded")
  /\ Finish(t)
  /\ UNCHANGED <<gitHubVars, approvals>>

-----------------------------------------------------------------------------
(* POST /api/ideas/{id}/add-to-project: the status goes first here.        *)

AddRead(t, i) ==
  /\ i \in stored
  /\ Begin(t, i, "add:file", Blank)
  /\ UNCHANGED <<storeVars, gitHubVars, approvals>>

AddGhFails(t) ==
  /\ pc[t] = "add:file"
  /\ Finish(t)
  /\ UNCHANGED <<storeVars, gitHubVars, approvals>>

AddFile(t, n) ==
  /\ pc[t] = "add:file"
  /\ CreateIssue(arg[t], n)
  /\ Goto(t, "add:status", [snap[t] EXCEPT !.issue = n]) \/ Finish(t)
  /\ UNCHANGED <<storeVars, approvals>>

AddStatus(t) ==
  /\ pc[t] = "add:status"
  /\ UpdateIdeaStatus(arg[t], "contributed")
  /\ Goto(t, "add:urls", snap[t])
  /\ UNCHANGED <<gitHubVars, approvals>>

AddUrls(t) ==
  /\ pc[t] = "add:urls"
  /\ UpdateIdeaUrls(arg[t], snap[t].issue, "other")
  /\ Finish(t)
  /\ UNCHANGED <<gitHubVars, approvals>>

-----------------------------------------------------------------------------
(* DELETE /api/ideas/{id}                                                  *)

DeleteRead(t, i) ==
  /\ i \in stored
  /\ Begin(t, i, IF row[i].repo = "none" THEN "delete:row" ELSE "delete:check",
           [Blank EXCEPT !.repo = row[i].repo])
  /\ UNCHANGED <<storeVars, gitHubVars, approvals>>

(* 409: gh repo view found the repository.                                 *)
DeleteRefused(t) ==
  /\ pc[t] = "delete:check"
  /\ snap[t].repo = "other" \/ repos[arg[t]] = "live"
  /\ Finish(t)
  /\ UNCHANGED <<storeVars, gitHubVars, approvals>>

(* gh answered that there is none, or failed: either way the code goes on. *)
DeleteUnchecked(t) ==
  /\ pc[t] = "delete:check"
  /\ Goto(t, "delete:row", Blank)
  /\ UNCHANGED <<storeVars, gitHubVars, approvals>>

DeleteRow(t) ==
  /\ pc[t] = "delete:row"
  /\ DeleteIdea(arg[t])
  /\ Finish(t)
  /\ UNCHANGED <<gitHubVars, approvals>>

-----------------------------------------------------------------------------
(* POST /api/mechanic/prs/{number}/approve: the merge comes first, then    *)
(* the item's row is looked up.                                            *)

MechanicMerge(t, i) ==
  /\ row[i].category = "self-improvement"
  /\ LandCommit(i)
  /\ Begin(t, i, "mechanic:read", Blank)
  /\ UNCHANGED <<storeVars, approvals>>

MechanicRead(t) ==
  /\ pc[t] = "mechanic:read"
  /\ IF /\ arg[t] \in stored
        /\ row[arg[t]].status \notin {"implemented", "archived", "rejected"}
     THEN Goto(t, "mechanic:status", Blank)
     ELSE Finish(t)
  /\ UNCHANGED <<storeVars, gitHubVars, approvals>>

MechanicStatus(t) ==
  /\ pc[t] = "mechanic:status"
  /\ UpdateIdeaStatus(arg[t], "implemented")
  /\ Finish(t)
  /\ UNCHANGED <<gitHubVars, approvals>>

-----------------------------------------------------------------------------
OperatorBegins(t, i) ==
  \/ PromoteRead(t, i)
  \/ ApproveRead(t, i)
  \/ DenyRead(t, i)
  \/ ScaffoldRead(t, i)
  \/ AddRead(t, i)
  \/ DeleteRead(t, i)
  \/ MechanicMerge(t, i)

OperatorContinues(t) ==
  \/ PromoteKnown(t)
  \/ PromoteGhFails(t)
  \/ \E n \in IssueNos : PromoteFile(t, n)
  \/ PromoteSave(t)
  \/ ApproveStops(t)
  \/ \E n \in IssueNos : ApproveFile(t, n)
  \/ ApproveUrls(t)
  \/ ApproveStatus(t)
  \/ DenySave(t)
  \/ ScaffoldNoRepo(t)
  \/ ScaffoldCreate(t)
  \/ ScaffoldUrls(t)
  \/ ScaffoldStatus(t)
  \/ AddGhFails(t)
  \/ \E n \in IssueNos : AddFile(t, n)
  \/ AddStatus(t)
  \/ AddUrls(t)
  \/ DeleteRefused(t)
  \/ DeleteUnchecked(t)
  \/ DeleteRow(t)
  \/ MechanicRead(t)
  \/ MechanicStatus(t)
=============================================================================
