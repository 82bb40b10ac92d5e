----------------------------- MODULE IdeaStore -----------------------------
(***************************************************************************)
(* The ideas table of storage/db.py, and the few writes to it that other   *)
(* files make in raw SQL.  A row is abstracted to the columns the life of  *)
(* an idea depends on.  Every writer shares one SQLite connection, so a    *)
(* statement is visible to every coroutine as soon as it has executed:     *)
(* each operator below is one such statement, an atomic step.              *)
(***************************************************************************)
EXTENDS Naturals

CONSTANTS
  Ideas,     \* idea ids
  IssueNos,  \* GitHub issue numbers that can be filed for an idea
  NoIssue    \* github_issue_url IS NULL

ASSUME NoIssueAssumption == NoIssue \notin IssueNos

VARIABLES
  stored,    \* ids that have a row
  row        \* row[i] is the row of i while i \in stored

storeVars == <<stored, row>>

IdeaStatus == {"new", "approved", "scaffolded", "rejected", "archived",
               "contributed", "implemented"}

Categories == {"self-improvement", "market"}

(* project_repo_url is NULL, the repository scaffolded from the idea, or   *)
(* an existing repository the idea was contributed to.                     *)
RepoUrls == {"none", "own", "other"}

(* archived_reason: NULL, one of the siphon's reasons, the issue sync's,   *)
(* or the provenance the Think Tank reconciler leaves in the same column.  *)
Reasons == {"none", "siphon", "gh_closed_not_planned", "auto_reconcile"}

Row == [category : Categories, status : IdeaStatus,
        issue : IssueNos \cup {NoIssue}, repo : RepoUrls,
        stamped : BOOLEAN,    \* auto_promoted_at IS NOT NULL
        reason : Reasons]

NewRow(c) == [category |-> c, status |-> "new", issue |-> NoIssue,
              repo |-> "none", stamped |-> FALSE, reason |-> "none"]

(* What an id without a row, and a coroutine without a snapshot, hold.     *)
Blank == NewRow("market")

(* status NOT IN ('archived', 'rejected'), the filter most readers use.    *)
Active(r) == r.status \notin {"archived", "rejected"}

(* INSERT OR REPLACE of the whole row as the caller last saw it.  The      *)
(* archived_* columns are not in the column list, so the new row has NULL  *)
(* there, and the row comes back if it had been deleted.                   *)
SaveIdea(i, r) ==
  /\ stored' = stored \cup {i}
  /\ row' = [row EXCEPT ![i] = [r EXCEPT !.reason = "none"]]

(* UPDATE ... WHERE id = ?: no effect on an id that has no row.            *)
UpdateRow(i, r) ==
  /\ row' = IF i \in stored THEN [row EXCEPT ![i] = r] ELSE row
  /\ UNCHANGED stored

(* status alone: archived_reason keeps what an earlier archive left.       *)
UpdateIdeaStatus(i, s) == UpdateRow(i, [row[i] EXCEPT !.status = s])

(* A URL that is None in the call leaves its column alone.                 *)
UpdateIdeaUrls(i, issue, repo) ==
  UpdateRow(i, [row[i] EXCEPT !.issue = IF issue = NoIssue THEN @ ELSE issue,
                              !.repo = IF repo = "none" THEN @ ELSE repo])

(* The raw UPDATE of the siphon, the issue sync and the reconciler.        *)
MarkWithReason(i, s, why) ==
  UpdateRow(i, [row[i] EXCEPT !.status = s, !.reason = why])

DeleteIdea(i) ==
  /\ stored' = stored \ {i}
  /\ row' = [row EXCEPT ![i] = Blank]

(* Every row that carries one of the siphon's reasons, whatever its status *)
(* has become since, goes back to 'new'.                                   *)
RestoreDedupArchive ==
  LET siphoned == {i \in stored : row[i].reason = "siphon"} IN
  /\ siphoned # {}
  /\ row' = [i \in Ideas |->
               IF i \in siphoned
               THEN [row[i] EXCEPT !.status = "new", !.reason = "none"]
               ELSE row[i]]
  /\ UNCHANGED stored
=============================================================================
