------------------------------- MODULE GitHub -------------------------------
(***************************************************************************)
(* What the gh CLI changes and reports, as scaffold/github.py,             *)
(* engine/mechanic_review.py and cron/issue_sync_runner.py use it.  The    *)
(* service itself is external: people close issues, delete repositories    *)
(* and land commits whenever they like.                                    *)
(***************************************************************************)
EXTENDS IdeaStore

VARIABLES
  issues,    \* issues[i][n]: state of the n-th issue filed for idea i
  repos,     \* repos[i]: the repository scaffolded from idea i
  landed,    \* ideas whose work is in a commit on the main branch
  subjects   \* those named by the newest commits of the server's checkout

gitHubVars == <<issues, repos, landed, subjects>>

IssueState == {"unfiled", "open", "completed", "not_planned"}

Filed(i, n) == n \in IssueNos /\ issues[i][n] # "unfiled"

(* create_issue returned the URL of a new issue.                           *)
CreateIssue(i, n) ==
  /\ issues[i][n] = "unfiled"
  /\ issues' = [issues EXCEPT ![i] = [@ EXCEPT ![n] = "open"]]
  /\ UNCHANGED <<repos, landed, subjects>>

(* create_repo: gh refuses a name that is taken.                           *)
CreateRepo(i) ==
  /\ repos[i] # "live"
  /\ repos' = [repos EXCEPT ![i] = "live"]
  /\ UNCHANGED <<issues, landed, subjects>>

(* Someone closes an issue on GitHub and gives a reason.  One closed       *)
(* without a reason is to every reader like one still open.                *)
CloseIssue(i, n) ==
  /\ issues[i][n] = "open"
  /\ \E s \in {"completed", "not_planned"} :
       issues' = [issues EXCEPT ![i] = [@ EXCEPT ![n] = s]]
  /\ UNCHANGED <<repos, landed, subjects>>

(* Someone deletes the scaffolded repository on GitHub.                    *)
RemoveRepo(i) ==
  /\ repos[i] = "live"
  /\ repos' = [repos EXCEPT ![i] = "gone"]
  /\ UNCHANGED <<issues, landed, subjects>>

(* A commit whose subject names the idea reaches the main branch.          *)
LandCommit(i) ==
  /\ landed' = landed \cup {i}
  /\ UNCHANGED <<issues, repos, subjects>>

(* The checkout is pulled: git log -50 names some of what has landed, and  *)
(* no longer what is buried under fifty newer commits.                     *)
MoveCheckout ==
  /\ subjects' \in SUBSET landed
  /\ UNCHANGED <<issues, repos, landed>>
=============================================================================
