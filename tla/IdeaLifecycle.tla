--------------------------- MODULE IdeaLifecycle ---------------------------
(***************************************************************************)
(* The life of an idea: operator handlers and cadences over one ideas      *)
(* table, interleaving at every await, with GitHub moving on its own and   *)
(* the process restarting in between.                                      *)
(***************************************************************************)
EXTENDS OperatorRoutes, CurationCadences

Init ==
  /\ stored = Ideas
  /\ row \in [Ideas -> {NewRow(c) : c \in Categories}]
  /\ issues = [i \in Ideas |-> [n \in IssueNos |-> "unfiled"]]
  /\ repos = [i \in Ideas |-> "none"]
  /\ landed = {}
  /\ subjects = {}
  /\ pc = [t \in Tasks |-> "idle"]
  /\ arg \in [Tasks -> Ideas]
  /\ snap = [t \in Tasks |-> Blank]
  /\ approvals = {}

OnGitHub(i) ==
  /\ \/ \E n \in IssueNos : CloseIssue(i, n)
     \/ RemoveRepo(i)
     \/ LandCommit(i)
     \/ MoveCheckout
  /\ UNCHANGED <<storeVars, taskVars, approvals>>

Begins(t) == \E i \in Ideas : OperatorBegins(t, i) \/ CadenceBegins(t, i)
Continues(t) == OperatorContinues(t) \/ CadenceContinues(t)

(* What happens while the process is up.                                   *)
Running ==
  \/ \E t \in Tasks : Begins(t) \/ Continues(t)
  \/ \E i \in Ideas : RejectIdea(i) \/ DeduplicateSelfImprovement(i) \/ OnGitHub(i)
  \/ RestoreSiphoned

Next == Running \/ Reload

Spec == Init /\ [][Next]_vars

-----------------------------------------------------------------------------
(* Every variable stays in its range.                                      *)
TypeOK ==
  /\ stored \subseteq Ideas
  /\ row \in [Ideas -> Row]
  /\ issues \in [Ideas -> [IssueNos -> IssueState]]
  /\ repos \in [Ideas -> {"none", "live", "gone"}]
  /\ landed \subseteq Ideas
  /\ subjects \subseteq landed
  /\ pc \in [Tasks -> Labels]
  /\ arg \in [Tasks -> Ideas]
  /\ snap \in [Tasks -> Row]
  /\ approvals \subseteq Ideas

(* The evidence, outside the row, for a status of i.                       *)
Earned(i, s) ==
  /\ s = "approved" => i \in approvals
  /\ s = "scaffolded" => repos[i] # "none"
  /\ s = "contributed" => \E n \in IssueNos : Filed(i, n)
  /\ s = "implemented" => i \in landed

(* The same for everything a row r of i says.                              *)
Backed(i, r) ==
  /\ Earned(i, r.status)
  /\ r.issue # NoIssue => Filed(i, r.issue)
  /\ r.repo = "own" => repos[i] # "none"

(* What a row says has happened in the world has happened: an approval by  *)
(* an operator, a repository, an issue, a merged commit.  Every handler    *)
(* acts on GitHub before it writes, and every stale whole-row save writes  *)
(* back something that was once true, so no interleaving of handlers,      *)
(* cadences, gh failures and restarts invents progress.                    *)
StatusBacked == \A i \in stored : Backed(i, row[i])

(* "Half-promoted state is worse than no promotion at all": a row stamped  *)
(* as promoted carries the URL of its issue, whoever wrote it last.        *)
StampHasIssue == \A i \in stored : row[i].stamped => row[i].issue # NoIssue
=============================================================================
