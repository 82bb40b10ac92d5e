---------------------------- MODULE IdeasProofs -----------------------------
(***************************************************************************)
(* Where ideas come from and what becomes of them, for any number of       *)
(* ideas, coroutines, issues, runs and any interval: rows of the lifecycle *)
(* claim only what happened; introspection, which two runners feed without *)
(* a state of their own, does not ask again within the interval.           *)
(***************************************************************************)
EXTENDS IdeaLifecycle, Introspection, TLAPS

(* What a row of i may say, stored or held in memory.                      *)
Evident(i, r) == Backed(i, r) /\ (r.stamped => r.issue # NoIssue)

(* What a coroutine must know before it stands at a label: the write that  *)
(* follows there claims it.                                                *)
Entitled(label, i, r) ==
  /\ label \in {"promote:file", "promote:save", "approve:file",
                "approve:urls", "approve:status"} => i \in approvals
  /\ label \in {"scaffold:urls", "scaffold:status"} => repos[i] # "none"
  /\ label \in {"add:status", "add:urls", "sync:fetch", "sync:read"}
       => r.issue # NoIssue
  /\ label \in {"mechanic:read", "mechanic:status", "reconcile:mark"}
       => i \in landed

StoreEvident == \A i \in Ideas : Evident(i, row[i])

TasksEntitled ==
  \A t \in Tasks : /\ Evident(arg[t], snap[t])
                   /\ Entitled(pc[t], arg[t], snap[t])

(* TypeOK and the two invariants are not inductive: a save writes a        *)
(* snapshot back, so snapshots must be backed too, and a status follows    *)
(* from what an earlier step of the same coroutine did on GitHub.          *)
IInv == TypeOK /\ StoreEvident /\ TasksEntitled

(* Evidence is never taken back: an issue stays filed when it is closed, a *)
(* repository that is deleted did exist.                                   *)
Grows ==
  /\ approvals \subseteq approvals'
  /\ landed \subseteq landed'
  /\ \A i \in Ideas : repos[i] # "none" => repos'[i] # "none"
  /\ \A i \in Ideas, n \in IssueNos :
       issues[i][n] # "unfiled" => issues'[i][n] # "unfiled"

StoreTyped == stored \subseteq Ideas /\ row \in [Ideas -> Row]
TasksTyped ==
  pc \in [Tasks -> Labels] /\ arg \in [Tasks -> Ideas] /\ snap \in [Tasks -> Row]
WorldTyped ==
  /\ issues \in [Ideas -> [IssueNos -> IssueState]]
  /\ repos \in [Ideas -> {"none", "live", "gone"}]
  /\ landed \subseteq Ideas
  /\ subjects \subseteq landed
  /\ approvals \subseteq Ideas

-----------------------------------------------------------------------------
(* A blank row is a row and claims nothing.                                *)
LEMMA BlankEvident ==
  /\ Blank \in Row
  /\ \A i \in Ideas : Evident(i, Blank)
  /\ Blank.issue = NoIssue
BY DEF Blank, NewRow, Row, Evident, Backed, Earned, Categories, IdeaStatus, RepoUrls,
       Reasons

-----------------------------------------------------------------------------
(* What a step of the store keeps, given that what it writes is backed     *)
(* once the step is taken.                                                 *)

LEMMA StoreUnchanged ==
  ASSUME IInv, Grows, UNCHANGED storeVars
  PROVE  StoreTyped' /\ StoreEvident'
BY DEF IInv, TypeOK, Grows, storeVars, StoreTyped, StoreEvident, Evident,
       Backed, Earned, Filed, Row

(* INSERT OR REPLACE.                                                      *)
LEMMA SaveIdeaKeeps ==
  ASSUME IInv, Grows, NEW i \in Ideas, NEW r \in Row, SaveIdea(i, r),
         Evident(i, r)'
  PROVE  StoreTyped' /\ StoreEvident'
<1> DEFINE w == [r EXCEPT !.reason = "none"]
<1>1. w \in Row /\ Evident(i, w)'
  BY DEF Row, Reasons, Evident, Backed, Earned, Filed
<1>2. stored' = stored \cup {i} /\ row' = [row EXCEPT ![i] = w]
  BY DEF SaveIdea
<1>3. StoreTyped'
  BY <1>1, <1>2 DEF IInv, TypeOK, StoreTyped
<1>4. StoreEvident'
  <2> SUFFICES ASSUME NEW j \in Ideas PROVE Evident(j, row[j])'
    BY DEF StoreEvident
  <2>1. CASE j = i
    BY <2>1, <1>1, <1>2 DEF IInv, TypeOK, Evident, Backed, Earned, Filed
  <2>2. CASE j # i
    <3>1. row'[j] = row[j] BY <2>2, <1>2 DEF IInv, TypeOK
    <3>2. Evident(j, row[j]) BY DEF IInv, StoreEvident
    <3> QED BY <3>1, <3>2 DEF IInv, TypeOK, Grows, Evident, Backed, Earned, Filed, Row
  <2> QED BY <2>1, <2>2
<1> QED BY <1>3, <1>4

(* UPDATE ... WHERE id = ?                                                 *)
LEMMA UpdateRowKeeps ==
  ASSUME IInv, Grows, NEW i \in Ideas, NEW r \in Row, UpdateRow(i, r),
         Evident(i, r)'
  PROVE  StoreTyped' /\ StoreEvident'
<1>1. CASE i \in stored
  <2>1. stored' = stored /\ row' = [row EXCEPT ![i] = r]
    BY <1>1 DEF UpdateRow
  <2>2. StoreTyped' BY <2>1 DEF IInv, TypeOK, StoreTyped
  <2>3. StoreEvident'
    <3> SUFFICES ASSUME NEW j \in Ideas PROVE Evident(j, row[j])'
      BY DEF StoreEvident
    <3>1. CASE j = i
      BY <3>1, <2>1 DEF IInv, TypeOK, Evident, Backed, Earned, Filed
    <3>2. CASE j # i
      <4>1. row'[j] = row[j] BY <3>2, <2>1 DEF IInv, TypeOK
      <4>2. Evident(j, row[j]) BY DEF IInv, StoreEvident
      <4> QED BY <4>1, <4>2 DEF IInv, TypeOK, Grows, Evident, Backed, Earned, Filed, Row
    <3> QED BY <3>1, <3>2
  <2> QED BY <2>2, <2>3
<1>2. CASE i \notin stored
  BY <1>2, StoreUnchanged DEF UpdateRow, storeVars
<1> QED BY <1>1, <1>2

-----------------------------------------------------------------------------
(* What a step of a coroutine keeps, given that it is entitled to the      *)
(* label it goes to.                                                       *)

LEMMA TasksUnchanged ==
  ASSUME IInv, Grows, UNCHANGED taskVars
  PROVE  TasksTyped' /\ TasksEntitled'
BY DEF IInv, TypeOK, Grows, taskVars, TasksTyped, TasksEntitled, Evident,
       Backed, Earned, Filed, Row, Entitled

(* Every coroutine but t stays where it is.                                *)
LEMMA OtherTasks ==
  ASSUME IInv, Grows, NEW t \in Tasks, NEW u \in Tasks, u # t,
         pc'[u] = pc[u], arg'[u] = arg[u], snap'[u] = snap[u]
  PROVE  (Evident(arg[u], snap[u]) /\ Entitled(pc[u], arg[u], snap[u]))'
BY DEF IInv, TypeOK, TasksEntitled, Grows, Evident, Backed, Earned, Filed, Row, Entitled

LEMMA TaskMoves ==
  ASSUME IInv, Grows, NEW t \in Tasks, NEW label \in Labels, NEW i \in Ideas,
         NEW r \in Row,
         pc' = [pc EXCEPT ![t] = label], arg' = [arg EXCEPT ![t] = i],
         snap' = [snap EXCEPT ![t] = r],
         Evident(i, r)', Entitled(label, i, r)'
  PROVE  TasksTyped' /\ TasksEntitled'
<1>1. TasksTyped' BY DEF IInv, TypeOK, TasksTyped
<1>2. TasksEntitled'
  <2> SUFFICES ASSUME NEW u \in Tasks
               PROVE  (Evident(arg[u], snap[u]) /\ Entitled(pc[u], arg[u], snap[u]))'
    BY DEF TasksEntitled
  <2>1. CASE u = t
    BY <2>1 DEF IInv, TypeOK, Evident, Backed, Earned, Filed, Entitled
  <2>2. CASE u # t
    BY <2>2, OtherTasks DEF IInv, TypeOK
  <2> QED BY <2>1, <2>2
<1> QED BY <1>1, <1>2

LEMMA BeginKeeps ==
  ASSUME IInv, Grows, NEW t \in Tasks, NEW label \in Labels, NEW i \in Ideas,
         NEW r \in Row, Begin(t, i, label, r),
         Evident(i, r)', Entitled(label, i, r)'
  PROVE  TasksTyped' /\ TasksEntitled'
BY TaskMoves DEF Begin

LEMMA GotoKeeps ==
  ASSUME IInv, Grows, NEW t \in Tasks, NEW label \in Labels, NEW i \in Ideas,
         i = arg[t], NEW r \in Row, Goto(t, label, r),
         Evident(i, r)', Entitled(label, i, r)'
  PROVE  TasksTyped' /\ TasksEntitled'
<1>1. arg' = [arg EXCEPT ![t] = i] BY DEF Goto, IInv, TypeOK
<1> QED BY <1>1, TaskMoves DEF Goto

LEMMA FinishKeeps ==
  ASSUME IInv, Grows, NEW t \in Tasks, Finish(t)
  PROVE  TasksTyped' /\ TasksEntitled'
<1>1. arg[t] \in Ideas BY DEF IInv, TypeOK
<1>2. "idle" \in Labels BY DEF Labels
<1>3. Evident(arg[t], Blank)' /\ Entitled("idle", arg[t], Blank)'
  BY <1>1 DEF Finish, Goto, Evident, Backed, Earned, Blank, NewRow, Entitled
<1> QED BY <1>1, <1>2, <1>3, BlankEvident, GotoKeeps DEF Finish, Goto
-----------------------------------------------------------------------------
(* A coroutine's idea and row, and an idea's row, as values that stay the  *)
(* same while the state changes.                                           *)

LEMMA Held ==
  ASSUME IInv, NEW t \in Tasks
  PROVE  \E i \in Ideas, r \in Row :
           i = arg[t] /\ r = snap[t] /\ Evident(i, r) /\ Entitled(pc[t], i, r)
BY DEF IInv, TypeOK, TasksEntitled

LEMMA Stored ==
  ASSUME IInv, NEW i \in Ideas
  PROVE  \E r \in Row : r = row[i] /\ Evident(i, r)
BY DEF IInv, TypeOK, StoreEvident

LEMMA EvidentGrows ==
  ASSUME Grows, NEW i \in Ideas, NEW r \in Row, Evident(i, r)
  PROVE  Evident(i, r)'
BY DEF Grows, Row, Evident, Backed, Earned, Filed

-----------------------------------------------------------------------------
(* The world outside the database.                                         *)

LEMMA WorldStill ==
  ASSUME IInv, UNCHANGED gitHubVars, approvals \subseteq approvals',
         approvals' \subseteq Ideas
  PROVE  Grows /\ WorldTyped'
BY DEF IInv, TypeOK, gitHubVars, Grows, WorldTyped

LEMMA CreateIssueGrows ==
  ASSUME IInv, NEW i \in Ideas, NEW n \in IssueNos, CreateIssue(i, n),
         UNCHANGED approvals
  PROVE  Grows /\ WorldTyped' /\ Filed(i, n)'
BY DEF IInv, TypeOK, CreateIssue, IssueState, Grows, WorldTyped, Filed

LEMMA CreateRepoGrows ==
  ASSUME IInv, NEW i \in Ideas, CreateRepo(i), UNCHANGED approvals
  PROVE  Grows /\ WorldTyped' /\ repos'[i] # "none"
BY DEF IInv, TypeOK, CreateRepo, Grows, WorldTyped

LEMMA LandCommitGrows ==
  ASSUME IInv, NEW i \in Ideas, LandCommit(i), UNCHANGED approvals
  PROVE  Grows /\ WorldTyped' /\ i \in landed'
BY DEF IInv, TypeOK, LandCommit, Grows, WorldTyped

LEMMA OnGitHubGrows ==
  ASSUME IInv, NEW i \in Ideas, OnGitHub(i)
  PROVE  Grows /\ WorldTyped'
<1>1. CASE \E n \in IssueNos : CloseIssue(i, n)
  BY <1>1 DEF OnGitHub, CloseIssue, IInv, TypeOK, IssueState, Grows, WorldTyped
<1>2. CASE RemoveRepo(i)
  BY <1>2 DEF OnGitHub, RemoveRepo, IInv, TypeOK, Grows, WorldTyped
<1>3. CASE LandCommit(i)
  BY <1>3, LandCommitGrows DEF OnGitHub
<1>4. CASE MoveCheckout
  BY <1>4 DEF OnGitHub, MoveCheckout, IInv, TypeOK, Grows, WorldTyped
<1> QED BY <1>1, <1>2, <1>3, <1>4 DEF OnGitHub

-----------------------------------------------------------------------------
(* The statements other than save_idea.                                    *)

LEMMA StatusKeeps ==
  ASSUME IInv, Grows, NEW i \in Ideas, NEW s \in IdeaStatus,
         UpdateIdeaStatus(i, s), Earned(i, s)'
  PROVE  StoreTyped' /\ StoreEvident'
<1>1. PICK r \in Row : r = row[i] /\ Evident(i, r) BY Stored
<1>2. [r EXCEPT !.status = s] \in Row BY DEF Row
<1>3. Evident(i, [r EXCEPT !.status = s])'
  BY <1>1, EvidentGrows DEF Row, Evident, Backed, Earned, Filed
<1> QED BY <1>1, <1>2, <1>3, UpdateRowKeeps DEF UpdateIdeaStatus

LEMMA MarkKeeps ==
  ASSUME IInv, Grows, NEW i \in Ideas, NEW s \in IdeaStatus, NEW why \in Reasons,
         MarkWithReason(i, s, why), Earned(i, s)'
  PROVE  StoreTyped' /\ StoreEvident'
<1>1. PICK r \in Row : r = row[i] /\ Evident(i, r) BY Stored
<1>2. [r EXCEPT !.status = s, !.reason = why] \in Row BY DEF Row
<1>3. Evident(i, [r EXCEPT !.status = s, !.reason = why])'
  BY <1>1, EvidentGrows DEF Row, Evident, Backed, Earned, Filed
<1> QED BY <1>1, <1>2, <1>3, UpdateRowKeeps DEF MarkWithReason

LEMMA UrlsKeep ==
  ASSUME IInv, Grows, NEW i \in Ideas, NEW issue \in IssueNos \cup {NoIssue},
         NEW repo \in RepoUrls, UpdateIdeaUrls(i, issue, repo),
         (issue # NoIssue => Filed(i, issue))', (repo = "own" => repos[i] # "none")'
  PROVE  StoreTyped' /\ StoreEvident'
<1>1. PICK r \in Row : r = row[i] /\ Evident(i, r) BY Stored
<1>2. PICK w \in Row : w = [r EXCEPT !.issue = IF issue = NoIssue THEN @ ELSE issue,
                                     !.repo = IF repo = "none" THEN @ ELSE repo]
  BY DEF Row
<1>3. Evident(i, w)'
  BY <1>1, <1>2, EvidentGrows DEF Row, Evident, Backed, Earned, Filed
<1> QED BY <1>1, <1>2, <1>3, UpdateRowKeeps DEF UpdateIdeaUrls

LEMMA DeleteKeeps ==
  ASSUME IInv, Grows, NEW i \in Ideas, DeleteIdea(i)
  PROVE  StoreTyped' /\ StoreEvident'
<1>1. StoreTyped' BY BlankEvident DEF DeleteIdea, IInv, TypeOK, StoreTyped
<1>2. StoreEvident'
  <2> SUFFICES ASSUME NEW j \in Ideas PROVE Evident(j, row[j])'
    BY DEF StoreEvident
  <2>1. PICK r \in Row : r = row'[j] /\ Evident(j, r)
    BY BlankEvident, Stored DEF DeleteIdea, IInv, TypeOK
  <2> QED BY <2>1, EvidentGrows DEF Evident, Backed, Earned, Filed
<1> QED BY <1>1, <1>2

LEMMA RestoreKeeps ==
  ASSUME IInv, Grows, RestoreDedupArchive
  PROVE  StoreTyped' /\ StoreEvident'
<1>1. ASSUME NEW j \in Ideas
      PROVE  \E r \in Row : r = row'[j] /\ Evident(j, r)
  <2>1. PICK r \in Row : r = row[j] /\ Evident(j, r) BY Stored
  <2>2. [r EXCEPT !.status = "new", !.reason = "none"] \in Row
    BY DEF Row, IdeaStatus, Reasons
  <2>3. Evident(j, [r EXCEPT !.status = "new", !.reason = "none"])
    BY <2>1 DEF Row, Evident, Backed, Earned
  <2> QED BY <2>1, <2>2, <2>3 DEF RestoreDedupArchive
<1>2. StoreTyped'
  BY <1>1 DEF RestoreDedupArchive, IInv, TypeOK, StoreTyped
<1>3. StoreEvident'
  <2> SUFFICES ASSUME NEW j \in Ideas PROVE Evident(j, row[j])'
    BY DEF StoreEvident
  <2>1. PICK r \in Row : r = row'[j] /\ Evident(j, r) BY <1>1
  <2> QED BY <2>1, EvidentGrows DEF Evident, Backed, Earned, Filed
<1> QED BY <1>2, <1>3

-----------------------------------------------------------------------------
(* A step keeps IInv when it keeps its three parts.                        *)
LEMMA Together ==
  ASSUME StoreTyped', StoreEvident', TasksTyped', TasksEntitled', WorldTyped'
  PROVE  IInv'
BY DEF IInv, TypeOK, StoreTyped, TasksTyped, WorldTyped

(* A coroutine that begins, moves on or ends while its step leaves the     *)
(* database alone.                                                         *)

LEMMA BeginStep ==
  ASSUME IInv, Grows, WorldTyped', UNCHANGED storeVars, NEW t \in Tasks,
         NEW label \in Labels, NEW i \in Ideas, NEW r \in Row,
         Begin(t, i, label, r), Evident(i, r), Entitled(label, i, r)'
  PROVE  IInv'
BY StoreUnchanged, EvidentGrows, BeginKeeps, Together

LEMMA GotoStep ==
  ASSUME IInv, Grows, WorldTyped', UNCHANGED storeVars, NEW t \in Tasks,
         NEW label \in Labels, NEW i \in Ideas, i = arg[t], NEW r \in Row,
         Goto(t, label, r), Evident(i, r)', Entitled(label, i, r)'
  PROVE  IInv'
BY StoreUnchanged, GotoKeeps, Together

LEMMA FinishStep ==
  ASSUME IInv, Grows, WorldTyped', UNCHANGED storeVars, NEW t \in Tasks, Finish(t)
  PROVE  IInv'
BY StoreUnchanged, FinishKeeps, Together

LEMMA FinishStill ==
  ASSUME IInv, UNCHANGED <<storeVars, gitHubVars, approvals>>,
         NEW t \in Tasks, Finish(t)
  PROVE  IInv'
BY WorldStill, FinishStep DEF IInv, TypeOK

-----------------------------------------------------------------------------
(* A handler that takes up an idea.                                        *)
LEMMA OperatorBeginsKeeps ==
  ASSUME IInv, NEW t \in Tasks, NEW i \in Ideas, OperatorBegins(t, i)
  PROVE  IInv'
<1>1. PICK r \in Row : r = row[i] /\ Evident(i, r) BY Stored
<1>2. CASE PromoteRead(t, i)
  <2>1. Grows /\ WorldTyped' /\ i \in approvals'
    BY <1>2, WorldStill DEF PromoteRead, Click, IInv, TypeOK
  <2> QED BY <1>1, <1>2, <2>1, BeginStep DEF PromoteRead, Entitled, Labels
<1>3. CASE ApproveRead(t, i)
  <2>1. Grows /\ WorldTyped' /\ i \in approvals'
    BY <1>3, WorldStill DEF ApproveRead, Click, IInv, TypeOK
  <2>2. PICK q \in Row : q = [Blank EXCEPT !.issue = r.issue] /\ Evident(i, q)
    <3> DEFINE q == [Blank EXCEPT !.issue = r.issue]
    <3>1. q \in Row BY BlankEvident DEF Row
    <3>2. Evident(i, q)
      BY <1>1 DEF Blank, NewRow, Row, Evident, Backed, Earned
    <3> QED BY <3>1, <3>2
  <2>3. PICK label \in {"approve:file", "approve:status"} : Begin(t, i, label, q)
    BY <1>1, <1>3, <2>2 DEF ApproveRead
  <2>4. label \in Labels /\ Entitled(label, i, q)'
    BY <2>1, <2>3 DEF Labels, Entitled
  <2> QED BY <1>3, <2>1, <2>2, <2>3, <2>4, BeginStep DEF ApproveRead
<1>4. CASE DenyRead(t, i)
  <2>1. Grows /\ WorldTyped' BY <1>4, WorldStill DEF DenyRead, IInv, TypeOK
  <2> QED BY <1>4, <2>1, BlankEvident, BeginStep DEF DenyRead, Entitled, Labels
<1>5. CASE ScaffoldRead(t, i)
  <2>1. Grows /\ WorldTyped' BY <1>5, WorldStill DEF ScaffoldRead, IInv, TypeOK
  <2> QED BY <1>5, <2>1, BlankEvident, BeginStep DEF ScaffoldRead, Entitled, Labels
<1>6. CASE AddRead(t, i)
  <2>1. Grows /\ WorldTyped' BY <1>6, WorldStill DEF AddRead, IInv, TypeOK
  <2> QED BY <1>6, <2>1, BlankEvident, BeginStep DEF AddRead, Entitled, Labels
<1>7. CASE DeleteRead(t, i)
  <2>1. Grows /\ WorldTyped' BY <1>7, WorldStill DEF DeleteRead, IInv, TypeOK
  <2>2. PICK q \in Row : q = [Blank EXCEPT !.repo = r.repo] /\ Evident(i, q)
    <3> DEFINE q == [Blank EXCEPT !.repo = r.repo]
    <3>1. q \in Row BY BlankEvident DEF Row
    <3>2. Evident(i, q)
      BY <1>1 DEF Blank, NewRow, Row, Evident, Backed, Earned
    <3> QED BY <3>1, <3>2
  <2>3. PICK label \in {"delete:row", "delete:check"} : Begin(t, i, label, q)
    BY <1>1, <1>7, <2>2 DEF DeleteRead
  <2>4. label \in Labels /\ Entitled(label, i, q)'
    BY <2>3 DEF Labels, Entitled
  <2> QED BY <1>7, <2>1, <2>2, <2>3, <2>4, BeginStep DEF DeleteRead
<1>8. CASE MechanicMerge(t, i)
  <2>1. Grows /\ WorldTyped' /\ i \in landed'
    BY <1>8, LandCommitGrows DEF MechanicMerge
  <2> QED BY <1>8, <2>1, BlankEvident, BeginStep DEF MechanicMerge, Entitled, Labels
<1> QED BY <1>2, <1>3, <1>4, <1>5, <1>6, <1>7, <1>8 DEF OperatorBegins

(* A cadence that takes up an idea.                                        *)
LEMMA CadenceBeginsKeeps ==
  ASSUME IInv, NEW t \in Tasks, NEW i \in Ideas, CadenceBegins(t, i)
  PROVE  IInv'
<1>1. PICK r \in Row : r = row[i] /\ Evident(i, r) BY Stored
<1>2. Grows /\ WorldTyped'
  BY WorldStill DEF CadenceBegins, ScoreSelect, SiphonSelect, ReviewFetch,
     SyncSelect, ReconcileSelect, IInv, TypeOK
<1>3. CASE ScoreSelect(t, i)
  BY <1>2, <1>3, BlankEvident, BeginStep DEF ScoreSelect, Entitled, Labels
<1>4. CASE SiphonSelect(t, i)
  BY <1>2, <1>4, BlankEvident, BeginStep DEF SiphonSelect, Entitled, Labels
<1>5. CASE ReviewFetch(t, i)
  BY <1>2, <1>5, BlankEvident, BeginStep DEF ReviewFetch, Entitled, Labels
<1>6. CASE SyncSelect(t, i)
  <2>1. PICK q \in Row : /\ q = [Blank EXCEPT !.issue = r.issue]
                         /\ Evident(i, q)
                         /\ q.issue # NoIssue
    BY <1>1, <1>6, BlankEvident DEF SyncSelect, Promoted, Row, Evident, Backed, Earned
  <2>2. Entitled("sync:fetch", i, q)' BY <2>1 DEF Entitled
  <2> QED BY <1>1, <1>2, <1>6, <2>1, <2>2, BeginStep DEF SyncSelect, Labels
<1>7. CASE ReconcileSelect(t, i)
  <2>1. Entitled("reconcile:mark", i, Blank)'
    BY <1>2, <1>7 DEF ReconcileSelect, Reconcilable, Grows, Entitled, IInv, TypeOK
  <2> QED BY <1>2, <1>7, <2>1, BlankEvident, BeginStep DEF ReconcileSelect, Labels
<1> QED BY <1>3, <1>4, <1>5, <1>6, <1>7 DEF CadenceBegins

-----------------------------------------------------------------------------
(* A handler that goes on from an await.                                   *)

LEMMA PromoteKeeps ==
  ASSUME IInv, NEW t \in Tasks,
         \/ PromoteKnown(t) \/ PromoteGhFails(t) \/ PromoteSave(t)
         \/ \E n \in IssueNos : PromoteFile(t, n)
  PROVE  IInv'
<1>1. PICK i \in Ideas, r \in Row :
        i = arg[t] /\ r = snap[t] /\ Evident(i, r) /\ Entitled(pc[t], i, r)
  BY Held
<1>2. CASE PromoteKnown(t) \/ PromoteGhFails(t)
  BY <1>2, FinishStill DEF PromoteKnown, PromoteGhFails
<1>3. ASSUME NEW n \in IssueNos, PromoteFile(t, n) PROVE IInv'
  <2>1. Grows /\ WorldTyped' /\ Filed(i, n)'
    BY <1>1, <1>3, CreateIssueGrows DEF PromoteFile
  <2>2. CASE Finish(t) BY <1>3, <2>1, <2>2, FinishStep DEF PromoteFile
  <2>3. CASE Goto(t, "promote:save", [snap[t] EXCEPT !.status = "approved",
                                        !.issue = n, !.stamped = TRUE])
    <3>1. PICK w \in Row : w = [r EXCEPT !.status = "approved", !.issue = n,
                                        !.stamped = TRUE]
      BY DEF Row, IdeaStatus
    <3>2. i \in approvals'
      BY <1>1, <1>3, <2>1 DEF PromoteFile, Entitled, Grows
    <3>3. Evident(i, r)' BY <1>1, <2>1, EvidentGrows
    <3>4. Evident(i, w)'
      BY <2>1, <3>1, <3>2, <3>3, NoIssueAssumption
      DEF Row, Evident, Backed, Earned, Filed
    <3>5. Entitled("promote:save", i, w)' BY <3>2 DEF Entitled
    <3> QED BY <1>1, <1>3, <2>1, <2>3, <3>1, <3>4, <3>5, GotoStep
            DEF PromoteFile, Labels
  <2> QED BY <1>3, <2>2, <2>3 DEF PromoteFile
<1>4. CASE PromoteSave(t)
  <2>1. Grows /\ WorldTyped' BY <1>4, WorldStill DEF PromoteSave, IInv, TypeOK
  <2>2. StoreTyped' /\ StoreEvident'
    BY <1>1, <1>4, <2>1, EvidentGrows, SaveIdeaKeeps DEF PromoteSave
  <2> QED BY <1>4, <2>1, <2>2, FinishKeeps, Together DEF PromoteSave
<1> QED BY <1>2, <1>3, <1>4

LEMMA ApproveKeeps ==
  ASSUME IInv, NEW t \in Tasks,
         \/ ApproveStops(t) \/ ApproveUrls(t) \/ ApproveStatus(t)
         \/ \E n \in IssueNos : ApproveFile(t, n)
  PROVE  IInv'
<1>1. PICK i \in Ideas, r \in Row :
        i = arg[t] /\ r = snap[t] /\ Evident(i, r) /\ Entitled(pc[t], i, r)
  BY Held
<1>2. CASE ApproveStops(t) BY <1>2, FinishStill DEF ApproveStops
<1>3. ASSUME NEW n \in IssueNos, ApproveFile(t, n) PROVE IInv'
  <2>1. Grows /\ WorldTyped' /\ Filed(i, n)'
    BY <1>1, <1>3, CreateIssueGrows DEF ApproveFile
  <2>2. CASE Finish(t) BY <1>3, <2>1, <2>2, FinishStep DEF ApproveFile
  <2>3. CASE Goto(t, "approve:urls", [snap[t] EXCEPT !.issue = n])
    <3>1. PICK w \in Row : w = [r EXCEPT !.issue = n] BY DEF Row
    <3>2. Evident(i, r)' BY <1>1, <2>1, EvidentGrows
    <3>3. Evident(i, w)'
      BY <2>1, <3>1, <3>2, NoIssueAssumption DEF Row, Evident, Backed, Earned, Filed
    <3>4. Entitled("approve:urls", i, w)'
      BY <1>1, <1>3, <2>1 DEF ApproveFile, Entitled, Grows
    <3> QED BY <1>1, <1>3, <2>1, <2>3, <3>1, <3>3, <3>4, GotoStep
            DEF ApproveFile, Labels
  <2> QED BY <1>3, <2>2, <2>3 DEF ApproveFile
<1>4. CASE ApproveUrls(t)
  <2>1. Grows /\ WorldTyped' BY <1>4, WorldStill DEF ApproveUrls, IInv, TypeOK
  <2>2. Evident(i, r)' BY <1>1, <2>1, EvidentGrows
  <2>3. StoreTyped' /\ StoreEvident'
    BY <1>1, <1>4, <2>1, <2>2, UrlsKeep
    DEF ApproveUrls, Row, RepoUrls, Evident, Backed, Earned
  <2>4. Entitled("approve:status", i, Blank)'
    BY <1>1, <1>4, <2>1 DEF ApproveUrls, Entitled, Grows
  <2>5. Evident(i, Blank)' BY <2>1, BlankEvident, EvidentGrows
  <2>6. TasksTyped' /\ TasksEntitled'
    BY <1>1, <1>4, <2>1, <2>4, <2>5, BlankEvident, GotoKeeps DEF ApproveUrls, Labels
  <2> QED BY <2>1, <2>3, <2>6, Together
<1>5. CASE ApproveStatus(t)
  <2>1. Grows /\ WorldTyped' BY <1>5, WorldStill DEF ApproveStatus, IInv, TypeOK
  <2>2. Earned(i, "approved")'
    BY <1>1, <1>5, <2>1 DEF ApproveStatus, Entitled, Grows, Earned
  <2>3. StoreTyped' /\ StoreEvident'
    BY <1>1, <1>5, <2>1, <2>2, StatusKeeps DEF ApproveStatus, IdeaStatus
  <2> QED BY <1>5, <2>1, <2>3, FinishKeeps, Together DEF ApproveStatus
<1> QED BY <1>2, <1>3, <1>4, <1>5

LEMMA ScaffoldKeeps ==
  ASSUME IInv, NEW t \in Tasks,
         \/ ScaffoldNoRepo(t) \/ ScaffoldCreate(t) \/ ScaffoldUrls(t)
         \/ ScaffoldStatus(t)
  PROVE  IInv'
<1>1. PICK i \in Ideas, r \in Row :
        i = arg[t] /\ r = snap[t] /\ Evident(i, r) /\ Entitled(pc[t], i, r)
  BY Held
<1>2. CASE ScaffoldNoRepo(t) BY <1>2, FinishStill DEF ScaffoldNoRepo
<1>3. CASE ScaffoldCreate(t)
  <2>1. Grows /\ WorldTyped' /\ repos'[i] # "none"
    BY <1>1, <1>3, CreateRepoGrows DEF ScaffoldCreate
  <2>2. CASE Finish(t) BY <1>3, <2>1, <2>2, FinishStep DEF ScaffoldCreate
  <2>3. CASE Goto(t, "scaffold:urls", Blank)
    <3>1. Evident(i, Blank)' BY <2>1, BlankEvident, EvidentGrows
    <3>2. Entitled("scaffold:urls", i, Blank)' BY <2>1 DEF Entitled
    <3> QED BY <1>1, <1>3, <2>1, <2>3, <3>1, <3>2, BlankEvident, GotoStep
            DEF ScaffoldCreate, Labels
  <2> QED BY <1>3, <2>2, <2>3 DEF ScaffoldCreate
<1>4. CASE ScaffoldUrls(t)
  <2>1. Grows /\ WorldTyped' BY <1>4, WorldStill DEF ScaffoldUrls, IInv, TypeOK
  <2>2. repos'[i] # "none"
    BY <1>1, <1>4, <2>1 DEF ScaffoldUrls, Entitled, Grows
  <2>3. StoreTyped' /\ StoreEvident'
    BY <1>1, <1>4, <2>1, <2>2, UrlsKeep DEF ScaffoldUrls, RepoUrls
  <2>4. Evident(i, Blank)' /\ Entitled("scaffold:status", i, Blank)'
    BY <2>1, <2>2, BlankEvident, EvidentGrows DEF Entitled
  <2>5. TasksTyped' /\ TasksEntitled'
    BY <1>1, <1>4, <2>1, <2>4, BlankEvident, GotoKeeps DEF ScaffoldUrls, Labels
  <2> QED BY <2>1, <2>3, <2>5, Together
<1>5. CASE ScaffoldStatus(t)
  <2>1. Grows /\ WorldTyped' BY <1>5, WorldStill DEF ScaffoldStatus, IInv, TypeOK
  <2>2. Earned(i, "scaffolded")'
    BY <1>1, <1>5, <2>1 DEF ScaffoldStatus, Entitled, Grows, Earned
  <2>3. StoreTyped' /\ StoreEvident'
    BY <1>1, <1>5, <2>1, <2>2, StatusKeeps DEF ScaffoldStatus, IdeaStatus
  <2> QED BY <1>5, <2>1, <2>3, FinishKeeps, Together DEF ScaffoldStatus
<1> QED BY <1>2, <1>3, <1>4, <1>5

LEMMA AddKeeps ==
  ASSUME IInv, NEW t \in Tasks,
         \/ AddGhFails(t) \/ AddStatus(t) \/ AddUrls(t)
         \/ \E n \in IssueNos : AddFile(t, n)
  PROVE  IInv'
<1>1. PICK i \in Ideas, r \in Row :
        i = arg[t] /\ r = snap[t] /\ Evident(i, r) /\ Entitled(pc[t], i, r)
  BY Held
<1>2. CASE AddGhFails(t) BY <1>2, FinishStill DEF AddGhFails
<1>3. ASSUME NEW n \in IssueNos, AddFile(t, n) PROVE IInv'
  <2>1. Grows /\ WorldTyped' /\ Filed(i, n)'
    BY <1>1, <1>3, CreateIssueGrows DEF AddFile
  <2>2. CASE Finish(t) BY <1>3, <2>1, <2>2, FinishStep DEF AddFile
  <2>3. CASE Goto(t, "add:status", [snap[t] EXCEPT !.issue = n])
    <3>1. PICK w \in Row : w = [r EXCEPT !.issue = n] BY DEF Row
    <3>2. Evident(i, r)' BY <1>1, <2>1, EvidentGrows
    <3>3. Evident(i, w)' /\ Entitled("add:status", i, w)'
      BY <2>1, <3>1, <3>2, NoIssueAssumption
      DEF Row, Evident, Backed, Earned, Filed, Entitled
    <3> QED BY <1>1, <1>3, <2>1, <2>3, <3>1, <3>3, GotoStep DEF AddFile, Labels
  <2> QED BY <1>3, <2>2, <2>3 DEF AddFile
<1>4. CASE AddStatus(t)
  <2>1. Grows /\ WorldTyped' BY <1>4, WorldStill DEF AddStatus, IInv, TypeOK
  <2>2. Evident(i, r)' BY <1>1, <2>1, EvidentGrows
  <2>3. r.issue # NoIssue BY <1>1, <1>4 DEF AddStatus, Entitled
  <2>4. Earned(i, "contributed")'
    BY <2>2, <2>3 DEF Evident, Backed, Earned, Filed
  <2>5. StoreTyped' /\ StoreEvident'
    BY <1>1, <1>4, <2>1, <2>4, StatusKeeps DEF AddStatus, IdeaStatus
  <2>6. Entitled("add:urls", i, r)' BY <2>3 DEF Entitled
  <2>7. TasksTyped' /\ TasksEntitled'
    BY <1>1, <1>4, <2>1, <2>2, <2>6, GotoKeeps DEF AddStatus, Labels
  <2> QED BY <2>1, <2>5, <2>7, Together
<1>5. CASE AddUrls(t)
  <2>1. Grows /\ WorldTyped' BY <1>5, WorldStill DEF AddUrls, IInv, TypeOK
  <2>2. Evident(i, r)' BY <1>1, <2>1, EvidentGrows
  <2>3. StoreTyped' /\ StoreEvident'
    BY <1>1, <1>5, <2>1, <2>2, UrlsKeep
    DEF AddUrls, Row, RepoUrls, Evident, Backed, Earned
  <2> QED BY <1>5, <2>1, <2>3, FinishKeeps, Together DEF AddUrls
<1> QED BY <1>2, <1>3, <1>4, <1>5

LEMMA MechanicKeeps ==
  ASSUME IInv, NEW t \in Tasks, MechanicRead(t) \/ MechanicStatus(t)
  PROVE  IInv'
<1>1. PICK i \in Ideas, r \in Row :
        i = arg[t] /\ r = snap[t] /\ Evident(i, r) /\ Entitled(pc[t], i, r)
  BY Held
<1>2. Grows /\ WorldTyped'
  BY WorldStill DEF MechanicRead, MechanicStatus, IInv, TypeOK
<1>3. i \in landed'
  BY <1>1, <1>2 DEF MechanicRead, MechanicStatus, Entitled, Grows
<1>4. CASE MechanicRead(t)
  <2>1. Evident(i, Blank)' /\ Entitled("mechanic:status", i, Blank)'
    BY <1>2, <1>3, BlankEvident, EvidentGrows DEF Entitled
  <2>2. CASE Goto(t, "mechanic:status", Blank)
    BY <1>1, <1>2, <1>4, <2>1, <2>2, BlankEvident, GotoStep DEF MechanicRead, Labels
  <2>3. CASE Finish(t) BY <1>4, <2>3, FinishStill DEF MechanicRead
  <2> QED BY <1>4, <2>2, <2>3 DEF MechanicRead
<1>5. CASE MechanicStatus(t)
  <2>1. Earned(i, "implemented")' BY <1>3 DEF Earned
  <2>2. StoreTyped' /\ StoreEvident'
    BY <1>1, <1>2, <1>5, <2>1, StatusKeeps DEF MechanicStatus, IdeaStatus
  <2> QED BY <1>2, <1>5, <2>2, FinishKeeps, Together DEF MechanicStatus
<1> QED BY <1>4, <1>5

(* Deny and delete claim nothing.                                          *)
LEMMA DenyDeleteKeep ==
  ASSUME IInv, NEW t \in Tasks,
         DenySave(t) \/ DeleteRefused(t) \/ DeleteUnchecked(t) \/ DeleteRow(t)
  PROVE  IInv'
<1>1. PICK i \in Ideas : i = arg[t] BY DEF IInv, TypeOK
<1>2. Grows /\ WorldTyped'
  BY WorldStill DEF DenySave, DeleteRefused, DeleteUnchecked, DeleteRow, IInv, TypeOK
<1>3. CASE DenySave(t)
  <2>1. StoreTyped' /\ StoreEvident'
    BY <1>1, <1>2, <1>3, StatusKeeps DEF DenySave, IdeaStatus, Earned
  <2> QED BY <1>2, <1>3, <2>1, FinishKeeps, Together DEF DenySave
<1>4. CASE DeleteRefused(t) BY <1>4, FinishStill DEF DeleteRefused
<1>5. CASE DeleteUnchecked(t)
  <2>1. Evident(i, Blank)' /\ Entitled("delete:row", i, Blank)'
    BY <1>2, BlankEvident, EvidentGrows DEF Entitled
  <2> QED BY <1>1, <1>2, <1>5, <2>1, BlankEvident, GotoStep DEF DeleteUnchecked, Labels
<1>6. CASE DeleteRow(t)
  <2>1. StoreTyped' /\ StoreEvident' BY <1>1, <1>2, <1>6, DeleteKeeps DEF DeleteRow
  <2> QED BY <1>2, <1>6, <2>1, FinishKeeps, Together DEF DeleteRow
<1> QED BY <1>3, <1>4, <1>5, <1>6

LEMMA OperatorContinuesKeeps ==
  ASSUME IInv, NEW t \in Tasks, OperatorContinues(t)
  PROVE  IInv'
BY PromoteKeeps, ApproveKeeps, ScaffoldKeeps, AddKeeps, MechanicKeeps,
   DenyDeleteKeep DEF OperatorContinues

-----------------------------------------------------------------------------
(* A cadence that goes on from an await.                                   *)

LEMMA ScoreKeeps ==
  ASSUME IInv, NEW t \in Tasks, ScoreRead(t) \/ ScoreSave(t)
  PROVE  IInv'
<1>1. PICK i \in Ideas, r \in Row : i = arg[t] /\ r = snap[t] /\ Evident(i, r)
  BY Held
<1>2. PICK q \in Row : q = row[i] /\ Evident(i, q) BY Stored
<1>3. Grows /\ WorldTyped' BY WorldStill DEF ScoreRead, ScoreSave, IInv, TypeOK
<1>4. CASE ScoreRead(t)
  <2>1. CASE Finish(t) BY <1>4, <2>1, FinishStill DEF ScoreRead
  <2>2. CASE Goto(t, "score:save", row[arg[t]])
    <3>1. Evident(i, q)' /\ Entitled("score:save", i, q)'
      BY <1>2, <1>3, EvidentGrows DEF Entitled
    <3> QED BY <1>1, <1>2, <1>3, <1>4, <2>2, <3>1, GotoStep DEF ScoreRead, Labels
  <2> QED BY <1>4, <2>1, <2>2 DEF ScoreRead
<1>5. CASE ScoreSave(t)
  <2>1. StoreTyped' /\ StoreEvident'
    BY <1>1, <1>3, <1>5, EvidentGrows, SaveIdeaKeeps DEF ScoreSave
  <2> QED BY <1>3, <1>5, <2>1, FinishKeeps, Together DEF ScoreSave
<1> QED BY <1>4, <1>5

(* Archiving claims nothing; the reconciler saw the commit.                *)
LEMMA ArchivalKeeps ==
  ASSUME IInv, NEW t \in Tasks,
         SiphonArchive(t) \/ ReviewArchive(t) \/ SyncArchive(t) \/ ReconcileMark(t)
  PROVE  IInv'
<1>1. PICK i \in Ideas, r \in Row : i = arg[t] /\ Entitled(pc[t], i, r) BY Held
<1>2. Grows /\ WorldTyped'
  BY WorldStill
  DEF SiphonArchive, ReviewArchive, SyncArchive, ReconcileMark, IInv, TypeOK
<1>3. Earned(i, "archived")' /\ {"archived", "implemented"} \subseteq IdeaStatus
  BY DEF Earned, IdeaStatus
<1>4. StoreTyped' /\ StoreEvident'
  <2>1. CASE SiphonArchive(t)
    BY <1>1, <1>2, <1>3, <2>1, MarkKeeps DEF SiphonArchive, Reasons
  <2>2. CASE ReviewArchive(t)
    BY <1>1, <1>2, <1>3, <2>2, StatusKeeps DEF ReviewArchive
  <2>3. CASE SyncArchive(t)
    BY <1>1, <1>2, <1>3, <2>3, MarkKeeps DEF SyncArchive, Reasons
  <2>4. CASE ReconcileMark(t)
    <3>1. Earned(i, "implemented")'
      BY <1>1, <1>2, <2>4 DEF ReconcileMark, Entitled, Grows, Earned
    <3> QED BY <1>1, <1>2, <1>3, <2>4, <3>1, MarkKeeps DEF ReconcileMark, Reasons
  <2> QED BY <2>1, <2>2, <2>3, <2>4
<1>5. Finish(t) BY DEF SiphonArchive, ReviewArchive, SyncArchive, ReconcileMark
<1> QED BY <1>2, <1>4, <1>5, FinishKeeps, Together

LEMMA SyncKeeps ==
  ASSUME IInv, NEW t \in Tasks,
         SyncGhFails(t) \/ SyncFetch(t) \/ SyncFlipRead(t) \/ SyncFlipSave(t)
  PROVE  IInv'
<1>1. PICK i \in Ideas, r \in Row :
        i = arg[t] /\ r = snap[t] /\ Evident(i, r) /\ Entitled(pc[t], i, r)
  BY Held
<1>2. PICK q \in Row : q = row[i] /\ Evident(i, q) BY Stored
<1>3. Grows /\ WorldTyped'
  BY WorldStill
  DEF SyncGhFails, SyncFetch, SyncFlipRead, SyncFlipSave, IInv, TypeOK
<1>4. Evident(i, r)' /\ Evident(i, q)' /\ Evident(i, Blank)'
  BY <1>1, <1>2, <1>3, BlankEvident, EvidentGrows
<1>5. CASE SyncGhFails(t) BY <1>5, FinishStill DEF SyncGhFails
<1>6. CASE SyncFetch(t)
  <2>1. r.issue # NoIssue BY <1>1, <1>6 DEF SyncFetch, Entitled
  <2>2. Entitled("sync:read", i, r)' /\ Entitled("sync:archive", i, Blank)'
    BY <2>1 DEF Entitled
  <2>3. \/ Goto(t, "sync:read", snap[t])
        \/ Goto(t, "sync:archive", Blank)
        \/ Finish(t)
    BY <1>6 DEF SyncFetch
  <2>4. CASE Goto(t, "sync:read", snap[t])
    BY <1>1, <1>3, <1>4, <1>6, <2>2, <2>4, GotoStep DEF SyncFetch, Labels
  <2>5. CASE Goto(t, "sync:archive", Blank)
    BY <1>1, <1>3, <1>4, <1>6, <2>2, <2>5, BlankEvident, GotoStep DEF SyncFetch, Labels
  <2>6. CASE Finish(t) BY <1>6, <2>6, FinishStill DEF SyncFetch
  <2> QED BY <2>3, <2>4, <2>5, <2>6
<1>7. CASE SyncFlipRead(t)
  <2>1. CASE Finish(t) BY <1>7, <2>1, FinishStill DEF SyncFlipRead
  <2>2. CASE Goto(t, "sync:save", [row[arg[t]] EXCEPT !.status = "contributed"])
    <3>1. PICK w \in Row : w = [q EXCEPT !.status = "contributed"]
      BY DEF Row, IdeaStatus
    <3>2. \E n \in IssueNos : Filed(i, n)'
      BY <1>1, <1>4, <1>7 DEF SyncFlipRead, Entitled, Evident, Backed, Filed
    <3>3. Evident(i, w)' /\ Entitled("sync:save", i, w)'
      BY <1>4, <3>1, <3>2 DEF Row, Evident, Backed, Earned, Filed, Entitled
    <3> QED BY <1>1, <1>2, <1>3, <1>7, <2>2, <3>1, <3>3, GotoStep
            DEF SyncFlipRead, Labels
  <2> QED BY <1>7, <2>1, <2>2 DEF SyncFlipRead
<1>8. CASE SyncFlipSave(t)
  <2>1. StoreTyped' /\ StoreEvident'
    BY <1>1, <1>3, <1>4, <1>8, SaveIdeaKeeps DEF SyncFlipSave
  <2> QED BY <1>3, <1>8, <2>1, FinishKeeps, Together DEF SyncFlipSave
<1> QED BY <1>5, <1>6, <1>7, <1>8

LEMMA CadenceContinuesKeeps ==
  ASSUME IInv, NEW t \in Tasks, CadenceContinues(t)
  PROVE  IInv'
BY ScoreKeeps, ArchivalKeeps, SyncKeeps DEF CadenceContinues

-----------------------------------------------------------------------------
(* The inductive invariant.                                                *)

LEMMA InitIInv == Init => IInv
<1> SUFFICES ASSUME Init PROVE IInv OBVIOUS
<1>1. \A c \in Categories, i \in Ideas : NewRow(c) \in Row /\ Evident(i, NewRow(c))
  BY DEF NewRow, Row, Categories, IdeaStatus, RepoUrls, Reasons, Evident, Backed, Earned
<1>2. TypeOK
  BY <1>1, BlankEvident DEF Init, TypeOK, IssueState, Labels
<1>3. StoreEvident BY <1>1 DEF Init, StoreEvident
<1>4. TasksEntitled BY BlankEvident DEF Init, TasksEntitled, Entitled
<1> QED BY <1>2, <1>3, <1>4 DEF IInv

LEMMA RejectKeeps ==
  ASSUME IInv, NEW i \in Ideas, RejectIdea(i)
  PROVE  IInv'
<1>1. Grows /\ WorldTyped' BY WorldStill DEF RejectIdea, IInv, TypeOK
<1>2. StoreTyped' /\ StoreEvident'
  BY <1>1, StatusKeeps DEF RejectIdea, IdeaStatus, Earned
<1> QED BY <1>1, <1>2, TasksUnchanged, Together DEF RejectIdea

LEMMA ReloadKeeps ==
  ASSUME IInv, Reload
  PROVE  IInv'
<1>1. Grows /\ WorldTyped' BY WorldStill DEF Reload, IInv, TypeOK
<1>2. StoreTyped' /\ StoreEvident' BY <1>1, StoreUnchanged DEF Reload
<1>3. TasksTyped' BY BlankEvident DEF Reload, TasksTyped, Labels, IInv, TypeOK
<1>4. TasksEntitled'
  <2> SUFFICES ASSUME NEW t \in Tasks
               PROVE  (Evident(arg[t], snap[t]) /\ Entitled(pc[t], arg[t], snap[t]))'
    BY DEF TasksEntitled
  <2>1. PICK i \in Ideas : i = arg'[t] BY DEF Reload, IInv, TypeOK
  <2>2. Evident(i, Blank)' BY <1>1, BlankEvident, EvidentGrows
  <2> QED BY <2>1, <2>2 DEF Reload, Evident, Backed, Earned, Filed, Entitled
<1> QED BY <1>1, <1>2, <1>3, <1>4, Together

LEMMA NextIInv == IInv /\ [Next]_vars => IInv'
<1> SUFFICES ASSUME IInv, [Next]_vars PROVE IInv' OBVIOUS
<1>1. ASSUME NEW t \in Tasks, Begins(t) PROVE IInv'
  BY <1>1, OperatorBeginsKeeps, CadenceBeginsKeeps DEF Begins
<1>2. ASSUME NEW t \in Tasks, Continues(t) PROVE IInv'
  BY <1>2, OperatorContinuesKeeps, CadenceContinuesKeeps DEF Continues
<1>3. ASSUME NEW i \in Ideas, RejectIdea(i) PROVE IInv'
  BY <1>3, RejectKeeps
<1>8. ASSUME NEW i \in Ideas, DeduplicateSelfImprovement(i) PROVE IInv'
  BY <1>8, RejectKeeps DEF DeduplicateSelfImprovement, RejectIdea
<1>4. ASSUME NEW i \in Ideas, OnGitHub(i) PROVE IInv'
  <2>1. Grows /\ WorldTyped' BY <1>4, OnGitHubGrows
  <2> QED BY <1>4, <2>1, StoreUnchanged, TasksUnchanged, Together DEF OnGitHub
<1>5. CASE RestoreSiphoned
  <2>1. Grows /\ WorldTyped' BY <1>5, WorldStill DEF RestoreSiphoned, IInv, TypeOK
  <2>2. StoreTyped' /\ StoreEvident' BY <1>5, <2>1, RestoreKeeps DEF RestoreSiphoned
  <2> QED BY <1>5, <2>1, <2>2, TasksUnchanged, Together DEF RestoreSiphoned
<1>6. CASE Reload BY <1>6, ReloadKeeps
<1>7. CASE UNCHANGED vars
  <2>1. Grows /\ WorldTyped' BY <1>7, WorldStill DEF vars, IInv, TypeOK
  <2> QED BY <1>7, <2>1, StoreUnchanged, TasksUnchanged, Together DEF vars
<1> QED BY <1>1, <1>2, <1>3, <1>4, <1>5, <1>6, <1>7, <1>8 DEF Next, Running

(* The inductive invariant holds in every state of the system.             *)
THEOREM Inductive == Spec => []IInv
BY InitIInv, NextIInv, PTL DEF Spec

(* Every variable stays in its range, whatever interleaves.                *)
THEOREM TypeCorrect == Spec => []TypeOK
<1>1. IInv => TypeOK BY DEF IInv
<1> QED BY <1>1, Inductive, PTL

(* No interleaving of handlers, cadences, gh failures and restarts makes a *)
(* row claim an approval, a repository, an issue or a commit that never    *)
(* was.                                                                    *)
THEOREM StatusAlwaysBacked == Spec => []StatusBacked
<1>1. IInv => StatusBacked
  BY DEF IInv, TypeOK, StoreEvident, Evident, StatusBacked
<1> QED BY <1>1, Inductive, PTL

(* No row is ever stamped as promoted without the issue it was promoted    *)
(* to: there is no half-promoted state.                                    *)
THEOREM NeverHalfPromoted == Spec => []StampHasIssue
<1>1. IInv => StampHasIssue
  BY DEF IInv, TypeOK, StoreEvident, Evident, StampHasIssue
<1> QED BY <1>1, Inductive, PTL

-----------------------------------------------------------------------------
(***************************************************************************)
(* Introspection.  A proposal is stored or refused as of when it was       *)
(* generated, later than the call; so once a cycle has left a row the      *)
(* newest row is no older than the call, whatever the other runner adds.   *)
(***************************************************************************)

(* Until it asks, the cadence's run has nothing in hand.                   *)
Waiting == {"idle", "read", "signals"}

(* A cycle that is over or has left a row leaves a newest row that is no    *)
(* older than the call; and what a proposal's row would carry is the time   *)
(* it was generated at, which is later still.                              *)
Answered ==
  /\ run["server"].pc = "idle" \/ logged => Watermark <= burn
  /\ \A c \in run["server"].pool : c.si => c.age <= burn
  /\ run["server"].pc \in Waiting => ~logged /\ run["server"].pool = {}

(* While a run asks, some proposal of the tournament is still to come.     *)
Playing == \A r \in Runners : run[r].pc = "ask" => run[r].left # 0

IntrospectionIInv == IntrospectionTypeOK /\ Answered /\ Playing

-----------------------------------------------------------------------------
LEMMA OldestAge ==
  /\ 0 \in Ages /\ Interval \in Ages
  /\ \A a \in Ages : a \in Nat /\ a <= Interval /\ (a >= Interval => a = Interval)
BY TimesAssumption DEF Ages

LEMMA AgeingKeeps ==
  ASSUME NEW a \in Ages, NEW b \in Ages
  PROVE  Older(a) \in Ages /\ (a <= b => Older(a) <= Older(b))
BY TimesAssumption DEF Ages, Older

(* The watermark is the younger of the two rows' ages.                     *)
LEMMA YoungerIs ==
  ASSUME NEW a \in Ages, NEW b \in Ages
  PROVE  /\ Min({a, b}) \in Ages
         /\ \A n \in Ages : Min({a, b}) <= n <=> a <= n \/ b <= n
<1>1. \E m \in {a, b} : \A n \in {a, b} : m <= n
  <2>1. a <= b \/ b <= a
    BY OldestAge
  <2>2. a <= a /\ b <= b
    BY OldestAge
  <2> QED BY <2>1, <2>2
<1>2. Min({a, b}) \in {a, b} /\ \A n \in {a, b} : Min({a, b}) <= n
  BY <1>1 DEF Min
<1> QED BY <1>2, OldestAge

LEMMA WatermarkIs ==
  ASSUME newest \in Idea, filtered \in Ages
  PROVE  /\ newest.age \in Ages
         /\ Watermark \in Ages
         /\ \A n \in Ages : Watermark <= n <=> newest.age <= n \/ filtered <= n
BY YoungerIs DEF Watermark, Idea

LEMMA NoIdeaIs == NoIdea \in Idea /\ NoIdea.age = Interval
BY OldestAge DEF NoIdea, Idea

LEMMA AgedIs ==
  ASSUME NEW c, c \in Idea \/ c \in Candidate
  PROVE  /\ Aged(c).age = Older(c.age)
         /\ c \in Idea => Aged(c) \in Idea
         /\ c \in Candidate => Aged(c) \in Candidate /\ Aged(c).si = c.si
BY AgeingKeeps DEF Aged, Idea, Candidate

LEMMA IdleIs == Idle \in Run /\ Idle.pc = "idle" /\ Idle.pool = {}
BY SizeAssumption DEF Idle, Run

LEMMA PromptedIs ==
  ASSUME NEW mode \in Modes \cup {"none"}
  PROVE  /\ Prompted(mode) \in Run /\ Prompted(mode).pc = "ask"
         /\ Prompted(mode).left # 0 /\ Prompted(mode).pool = {}
BY SizeAssumption DEF Prompted, Run

LEMMA PicksAMode == PickIntrospectMode \in Modes
BY DEF PickIntrospectMode, Modes

LEMMA InitAnswers == IntrospectionInit => IntrospectionIInv
<1> SUFFICES ASSUME IntrospectionInit PROVE IntrospectionIInv
  OBVIOUS
<1>1. newest \in Idea /\ filtered \in Ages /\ burn \in Ages /\ Watermark <= burn
  BY NoIdeaIs, OldestAge, WatermarkIs DEF IntrospectionInit
<1>2. run \in [Runners -> Run] /\ run["server"] = Idle
  BY IdleIs DEF IntrospectionInit, Runners
<1>3. nap \in 0..(TickInterval + InitialDelay)
  BY TimesAssumption DEF IntrospectionInit, SleepInit
<1>4. IntrospectionTypeOK
  BY <1>1, <1>2, <1>3 DEF IntrospectionInit, IntrospectionTypeOK
<1>5. Playing
  BY IdleIs DEF IntrospectionInit, Playing
<1> QED BY <1>1, <1>2, <1>4, <1>5, IdleIs DEF IntrospectionInit, IntrospectionIInv, Answered

-----------------------------------------------------------------------------
(* A runner takes a step that leaves no row: what its new state has to be. *)
LEMMA StepAnswers ==
  ASSUME IntrospectionIInv, NEW r \in Runners, NEW s \in Run, Becomes(r, s),
         s.pc = "ask" => s.left # 0,
         burn' \in Ages,
         nap' \in 0..(TickInterval + InitialDelay),
         UNCHANGED <<newest, filtered, keyless, settled>>,
         r # "server" => UNCHANGED <<burn, logged>>,
         r = "server" =>
           /\ logged' \in BOOLEAN
           /\ s.pc = "idle" \/ logged' => Watermark <= burn'
           /\ \A c \in s.pool : c.si => c.age <= burn'
           /\ s.pc \in Waiting => ~logged' /\ s.pool = {}
  PROVE  IntrospectionIInv'
<1>1. run' \in [Runners -> Run] /\ run'[r] = s /\ \A q \in Runners \ {r} : run'[q] = run[q]
  BY DEF Becomes, IntrospectionIInv, IntrospectionTypeOK
<1>2. IntrospectionTypeOK'
  BY <1>1 DEF IntrospectionIInv, IntrospectionTypeOK
<1>3. Watermark' = Watermark /\ Playing'
  BY <1>1 DEF Watermark, Playing, IntrospectionIInv
<1>4. CASE r = "server"
  BY <1>1, <1>2, <1>3, <1>4 DEF IntrospectionIInv, Answered
<1>5. CASE r # "server"
  <2>1. run'["server"] = run["server"]
    BY <1>1, <1>5 DEF Runners
  <2> QED BY <1>2, <1>3, <1>5, <2>1 DEF IntrospectionIInv, Answered
<1> QED BY <1>4, <1>5

(* A run ends, with a row that is no older than the call or without one.   *)
LEMMA EndAnswers ==
  ASSUME IntrospectionIInv, NEW r \in Runners, NEW left \in BOOLEAN, End(r, left),
         newest' \in Idea, filtered' = filtered, UNCHANGED <<keyless, settled>>,
         newest'.age <= newest.age \/ newest' = newest,
         left /\ r = "server" => newest'.age <= burn
  PROVE  IntrospectionIInv'
<1>1. run' \in [Runners -> Run] /\ run'[r] = Idle /\ \A q \in Runners \ {r} : run'[q] = run[q]
  BY IdleIs DEF End, Becomes, IntrospectionIInv, IntrospectionTypeOK
<1>2. nap' \in 0..(TickInterval + InitialDelay)
  BY TimesAssumption DEF End, SleepAgain, IntrospectionIInv, IntrospectionTypeOK
<1>3. burn \in Ages /\ burn' \in Ages /\ logged' \in BOOLEAN
  BY OldestAge DEF End, IntrospectionIInv, IntrospectionTypeOK
<1>4. IntrospectionTypeOK' /\ Playing'
  BY <1>1, <1>2, <1>3, IdleIs DEF IntrospectionIInv, IntrospectionTypeOK, Playing
<1>5. \A n \in Ages : Watermark <= n => Watermark' <= n
  <2>1. newest \in Idea /\ filtered \in Ages
    BY DEF IntrospectionIInv, IntrospectionTypeOK
  <2>2. /\ newest'.age \in Ages
        /\ \A n \in Ages : Watermark' <= n <=> newest'.age <= n \/ filtered' <= n
    BY <2>1, WatermarkIs, YoungerIs DEF Watermark, Idea
  <2>3. \A n \in Ages : newest.age <= n => newest'.age <= n
    BY <2>1, <2>2, WatermarkIs, OldestAge
  <2> QED BY <2>1, <2>2, <2>3, WatermarkIs
<1>6. CASE r # "server"
  <2>1. run'["server"] = run["server"] /\ UNCHANGED <<burn, logged>>
    BY <1>1, <1>6 DEF Runners, End
  <2> QED BY <1>3, <1>4, <1>5, <2>1 DEF IntrospectionIInv, Answered
<1>7. CASE r = "server"
  <2>1. Watermark' <= burn'
    <3>1. newest \in Idea /\ filtered \in Ages
      BY DEF IntrospectionIInv, IntrospectionTypeOK
    <3>2. /\ Watermark' \in Ages
          /\ \A n \in Ages : newest'.age <= n => Watermark' <= n
      BY <3>1, YoungerIs DEF Watermark, Idea
    <3>3. CASE ~(logged \/ left)
      BY <1>7, <3>2, <3>3, OldestAge DEF End
    <3>4. CASE logged
      BY <1>3, <1>5, <1>7, <3>4 DEF End, IntrospectionIInv, Answered
    <3>5. CASE left
      BY <1>3, <1>7, <3>2, <3>5 DEF End
    <3> QED BY <3>3, <3>4, <3>5
  <2>2. ~logged'
    BY <1>7 DEF End
  <2> QED BY <1>1, <1>4, <1>7, <2>1, <2>2, IdleIs DEF IntrospectionIInv, Answered
<1> QED BY <1>6, <1>7

-----------------------------------------------------------------------------
(* One lemma for each step.                                                *)

LEMMA FireAnswers == ASSUME IntrospectionIInv, Fire PROVE IntrospectionIInv'
<1> DEFINE s == [Idle EXCEPT !.pc = "read"]
<1>1. s \in Run /\ s.pc = "read" /\ s.pool = {}
  BY IdleIs DEF Run
<1>2. ~logged /\ logged' = logged
  BY DEF Fire, IntrospectionIInv, Answered, Waiting
<1> HIDE DEF s
<1>3. Becomes("server", s)
  BY DEF Fire, s
<1> QED
  BY <1>1, <1>2, <1>3, StepAnswers
  DEF Fire, Runners, Waiting, IntrospectionIInv, IntrospectionTypeOK

LEMMA ReadAnswers ==
  ASSUME IntrospectionIInv, NEW r \in Runners, Read(r) PROVE IntrospectionIInv'
<1> DEFINE mode == PickIntrospectMode
           s == IF mode = "generation" THEN [Idle EXCEPT !.pc = "signals", !.mode = mode]
                ELSE Prompted(mode)
<1>1. s \in Run /\ s.pc \in {"signals", "ask"} /\ s.pool = {} /\ (s.pc = "ask" => s.left # 0)
  <2>1. mode \in Modes
    BY PicksAMode
  <2>2. CASE mode = "generation"
    BY <2>1, <2>2, IdleIs DEF Run, Modes
  <2>3. CASE mode # "generation"
    BY <2>1, <2>3, PromptedIs
  <2> QED BY <2>2, <2>3
<1>2. Becomes(r, s) /\ UNCHANGED <<nap, newest, filtered, keyless, logged, settled>>
  BY DEF Read
<1>3. burn' \in Ages /\ (r # "server" => burn' = burn)
  BY OldestAge DEF Read, IntrospectionIInv, IntrospectionTypeOK
<1>4. r = "server" => ~logged
  BY DEF Read, Ready, IntrospectionIInv, Answered, Waiting
<1> HIDE DEF s
<1> QED
  BY <1>1, <1>2, <1>3, <1>4, StepAnswers DEF IntrospectionIInv, IntrospectionTypeOK

LEMMA SignalsAnswer ==
  ASSUME IntrospectionIInv, NEW r \in Runners, GatherSignals(r) PROVE IntrospectionIInv'
<1>1. run[r].mode \in Modes \cup {"none"}
  BY DEF Run, IntrospectionIInv, IntrospectionTypeOK
<1>2. burn' \in Ages /\ (r # "server" => burn' = burn)
  BY OldestAge DEF GatherSignals, IntrospectionIInv, IntrospectionTypeOK
<1>3. r = "server" => ~logged
  BY DEF GatherSignals, IntrospectionIInv, Answered, Waiting
<1> QED
  BY <1>1, <1>2, <1>3, PromptedIs, StepAnswers
  DEF GatherSignals, Waiting, IntrospectionIInv, IntrospectionTypeOK

LEMMA StaticAnswers ==
  ASSUME IntrospectionIInv, NEW r \in Runners, GenerateStaticProposals(r)
  PROVE  IntrospectionIInv'
<1>1. PICK pool \in Finds : Becomes(r, [Idle EXCEPT !.pc = "save", !.pool = pool])
  BY DEF GenerateStaticProposals
<1> DEFINE s == [Idle EXCEPT !.pc = "save", !.pool = pool]
<1>2. s \in Run /\ s.pc = "save" /\ \A c \in s.pool : c.age = 0
  <2>1. pool \in SUBSET Candidate /\ \A c \in pool : c.age = 0
    <3>1. [si |-> TRUE, age |-> 0] \in Candidate /\ [si |-> TRUE, age |-> 0].age = 0
      BY OldestAge DEF Candidate
    <3> QED BY <3>1 DEF Finds
  <2>2. s \in Run /\ s.pc = "save" /\ s.pool = pool
    BY <2>1, IdleIs DEF Run
  <2> QED BY <2>1, <2>2
<1>3. r = "server" => ~logged
  BY DEF GenerateStaticProposals, Ready, IntrospectionIInv, Answered, Waiting
<1> HIDE DEF s
<1>4. Becomes(r, s)
  BY <1>1 DEF s
<1>5. burn \in Ages /\ \A c \in s.pool : c.si => c.age <= burn
  BY <1>2, OldestAge DEF IntrospectionIInv, IntrospectionTypeOK
<1> QED
  BY <1>2, <1>3, <1>4, <1>5, StepAnswers
  DEF GenerateStaticProposals, Waiting, IntrospectionIInv, IntrospectionTypeOK

LEMMA GenerateAnswers ==
  ASSUME IntrospectionIInv, NEW r \in Runners, NEW pool \in SUBSET Candidate,
         \A c \in pool : c \in run[r].pool \/ c.age = 0, Generate(r, pool)
  PROVE  IntrospectionIInv'
<1> DEFINE s == [run[r] EXCEPT !.pc = IF run[r].left = 1 THEN "save" ELSE "ask",
                               !.left = @ - 1, !.pool = pool]
<1>0. run[r] \in Run /\ run[r].pc = "ask" /\ burn \in Ages
  BY DEF Generate, IntrospectionIInv, IntrospectionTypeOK
<1>1. run[r].left \in 1..Size
  BY <1>0 DEF Run, IntrospectionIInv, Playing
<1>2. /\ s \in Run /\ s.pc \in {"ask", "save"} /\ s.pool = pool
      /\ s.pc = "ask" => s.left # 0
  <2>1. run[r].left - 1 \in 0..Size /\ (run[r].left # 1 => run[r].left - 1 # 0)
    BY <1>1, SizeAssumption
  <2>2. /\ s.pc = (IF run[r].left = 1 THEN "save" ELSE "ask")
        /\ s.left = run[r].left - 1 /\ s.pool = pool
    BY <1>0 DEF Run
  <2>3. s \in Run
    BY <1>0, <2>1 DEF Run
  <2> QED BY <2>1, <2>2, <2>3
<1> HIDE DEF s
<1>3. Becomes(r, s) /\ UNCHANGED <<nap, newest, filtered, keyless, burn, logged, settled>>
  BY DEF Generate, s
<1>4. r = "server" => \A c \in pool : c.si => c.age <= burn
  BY <1>0, OldestAge DEF IntrospectionIInv, Answered
<1>5. r = "server" => (logged => Watermark <= burn)
  BY DEF IntrospectionIInv, Answered
<1>6. Watermark' = Watermark
  BY <1>3 DEF Watermark
<1> QED
  BY <1>0, <1>2, <1>3, <1>4, <1>5, <1>6, StepAnswers
  DEF Waiting, IntrospectionIInv, IntrospectionTypeOK

LEMMA FilterAnswers ==
  ASSUME IntrospectionIInv, NEW r \in Runners, NEW c \in run[r].pool, Filter(r, c)
  PROVE  IntrospectionIInv'
<1> DEFINE s == [run[r] EXCEPT !.pool = @ \ {c}]
<1>1. run[r] \in Run /\ run[r].pc = "save" /\ newest \in Idea /\ filtered \in Ages /\ burn \in Ages
  BY DEF Filter, IntrospectionIInv, IntrospectionTypeOK
<1>2. s \in Run /\ s.pc = "save" /\ s.pool \subseteq run[r].pool
  BY <1>1 DEF Run
<1> HIDE DEF s
<1>3. /\ run' \in [Runners -> Run] /\ run'[r] = s /\ \A q \in Runners \ {r} : run'[q] = run[q]
      /\ UNCHANGED <<nap, newest, keyless, burn, settled>>
  BY <1>2 DEF Filter, Becomes, s, IntrospectionIInv, IntrospectionTypeOK
<1>4. filtered' \in Ages /\ filtered' \in {0, filtered} /\ (c.si => filtered' = 0)
      /\ logged' \in BOOLEAN
  BY OldestAge DEF Filter, IntrospectionIInv, IntrospectionTypeOK
<1>5. IntrospectionTypeOK' /\ Playing'
  BY <1>2, <1>3, <1>4 DEF IntrospectionIInv, IntrospectionTypeOK, Playing
<1>6. Watermark <= burn \/ c.si => Watermark' <= burn
  <2>1. \A n \in Ages : Watermark <= n <=> newest.age <= n \/ filtered <= n
    BY <1>1, WatermarkIs
  <2>2. \A n \in Ages : Watermark' <= n <=> newest.age <= n \/ filtered' <= n
    BY <1>1, <1>3, <1>4, YoungerIs DEF Watermark, Idea
  <2> QED BY <1>1, <1>4, <2>1, <2>2, OldestAge
<1>7. Answered'
  <2>1. CASE r = "server"
    <3>1. logged' = (logged \/ c.si)
      BY <2>1 DEF Filter
    <3> QED BY <1>2, <1>3, <1>6, <2>1, <3>1 DEF IntrospectionIInv, Answered, Waiting
  <2>2. CASE r # "server"
    <3>1. run'["server"] = run["server"] /\ logged' = logged
      BY <1>3, <2>2 DEF Filter, Runners, IntrospectionIInv, IntrospectionTypeOK
    <3> QED BY <1>3, <1>6, <3>1 DEF IntrospectionIInv, Answered
  <2> QED BY <2>1, <2>2
<1> QED BY <1>5, <1>7 DEF IntrospectionIInv

LEMMA AcceptAnswers ==
  ASSUME IntrospectionIInv, NEW r \in Runners, NEW c \in run[r].pool, Accept(r, c)
  PROVE  IntrospectionIInv'
<1> DEFINE idea == [mode |-> run[r].mode, age |-> c.age]
<1>1. c \in Candidate /\ run[r] \in Run /\ newest \in Idea
  BY DEF Run, IntrospectionIInv, IntrospectionTypeOK
<1>2. idea \in Idea /\ idea.age = c.age
  BY <1>1 DEF Run, Candidate, Idea
<1> HIDE DEF idea
<1>3. newest' = IF c.si THEN With(idea) ELSE newest
  BY DEF Accept, idea
<1>4. /\ newest' \in Idea
      /\ newest'.age <= newest.age \/ newest' = newest
      /\ c.si => newest'.age <= c.age
  <2>1. newest.age \in Ages /\ c.age \in Ages
    BY <1>1 DEF Idea, Candidate
  <2>2. CASE c.si /\ idea.age <= newest.age
    BY <1>2, <1>3, <2>1, <2>2, OldestAge DEF With
  <2>3. CASE c.si /\ ~(idea.age <= newest.age)
    BY <1>1, <1>2, <1>3, <2>1, <2>3, OldestAge DEF With
  <2>4. CASE ~c.si
    BY <1>1, <1>3, <2>4
  <2> QED BY <2>2, <2>3, <2>4
<1>5. c.si /\ r = "server" => newest'.age <= burn
  <2>1. c.si /\ r = "server" => c.age <= burn
    BY DEF IntrospectionIInv, Answered
  <2>2. newest'.age \in Nat /\ c.age \in Nat /\ burn \in Nat
    BY <1>1, <1>4, OldestAge DEF Idea, Candidate, IntrospectionIInv, IntrospectionTypeOK
  <2> QED BY <1>4, <2>1, <2>2
<1>6. c.si \in BOOLEAN /\ End(r, c.si) /\ UNCHANGED <<filtered, keyless, settled>>
  BY <1>1 DEF Candidate, Accept
<1> QED BY <1>4, <1>5, <1>6, EndAnswers

(* The ways a run ends without a row.                                      *)
LEMMA GivingUpAnswers ==
  ASSUME IntrospectionIInv, NEW r \in Runners,
         NoWinner(r) \/ Raise(r) \/ TelemetryFails(r) \/ (r = "timer" /\ Timeout)
  PROVE  IntrospectionIInv'
<1>1. End(r, FALSE) /\ UNCHANGED <<newest, filtered, keyless, settled>>
  BY DEF NoWinner, Raise, TelemetryFails, Timeout
<1>2. newest' \in Idea
  BY <1>1 DEF IntrospectionIInv, IntrospectionTypeOK
<1> QED BY <1>1, <1>2, EndAnswers

LEMMA TickAnswers == ASSUME IntrospectionIInv, Tick PROVE IntrospectionIInv'
<1>1. /\ newest \in Idea /\ filtered \in Ages /\ burn \in Ages
      /\ nap \in 0..(TickInterval + InitialDelay) /\ run \in [Runners -> Run]
  BY DEF IntrospectionIInv, IntrospectionTypeOK
<1>2. newest' \in Idea /\ newest'.age = Older(newest.age)
  BY <1>1, AgedIs DEF Tick
<1>3. filtered' \in Ages /\ burn' \in Ages /\ filtered' = Older(filtered) /\ burn' = Older(burn)
  BY <1>1, AgeingKeeps DEF Tick
<1>4. nap' \in 0..(TickInterval + InitialDelay)
  BY <1>1, TimesAssumption DEF Tick, Doze
<1>5. ASSUME NEW pool \in SUBSET Candidate
      PROVE  /\ AgedPool(pool) \in SUBSET Candidate
             /\ pool = {} => AgedPool(pool) = {}
             /\ (\A c \in pool : c.si => c.age <= burn)
                  => \A c \in AgedPool(pool) : c.si => c.age <= burn'
  <2>1. ASSUME NEW c \in pool
        PROVE  /\ (IF c.si THEN Aged(c) ELSE c) \in Candidate
               /\ (IF c.si THEN Aged(c) ELSE c).si = c.si
               /\ c.si => (IF c.si THEN Aged(c) ELSE c).age = Older(c.age)
               /\ c.age <= burn => Older(c.age) <= Older(burn)
    <3>1. c \in Candidate /\ c.age \in Ages
      BY DEF Candidate
    <3> QED BY <1>1, <3>1, AgedIs, AgeingKeeps
  <2> QED BY <1>3, <2>1 DEF AgedPool
<1>6. /\ run' \in [Runners -> Run]
      /\ \A r \in Runners : /\ run'[r].pc = run[r].pc /\ run'[r].left = run[r].left
                            /\ run'[r].pool = AgedPool(run[r].pool)
  <2>1. ASSUME NEW r \in Runners
        PROVE  [run[r] EXCEPT !.pool = AgedPool(@)] \in Run
    <3>1. run[r] \in Run /\ AgedPool(run[r].pool) \in SUBSET Candidate
      BY <1>1, <1>5 DEF Run
    <3> QED BY <3>1 DEF Run
  <2>2. run' = [r \in Runners |-> [run[r] EXCEPT !.pool = AgedPool(@)]]
    BY DEF Tick
  <2> QED BY <1>1, <2>1, <2>2 DEF Run
<1>7. IntrospectionTypeOK' /\ Playing'
  BY <1>2, <1>3, <1>4, <1>6 DEF Tick, IntrospectionIInv, IntrospectionTypeOK, Playing
<1>8. Watermark <= burn => Watermark' <= burn'
  <2>1. Watermark <= burn <=> newest.age <= burn \/ filtered <= burn
    BY <1>1, WatermarkIs
  <2>2. Watermark' <= burn' <=> newest'.age <= burn' \/ filtered' <= burn'
    BY <1>2, <1>3, YoungerIs DEF Watermark, Idea
  <2>3. newest.age \in Ages
    BY <1>1 DEF Idea
  <2> QED BY <1>1, <1>2, <1>3, <2>1, <2>2, <2>3, AgeingKeeps
<1>9. "server" \in Runners /\ run["server"].pool \in SUBSET Candidate
  BY <1>1 DEF Run, Runners
<1>10. logged' = logged
  BY DEF Tick
<1>11. Answered'
  BY <1>5, <1>6, <1>8, <1>9, <1>10 DEF IntrospectionIInv, Answered
<1> QED BY <1>7, <1>11 DEF IntrospectionIInv

LEMMA DeleteAnswers == ASSUME IntrospectionIInv, Delete PROVE IntrospectionIInv'
<1>1. /\ newest' \in Idea /\ logged' = FALSE
      /\ burn' = IF run["server"].pc = "idle" THEN Interval ELSE burn
      /\ UNCHANGED <<nap, filtered, run, keyless, settled>>
  BY DEF Delete
<1>2. burn' \in Ages
  BY <1>1, OldestAge DEF IntrospectionIInv, IntrospectionTypeOK
<1>3. IntrospectionTypeOK' /\ Playing'
  BY <1>1, <1>2 DEF IntrospectionIInv, IntrospectionTypeOK, Playing
<1>4. Watermark' \in Ages
  BY <1>1, YoungerIs DEF Watermark, Idea, IntrospectionIInv, IntrospectionTypeOK
<1>5. Answered'
  <2>1. run["server"].pc = "idle" => run["server"].pool = {}
    BY DEF IntrospectionIInv, Answered, Waiting
  <2> QED BY <1>1, <1>4, <2>1, OldestAge DEF IntrospectionIInv, Answered
<1> QED BY <1>3, <1>5 DEF IntrospectionIInv

LEMMA RestartAnswers == ASSUME IntrospectionIInv, Restart PROVE IntrospectionIInv'
<1>1. burn' \in Ages /\ nap' \in 0..(TickInterval + InitialDelay)
  BY OldestAge, TimesAssumption DEF Restart, StartAfresh, IntrospectionIInv, IntrospectionTypeOK
<1>2. Watermark <= burn'
  <2>1. Watermark \in Ages
    BY WatermarkIs DEF IntrospectionIInv, IntrospectionTypeOK
  <2> QED BY <2>1, OldestAge DEF Restart, IntrospectionIInv, Answered
<1>3. "server" \in Runners
  BY DEF Runners
<1> QED
  BY <1>1, <1>2, <1>3, IdleIs, StepAnswers DEF Restart

-----------------------------------------------------------------------------
LEMMA IntrospectionStep ==
  IntrospectionIInv /\ [IntrospectionNext]_introspectVars => IntrospectionIInv'
<1> SUFFICES ASSUME IntrospectionIInv, [IntrospectionNext]_introspectVars
             PROVE  IntrospectionIInv'
  OBVIOUS
<1>1. ASSUME UNCHANGED <<newest, filtered, run, keyless, burn, logged>>,
             nap' \in 0..(TickInterval + InitialDelay), settled' \in BOOLEAN
      PROVE  IntrospectionIInv'
  BY <1>1 DEF IntrospectionIInv, IntrospectionTypeOK, Answered, Playing, Watermark
<1>2. CASE Pass
  BY <1>1, <1>2, TimesAssumption
  DEF Pass, SleepAgain, IntrospectionIInv, IntrospectionTypeOK
<1>3. CASE Settle
  BY <1>1, <1>3 DEF Settle, SettleDown, IntrospectionIInv, IntrospectionTypeOK
<1>4. CASE UNCHANGED introspectVars
  BY <1>1, <1>4 DEF introspectVars, IntrospectionIInv, IntrospectionTypeOK
<1>5. ASSUME NEW r \in Runners, Refuse(r) \/ \E si \in BOOLEAN : Survive(r, si)
      PROVE  IntrospectionIInv'
  <2>1. run[r].pool \in SUBSET Candidate
    BY DEF Run, IntrospectionIInv, IntrospectionTypeOK
  <2>2. CASE Refuse(r)
    BY <2>1, <2>2, GenerateAnswers DEF Refuse
  <2>3. ASSUME NEW si \in BOOLEAN, Survive(r, si) PROVE IntrospectionIInv'
    <3>1. [si |-> si, age |-> 0] \in Candidate /\ [si |-> si, age |-> 0].age = 0
      BY OldestAge DEF Candidate
    <3>2. Generate(r, run[r].pool \cup {[si |-> si, age |-> 0]})
      BY <2>3 DEF Survive
    <3> QED BY <2>1, <3>1, <3>2, GenerateAnswers
  <2> QED BY <1>5, <2>2, <2>3
<1>6. CASE Timeout
  BY <1>6, GivingUpAnswers DEF Runners
<1> QED
  BY <1>2, <1>3, <1>4, <1>5, <1>6, FireAnswers, ReadAnswers, SignalsAnswer, StaticAnswers,
     FilterAnswers, AcceptAnswers, GivingUpAnswers, TickAnswers, DeleteAnswers, RestartAnswers
  DEF IntrospectionNext

LEMMA IntrospectionInvariant == IntrospectionSpec => []IntrospectionIInv
BY InitAnswers, IntrospectionStep, PTL DEF IntrospectionSpec

(* The two tables, the runs and the clock of introspection stay in range.  *)
THEOREM IntrospectionTypeCorrect == IntrospectionSpec => []IntrospectionTypeOK
<1>1. IntrospectionIInv => IntrospectionTypeOK
  BY DEF IntrospectionIInv
<1> QED BY <1>1, IntrospectionInvariant, PTL

(* Whatever the gate refuses, the timer adds and the operator deletes: the *)
(* server does not ask again within the interval.                          *)
THEOREM DuplicatesAreCounted == IntrospectionSpec => DuplicatesDoNotHammer
<1>1. IntrospectionIInv /\ [IntrospectionNext]_introspectVars
        => [Fire /\ "server" \notin keyless => burn = Interval]_introspectVars
  <2> SUFFICES ASSUME IntrospectionIInv, Fire PROVE burn = Interval
    OBVIOUS
  <2>1. Watermark = Interval /\ Watermark <= burn
    BY DEF Fire, Overdue, IntrospectionIInv, Answered
  <2> QED BY <2>1, OldestAge DEF IntrospectionIInv, IntrospectionTypeOK
<1> QED
  BY <1>1, IntrospectionInvariant, PTL DEF IntrospectionSpec, DuplicatesDoNotHammer
=============================================================================
