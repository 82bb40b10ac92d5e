---------------------------- MODULE SelfImprove ----------------------------
(***************************************************************************)
(* cron/self_improve_runner.py: for each open ci-queue issue the model     *)
(* proposes a change, which is applied to the shared checkout, validated,  *)
(* committed on a branch, pushed, and offered as a pull request.  Every    *)
(* call can fail, and the process can be killed between any two of them.   *)
(***************************************************************************)
EXTENDS SharedCheckout

CONSTANTS
  Runners,  \* processes that run the cycle
  NoIssue,
  Desk,     \* files the operator works on
  Proposals \* per issue: sets of files its answer may name, none among them

ASSUME RunnersAssumption ==
  /\ NoIssue \notin Issues /\ Desk \subseteq Files
  /\ Proposals \in [Issues -> SUBSET SUBSET Files]

VARIABLES
  pc,       \* per runner
  queue,    \* per runner: issues of this cycle still to process
  issue,    \* per runner
  targets,  \* per runner: files the proposal changes
  changed,  \* per runner: changed_files
  remote,   \* issues whose branch on GitHub holds an edit for them
  pr,       \* issues that have an open pull request
  closed,   \* issues closed
  exposed,  \* history, per runner: targets with work the check could not see
  inert     \* history: issues whose proposal left every file as it was

work == <<pc, queue, issue, targets, changed>>
gitHub == <<remote, pr, closed>>
history == <<exposed, inert>>
vars == <<git, work, gitHub, history>>

(* From the check of the working tree to the end of the issue.             *)
Touching == {"apply", "validate", "branch", "verify", "add", "commit", "push",
             "create", "leave", "raised", "left", "close"}
Labels == {"idle", "next", "ask", "check"} \cup Touching

Init ==
  /\ CheckoutInit
  /\ pc = [r \in Runners |-> "idle"]
  /\ queue = [r \in Runners |-> {}]
  /\ issue = [r \in Runners |-> NoIssue]
  /\ targets = [r \in Runners |-> {}]
  /\ changed = [r \in Runners |-> {}]
  /\ remote = {} /\ pr = {} /\ closed = {}
  /\ exposed = [r \in Runners |-> {}] /\ inert = {}

-----------------------------------------------------------------------------
Move(r, from, to) == pc[r] = from /\ pc' = [pc EXCEPT ![r] = to]
Keep == UNCHANGED <<queue, issue, targets, changed, history>>

(* On with the next issue: what was the last one's is forgotten.           *)
Leave(r, from) ==
  /\ Move(r, from, "next")
  /\ issue' = [issue EXCEPT ![r] = NoIssue]
  /\ targets' = [targets EXCEPT ![r] = {}]
  /\ changed' = [changed EXCEPT ![r] = {}]
  /\ exposed' = [exposed EXCEPT ![r] = {}]
  /\ UNCHANGED <<queue, inert>>

(* A step that does nothing but go on.                                     *)
Go(r, from, to) == Move(r, from, to) /\ Keep /\ UNCHANGED <<git, gitHub>>

(* fetch_ci_queue_issues; on an error, or without a backend, that was it.  *)
Fetch(r) ==
  /\ Move(r, "idle", "next")
  /\ queue' = [queue EXCEPT ![r] = Issues \ closed]
  /\ UNCHANGED <<git, gitHub, issue, targets, changed, history>>

NextIssue(r) ==
  \E n \in queue[r] :
    /\ Move(r, "next", "ask")
    /\ issue' = [issue EXCEPT ![r] = n]
    /\ queue' = [queue EXCEPT ![r] = @ \ {n}]
    /\ UNCHANGED <<git, gitHub, targets, changed, history>>

Done(r) == queue[r] = {} /\ Go(r, "next", "idle")

Propose(r) ==
  /\ Move(r, "ask", "check")
  /\ \E S \in Proposals[issue[r]] : targets' = [targets EXCEPT ![r] = S]
  /\ UNCHANGED <<git, gitHub, queue, issue, changed, history>>

(* No answer, one that does not parse, or git status fails: nothing to     *)
(* revert yet.                                                             *)
ProposeFails(r) ==
  \E from \in {"ask", "check"} : Leave(r, from) /\ UNCHANGED <<git, gitHub>>

(* _git_dirty_paths.  git's output is stripped as a whole before the path  *)
(* is cut out at the fourth character of each line: if the first line is   *)
(* that of an unstaged change, " M path", the path loses its first letter. *)
Misread == {f \in TopLine : index[f] = commit[head][f]}
DirtyPaths == Dirty \ (Misread \cup Folded)

(* Mutant: the paths are not compared.                                     *)
LookAway(r) ==
  /\ Move(r, "check", "apply")
  /\ exposed' = [exposed EXCEPT ![r] = targets[r] \cap (Misread \cup Folded)]
  /\ UNCHANGED <<git, gitHub, queue, issue, targets, changed, inert>>

CheckClean(r) ==
  /\ targets[r] \cap DirtyPaths = {}
  /\ Move(r, "check", "apply")
  /\ exposed' = [exposed EXCEPT ![r] = targets[r] \cap (Misread \cup Folded)]
  /\ UNCHANGED <<git, gitHub, queue, issue, targets, changed, inert>>

SkipDirty(r) ==
  targets[r] \cap DirtyPaths # {} /\ Leave(r, "check") /\ UNCHANGED <<git, gitHub>>

(* Of the files in S, those in C are created, or overwritten; the others   *)
(* are edited.                                                             *)
Written(r, S, C) ==
  [f \in Files |-> IF f \in S \cap C THEN {issue[r]}
                   ELSE IF f \in S THEN Edited(f, issue[r]) ELSE tree[f]]

(* A change may put in what was there before; to be edited, a file must be *)
(* there.                                                                  *)
Apply(r) ==
  /\ Move(r, "apply", "validate")
  /\ \E S \in SUBSET targets[r] : \E C \in SUBSET S :
       /\ \A f \in targets[r] \ C : tree[f] # Absent
       /\ tree' = Written(r, S, C)
       /\ inert' = IF S = {} THEN inert \cup {issue[r]} ELSE inert \ {issue[r]}
  /\ changed' = [changed EXCEPT ![r] = targets[r]]
  /\ UNCHANGED <<head, commit, index, gitHub, queue, issue, targets, exposed>>

(* One of the changes raises: those before it stay in the working tree and *)
(* in no list of changed files.                                            *)
ApplyRaises(r) ==
  /\ targets[r] # {}
  /\ Leave(r, "apply")
  /\ \E S \in SUBSET targets[r] : \E C \in SUBSET S :
       /\ \A f \in S \ C : tree[f] # Absent
       /\ tree' = Written(r, S, C)
  /\ UNCHANGED <<head, commit, index, gitHub>>

Validates(r) == Go(r, "validate", "branch")

(* _revert_changes.                                                        *)
Revert(r, from) == Leave(r, from) /\ Restore(changed[r]) /\ UNCHANGED gitHub

ValidationFails(r) == Revert(r, "validate")

(* Mutant: the commit goes wherever HEAD is.                               *)
BranchUnchecked(r) == Go(r, "branch", "add")

(* create_improvement_pr.                                                  *)
BranchOff(r) ==
  /\ Move(r, "branch", "verify")
  /\ CheckoutB(issue[r])
  /\ Keep /\ UNCHANGED gitHub

BranchFails(r) == Go(r, "branch", "raised")

(* rev-parse: only a second process can have moved HEAD meanwhile.         *)
VerifyHead(r) == Go(r, "verify", IF head = issue[r] THEN "add" ELSE "leave")

Add(r) ==
  /\ Move(r, "add", "commit")
  /\ AddFiles(changed[r])
  /\ Keep /\ UNCHANGED gitHub

(* One of the files is not added: those before it stay in the index.       *)
AddFails(r) ==
  /\ Move(r, "add", "leave")
  /\ \E S \in (SUBSET changed[r]) \ {changed[r]} : AddFiles(S)
  /\ Keep /\ UNCHANGED gitHub

Commit(r) ==
  /\ Move(r, "commit", "push")
  /\ CommitIndex
  /\ Keep /\ UNCHANGED gitHub

Push(r) ==
  /\ Move(r, "push", "create")
  /\ remote' = IF \E f \in Files : issue[r] \in commit[issue[r]][f]
                 THEN remote \cup {issue[r]} ELSE remote \ {issue[r]}
  /\ Keep /\ UNCHANGED <<git, pr, closed>>

CreatePr(r) ==
  /\ issue[r] \notin pr
  /\ Move(r, "create", "left")
  /\ pr' = pr \cup {issue[r]}
  /\ Keep /\ UNCHANGED <<git, remote, closed>>

(* gh timed out after it had opened the pull request.                      *)
CreateTimesOut(r) ==
  /\ issue[r] \notin pr
  /\ Move(r, "create", "leave")
  /\ pr' = pr \cup {issue[r]}
  /\ Keep /\ UNCHANGED <<git, remote, closed>>

(* Mutant: the exit codes of git push and gh are not looked at.            *)
FailUnchecked(r) ==
  \/ Go(r, "commit", "leave")
  \/ \E from \in {"push", "create"} : Go(r, from, "left")

(* git or gh fails: the finally clause runs all the same.                  *)
Fail(r) == \E from \in {"commit", "push", "create"} : Go(r, from, "leave")

(* The finally clause: git checkout main, not checked.                     *)
BackToMain(r) ==
  \E out \in {<<"left", "close">>, <<"leave", "raised">>} :
    /\ Move(r, out[1], out[2])
    /\ Switch(Main)
    /\ Keep /\ UNCHANGED gitHub

StayOnBranch(r) == Go(r, "left", "close") \/ Go(r, "leave", "raised")

CloseIssue(r) ==
  /\ Leave(r, "close")
  /\ closed' = closed \cup {issue[r]}
  /\ UNCHANGED <<git, remote, pr>>

CloseFails(r) == Go(r, "close", "raised")

RevertRaised(r) == Revert(r, "raised")

(* systemd's TimeoutStartSec, a restart of the server.                     *)
Kill(r) ==
  /\ pc[r] # "idle"
  /\ pc' = [pc EXCEPT ![r] = "idle"]
  /\ queue' = [queue EXCEPT ![r] = {}]
  /\ issue' = [issue EXCEPT ![r] = NoIssue]
  /\ targets' = [targets EXCEPT ![r] = {}]
  /\ changed' = [changed EXCEPT ![r] = {}]
  /\ exposed' = [exposed EXCEPT ![r] = {}]
  /\ UNCHANGED <<git, gitHub, inert>>

-----------------------------------------------------------------------------
OperatorWorks(f) ==
  /\ OperatorEdits(f)
  /\ exposed' = [r \in Runners |-> IF pc[r] \in Touching /\ f \in targets[r]
                                     THEN exposed[r] \cup {f} ELSE exposed[r]]
  /\ UNCHANGED <<work, gitHub, inert>>

OperatorAdds(f) == OperatorStages(f) /\ UNCHANGED <<work, gitHub, history>>

-----------------------------------------------------------------------------
Cycle(r) ==
  \/ Fetch(r) \/ NextIssue(r) \/ Done(r) \/ Propose(r) \/ ProposeFails(r)
  \/ CheckClean(r) \/ SkipDirty(r) \/ Apply(r) \/ ApplyRaises(r)
  \/ Validates(r) \/ ValidationFails(r) \/ BranchOff(r) \/ BranchFails(r)
  \/ VerifyHead(r) \/ Add(r) \/ AddFails(r) \/ Commit(r) \/ Push(r)
  \/ CreatePr(r) \/ CreateTimesOut(r) \/ Fail(r)
  \/ BackToMain(r) \/ StayOnBranch(r)
  \/ CloseIssue(r) \/ CloseFails(r) \/ RevertRaised(r) \/ Kill(r)

Next ==
  \/ \E r \in Runners : Cycle(r)
  \/ \E f \in Desk : OperatorWorks(f) \/ OperatorAdds(f)

Spec == Init /\ [][Next]_vars

-----------------------------------------------------------------------------
TypeOK ==
  /\ CheckoutTypes
  /\ pc \in [Runners -> Labels]
  /\ queue \in [Runners -> SUBSET Issues]
  /\ issue \in [Runners -> Issues \cup {NoIssue}]
  /\ targets \in [Runners -> SUBSET Files] /\ changed \in [Runners -> SUBSET Files]
  /\ remote \subseteq Issues /\ pr \subseteq Issues /\ closed \subseteq Issues
  /\ exposed \in [Runners -> SUBSET Files] /\ inert \subseteq Issues

(* "Unchecked git calls are how SI commits ended up on main": whatever     *)
(* fails, and wherever a cycle is killed, main gets no commit of a runner. *)
MainUntouched == commit[Main] = Original

(* An issue is closed only when its change is on GitHub under a pull       *)
(* request; or the proposal changed nothing, and what the pull request     *)
(* offers is what the operator had staged.                                 *)
ClosedMeansPr ==
  \A n \in closed : n \in pr /\ (n \in remote \/ n \in inert)

(* "Never touch files the operator has uncommitted work in": an edit that  *)
(* is not staged survives every step of a cycle, unless the operator made  *)
(* it in a file that the cycle had already checked, or the check could not *)
(* see it: alone in a new directory, or the unstaged first line of what    *)
(* git reports.                                                            *)
WipKept ==
  [][\A f \in Files \ UNION {exposed[r] : r \in Runners} :
       Op \in tree[f] /\ tree[f] # index[f] /\ index[f] = commit[head][f]
         => Op \in tree'[f]]_vars
=============================================================================
