---------------------------- MODULE UpkeepProofs ----------------------------
(***************************************************************************)
(* The two that tidy up: self-improvement the code, the siphon the board.  *)
(*                                                                         *)
(* One self-improvement process at a time, whatever fails and wherever it  *)
(* is killed: main gets no commit of it, an issue is not closed without    *)
(* its change on GitHub, and unstaged work of the operator is kept.        *)
(*                                                                         *)
(* Any number of siphon runs, in the server and by hand, among operators,  *)
(* scorers and generators: siphon_all is idempotent, and duplicates do not *)
(* all go in favour of each other.                                         *)
(***************************************************************************)
EXTENDS SelfImprove, Siphon, FiniteSetTheorems, WellFoundedInduction, TLAPS

OneRunner == \A r, s \in Runners : r = s

(* Where the checkout stands at each step of an issue.                     *)
Applied == {"validate", "branch", "verify", "add", "commit", "push", "create",
            "leave", "raised", "left", "close"}

Placed(r) ==
  /\ pc[r] \notin {"idle", "next"} => issue[r] \in Issues \ (closed \cup queue[r])
  /\ queue[r] \cap closed = {}
  /\ pc[r] \in {"add", "commit", "push"} => head = issue[r]
  /\ pc[r] \in Applied => changed[r] = targets[r]
  /\ pc[r] \notin Applied => changed[r] = {}

Carried(r) ==
  /\ issue[r] \notin inert =>
       /\ pc[r] \in {"validate", "branch", "verify", "add"} =>
            \E f \in targets[r] : issue[r] \in tree[f]
       /\ pc[r] = "commit" =>
            \E f \in targets[r] : issue[r] \in tree[f] /\ issue[r] \in index[f]
       /\ pc[r] = "push" => \E f \in targets[r] : issue[r] \in commit[issue[r]][f]
       /\ pc[r] \in {"create", "left", "close"} => issue[r] \in remote
  /\ pc[r] \in {"left", "close"} => issue[r] \in pr

(* What the operator had in a target was staged or committed before.       *)
Spared(r) ==
  /\ pc[r] = "apply" => \A f \in targets[r] \ exposed[r] : tree[f] = index[f]
  /\ pc[r] \in Touching => \A f \in targets[r] \ exposed[r] : Op \in tree[f] => Op \in index[f]

IInv ==
  /\ OneRunner /\ TypeOK /\ MainUntouched /\ ClosedMeansPr
  /\ \A r \in Runners : Placed(r) /\ Carried(r) /\ Spared(r)

-----------------------------------------------------------------------------
LEMMA Names == Main \notin Issues /\ Op \notin Issues /\ Gone \notin Issues /\ NoIssue \notin Issues
BY CheckoutAssumption, RunnersAssumption

LEMMA EditedIs ==
  ASSUME TypeOK, NEW f \in Files, NEW who \in Issues \cup {Op}
  PROVE  /\ Edited(f, who) \in Contents
         /\ who \in Edited(f, who)
         /\ \A w \in tree[f] : w # Gone => w \in Edited(f, who)
         /\ \A w \in Edited(f, who) : w # who => w \in tree[f]
<1>1. tree[f] \in Contents
  BY DEF TypeOK, CheckoutTypes, Snapshots
<1> QED BY <1>1 DEF Contents, Absent, Edited

LEMMA InitEstablishes == OneRunner /\ Init => IInv
<1> SUFFICES ASSUME OneRunner, Init PROVE IInv
  OBVIOUS
<1>a. {} \in Contents
  BY DEF Contents
<1>b. Absent \in Contents
  BY DEF Contents
<1>1. Original \in Snapshots
  BY <1>a, <1>b DEF Original, Snapshots
<1>2. CheckoutTypes
  BY <1>1 DEF Init, CheckoutInit, CheckoutTypes, Branches
<1>3. TypeOK
  BY <1>2 DEF Init, TypeOK, Labels
<1>4. MainUntouched /\ ClosedMeansPr
  BY DEF Init, CheckoutInit, MainUntouched, ClosedMeansPr, Branches
<1>5. closed = {} /\ \A r \in Runners : pc[r] = "idle" /\ changed[r] = {} /\ queue[r] = {}
  BY DEF Init
<1>6. \A r \in Runners : Placed(r) /\ Carried(r) /\ Spared(r)
  BY <1>5 DEF Placed, Carried, Spared, Applied, Touching
<1> QED BY <1>3, <1>4, <1>6 DEF IInv

(* Nothing but r's own phase is to be shown.                               *)
LEMMA PhaseOfOne ==
  ASSUME OneRunner, NEW r \in Runners, Placed(r)', Carried(r)', Spared(r)',
         TypeOK', MainUntouched', ClosedMeansPr'
  PROVE  IInv'
BY DEF OneRunner, IInv

(* A step that only goes on.                                               *)
LEMMA GoKeeps ==
  ASSUME IInv, NEW r \in Runners, NEW from \in Labels, NEW to \in Labels, Go(r, from, to),
         \/ from = "idle" /\ to = "idle"
         \/ from = "next" /\ to = "idle"
         \/ from = "validate" /\ to = "branch"
         \/ from = "verify" /\ to = "add" /\ head = issue[r]
         \/ from \in Applied /\ to \in {"leave", "raised"}
         \/ from = "left" /\ to = "close"
  PROVE  IInv'
<1>1. /\ pc[r] = from /\ pc'[r] = to /\ pc' \in [Runners -> Labels]
      /\ UNCHANGED <<head, commit, index, tree, remote, pr, closed>>
      /\ UNCHANGED <<queue, issue, targets, changed, exposed, inert>>
  BY DEF Go, Move, Keep, history, git, gitHub, IInv, TypeOK
<1>2. TypeOK' /\ MainUntouched' /\ ClosedMeansPr'
  BY <1>1 DEF IInv, TypeOK, CheckoutTypes, MainUntouched, ClosedMeansPr
<1>3. Placed(r) /\ Carried(r) /\ Spared(r)
  BY DEF IInv
<1>4. Placed(r)'
  BY <1>1, <1>3 DEF Placed, Applied
<1>5. Carried(r)'
  BY <1>1, <1>3 DEF Carried, Applied
<1>6. Spared(r)'
  BY <1>1, <1>3 DEF Spared, Applied, Touching
<1> QED BY <1>2, <1>4, <1>5, <1>6, PhaseOfOne DEF IInv

(* Of the targets, the check sees what is dirty, or it is exposed.         *)
LEMMA CheckKeeps ==
  ASSUME IInv, NEW r \in Runners, CheckClean(r) PROVE IInv'
<1>1. /\ pc[r] = "check" /\ pc'[r] = "apply" /\ pc' \in [Runners -> Labels]
      /\ UNCHANGED <<head, commit, index, tree, remote, pr, closed>>
      /\ UNCHANGED <<queue, issue, targets, changed, inert>>
  BY DEF CheckClean, Move, git, gitHub, IInv, TypeOK, Labels, Touching
<1>2. exposed'[r] = targets[r] \cap (Misread \cup Folded) /\ exposed' \in [Runners -> SUBSET Files]
  BY DEF CheckClean, IInv, TypeOK
<1>3. \A f \in targets[r] \ exposed'[r] : f \in Files /\ f \notin Dirty
  BY <1>2 DEF CheckClean, DirtyPaths, IInv, TypeOK
<1>4. \A f \in targets[r] \ exposed'[r] : tree[f] = index[f]
  BY <1>3 DEF Dirty
<1>5. TypeOK' /\ MainUntouched' /\ ClosedMeansPr'
  BY <1>1, <1>2 DEF IInv, TypeOK, CheckoutTypes, MainUntouched, ClosedMeansPr
<1>6. Placed(r) /\ Carried(r)
  BY DEF IInv
<1>7. Placed(r)' /\ Carried(r)'
  BY <1>1, <1>6 DEF Placed, Carried, Applied
<1>8. Spared(r)'
  BY <1>1, <1>4 DEF Spared, Touching
<1> QED BY <1>5, <1>7, <1>8, PhaseOfOne DEF IInv

(* The issue is left, with the working tree in whatever state.             *)
LEMMA LeaveKeeps ==
  ASSUME IInv, NEW r \in Runners, NEW from \in Labels, Leave(r, from),
         tree' \in Snapshots, UNCHANGED <<head, commit, index, remote, pr>>,
         \/ UNCHANGED closed
         \/ /\ closed' = closed \cup {issue[r]} /\ issue[r] \in Issues \ queue[r]
            /\ issue[r] \in pr /\ issue[r] \in remote \cup inert
  PROVE  IInv'
<1>1. /\ pc'[r] = "next" /\ changed'[r] = {}
      /\ pc' \in [Runners -> Labels] /\ issue' \in [Runners -> Issues \cup {NoIssue}]
      /\ targets' \in [Runners -> SUBSET Files] /\ changed' \in [Runners -> SUBSET Files]
      /\ exposed' \in [Runners -> SUBSET Files] /\ UNCHANGED <<queue, inert>>
  BY DEF Leave, Move, IInv, TypeOK, Labels
<1>2. TypeOK'
  BY <1>1 DEF IInv, TypeOK, CheckoutTypes
<1>3. MainUntouched' /\ ClosedMeansPr'
  BY <1>1 DEF IInv, MainUntouched, ClosedMeansPr
<1>4. Placed(r)
  BY DEF IInv
<1>5. Placed(r)' /\ Carried(r)' /\ Spared(r)'
  BY <1>1, <1>4 DEF Placed, Carried, Spared, Applied, Touching
<1> QED BY <1>2, <1>3, <1>5, PhaseOfOne DEF IInv

LEMMA WrittenIs ==
  ASSUME IInv, NEW r \in Runners, issue[r] \in Issues,
         NEW S \in SUBSET Files, NEW C \in SUBSET S
  PROVE  /\ Written(r, S, C) \in Snapshots
         /\ \A f \in S : issue[r] \in Written(r, S, C)[f]
         /\ \A f \in Files : Op \in Written(r, S, C)[f] => Op \in tree[f]
         /\ \A f \in Files \ C : Op \in tree[f] => Op \in Written(r, S, C)[f]
         /\ \A f \in Files \ S : Written(r, S, C)[f] = tree[f]
<1>1. \A f \in Files : tree[f] \in Contents
  BY DEF IInv, TypeOK, CheckoutTypes, Snapshots
<1>2. \A f \in Files : /\ Edited(f, issue[r]) \in Contents /\ issue[r] \in Edited(f, issue[r])
                       /\ Op \in Edited(f, issue[r]) <=> Op \in tree[f]
  BY EditedIs, Names, CheckoutAssumption DEF IInv
<1>3. {issue[r]} \in Contents /\ issue[r] # Op
  BY Names DEF Contents
<1> QED BY <1>1, <1>2, <1>3 DEF Written, Snapshots

LEMMA RevertKeeps ==
  ASSUME IInv, NEW r \in Runners, NEW from \in Labels, Revert(r, from) PROVE IInv'
<1>1. /\ Leave(r, from) /\ tree' = Restored(changed[r])
      /\ UNCHANGED <<head, commit, index, remote, pr, closed>>
  BY DEF Revert, Restore, gitHub
<1>2. tree \in Snapshots /\ index \in Snapshots
  BY DEF IInv, TypeOK, CheckoutTypes
<1>3. tree' \in Snapshots
  BY <1>1, <1>2 DEF Restored, Snapshots
<1> QED BY <1>1, <1>3, LeaveKeeps

LEMMA ApplyKeeps ==
  ASSUME IInv, NEW r \in Runners, Apply(r) PROVE IInv'
<1>1. PICK S \in SUBSET targets[r] : \E C \in SUBSET S :
         /\ tree' = Written(r, S, C)
         /\ inert' = IF S = {} THEN inert \cup {issue[r]} ELSE inert \ {issue[r]}
  BY DEF Apply
<1>2. /\ pc[r] = "apply" /\ pc'[r] = "validate" /\ pc' \in [Runners -> Labels]
      /\ changed'[r] = targets[r] /\ changed' \in [Runners -> SUBSET Files]
      /\ UNCHANGED <<head, commit, index, remote, pr, closed, queue, issue, targets, exposed>>
  BY DEF Apply, Move, gitHub, IInv, TypeOK, Labels, Touching
<1>3. /\ issue[r] \in Issues \ closed /\ targets[r] \in SUBSET Files
      /\ Spared(r) /\ Placed(r)
  BY <1>2 DEF IInv, TypeOK, Placed
<1>4. S \in SUBSET Files
  BY <1>3
<1>12. PICK C \in SUBSET S : tree' = Written(r, S, C)
  BY <1>1
<1>5. /\ tree' \in Snapshots
      /\ \A f \in S : issue[r] \in tree'[f]
      /\ \A f \in Files : Op \in tree'[f] => Op \in tree[f]
  BY <1>3, <1>4, <1>12, WrittenIs
<1>6. inert' \in SUBSET Issues /\ inert' \ {issue[r]} = inert \ {issue[r]}
  BY <1>1, <1>3 DEF IInv, TypeOK
<1>7. issue[r] \notin inert' => \E f \in targets[r] : issue[r] \in tree'[f]
  BY <1>1, <1>5
<1>8. TypeOK' /\ MainUntouched'
  BY <1>2, <1>5, <1>6 DEF IInv, TypeOK, CheckoutTypes, MainUntouched
<1>9. ClosedMeansPr'
  BY <1>2, <1>3, <1>6 DEF IInv, ClosedMeansPr
<1>10. Placed(r)' /\ Carried(r)'
  BY <1>2, <1>3, <1>7 DEF Placed, Carried, Applied
<1>11. Spared(r)'
  BY <1>2, <1>3, <1>5 DEF Spared, Touching
<1> QED BY <1>8, <1>9, <1>10, <1>11, PhaseOfOne DEF IInv

LEMMA BranchOffKeeps ==
  ASSUME IInv, NEW r \in Runners, BranchOff(r) PROVE IInv'
<1>1. /\ pc[r] = "branch" /\ pc'[r] = "verify" /\ pc' \in [Runners -> Labels]
      /\ head' = issue[r] /\ commit' = [commit EXCEPT ![issue[r]] = commit[head]]
      /\ UNCHANGED <<index, tree, remote, pr, closed, queue, issue, targets, changed, exposed, inert>>
  BY DEF BranchOff, Move, CheckoutB, Keep, history, gitHub, IInv, TypeOK, Labels, Touching
<1>2. issue[r] \in Issues /\ issue[r] # Main /\ Placed(r) /\ Carried(r) /\ Spared(r)
  BY <1>1, Names DEF IInv, Placed
<1>3. head' \in Branches /\ commit' \in [Branches -> Snapshots] /\ commit'[Main] = commit[Main]
  BY <1>1, <1>2 DEF IInv, TypeOK, CheckoutTypes, Branches
<1>4. TypeOK' /\ MainUntouched' /\ ClosedMeansPr'
  BY <1>1, <1>3 DEF IInv, TypeOK, CheckoutTypes, MainUntouched, ClosedMeansPr
<1>5. Placed(r)' /\ Carried(r)' /\ Spared(r)'
  BY <1>1, <1>2 DEF Placed, Carried, Spared, Applied, Touching
<1> QED BY <1>4, <1>5, PhaseOfOne DEF IInv

(* The index takes what the working tree holds.                            *)
LEMMA AddingIs ==
  ASSUME TypeOK, NEW S \in SUBSET Files, AddFiles(S)
  PROVE  /\ UNCHANGED <<head, commit, tree>> /\ index' \in Snapshots
         /\ \A f \in Files : index'[f] = IF f \in S THEN tree[f] ELSE index[f]
BY DEF AddFiles, TypeOK, CheckoutTypes, Snapshots

LEMMA AddKeeps ==
  ASSUME IInv, NEW r \in Runners, Add(r) PROVE IInv'
<1>1. /\ pc[r] = "add" /\ pc'[r] = "commit" /\ pc' \in [Runners -> Labels]
      /\ AddFiles(changed[r]) /\ changed[r] \in SUBSET Files /\ targets[r] \in SUBSET Files
      /\ UNCHANGED <<remote, pr, closed, queue, issue, targets, changed, exposed, inert>>
  BY DEF Add, Move, Keep, history, gitHub, IInv, TypeOK, Labels, Touching
<1>2. Placed(r) /\ Carried(r) /\ Spared(r) /\ changed[r] = targets[r]
  BY <1>1 DEF IInv, Placed, Applied
<1>3. /\ UNCHANGED <<head, commit, tree>> /\ index' \in Snapshots
      /\ \A f \in targets[r] : index'[f] = tree[f]
  BY <1>1, <1>2, AddingIs DEF IInv
<1>4. TypeOK' /\ MainUntouched' /\ ClosedMeansPr'
  BY <1>1, <1>3 DEF IInv, TypeOK, CheckoutTypes, MainUntouched, ClosedMeansPr
<1>5. Placed(r)' /\ Carried(r)' /\ Spared(r)'
  BY <1>1, <1>2, <1>3 DEF Placed, Carried, Spared, Applied, Touching
<1> QED BY <1>4, <1>5, PhaseOfOne DEF IInv

LEMMA AddFailsKeeps ==
  ASSUME IInv, NEW r \in Runners, AddFails(r) PROVE IInv'
<1>1. /\ pc[r] = "add" /\ pc'[r] = "leave" /\ pc' \in [Runners -> Labels]
      /\ changed[r] \in SUBSET Files /\ targets[r] \in SUBSET Files
      /\ UNCHANGED <<remote, pr, closed, queue, issue, targets, changed, exposed, inert>>
  BY DEF AddFails, Move, Keep, history, gitHub, IInv, TypeOK, Labels, Touching
<1>2. PICK S \in SUBSET changed[r] : AddFiles(S)
  BY DEF AddFails
<1>3. Placed(r) /\ Spared(r)
  BY DEF IInv
<1>4. S \in SUBSET Files
  BY <1>1, <1>2
<1>5. /\ UNCHANGED <<head, commit, tree>> /\ index' \in Snapshots
      /\ \A f \in Files : index'[f] \in {tree[f], index[f]}
  BY <1>2, <1>4, AddingIs DEF IInv
<1>6. TypeOK' /\ MainUntouched' /\ ClosedMeansPr'
  BY <1>1, <1>5 DEF IInv, TypeOK, CheckoutTypes, MainUntouched, ClosedMeansPr
<1>7. Placed(r)' /\ Carried(r)' /\ Spared(r)'
  BY <1>1, <1>3, <1>5 DEF Placed, Carried, Spared, Applied, Touching
<1> QED BY <1>6, <1>7, PhaseOfOne DEF IInv

LEMMA CommitKeeps ==
  ASSUME IInv, NEW r \in Runners, Commit(r) PROVE IInv'
<1>1. /\ pc[r] = "commit" /\ pc'[r] = "push" /\ pc' \in [Runners -> Labels]
      /\ commit' = [commit EXCEPT ![head] = index]
      /\ UNCHANGED <<head, index, tree, remote, pr, closed, queue, issue, targets, changed, exposed, inert>>
  BY DEF Commit, Move, CommitIndex, Keep, history, gitHub, IInv, TypeOK, Labels, Touching
<1>2. /\ Placed(r) /\ Carried(r) /\ Spared(r)
      /\ issue[r] \in Issues /\ head = issue[r] /\ head # Main
  BY <1>1, Names DEF IInv, Placed
<1>3. /\ commit' \in [Branches -> Snapshots] /\ commit'[Main] = commit[Main]
      /\ commit'[issue[r]] = index
  BY <1>1, <1>2 DEF IInv, TypeOK, CheckoutTypes, Branches
<1>4. TypeOK' /\ MainUntouched' /\ ClosedMeansPr'
  BY <1>1, <1>3 DEF IInv, TypeOK, CheckoutTypes, MainUntouched, ClosedMeansPr
<1>5. Placed(r)' /\ Carried(r)' /\ Spared(r)'
  BY <1>1, <1>2, <1>3 DEF Placed, Carried, Spared, Applied, Touching
<1> QED BY <1>4, <1>5, PhaseOfOne DEF IInv

(* What is pushed carries the edit, unless the proposal was inert.         *)
LEMMA PushKeeps ==
  ASSUME IInv, NEW r \in Runners, Push(r) PROVE IInv'
<1>1. /\ pc[r] = "push" /\ pc'[r] = "create" /\ pc' \in [Runners -> Labels]
      /\ UNCHANGED <<head, commit, index, tree, pr, closed, queue, issue, targets, changed, exposed, inert>>
  BY DEF Push, Move, Keep, history, git, IInv, TypeOK, Labels, Touching
<1>2. Placed(r) /\ Carried(r) /\ Spared(r) /\ issue[r] \in Issues \ closed
  BY <1>1 DEF IInv, Placed
<1>3. issue[r] \notin inert => \E f \in Files : issue[r] \in commit[issue[r]][f]
  BY <1>1, <1>2 DEF IInv, TypeOK, Placed, Carried
<1>4. /\ remote' \in SUBSET Issues /\ remote' \ {issue[r]} = remote \ {issue[r]}
      /\ issue[r] \notin inert => issue[r] \in remote'
  BY <1>2, <1>3 DEF Push, IInv, TypeOK
<1>5. TypeOK' /\ MainUntouched' /\ ClosedMeansPr'
  BY <1>1, <1>2, <1>4 DEF IInv, TypeOK, CheckoutTypes, MainUntouched, ClosedMeansPr
<1>6. Placed(r)' /\ Carried(r)' /\ Spared(r)'
  BY <1>1, <1>2, <1>4 DEF Placed, Carried, Spared, Applied, Touching
<1> QED BY <1>5, <1>6, PhaseOfOne DEF IInv

LEMMA CreateKeeps ==
  ASSUME IInv, NEW r \in Runners, CreatePr(r) \/ CreateTimesOut(r) PROVE IInv'
<1>1. /\ pc[r] = "create" /\ pc'[r] \in {"left", "leave"} /\ pc' \in [Runners -> Labels]
      /\ pr' = pr \cup {issue[r]}
      /\ UNCHANGED <<head, commit, index, tree, remote, closed>>
      /\ UNCHANGED <<queue, issue, targets, changed, exposed, inert>>
  BY DEF CreatePr, CreateTimesOut, Move, Keep, history, git, IInv, TypeOK, Labels, Touching
<1>2. Placed(r) /\ Carried(r) /\ Spared(r) /\ issue[r] \in Issues
  BY <1>1 DEF IInv, Placed
<1>3. TypeOK' /\ MainUntouched' /\ ClosedMeansPr'
  BY <1>1, <1>2 DEF IInv, TypeOK, CheckoutTypes, MainUntouched, ClosedMeansPr
<1>4. Placed(r)' /\ Carried(r)' /\ Spared(r)'
  BY <1>1, <1>2 DEF Placed, Carried, Spared, Applied, Touching
<1> QED BY <1>3, <1>4, PhaseOfOne DEF IInv

(* The files that change are the clean ones; they become main's.           *)
LEMMA SwitchIs ==
  ASSUME TypeOK, NEW b \in Branches, Switch(b)
  PROVE  /\ head' = b /\ UNCHANGED commit
         /\ index' \in Snapshots /\ tree' \in Snapshots
         /\ \A f \in Files : \/ tree'[f] = tree[f] /\ index'[f] = index[f]
                             \/ tree'[f] = index'[f]
         /\ \A f \in Dirty : tree'[f] = tree[f]
<1>1. commit[b] \in Snapshots /\ index \in Snapshots /\ tree \in Snapshots
  BY DEF TypeOK, CheckoutTypes
<1> QED BY <1>1 DEF Switch, Snapshots, Dirty

LEMMA BackToMainKeeps ==
  ASSUME IInv, NEW r \in Runners, BackToMain(r) PROVE IInv'
<1>1. /\ \/ pc[r] = "left" /\ pc'[r] = "close"
         \/ pc[r] = "leave" /\ pc'[r] = "raised"
      /\ pc' \in [Runners -> Labels] /\ Switch(Main)
      /\ UNCHANGED <<remote, pr, closed, queue, issue, targets, changed, exposed, inert>>
  BY DEF BackToMain, Move, Keep, history, gitHub, IInv, TypeOK, Labels, Touching
<1>2. Placed(r) /\ Carried(r) /\ Spared(r) /\ targets[r] \in SUBSET Files
  BY DEF IInv, TypeOK
<1>3. /\ head' = Main /\ UNCHANGED commit
      /\ index' \in Snapshots /\ tree' \in Snapshots
      /\ \A f \in Files : \/ tree'[f] = tree[f] /\ index'[f] = index[f]
                          \/ tree'[f] = index'[f]
  BY <1>1, SwitchIs DEF IInv, Branches
<1>4. TypeOK' /\ MainUntouched' /\ ClosedMeansPr'
  BY <1>1, <1>3 DEF IInv, TypeOK, CheckoutTypes, Branches, MainUntouched, ClosedMeansPr
<1>5. Placed(r)' /\ Carried(r)'
  BY <1>1, <1>2 DEF Placed, Carried, Applied
<1>6. Spared(r)'
  BY <1>1, <1>2, <1>3 DEF Spared, Touching
<1> QED BY <1>4, <1>5, <1>6, PhaseOfOne DEF IInv

(* Before anything is applied: only r's own variables change.              *)
LEMMA ChooseKeeps ==
  ASSUME IInv, NEW r \in Runners, Fetch(r) \/ NextIssue(r) \/ Propose(r) \/ Kill(r)
  PROVE  IInv'
<1>1. /\ pc' \in [Runners -> Labels] /\ queue' \in [Runners -> SUBSET Issues]
      /\ issue' \in [Runners -> Issues \cup {NoIssue}]
      /\ targets' \in [Runners -> SUBSET Files] /\ changed' \in [Runners -> SUBSET Files]
      /\ exposed' \in [Runners -> SUBSET Files]
      /\ UNCHANGED <<head, commit, index, tree, remote, pr, closed, inert>>
      /\ pc'[r] \in {"idle", "next", "ask", "check"}
  <2>1. CASE Fetch(r)
    BY <2>1 DEF Fetch, Move, history, git, gitHub, IInv, TypeOK, Labels
  <2>2. CASE NextIssue(r)
    BY <2>2 DEF NextIssue, Move, history, git, gitHub, IInv, TypeOK, Labels
  <2>3. CASE Propose(r)
    <3>1. pc[r] = "ask" /\ issue[r] \in Issues
      BY <2>3 DEF Propose, Move, IInv, Placed
    <3>2. Proposals[issue[r]] \in SUBSET SUBSET Files
      BY <3>1, RunnersAssumption
    <3> QED BY <2>3, <3>2 DEF Propose, Move, history, git, gitHub, IInv, TypeOK, Labels
  <2>4. CASE Kill(r)
    BY <2>4 DEF Kill, git, gitHub, IInv, TypeOK, Labels
  <2> QED BY <2>1, <2>2, <2>3, <2>4
<1>2. Placed(r)'
  <2>1. CASE Fetch(r)
    BY <2>1, <1>1 DEF Fetch, Move, IInv, TypeOK, Placed, Applied
  <2>2. CASE NextIssue(r)
    BY <2>2, <1>1 DEF NextIssue, Move, IInv, TypeOK, Placed, Applied
  <2>3. CASE Propose(r)
    <3>1. pc[r] = "ask" /\ issue[r] \in Issues /\ Placed(r)
      BY <2>3 DEF Propose, Move, IInv, Placed
    <3>2. Proposals[issue[r]] \in SUBSET SUBSET Files
      BY <3>1, RunnersAssumption
    <3> QED BY <2>3, <3>1, <3>2, <1>1 DEF Propose, Move, IInv, TypeOK, Placed, Applied
  <2>4. CASE Kill(r)
    BY <2>4, <1>1 DEF Kill, IInv, TypeOK, Placed, Applied
  <2> QED BY <2>1, <2>2, <2>3, <2>4
<1>3. TypeOK' /\ MainUntouched' /\ ClosedMeansPr'
  BY <1>1 DEF IInv, TypeOK, CheckoutTypes, MainUntouched, ClosedMeansPr
<1>4. Carried(r)' /\ Spared(r)'
  BY <1>1 DEF Carried, Spared, Touching
<1> QED BY <1>2, <1>3, <1>4, PhaseOfOne DEF IInv

LEMMA LeavingKeeps ==
  ASSUME IInv, NEW r \in Runners,
         ProposeFails(r) \/ SkipDirty(r) \/ ApplyRaises(r) \/ CloseIssue(r)
  PROVE  IInv'
<1>1. tree \in Snapshots
  BY DEF IInv, TypeOK, CheckoutTypes
<1>2. CASE ProposeFails(r) \/ SkipDirty(r)
  <2>1. PICK from \in Labels : Leave(r, from)
    BY <1>2 DEF ProposeFails, SkipDirty, Labels
  <2> QED BY <1>1, <1>2, <2>1, LeaveKeeps DEF ProposeFails, SkipDirty, git, gitHub
<1>3. CASE ApplyRaises(r)
  <2>1. Leave(r, "apply") /\ "apply" \in Labels /\ pc[r] = "apply"
    BY <1>3 DEF ApplyRaises, Labels, Touching, Leave, Move
  <2>2. PICK S \in SUBSET targets[r] : \E C \in SUBSET S : tree' = Written(r, S, C)
    BY <1>3 DEF ApplyRaises
  <2>3. issue[r] \in Issues /\ S \in SUBSET Files
    BY <2>1, <2>2 DEF IInv, TypeOK, Placed
  <2>4. tree' \in Snapshots
    BY <2>2, <2>3, WrittenIs
  <2> QED BY <1>3, <2>1, <2>4, LeaveKeeps DEF ApplyRaises, gitHub
<1>4. CASE CloseIssue(r)
  <2>1. Leave(r, "close") /\ "close" \in Labels /\ pc[r] = "close"
    BY <1>4 DEF CloseIssue, Labels, Touching, Leave, Move
  <2>2. issue[r] \in Issues \ queue[r] /\ issue[r] \in pr /\ issue[r] \in remote \cup inert
    BY <2>1 DEF IInv, Placed, Carried
  <2> QED BY <1>1, <1>4, <2>1, <2>2, LeaveKeeps DEF CloseIssue, git
<1> QED BY <1>2, <1>3, <1>4

LEMMA GoingKeeps ==
  ASSUME IInv, NEW r \in Runners,
         \/ Done(r) \/ Validates(r) \/ BranchFails(r) \/ VerifyHead(r)
         \/ Fail(r) \/ StayOnBranch(r) \/ CloseFails(r)
  PROVE  IInv'
<1> USE GoKeeps DEF Labels, Touching, Applied
<1>1. CASE Done(r) BY <1>1 DEF Done
<1>3. CASE Validates(r) BY <1>3 DEF Validates
<1>4. CASE BranchFails(r) BY <1>4 DEF BranchFails
<1>5. CASE VerifyHead(r)
  <2>1. CASE head = issue[r] BY <1>5, <2>1 DEF VerifyHead
  <2>2. CASE head # issue[r] BY <1>5, <2>2 DEF VerifyHead
  <2> QED BY <2>1, <2>2
<1>6. CASE Fail(r)
  <2>1. PICK from \in {"commit", "push", "create"} : Go(r, from, "leave")
    BY <1>6 DEF Fail
  <2> QED BY <2>1
<1>7. CASE StayOnBranch(r) BY <1>7 DEF StayOnBranch
<1>8. CASE CloseFails(r) BY <1>8 DEF CloseFails
<1> QED BY <1>1, <1>3, <1>4, <1>5, <1>6, <1>7, <1>8

(* What the operator edits in a target of a cycle that has checked it is   *)
(* exposed.                                                                *)
LEMMA OperatorWorksKeeps ==
  ASSUME IInv, NEW f \in Desk, OperatorWorks(f) PROVE IInv'
<1>1. /\ f \in Files /\ exposed' \in [Runners -> SUBSET Files]
      /\ \A r \in Runners : exposed[r] \subseteq exposed'[r]
      /\ tree' = [tree EXCEPT ![f] = Edited(f, Op)]
      /\ UNCHANGED <<head, commit, index, pc, queue, issue, targets, changed, remote, pr, closed, inert>>
  BY RunnersAssumption DEF OperatorWorks, OperatorEdits, work, gitHub, IInv, TypeOK
<1>2. /\ Edited(f, Op) \in Contents
      /\ \A n \in Issues : n \in tree[f] => n \in Edited(f, Op)
  BY <1>1, EditedIs, Names DEF IInv
<1>3. /\ tree' \in Snapshots
      /\ \A g \in Files : \A n \in Issues : n \in tree[g] => n \in tree'[g]
      /\ \A g \in Files \ {f} : tree'[g] = tree[g]
  BY <1>1, <1>2 DEF IInv, TypeOK, CheckoutTypes, Snapshots
<1>4. TypeOK' /\ MainUntouched' /\ ClosedMeansPr'
  BY <1>1, <1>3 DEF IInv, TypeOK, CheckoutTypes, MainUntouched, ClosedMeansPr
<1>5. ASSUME NEW r \in Runners PROVE Placed(r)' /\ Carried(r)' /\ Spared(r)'
  <2>1. Placed(r) /\ Carried(r) /\ Spared(r) /\ targets[r] \in SUBSET Files
    BY DEF IInv, TypeOK
  <2>2. pc[r] \notin {"idle", "next"} => issue[r] \in Issues
    BY <2>1 DEF Placed
  <2>3. Placed(r)' /\ Carried(r)'
    BY <1>1, <1>3, <2>1, <2>2 DEF Placed, Carried, Applied
  <2>4. pc[r] \in Touching => f \notin targets[r] \ exposed'[r]
    BY DEF OperatorWorks
  <2>5. Spared(r)'
    BY <1>1, <1>3, <2>1, <2>4 DEF Spared, Touching
  <2> QED BY <2>3, <2>5
<1> QED BY <1>4, <1>5 DEF IInv, OneRunner

LEMMA OperatorAddsKeeps ==
  ASSUME IInv, NEW f \in Desk, OperatorAdds(f) PROVE IInv'
<1>1. /\ f \in Files /\ AddFiles({f})
      /\ UNCHANGED <<pc, queue, issue, targets, changed, remote, pr, closed, exposed, inert>>
  BY RunnersAssumption DEF OperatorAdds, OperatorStages, history, work, gitHub
<1>2. /\ UNCHANGED <<head, commit, tree>> /\ index' \in Snapshots
      /\ \A g \in Files : index'[g] \in {tree[g], index[g]}
  BY <1>1, AddingIs DEF IInv
<1>3. TypeOK' /\ MainUntouched' /\ ClosedMeansPr'
  BY <1>1, <1>2 DEF IInv, TypeOK, CheckoutTypes, MainUntouched, ClosedMeansPr
<1>4. ASSUME NEW r \in Runners PROVE Placed(r)' /\ Carried(r)' /\ Spared(r)'
  <2>1. Placed(r) /\ Carried(r) /\ Spared(r) /\ targets[r] \in SUBSET Files
    BY DEF IInv, TypeOK
  <2>2. Placed(r)' /\ Carried(r)'
    BY <1>1, <1>2, <2>1 DEF Placed, Carried, Applied
  <2>3. Spared(r)'
    BY <1>1, <1>2, <2>1 DEF Spared, Touching
  <2> QED BY <2>2, <2>3
<1> QED BY <1>3, <1>4 DEF IInv, OneRunner

LEMMA StepKeeps == IInv /\ [Next]_vars => IInv'
<1> SUFFICES ASSUME IInv, [Next]_vars PROVE IInv'
  OBVIOUS
<1>1. ASSUME NEW r \in Runners, Cycle(r) PROVE IInv'
  <2>1. CASE Fetch(r) \/ NextIssue(r) \/ Propose(r) \/ Kill(r)
    BY <2>1, ChooseKeeps
  <2>2. CASE ProposeFails(r) \/ SkipDirty(r) \/ ApplyRaises(r) \/ CloseIssue(r)
    BY <2>2, LeavingKeeps
  <2>12. CASE CheckClean(r)
    BY <2>12, CheckKeeps
  <2>3. CASE \/ Done(r) \/ Validates(r) \/ BranchFails(r) \/ VerifyHead(r)
             \/ Fail(r) \/ StayOnBranch(r) \/ CloseFails(r)
    BY <2>3, GoingKeeps
  <2>4. CASE Apply(r)
    BY <2>4, ApplyKeeps
  <2>5. CASE ValidationFails(r) \/ RevertRaised(r)
    BY <2>5, RevertKeeps DEF ValidationFails, RevertRaised, Labels, Touching
  <2>6. CASE BranchOff(r)
    BY <2>6, BranchOffKeeps
  <2>7. CASE Add(r) \/ AddFails(r)
    BY <2>7, AddKeeps, AddFailsKeeps
  <2>8. CASE Commit(r)
    BY <2>8, CommitKeeps
  <2>9. CASE Push(r)
    BY <2>9, PushKeeps
  <2>10. CASE CreatePr(r) \/ CreateTimesOut(r)
    BY <2>10, CreateKeeps
  <2>11. CASE BackToMain(r)
    BY <2>11, BackToMainKeeps
  <2> QED BY <1>1, <2>1, <2>2, <2>3, <2>4, <2>5, <2>6, <2>7, <2>8, <2>9, <2>10, <2>11, <2>12 DEF Cycle
<1>2. CASE \E f \in Desk : OperatorWorks(f) \/ OperatorAdds(f)
  BY <1>2, OperatorWorksKeeps, OperatorAddsKeeps
<1>3. CASE UNCHANGED vars
  BY <1>3 DEF vars, history, git, work, gitHub, IInv, OneRunner, TypeOK, CheckoutTypes, MainUntouched,
     ClosedMeansPr, Placed, Carried, Spared
<1> QED BY <1>1, <1>2, <1>3 DEF Next

LEMMA Invariance == OneRunner /\ Spec => []IInv
BY InitEstablishes, StepKeeps, PTL DEF Spec

-----------------------------------------------------------------------------
(* With one runner, self_improve_runner.py keeps every variable typed.     *)
THEOREM TypeCorrect == OneRunner /\ Spec => []TypeOK
<1>1. IInv => TypeOK
  BY DEF IInv
<1> QED BY <1>1, Invariance, PTL

(* Wherever git or gh fails and wherever the process is killed, main gets  *)
(* no commit of create_improvement_pr.                                     *)
THEOREM MainNeverCommitted == OneRunner /\ Spec => []MainUntouched
<1>1. IInv => MainUntouched
  BY DEF IInv
<1> QED BY <1>1, Invariance, PTL

(* close_issue runs only under a pull request, and with the change of the  *)
(* issue on GitHub if the proposal changed anything.                       *)
THEOREM ClosedNeedsPr == OneRunner /\ Spec => []ClosedMeansPr
<1>1. IInv => ClosedMeansPr
  BY DEF IInv
<1> QED BY <1>1, Invariance, PTL

-----------------------------------------------------------------------------
Unstaged(f) == Op \in tree[f] /\ tree[f] # index[f] /\ index[f] = commit[head][f]

(* Apply finds its targets clean; a revert puts back what was staged; and  *)
(* git checkout main leaves a dirty file alone.                            *)
LEMMA UnstagedKept ==
  ASSUME IInv, Next, NEW f \in Files \ UNION {exposed[r] : r \in Runners}, Unstaged(f) PROVE Op \in tree'[f]
<1>1. ASSUME NEW r \in Runners, Cycle(r) PROVE Op \in tree'[f]
  <2>0. Placed(r) /\ Spared(r) /\ targets[r] \in SUBSET Files /\ f \notin exposed[r]
    BY DEF IInv, TypeOK
  <2>1. CASE Apply(r) \/ ApplyRaises(r)
    <3>1. pc[r] = "apply"
      BY <2>1 DEF Apply, ApplyRaises, Leave, Move
    <3>2. issue[r] \in Issues /\ f \notin targets[r]
      BY <2>0, <3>1 DEF Placed, Spared, Unstaged
    <3>3. PICK S \in SUBSET targets[r] : \E C \in SUBSET S : tree' = Written(r, S, C)
      BY <2>1 DEF Apply, ApplyRaises
    <3>4. S \in SUBSET Files /\ f \in Files \ S
      BY <2>0, <3>2
    <3>5. \A C \in SUBSET S : Written(r, S, C)[f] = tree[f]
      BY <3>2, <3>4, WrittenIs
    <3> QED BY <3>3, <3>5 DEF Unstaged
  <2>2. CASE ValidationFails(r) \/ RevertRaised(r)
    <3>1. pc[r] \in {"validate", "raised"} /\ tree' = Restored(changed[r])
      BY <2>2 DEF ValidationFails, RevertRaised, Revert, Leave, Move, Restore
    <3>2. f \in changed[r] => Op \in index[f]
      BY <2>0, <3>1 DEF Placed, Spared, Applied, Touching, Unstaged
    <3> QED BY <3>1, <3>2 DEF Restored, Unstaged
  <2>3. CASE BackToMain(r)
    <3>1. Switch(Main) /\ f \in Dirty
      BY <2>3 DEF BackToMain, Dirty, Unstaged
    <3>2. tree'[f] = tree[f]
      BY <3>1, SwitchIs DEF IInv, Branches
    <3> QED BY <3>2 DEF Unstaged
  <2>4. CASE ~(Apply(r) \/ ApplyRaises(r) \/ ValidationFails(r) \/ RevertRaised(r) \/ BackToMain(r))
    <3>1. UNCHANGED tree
      BY <1>1, <2>4 DEF Cycle, Fetch, NextIssue, Done, Propose, ProposeFails, CheckClean, SkipDirty,
         Validates, BranchOff, BranchFails, VerifyHead, Add, AddFails, Commit, Push, CreatePr,
         CreateTimesOut, Fail, StayOnBranch, CloseIssue, CloseFails, Kill, Go, git,
         CheckoutB, AddFiles, CommitIndex
    <3> QED BY <3>1 DEF Unstaged
  <2> QED BY <2>1, <2>2, <2>3, <2>4
<1>2. ASSUME NEW g \in Desk, OperatorWorks(g) PROVE Op \in tree'[f]
  <2>1. g \in Files /\ tree' = [tree EXCEPT ![g] = Edited(g, Op)] /\ Op \in Edited(g, Op)
    BY <1>2, EditedIs, RunnersAssumption DEF OperatorWorks, OperatorEdits, IInv
  <2> QED BY <2>1 DEF Unstaged, IInv, TypeOK, CheckoutTypes, Snapshots
<1>3. ASSUME NEW g \in Desk, OperatorAdds(g) PROVE Op \in tree'[f]
  BY <1>3 DEF OperatorAdds, OperatorStages, AddFiles, Unstaged
<1> QED BY <1>1, <1>2, <1>3 DEF Next

(* No step of the cycle loses unstaged work of the operator that the check *)
(* of the working tree could see.                                          *)
THEOREM UnstagedWorkKept == OneRunner /\ Spec => WipKept
<1>1. IInv /\ [Next]_vars =>
        [\A f \in Files \ UNION {exposed[r] : r \in Runners} :
           Op \in tree[f] /\ tree[f] # index[f] /\ index[f] = commit[head][f]
             => Op \in tree'[f]]_vars
  BY UnstagedKept DEF Unstaged
<1> QED BY <1>1, Invariance, PTL DEF Spec, WipKept

-----------------------------------------------------------------------------
(* The siphon.                                                             *)

(* A board on which a pass finds nothing, pass by pass.                    *)
Similar == {p \in text.alike : InOneCategory(p)}

NoDuplicates(B) ==
  \A C \in Clusters(B \ text.supers, Similar) :
    \A i \in Fresh(C), j \in C : ~MoreFeasible(j, i)

NoSupers(B) ==
  \A i, j \in Fresh(B) \cap text.supers : {i, j} \in text.alike => ~MoreFeasible(j, i)

NoClones(B) ==
  \A s \in Stems :
    LET fresh == {i \in Fresh(B) : text.stem[i] = s}
    IN fresh \subseteq First(fresh, VerticalCap, MoreFeasible)

NoCross(links, B) ==
  \A C \in Clusters(Comparable(B), links) :
    ~InOneCategory(C) => \A i, j \in C : ~Protected(i) => ~Worthier(j, i)

Members(B, c) == {i \in B : text.category[i] = c}
Pool(B, c) == {i \in Members(B, c) : ~Protected(i)}
Room(B, c) ==
  LET guarded == Cardinality(Members(B, c) \ Pool(B, c))
  IN IF guarded < DensityCap THEN DensityCap - guarded ELSE 0

NoCrowd(B) ==
  \A c \in Categories \ {SelfImprovement} :
    Cardinality(Members(B, c)) > DensityCap =>
      Pool(B, c) \subseteq First(Pool(B, c), Room(B, c), Worthier)

Clean(pass, links, B) ==
  /\ pass = 1 => NoDuplicates(B)
  /\ pass = 2 => NoSupers(B)
  /\ pass = 3 => NoClones(B)
  /\ pass = 4 => NoCross(links, B)
  /\ pass = 5 => NoCrowd(B)

(* What the board will be once a run has archived what its pass planned.   *)
Left(r) == Board \ Due(r)

(* A run that nobody disturbs leaves a board that this pass and the ones   *)
(* before it find nothing on.                                              *)
Thorough(r) ==
  run[r].calm => \A pass \in 1..run[r].pass : Clean(pass, run[r].linked, Left(r))

(* What a pass planned to archive was new when it read the board.          *)
Careful(r) ==
  \A b \in run[r].todo : \A i \in b.gone : status[i] = "accepted" => i \in run[r].moved

(* P is what a pass archives in favour of: each of P is there, or gave way *)
(* in this pass to a better one of P.                                      *)
Steady(r, P) ==
  /\ \A b \in run[r].todo : b.keep \subseteq P
  /\ \A b \in run[r].todo : \A i \in b.gone \cap P :
       \E k \in P : b.keep = {k} /\ MoreFeasible(k, i)
  /\ \A i \in P : \/ favour[i] = {}
                  \/ \E k \in P : favour[i] = {k} /\ MoreFeasible(k, i)

SiphonIInv ==
  /\ SiphonTypeOK
  /\ \A r \in Runs : Careful(r) /\ Thorough(r)
  /\ \A r \in Runs : run[r].pass = 0 => run[r] = Idle
  /\ \A linked \in settled : \A pass \in 1..5 : Clean(pass, linked, Board)
  /\ ~overlapped =>
       /\ \A q, r \in Runs : q = r \/ run[q] = Idle \/ run[r] = Idle
       /\ \A i \in Board : favour[i] = {}
       /\ \A r \in Runs : \E P \in SUBSET Ideas : Steady(r, P)
       /\ Represented

-----------------------------------------------------------------------------
(* The order of a pass.                                                    *)

LEMMA FeasibleOrder ==
  ASSUME text \in Text, NEW i \in Ideas, NEW j \in Ideas, NEW k \in Ideas
  PROVE  /\ ~MoreFeasible(i, i)
         /\ MoreFeasible(i, j) /\ MoreFeasible(j, k) => MoreFeasible(i, k)
         /\ i # j => MoreFeasible(i, j) \/ MoreFeasible(j, i)
<1>1. text.feasibility \in [Ideas -> Nat] BY DEF Text
<1>2. {i, j, k} \subseteq Nat BY SiphonAssumption
<1>3. /\ text.feasibility[i] \in Nat /\ text.feasibility[j] \in Nat
      /\ text.feasibility[k] \in Nat
  BY <1>1
<1> HIDE DEF Text
<1> QED BY <1>2, <1>3 DEF MoreFeasible

LEMMA Finite == ASSUME NEW T \in SUBSET Ideas PROVE IsFiniteSet(T)
BY SiphonAssumption, FS_Subset

(* Whoever is better than few is better than fewer of a smaller set.       *)
LEMMA BestExists ==
  ASSUME text \in Text, NEW T \in SUBSET Ideas, T # {}
  PROVE  \E m \in T : \A j \in T : ~MoreFeasible(j, m)
<1> DEFINE Above(i) == {j \in T : MoreFeasible(j, i)}
           U == {Above(i) : i \in T}
<1>1. U \subseteq FiniteSubsetsOf(T)
  BY Finite, FS_Subset DEF FiniteSubsetsOf
<1>2. U # {}
  OBVIOUS
<1>3. PICK A \in U : \A B \in U : ~(<<B, A>> \in StrictSubsetOrdering(T))
  <2> HIDE DEF U
  <2> QED BY <1>1, <1>2, FS_StrictSubsetOrderingWellFounded, WFMin
<1>4. PICK m \in T : A = Above(m)
  OBVIOUS
<1>5. ASSUME NEW j \in T, MoreFeasible(j, m) PROVE FALSE
  <2>1. Above(j) \subseteq Above(m)
    BY <1>5, FeasibleOrder
  <2>2. j \in Above(m) /\ j \notin Above(j)
    BY <1>5, FeasibleOrder
  <2>3. <<Above(j), A>> \in StrictSubsetOrdering(T)
    BY <1>4, <2>1, <2>2 DEF StrictSubsetOrdering
  <2> QED BY <1>3, <2>3
<1> QED BY <1>5

LEMMA FirstIsBest ==
  ASSUME NEW T \in SUBSET Ideas, NEW i \in T
  PROVE  /\ i \in First(T, 1, MoreFeasible) <=> \A j \in T : ~MoreFeasible(j, i)
         /\ i \in First(T, 1, Worthier) <=> \A j \in T : ~Worthier(j, i)
<1>1. ASSUME NEW A \in SUBSET T PROVE Cardinality(A) < 1 <=> A = {}
  BY Finite, FS_EmptySet, FS_CardinalityType
<1>2. Cardinality({j \in T : MoreFeasible(j, i)}) < 1 <=> {j \in T : MoreFeasible(j, i)} = {}
  BY <1>1
<1>3. Cardinality({j \in T : Worthier(j, i)}) < 1 <=> {j \in T : Worthier(j, i)} = {}
  BY <1>1
<1> QED BY <1>2, <1>3 DEF First

LEMMA BestIsOne ==
  ASSUME text \in Text, NEW T \in SUBSET Ideas, T # {}
  PROVE  \E m \in T : First(T, 1, MoreFeasible) = {m}
<1>1. PICK m \in T : \A j \in T : ~MoreFeasible(j, m)
  BY BestExists
<1>2. m \in First(T, 1, MoreFeasible)
  BY <1>1, FirstIsBest
<1>3. ASSUME NEW i \in First(T, 1, MoreFeasible) PROVE i = m
  <2>1. i \in T
    BY DEF First
  <2>2. ~MoreFeasible(m, i)
    BY <2>1, FirstIsBest
  <2> QED BY <1>1, <2>1, <2>2, FeasibleOrder
<1> QED BY <1>2, <1>3

(* The first of a set are among the first of any part of it they are in.   *)
LEMMA FirstOfFewer ==
  ASSUME NEW T \in SUBSET Ideas, NEW U \in SUBSET T, NEW n \in Nat, NEW i \in U
  PROVE  /\ i \in First(T, n, MoreFeasible) => i \in First(U, n, MoreFeasible)
         /\ i \in First(T, n, Worthier) => i \in First(U, n, Worthier)
<1>1. ASSUME NEW A \in SUBSET T, NEW B \in SUBSET A, Cardinality(A) < n
      PROVE  Cardinality(B) < n
  BY <1>1, Finite, FS_Subset, FS_CardinalityType
<1>2. {j \in U : MoreFeasible(j, i)} \subseteq {j \in T : MoreFeasible(j, i)}
  OBVIOUS
<1>3. {j \in U : Worthier(j, i)} \subseteq {j \in T : Worthier(j, i)}
  OBVIOUS
<1>4. /\ {j \in T : MoreFeasible(j, i)} \in SUBSET T
      /\ {j \in T : Worthier(j, i)} \in SUBSET T
  OBVIOUS
<1>5. Cardinality({j \in T : MoreFeasible(j, i)}) < n
        => Cardinality({j \in U : MoreFeasible(j, i)}) < n
  BY <1>1, <1>2, <1>4
<1>6. Cardinality({j \in T : Worthier(j, i)}) < n
        => Cardinality({j \in U : Worthier(j, i)}) < n
  BY <1>1, <1>3, <1>4
<1> QED BY <1>5, <1>6 DEF First

-----------------------------------------------------------------------------
(* Clusters: the least sets closed under the links.                        *)

ClosedUnder(C, S, links) ==
  C # {} /\ C \subseteq S /\ \A i \in C, j \in S : {i, j} \in links => j \in C

LEMMA ClusterIs ==
  ASSUME NEW S, NEW links, NEW C
  PROVE  C \in Clusters(S, links) <=>
           /\ ClosedUnder(C, S, links)
           /\ \A D : ClosedUnder(D, S, links) /\ D \subseteq C => D = C
<1> DEFINE Closed == {E \in (SUBSET S) \ {{}} :
                        \A i \in E, j \in S : {i, j} \in links => j \in E}
<1>1. ASSUME NEW E PROVE E \in Closed <=> ClosedUnder(E, S, links)
  BY Zenon DEF ClosedUnder
<1>2. Clusters(S, links) = {E \in Closed : \A D \in Closed : D \subseteq E => D = E}
  BY DEF Clusters
<1> HIDE DEF Closed
<1> QED BY <1>1, <1>2

LEMMA ClusterOf ==
  ASSUME NEW S, NEW links, NEW i \in S
  PROVE  \E C \in Clusters(S, links) : i \in C
<1> DEFINE M == {j \in S : \A C : ClosedUnder(C, S, links) /\ i \in C => j \in C}
<1>1. i \in M /\ ClosedUnder(M, S, links)
  BY DEF ClosedUnder
<1>2. ASSUME NEW D, ClosedUnder(D, S, links), D \subseteq M PROVE M \subseteq D
  <2>1. CASE i \in D
    BY <1>2, <2>1
  <2>2. CASE i \notin D
    <3>1. ASSUME NEW j \in M \ D, NEW k \in S, {j, k} \in links PROVE k \in M \ D
      <4>1. k \in M
        BY <1>1, <3>1 DEF ClosedUnder
      <4>2. {k, j} = {j, k}
        OBVIOUS
      <4>3. k \notin D
        BY <1>1, <1>2, <3>1, <4>2 DEF ClosedUnder
      <4> QED BY <4>1, <4>3
    <3>2. ClosedUnder(M \ D, S, links)
      BY <1>1, <2>2, <3>1 DEF ClosedUnder
    <3>3. M \subseteq M \ D
      BY <1>1, <2>2, <3>2
    <3> QED BY <1>2, <3>3 DEF ClosedUnder
  <2> QED BY <2>1, <2>2
<1>3. M \in Clusters(S, links)
  <2> HIDE DEF M
  <2> QED BY <1>1, <1>2, ClusterIs
<1> QED BY <1>1, <1>3

(* What is left of a board, or fewer links, has smaller clusters.           *)
LEMMA ClusterShrinks ==
  ASSUME NEW S, NEW links, NEW C \in Clusters(S, links), NEW fewer \in SUBSET links,
         NEW U \in SUBSET S, NEW D \in Clusters(U, fewer), C \cap D # {}
  PROVE  D \subseteq C
<1>1. ClosedUnder(C, S, links) /\ ClosedUnder(D, U, fewer)
  BY ClusterIs
<1>2. ClosedUnder(C \cap D, U, fewer)
  BY <1>1 DEF ClosedUnder
<1>3. C \cap D = D
  BY <1>2, ClusterIs
<1> QED BY <1>3

LEMMA ClustersApart ==
  ASSUME NEW S, NEW links, NEW C \in Clusters(S, links),
         NEW D \in Clusters(S, links), C \cap D # {}
  PROVE  C = D
<1>1. D \subseteq C
  BY ClusterShrinks
<1>2. C \subseteq D
  BY ClusterShrinks
<1> QED BY <1>1, <1>2

-----------------------------------------------------------------------------
(* What is in a plan.                                                      *)

Leaving(pass) == UNION {b.gone : b \in Plan(pass)}

DuplicateBatch(C) ==
  [keep |-> First(C, 1, MoreFeasible), gone |-> Fresh(C \ First(C, 1, MoreFeasible))]

LEMMA DuplicatesAre ==
  ASSUME NEW b
  PROVE  b \in Plan(1) <=> \E C \in Clusters(Board \ text.supers, Similar) :
                             b = DuplicateBatch(C) /\ b.gone # {}
<1>1. Plan(1) = Duplicates
  BY DEF Plan
<1>2. Duplicates = Planned({DuplicateBatch(C) : C \in Clusters(Board \ text.supers, Similar)})
  BY DEF Duplicates, Similar, DuplicateBatch
<1> QED BY <1>1, <1>2 DEF Planned

Supers == Fresh(Board) \cap text.supers
Betters(i) == {j \in Supers : {i, j} \in text.alike /\ MoreFeasible(j, i)}
SuperBatch(j) ==
  [keep |-> {j}, gone |-> {i \in Supers : First(Betters(i), 1, MoreFeasible) = {j}}]

LEMMA SupersAre ==
  ASSUME NEW b
  PROVE  b \in Plan(2) <=> \E j \in Supers : b = SuperBatch(j) /\ b.gone # {}
<1>1. Plan(2) = SupersByComponents
  BY DEF Plan
<1>2. SupersByComponents = Planned({SuperBatch(j) : j \in Supers})
  BY DEF SupersByComponents, Supers, Betters, SuperBatch
<1> QED BY <1>1, <1>2 DEF Planned

Clones(s) == {i \in Board : text.stem[i] = s}
Kept(s) == First(Fresh(Clones(s)), VerticalCap, MoreFeasible)
CloneBatch(s) ==
  [keep |-> Kept(s) \cup (Clones(s) \ Fresh(Clones(s))), gone |-> Fresh(Clones(s)) \ Kept(s)]

LEMMA ClonesAre ==
  ASSUME NEW b
  PROVE  b \in Plan(3) <=> \E s \in Stems : b = CloneBatch(s) /\ b.gone # {}
BY DEF Plan, Verticals, Planned, Clones, Kept, CloneBatch

CrossBatch(C) ==
  [keep |-> First(C, 1, Worthier), gone |-> {i \in C \ First(C, 1, Worthier) : ~Protected(i)}]

LEMMA CrossesAre ==
  ASSUME NEW b
  PROVE  b \in Plan(4) <=> \E C \in Clusters(Comparable(Board), Links(Comparable(Board))) :
                             ~InOneCategory(C) /\ b = CrossBatch(C) /\ b.gone # {}
<1>1. Plan(4) = CrossCategory
  BY DEF Plan
<1>2. CrossCategory = Planned({CrossBatch(C) :
            C \in {D \in Clusters(Comparable(Board), Links(Comparable(Board))) : ~InOneCategory(D)}})
  BY DEF CrossCategory, Comparable, CrossBatch
<1> QED BY <1>1, <1>2 DEF Planned

CrowdBatch(c) ==
  [keep |-> {}, gone |-> IF Cardinality(Members(Board, c)) > DensityCap
                         THEN Pool(Board, c) \ First(Pool(Board, c), Room(Board, c), Worthier)
                         ELSE {}]

LEMMA CrowdsAre ==
  ASSUME NEW b
  PROVE  b \in Plan(5) <=> \E c \in Categories \ {SelfImprovement} :
                             b = CrowdBatch(c) /\ b.gone # {}
<1>1. Plan(5) = Density
  BY DEF Plan
<1>2. Density = Planned({CrowdBatch(c) : c \in Categories \ {SelfImprovement}})
  BY DEF Density, Members, Pool, Room, CrowdBatch
<1> QED BY <1>1, <1>2 DEF Planned

(* A plan moves what is new, in favour of what is on the board.            *)
LEMMA PlanIs ==
  ASSUME NEW pass \in 1..5, NEW b \in Plan(pass)
  PROVE  b \in Batch /\ b.keep \subseteq Board /\ b.gone \subseteq Fresh(Board)
<1>0. Board \subseteq Ideas
  BY DEF Board
<1> DEFINE Good(c) == c \in Batch /\ c.keep \subseteq Board /\ c.gone \subseteq Fresh(Board)
<1>a. ASSUME NEW keep, NEW gone, keep \subseteq Board, gone \subseteq Fresh(Board)
      PROVE  Good([keep |-> keep, gone |-> gone])
  BY <1>a, <1>0 DEF Batch, Fresh
<1>1. CASE pass = 1
  <2>1. PICK C \in Clusters(Board \ text.supers, Similar) : b = DuplicateBatch(C)
    BY <1>1, DuplicatesAre
  <2>2. C \subseteq Board
    BY ClusterIs DEF ClosedUnder
  <2> QED BY <1>a, <2>1, <2>2 DEF DuplicateBatch, First, Fresh
<1>2. CASE pass = 2
  <2>1. PICK j \in Supers : b = SuperBatch(j)
    BY <1>2, SupersAre
  <2> QED BY <1>a, <2>1 DEF SuperBatch, Supers, Fresh
<1>3. CASE pass = 3
  <2>1. PICK s \in Stems : b = CloneBatch(s)
    BY <1>3, ClonesAre
  <2> QED BY <1>a, <2>1 DEF CloneBatch, Kept, Clones, First, Fresh
<1>4. CASE pass = 4
  <2>1. PICK C \in Clusters(Comparable(Board), Links(Comparable(Board))) : b = CrossBatch(C)
    BY <1>4, CrossesAre
  <2>2. C \subseteq Board
    BY ClusterIs DEF ClosedUnder, Comparable
  <2> QED BY <1>a, <2>1, <2>2 DEF CrossBatch, First, Fresh, Protected
<1>5. CASE pass = 5
  <2>1. PICK c \in Categories : b = CrowdBatch(c)
    BY <1>5, CrowdsAre
  <2>2. Pool(Board, c) \subseteq Fresh(Board)
    BY DEF Pool, Members, Fresh, Protected
  <2> QED BY <1>a, <2>1, <2>2 DEF CrowdBatch
<1> QED BY <1>1, <1>2, <1>3, <1>4, <1>5

-----------------------------------------------------------------------------
(* A board that a pass finds nothing on stays so when ideas leave it.      *)

LEMMA NoDuplicatesIn ==
  ASSUME NEW A, NEW B \in SUBSET A, NoDuplicates(A)
  PROVE  NoDuplicates(B)
<1> SUFFICES ASSUME NEW D \in Clusters(B \ text.supers, Similar),
                    NEW i \in Fresh(D), NEW j \in D
             PROVE  ~MoreFeasible(j, i)
  BY DEF NoDuplicates
<1>1. i \in D /\ D \subseteq B \ text.supers
  BY ClusterIs DEF Fresh, ClosedUnder
<1>2. PICK C \in Clusters(A \ text.supers, Similar) : i \in C
  BY <1>1, ClusterOf
<1>3. D \subseteq C
  BY <1>1, <1>2, ClusterShrinks
<1> QED BY <1>2, <1>3 DEF NoDuplicates, Fresh

LEMMA NoClonesIn ==
  ASSUME NEW A \in SUBSET Ideas, NEW B \in SUBSET A, NoClones(A)
  PROVE  NoClones(B)
<1> SUFFICES ASSUME NEW s \in Stems
             PROVE  LET fresh == {i \in Fresh(B) : text.stem[i] = s}
                    IN fresh \subseteq First(fresh, VerticalCap, MoreFeasible)
  BY DEF NoClones
<1> DEFINE fA == {i \in Fresh(A) : text.stem[i] = s}
           fB == {i \in Fresh(B) : text.stem[i] = s}
<1>1. fA \subseteq Ideas /\ fB \subseteq fA
  BY DEF Fresh
<1>2. fA \subseteq First(fA, VerticalCap, MoreFeasible)
  BY DEF NoClones
<1>3. VerticalCap \in Nat
  BY SiphonAssumption
<1> HIDE DEF fA, fB
<1>4. fB \subseteq First(fB, VerticalCap, MoreFeasible)
  BY <1>1, <1>2, <1>3, FirstOfFewer
<1> QED BY <1>4 DEF fB

LEMMA NoCrossIn ==
  ASSUME NEW A, NEW B \in SUBSET A, NEW links, NEW fewer \in SUBSET links, NoCross(links, A)
  PROVE  NoCross(fewer, B)
<1> SUFFICES ASSUME NEW D \in Clusters(Comparable(B), fewer), ~InOneCategory(D),
                    NEW i \in D, ~Protected(i), NEW j \in D
             PROVE  ~Worthier(j, i)
  BY DEF NoCross
<1>1. D \subseteq Comparable(B) /\ Comparable(B) \subseteq Comparable(A)
  BY ClusterIs DEF ClosedUnder, Comparable
<1>2. PICK C \in Clusters(Comparable(A), links) : i \in C
  BY <1>1, ClusterOf
<1>3. D \subseteq C
  BY <1>1, <1>2, ClusterShrinks
<1>4. ~InOneCategory(C)
  BY <1>3 DEF InOneCategory
<1> QED BY <1>2, <1>3, <1>4 DEF NoCross

LEMMA StaysClean ==
  ASSUME NEW A \in SUBSET Ideas, NEW B \in SUBSET A, NEW pass \in 1..4, NEW links,
         Clean(pass, links, A)
  PROVE  Clean(pass, links, B)
<1>1. NoSupers(A) => NoSupers(B)
  BY DEF NoSupers, Fresh
<1> QED BY <1>1, NoDuplicatesIn, NoClonesIn, NoCrossIn DEF Clean

-----------------------------------------------------------------------------
(* Once a pass has archived what it planned, it finds nothing.             *)

LEMMA LeavesNoDuplicates == NoDuplicates(Board \ Leaving(1))
<1> DEFINE B == Board \ Leaving(1)
<1> SUFFICES ASSUME NEW D \in Clusters(B \ text.supers, Similar),
                    NEW i \in Fresh(D), NEW j \in D
             PROVE  ~MoreFeasible(j, i)
  BY DEF NoDuplicates
<1>1. i \in D /\ status[i] = "new" /\ D \subseteq B \ text.supers
  BY ClusterIs DEF Fresh, ClosedUnder
<1>2. PICK C \in Clusters(Board \ text.supers, Similar) : i \in C
  BY <1>1, ClusterOf
<1>3. D \subseteq C /\ C \subseteq Ideas
  BY <1>1, <1>2, ClusterShrinks, ClusterIs DEF ClosedUnder, Board
<1>4. i \notin DuplicateBatch(C).gone
  <2>1. ASSUME i \in DuplicateBatch(C).gone PROVE DuplicateBatch(C) \in Plan(1)
    BY <2>1, DuplicatesAre
  <2> QED BY <1>1, <2>1 DEF Leaving
<1>5. i \in First(C, 1, MoreFeasible)
  BY <1>1, <1>2, <1>4 DEF DuplicateBatch, Fresh
<1> QED BY <1>2, <1>3, <1>5, FirstIsBest

LEMMA LeavesNoSupers == text \in Text => NoSupers(Board \ Leaving(2))
<1> SUFFICES ASSUME text \in Text,
                    NEW i \in Fresh(Board \ Leaving(2)) \cap text.supers,
                    NEW j \in Fresh(Board \ Leaving(2)) \cap text.supers,
                    {i, j} \in text.alike, MoreFeasible(j, i)
             PROVE  FALSE
  BY DEF NoSupers
<1>1. i \in Supers /\ i \notin Leaving(2) /\ j \in Betters(i)
  BY DEF Supers, Fresh, Betters
<1>2. Betters(i) \in SUBSET Ideas
  BY DEF Betters, Supers, Fresh, Board
<1>3. PICK m \in Betters(i) : First(Betters(i), 1, MoreFeasible) = {m}
  BY <1>1, <1>2, BestIsOne
<1>4. m \in Supers /\ i \in SuperBatch(m).gone
  BY <1>1, <1>3 DEF Betters, SuperBatch
<1>5. SuperBatch(m) \in Plan(2)
  BY <1>4, SupersAre
<1> QED BY <1>1, <1>4, <1>5 DEF Leaving

LEMMA LeavesNoClones == NoClones(Board \ Leaving(3))
<1> SUFFICES ASSUME NEW s \in Stems
             PROVE  LET fresh == {i \in Fresh(Board \ Leaving(3)) : text.stem[i] = s}
                    IN fresh \subseteq First(fresh, VerticalCap, MoreFeasible)
  BY DEF NoClones
<1> DEFINE fresh == {i \in Fresh(Board \ Leaving(3)) : text.stem[i] = s}
<1>1. fresh \subseteq Fresh(Clones(s)) /\ Fresh(Clones(s)) \subseteq Ideas
  BY DEF Fresh, Clones, Board
<1>2. VerticalCap \in Nat
  BY SiphonAssumption
<1>3. ASSUME NEW i \in fresh PROVE i \in Kept(s)
  <2>1. i \notin CloneBatch(s).gone
    BY <1>3, ClonesAre DEF Leaving, Fresh
  <2> QED BY <1>1, <1>3, <2>1 DEF CloneBatch
<1> HIDE DEF fresh
<1>4. fresh \subseteq First(fresh, VerticalCap, MoreFeasible)
  BY <1>1, <1>2, <1>3, FirstOfFewer DEF Kept
<1> QED BY <1>4 DEF fresh

LEMMA LeavesNoCross == NoCross(Links(Comparable(Board)), Board \ Leaving(4))
<1> DEFINE B == Board \ Leaving(4)
<1> SUFFICES ASSUME NEW D \in Clusters(Comparable(B), Links(Comparable(Board))), ~InOneCategory(D),
                    NEW i \in D, ~Protected(i), NEW j \in D
             PROVE  ~Worthier(j, i)
  BY DEF NoCross
<1>1. D \subseteq Comparable(B) /\ Comparable(B) \subseteq Comparable(Board)
  BY ClusterIs DEF ClosedUnder, Comparable
<1>2. PICK C \in Clusters(Comparable(Board), Links(Comparable(Board))) : i \in C
  BY <1>1, ClusterOf
<1>3. D \subseteq C /\ C \subseteq Ideas
  BY <1>1, <1>2, ClusterShrinks, ClusterIs DEF ClosedUnder, Comparable, Board
<1>4. ~InOneCategory(C)
  BY <1>3 DEF InOneCategory
<1>5. i \notin CrossBatch(C).gone
  <2>1. ASSUME i \in CrossBatch(C).gone PROVE CrossBatch(C) \in Plan(4)
    BY <1>4, <2>1, CrossesAre
  <2> QED BY <1>1, <2>1 DEF Leaving, Comparable
<1>6. i \in First(C, 1, Worthier)
  BY <1>2, <1>5 DEF CrossBatch
<1> QED BY <1>2, <1>3, <1>6, FirstIsBest

LEMMA LeavesNoCrowd == NoCrowd(Board \ Leaving(5))
<1> DEFINE B == Board \ Leaving(5)
<1> SUFFICES ASSUME NEW c \in Categories \ {SelfImprovement},
                    Cardinality(Members(B, c)) > DensityCap
             PROVE  Pool(B, c) \subseteq First(Pool(B, c), Room(B, c), Worthier)
  BY DEF NoCrowd
<1>1. /\ Members(B, c) \subseteq Members(Board, c)
      /\ Pool(B, c) \subseteq Pool(Board, c)
      /\ Pool(Board, c) \subseteq Members(Board, c)
      /\ Members(Board, c) \subseteq Ideas
  BY DEF Members, Pool, Board
<1>2. Cardinality(Members(Board, c)) > DensityCap
  <2>1. /\ Cardinality(Members(B, c)) \in Nat /\ Cardinality(Members(Board, c)) \in Nat
        /\ Cardinality(Members(B, c)) <= Cardinality(Members(Board, c))
    BY <1>1, Finite, FS_Subset, FS_CardinalityType
  <2> QED BY <2>1, SiphonAssumption
<1>3. ASSUME NEW i \in Members(Board, c), Protected(i) PROVE i \in Members(B, c)
  <2>1. i \in Board
    BY DEF Members
  <2>2. ASSUME NEW b \in Plan(5), i \in b.gone PROVE FALSE
    <3>1. PICK d \in Categories : b = CrowdBatch(d)
      BY CrowdsAre
    <3> QED BY <1>3, <2>2, <3>1 DEF CrowdBatch, Pool
  <2> QED BY <2>1, <2>2 DEF Members, Leaving
<1>4. Members(B, c) \ Pool(B, c) = Members(Board, c) \ Pool(Board, c)
  BY <1>1, <1>3 DEF Pool
<1>5. Room(B, c) = Room(Board, c) /\ Room(B, c) \in Nat
  <2>1. Cardinality(Members(B, c) \ Pool(B, c)) \in Nat
    BY <1>1, Finite, FS_CardinalityType
  <2>2. Room(B, c) = Room(Board, c)
    BY <1>4 DEF Room
  <2>3. Room(B, c) \in Nat
    BY <2>1, SiphonAssumption DEF Room
  <2> QED BY <2>2, <2>3
<1>6. ASSUME NEW i \in Pool(B, c)
      PROVE  i \in First(Pool(Board, c), Room(Board, c), Worthier)
  <2>1. i \in Pool(Board, c) /\ i \notin CrowdBatch(c).gone
    BY <1>1, <1>6, CrowdsAre DEF Leaving, Pool, Members
  <2> QED BY <1>2, <2>1 DEF CrowdBatch
<1> QED BY <1>1, <1>5, <1>6, FirstOfFewer

LEMMA LeavesClean ==
  ASSUME text \in Text, NEW pass \in 1..5, NEW links,
         pass = 4 => links = Links(Comparable(Board))
  PROVE  Clean(pass, links, Board \ Leaving(pass))
BY LeavesNoDuplicates, LeavesNoSupers, LeavesNoClones, LeavesNoCross, LeavesNoCrowd DEF Clean

-----------------------------------------------------------------------------
LEMMA CleanFindsNothing ==
  ASSUME text \in Text, NEW pass \in 1..5, NEW links, Clean(pass, links, Board),
         pass = 4 => Links(Comparable(Board)) \subseteq links
  PROVE  Plan(pass) = {}
<1>0. Board \subseteq Ideas
  BY DEF Board
<1> SUFFICES ASSUME NEW b \in Plan(pass) PROVE FALSE
  OBVIOUS
<1>1. CASE pass = 1
  <2>1. PICK C \in Clusters(Board \ text.supers, Similar) :
          b = DuplicateBatch(C) /\ b.gone # {}
    BY <1>1, DuplicatesAre
  <2>2. PICK i \in C : i \in Fresh(C) /\ i \notin First(C, 1, MoreFeasible)
    BY <2>1 DEF DuplicateBatch, Fresh
  <2>3. C \subseteq Ideas
    BY <1>0, ClusterIs DEF ClosedUnder
  <2> QED BY <1>1, <2>2, <2>3, FirstIsBest DEF Clean, NoDuplicates
<1>2. CASE pass = 2
  <2>1. PICK j \in Supers : b = SuperBatch(j) /\ b.gone # {}
    BY <1>2, SupersAre
  <2>2. PICK i \in Supers : First(Betters(i), 1, MoreFeasible) = {j}
    BY <2>1 DEF SuperBatch
  <2>3. j \in Betters(i)
    BY <2>2 DEF First
  <2> QED BY <1>2, <2>3 DEF Clean, NoSupers, Supers, Betters
<1>3. CASE pass = 3
  <2>1. PICK s \in Stems : b = CloneBatch(s) /\ b.gone # {}
    BY <1>3, ClonesAre
  <2>2. Fresh(Clones(s)) = {i \in Fresh(Board) : text.stem[i] = s}
    BY DEF Fresh, Clones
  <2>3. Fresh(Clones(s)) \subseteq First(Fresh(Clones(s)), VerticalCap, MoreFeasible)
    BY <1>3, <2>2 DEF Clean, NoClones
  <2> QED BY <2>1, <2>3 DEF CloneBatch, Kept
<1>4. CASE pass = 4
  <2>1. PICK C \in Clusters(Comparable(Board), Links(Comparable(Board))) :
          ~InOneCategory(C) /\ b = CrossBatch(C) /\ b.gone # {}
    BY <1>4, CrossesAre
  <2>2. PICK i \in C : ~Protected(i) /\ i \notin First(C, 1, Worthier)
    BY <2>1 DEF CrossBatch
  <2>3. C \subseteq Ideas
    BY <1>0, ClusterIs DEF ClosedUnder, Comparable
  <2>4. NoCross(Links(Comparable(Board)), Board)
    BY <1>4, NoCrossIn DEF Clean
  <2> QED BY <2>1, <2>2, <2>3, <2>4, FirstIsBest DEF NoCross
<1>5. CASE pass = 5
  <2>1. PICK c \in Categories \ {SelfImprovement} : b = CrowdBatch(c) /\ b.gone # {}
    BY <1>5, CrowdsAre
  <2> QED BY <1>5, <2>1 DEF CrowdBatch, Clean, NoCrowd
<1> QED BY <1>1, <1>2, <1>3, <1>4, <1>5

(* Whether a board is clean is a matter of what is on it.                  *)
LEMMA SameIsClean ==
  ASSUME NEW B, NEW pass, NEW links, text' = text, worth' = worth,
         \A i \in B : status'[i] = status[i], Clean(pass, links, B)
  PROVE  Clean(pass, links, B)'
<1>1. ASSUME NEW C \in SUBSET B PROVE Fresh(C)' = Fresh(C)
  BY <1>1 DEF Fresh
<1>2. ASSUME NEW i \in B PROVE Protected(i)' <=> Protected(i)
  BY <1>2 DEF Protected
<1>3. (Similar = Similar') /\ (Comparable(B)' = Comparable(B))
  BY DEF Similar, InOneCategory, Comparable
<1>4. ASSUME NEW i, NEW j
      PROVE  (MoreFeasible(i, j)' <=> MoreFeasible(i, j)) /\ (Worthier(i, j)' <=> Worthier(i, j))
  BY DEF MoreFeasible, Worthier
<1>5. NoDuplicates(B) => NoDuplicates(B)'
  <2> SUFFICES ASSUME NoDuplicates(B), NEW C \in Clusters(B \ text.supers, Similar),
                      NEW i \in Fresh(C)', NEW j \in C
               PROVE  ~MoreFeasible(j, i)'
    BY <1>3 DEF NoDuplicates
  <2>1. Fresh(C)' = Fresh(C)
    BY <1>1, ClusterIs DEF ClosedUnder
  <2> QED BY <1>4, <2>1 DEF NoDuplicates
<1>6. NoSupers(B) => NoSupers(B)'
  BY <1>1, <1>4 DEF NoSupers
<1>7. NoClones(B) => NoClones(B)'
  BY <1>1 DEF NoClones, First, MoreFeasible
<1>8. NoCross(links, B) => NoCross(links, B)'
  <2> SUFFICES ASSUME NoCross(links, B), NEW C \in Clusters(Comparable(B), links),
                      ~InOneCategory(C), NEW i \in C, NEW j \in C, ~Protected(i)'
               PROVE  ~Worthier(j, i)'
    BY <1>3 DEF NoCross, InOneCategory
  <2>1. i \in B
    BY ClusterIs DEF ClosedUnder, Comparable
  <2> QED BY <1>2, <1>4, <2>1 DEF NoCross
<1>9. NoCrowd(B) => NoCrowd(B)'
  <2>1. ASSUME NEW c
        PROVE  Members(B, c)' = Members(B, c) /\ Pool(B, c)' = Pool(B, c)
    BY <1>2 DEF Members, Pool
  <2>2. ASSUME NEW c PROVE Room(B, c)' = Room(B, c)
    BY <2>1 DEF Room
  <2> QED BY <2>1, <2>2 DEF NoCrowd, First, Worthier
<1> QED BY <1>5, <1>6, <1>7, <1>8, <1>9 DEF Clean

-----------------------------------------------------------------------------
(* A plan has its P.                                                       *)
PlanSteady(pass, P) ==
  /\ \A b \in Plan(pass) : b.keep \subseteq P
  /\ \A b \in Plan(pass) : \A i \in b.gone \cap P :
       \E k \in P : b.keep = {k} /\ MoreFeasible(k, i)

LEMMA SteadyPlan ==
  ASSUME text \in Text, NEW pass \in 1..5
  PROVE  \E P \in SUBSET Board : PlanSteady(pass, P)
<1> DEFINE K == UNION {b.keep : b \in Plan(pass)}
<1>1. K \subseteq Board
  BY PlanIs
<1>2. ASSUME \A b, d \in Plan(pass) : b.gone \cap d.keep = {}
      PROVE  PlanSteady(pass, K)
  BY <1>2 DEF PlanSteady
<1>3. CASE pass = 1
  <2> SUFFICES ASSUME NEW b \in Plan(1), NEW d \in Plan(1), NEW i \in b.gone, i \in d.keep
               PROVE  FALSE
    BY <1>1, <1>2, <1>3
  <2>1. PICK C \in Clusters(Board \ text.supers, Similar) : b = DuplicateBatch(C)
    BY DuplicatesAre
  <2>2. PICK D \in Clusters(Board \ text.supers, Similar) : d = DuplicateBatch(D)
    BY DuplicatesAre
  <2>3. i \in C /\ i \notin First(C, 1, MoreFeasible)
    BY <2>1 DEF DuplicateBatch, Fresh
  <2>4. i \in First(D, 1, MoreFeasible) /\ i \in D
    BY <2>2 DEF DuplicateBatch, First
  <2> QED BY <2>3, <2>4, ClustersApart
<1>4. CASE pass = 2
  <2>1. Supers \subseteq Board
    BY DEF Supers, Fresh
  <2>2. ASSUME NEW b \in Plan(2), NEW i \in b.gone
        PROVE  \E k \in Supers : b.keep = {k} /\ MoreFeasible(k, i)
    <3>1. PICK k \in Supers : b = SuperBatch(k)
      BY SupersAre
    <3>2. k \in Betters(i)
      BY <2>2, <3>1 DEF SuperBatch, First
    <3> QED BY <3>1, <3>2 DEF SuperBatch, Betters
  <2>3. ASSUME NEW b \in Plan(2) PROVE b.keep \subseteq Supers
    BY SupersAre DEF SuperBatch
  <2> QED BY <1>4, <2>1, <2>2, <2>3 DEF PlanSteady
<1>5. CASE pass = 3
  <2> SUFFICES ASSUME NEW b \in Plan(3), NEW d \in Plan(3), NEW i \in b.gone, i \in d.keep
               PROVE  FALSE
    BY <1>1, <1>2, <1>5
  <2>1. PICK s \in Stems : b = CloneBatch(s)
    BY ClonesAre
  <2>2. PICK u \in Stems : d = CloneBatch(u)
    BY ClonesAre
  <2>3. i \in Fresh(Clones(s)) /\ i \notin Kept(s) /\ text.stem[i] = s
    BY <2>1 DEF CloneBatch, Fresh, Clones
  <2>4. text.stem[i] = u
    BY <2>2 DEF CloneBatch, Kept, First, Fresh, Clones
  <2> QED BY <2>2, <2>3, <2>4 DEF CloneBatch
<1>6. CASE pass = 4
  <2> SUFFICES ASSUME NEW b \in Plan(4), NEW d \in Plan(4), NEW i \in b.gone, i \in d.keep
               PROVE  FALSE
    BY <1>1, <1>2, <1>6
  <2>1. PICK C \in Clusters(Comparable(Board), Links(Comparable(Board))) : b = CrossBatch(C)
    BY CrossesAre
  <2>2. PICK D \in Clusters(Comparable(Board), Links(Comparable(Board))) : d = CrossBatch(D)
    BY CrossesAre
  <2>3. i \in C /\ i \notin First(C, 1, Worthier)
    BY <2>1 DEF CrossBatch
  <2>4. i \in First(D, 1, Worthier) /\ i \in D
    BY <2>2 DEF CrossBatch, First
  <2> QED BY <2>3, <2>4, ClustersApart
<1>7. CASE pass = 5
  <2> SUFFICES ASSUME NEW d \in Plan(5), NEW i \in d.keep
               PROVE  FALSE
    BY <1>1, <1>2, <1>7
  <2> QED BY CrowdsAre DEF CrowdBatch
<1> QED BY <1>3, <1>4, <1>5, <1>6, <1>7

-----------------------------------------------------------------------------
(* One step.                                                               *)

LEMMA PassBegins ==
  ASSUME SiphonIInv, NEW r \in Runs, NEW pass \in 1..5, NEW calm \in BOOLEAN, Enter(r, pass, calm),
         UNCHANGED <<text, status, worth>>, settled' \subseteq settled,
         calm /\ pass # 1 => run[r].calm /\ run[r].todo = {} /\ run[r].pass = pass - 1,
         SiphonTypeOK',
         ~overlapped' =>
           /\ ~overlapped /\ favour' = favour
           /\ \A q \in Runs : q = r \/ run[q] = Idle
  PROVE  SiphonIInv'
<1>1. text \in Text
  BY TextsAssumption DEF SiphonIInv, SiphonTypeOK, RunState
<1> DEFINE linked == IF pass = 4 THEN Links(Comparable(Board)) ELSE run[r].linked
<1>2. /\ run'[r] = [pass |-> pass, todo |-> Plan(pass), moved |-> {}, calm |-> calm,
                     linked |-> linked]
      /\ \A q \in Runs \ {r} : run'[q] = run[q]
  BY DEF SiphonIInv, SiphonTypeOK, RunState, Enter
<1>3. Board' = Board /\ Board \subseteq Ideas
  BY DEF Board
<1>4. Due(r)' = Leaving(pass)
  BY <1>2 DEF Due, Leaving
<1>5. Left(r)' = Board \ Leaving(pass)
  BY <1>3, <1>4 DEF Left
<1>6. ASSUME NEW q \in Runs PROVE Careful(q)'
  <2>1. CASE q = r
    BY <1>2, <2>1, PlanIs DEF Careful, Fresh
  <2>2. CASE q # r
    BY <1>2, <2>2 DEF Careful, SiphonIInv
  <2> QED BY <2>1, <2>2
<1>7. ASSUME NEW q \in Runs PROVE Thorough(q)'
  <2>1. CASE q = r
    <3> SUFFICES ASSUME calm, NEW p \in 1..pass
                 PROVE  Clean(p, run[r].linked, Left(r))'
      BY <1>2, <2>1 DEF Thorough
    <3>1. Clean(p, linked, Board \ Leaving(pass))
      <4>1. CASE p = pass
        BY <1>1, <4>1, LeavesClean
      <4>2. CASE p # pass
        <5>1. p \in 1..(pass - 1) /\ pass # 1 /\ p \in 1..4
          BY <4>2
        <5>2. Left(r) = Board
          BY <5>1 DEF Left, Due
        <5>3. Clean(p, run[r].linked, Board)
          BY <5>1, <5>2 DEF SiphonIInv, Thorough
        <5>4. Clean(p, linked, Board)
          BY <4>2, <5>1, <5>3 DEF Clean
        <5> QED BY <1>3, <5>1, <5>4, StaysClean
      <4> QED BY <4>1, <4>2
    <3> QED BY <1>2, <1>5, <3>1, SameIsClean
  <2>2. CASE q # r
    <3>1. Due(q)' = Due(q) /\ Left(q)' = Left(q)
      BY <1>2, <1>3, <2>2 DEF Due, Left
    <3>2. run'[q].linked = run[q].linked
      BY <1>2, <2>2
    <3> QED BY <1>2, <2>2, <3>1, <3>2, SameIsClean DEF Thorough, SiphonIInv
  <2> QED BY <2>1, <2>2
<1>8. ASSUME NEW q \in Runs, run'[q].pass = 0 PROVE run'[q] = Idle
  BY <1>2, <1>8 DEF SiphonIInv
<1>9. ASSUME NEW links \in settled', NEW p \in 1..5 PROVE Clean(p, links, Board)'
  BY <1>3, SameIsClean DEF SiphonIInv
<1>10. ASSUME ~overlapped'
       PROVE  /\ \A q, s \in Runs : q = s \/ run'[q] = Idle \/ run'[s] = Idle
              /\ \A i \in Board' : favour'[i] = {}
              /\ \A q \in Runs : \E P \in SUBSET Ideas : Steady(q, P)'
              /\ Represented'
  <2>1. \A q \in Runs : q = r \/ run'[q] = Idle
    BY <1>2, <1>10
  <2>2. \A i \in Board : favour[i] = {} /\ favour'[i] = {}
    BY <1>10 DEF SiphonIInv
  <2>3. \E P \in SUBSET Ideas : Steady(r, P)'
    <3>1. PICK P \in SUBSET Board : PlanSteady(pass, P)
      BY <1>1, SteadyPlan
    <3>2. Steady(r, P)'
      BY <1>2, <2>2, <3>1 DEF Steady, PlanSteady, MoreFeasible
    <3> QED BY <1>3, <3>2
  <2>4. ASSUME NEW q \in Runs, q # r PROVE Steady(q, {})'
    BY <2>1, <2>4 DEF Steady, Idle
  <2>5. Represented'
    BY <1>10 DEF SiphonIInv, Represented
  <2> QED BY <1>3, <2>1, <2>2, <2>3, <2>4, <2>5
<1> QED BY <1>6, <1>7, <1>8, <1>9, <1>10 DEF SiphonIInv

(* A run that stops leaves the others as they were.                        *)
LEMMA RunEnds ==
  ASSUME SiphonIInv, NEW r \in Runs, run' = [run EXCEPT ![r] = Idle],
         UNCHANGED <<text, boardVars, overlapped>>, SiphonTypeOK',
         \A links \in settled' : \A p \in 1..5 : Clean(p, links, Board)
  PROVE  SiphonIInv'
<1>1. /\ run'[r] = Idle
      /\ \A q \in Runs \ {r} : run'[q] = run[q]
  BY DEF SiphonIInv, SiphonTypeOK, RunState
<1>2. Board' = Board
  BY DEF Board, boardVars
<1>3. ASSUME NEW q \in Runs PROVE Careful(q)' /\ Thorough(q)'
  <2>1. CASE q = r
    BY <1>1, <2>1 DEF Careful, Thorough, Idle
  <2>2. CASE q # r
    <3>1. Due(q)' = Due(q) /\ Left(q)' = Left(q)
      BY <1>1, <1>2, <2>2 DEF Due, Left
    <3>2. Thorough(q)'
      BY <1>1, <2>2, <3>1, SameIsClean DEF Thorough, SiphonIInv, boardVars
    <3> QED BY <1>1, <2>2, <3>2 DEF Careful, SiphonIInv, boardVars
  <2> QED BY <2>1, <2>2
<1>4. ASSUME NEW q \in Runs, run'[q].pass = 0 PROVE run'[q] = Idle
  BY <1>1, <1>4 DEF SiphonIInv
<1>5. ASSUME NEW links \in settled', NEW p \in 1..5 PROVE Clean(p, links, Board)'
  BY <1>2, SameIsClean DEF boardVars
<1>6. ASSUME ~overlapped'
      PROVE  /\ \A q, s \in Runs : q = s \/ run'[q] = Idle \/ run'[s] = Idle
             /\ \A i \in Board' : favour'[i] = {}
             /\ \A q \in Runs : \E P \in SUBSET Ideas : Steady(q, P)'
             /\ Represented'
  <2>0. ~overlapped /\ favour' = favour
    BY <1>6 DEF boardVars
  <2>1. \A q, s \in Runs : q = s \/ run'[q] = Idle \/ run'[s] = Idle
    BY <1>1, <2>0 DEF SiphonIInv
  <2>2. \A i \in Board' : favour'[i] = {}
    BY <1>2, <2>0 DEF SiphonIInv
  <2>3. ASSUME NEW q \in Runs PROVE \E P \in SUBSET Ideas : Steady(q, P)'
    <3>1. PICK P \in SUBSET Ideas : Steady(q, P)
      BY <2>0 DEF SiphonIInv
    <3>2. run'[q].todo \subseteq run[q].todo
      BY <1>1 DEF Idle
    <3>3. Steady(q, P)'
      BY <2>0, <3>1, <3>2 DEF Steady, MoreFeasible, boardVars
    <3> QED BY <3>3
  <2>4. Represented'
    BY <2>0 DEF SiphonIInv, Represented
  <2> QED BY <2>1, <2>2, <2>3, <2>4
<1> QED BY <1>3, <1>4, <1>5, <1>6 DEF SiphonIInv

(* Nobody notices more than that planned ideas were moved.                 *)
LEMMA NoticedIs ==
  ASSUME SiphonIInv, NEW moved \in SUBSET Ideas, NEW own \in SUBSET Runs, NEW q \in Runs \ own
  PROVE  /\ run[q] = Idle => Noticed(moved, own)[q] = Idle
         /\ run[q] # Idle => Noticed(moved, own)[q] =
              [pass |-> run[q].pass, todo |-> run[q].todo,
               moved |-> run[q].moved \cup (moved \cap Due(q)), calm |-> FALSE,
               linked |-> run[q].linked]
<1>1. run[q] \in [pass : 0..5, todo : SUBSET Batch, moved : SUBSET Ideas, calm : BOOLEAN,
             linked : SUBSET Pairs]
  BY DEF SiphonIInv, SiphonTypeOK, RunState
<1> QED BY <1>1 DEF Noticed

LEMMA NoticedKeeps ==
  ASSUME SiphonIInv, NEW moved \in SUBSET Ideas, NEW own \in SUBSET Runs, NEW q \in Runs \ own,
         run'[q] = Noticed(moved, own)[q],
         \A i \in Ideas : status'[i] = "accepted" => status[i] = "accepted" \/ i \in moved
  PROVE  /\ Careful(q)' /\ Thorough(q)'
         /\ run'[q].pass = 0 => run'[q] = Idle
         /\ run[q] = Idle <=> run'[q] = Idle
         /\ run'[q].todo = run[q].todo
<1>1. CASE run[q] = Idle
  <2>1. run'[q] = Idle
    BY <1>1, NoticedIs
  <2> QED BY <1>1, <2>1 DEF Careful, Thorough, Idle
<1>2. CASE run[q] # Idle
  <2>1. run'[q] = [pass |-> run[q].pass, todo |-> run[q].todo,
                   moved |-> run[q].moved \cup (moved \cap Due(q)), calm |-> FALSE,
               linked |-> run[q].linked]
    BY <1>2, NoticedIs
  <2>2. run[q].todo \subseteq Batch
    BY DEF SiphonIInv, SiphonTypeOK, RunState
  <2>3. run'[q].pass # 0
    BY <1>2, <2>1 DEF SiphonIInv
  <2>4. Thorough(q)'
    BY <2>1 DEF Thorough
  <2>5. Careful(q)'
    <3> SUFFICES ASSUME NEW b \in run[q].todo, NEW i \in b.gone, status'[i] = "accepted"
                 PROVE  i \in run'[q].moved
      BY <2>1 DEF Careful
    <3>1. i \in Ideas /\ i \in Due(q)
      BY <2>2 DEF Batch, Due
    <3> QED BY <2>1, <3>1 DEF SiphonIInv, Careful
  <2>6. run'[q] # Idle
    BY <2>3 DEF Idle
  <2> QED BY <1>2, <2>1, <2>3, <2>4, <2>5, <2>6
<1> QED BY <1>1, <1>2

(* Ideas give way to ideas that are better still in the end.               *)
LEMMA GivesWay ==
  ASSUME text \in Text, text' = text, ~overlapped, Represented,
         NEW rows \in SUBSET Ideas, NEW P \in SUBSET Ideas, NEW keep \in SUBSET P,
         favour' = [i \in Ideas |-> IF i \in rows THEN keep ELSE favour[i]],
         \A i \in P : \/ favour'[i] = {}
                     \/ \E k \in P : favour'[i] = {k} /\ MoreFeasible(k, i)
  PROVE  Represented'
<1> SUFFICES ASSUME NEW S \in SUBSET Ideas, S # {},
                    \A i \in S : favour'[i] # {} /\ favour'[i] \subseteq S
             PROVE  FALSE
  BY DEF Represented
<1>1. CASE S \cap rows = {}
  <2>1. \A i \in S : favour[i] # {} /\ favour[i] \subseteq S
    BY <1>1
  <2>2. S \in (SUBSET {i \in Ideas : favour[i] # {}}) \ {{}}
    BY <2>1
  <2> QED BY <2>1, <2>2 DEF Represented
<1>2. CASE S \cap rows # {}
  <2> DEFINE T == S \cap P
  <2>1. T # {} /\ T \in SUBSET Ideas
    BY <1>2
  <2>2. PICK m \in T : \A j \in T : ~MoreFeasible(j, m)
    BY <2>1, BestExists
  <2>3. PICK k \in P : favour'[m] = {k} /\ MoreFeasible(k, m)
    OBVIOUS
  <2>4. k \in T
    BY <2>3
  <2> QED BY <2>2, <2>3, <2>4
<1> QED BY <1>1, <1>2

LEMMA BatchMoves ==
  ASSUME SiphonIInv, NEW r \in Runs, NEW b \in run[r].todo, NEW ideas \in SUBSET b.gone,
         Archived(ideas, b.keep), SiphonTypeOK', settled' = {},
         \A q \in Runs \ {r} : run'[q] = Noticed(ideas, {r})[q],
         Careful(r)', Thorough(r)', run'[r].pass = 0 => run'[r] = Idle,
         run'[r].todo \subseteq run[r].todo
  PROVE  SiphonIInv'
<1> DEFINE rows == {i \in ideas : status[i] # "none"}
<1>0. text \in Text
  BY TextsAssumption DEF SiphonIInv, SiphonTypeOK, RunState
<1>1. /\ b \in Batch /\ ideas \subseteq Ideas /\ run[r] # Idle
  BY DEF SiphonIInv, SiphonTypeOK, RunState, Batch, Idle
<1>2. /\ text' = text /\ overlapped' = overlapped
      /\ \A i \in Ideas : status'[i] = IF i \in rows THEN "archived" ELSE status[i]
      /\ favour' = [i \in Ideas |-> IF i \in rows /\ ~overlapped THEN b.keep ELSE favour[i]]
  BY DEF Archived
<1> HIDE DEF rows
<1>3. \A i \in Ideas : status'[i] = "accepted" => status[i] = "accepted" \/ i \in ideas
  BY <1>2
<1>4. ASSUME NEW q \in Runs \ {r}
      PROVE  /\ Careful(q)' /\ Thorough(q)'
             /\ run'[q].pass = 0 => run'[q] = Idle
             /\ run[q] = Idle <=> run'[q] = Idle
  BY <1>1, <1>3, NoticedKeeps
<1>5. ASSUME ~overlapped'
      PROVE  /\ \A q, s \in Runs : q = s \/ run'[q] = Idle \/ run'[s] = Idle
             /\ \A i \in Board' : favour'[i] = {}
             /\ \A q \in Runs : \E P \in SUBSET Ideas : Steady(q, P)'
             /\ Represented'
  <2>0. ~overlapped
    BY <1>2, <1>5
  <2>1. \A q \in Runs : q = r \/ run'[q] = Idle
    BY <1>1, <1>4, <2>0 DEF SiphonIInv
  <2>2. \A i \in Board' : i \in Board /\ i \notin rows /\ favour'[i] = {}
    BY <1>2, <2>0 DEF SiphonIInv, Board
  <2>3. PICK P \in SUBSET Ideas : Steady(r, P)
    BY <2>0 DEF SiphonIInv
  <2>4. ASSUME NEW i \in P
        PROVE  favour'[i] = {} \/ \E k \in P : favour'[i] = {k} /\ MoreFeasible(k, i)
    <3>1. CASE i \in rows
      BY <1>2, <2>0, <2>3, <3>1 DEF Steady, rows
    <3>2. CASE i \notin rows
      BY <1>2, <2>0, <2>3, <3>2 DEF Steady
    <3> QED BY <3>1, <3>2
  <2>5. Steady(r, P)'
    BY <1>2, <2>3, <2>4 DEF Steady, MoreFeasible
  <2>6. ASSUME NEW q \in Runs, q # r PROVE Steady(q, {})'
    BY <2>1, <2>6 DEF Steady, Idle
  <2>7. Represented'
    <3>1. rows \in SUBSET Ideas /\ b.keep \in SUBSET P /\ Represented
      BY <1>1, <2>0, <2>3 DEF rows, Steady, SiphonIInv
    <3>2. favour' = [i \in Ideas |-> IF i \in rows THEN b.keep ELSE favour[i]]
      BY <1>2, <2>0
    <3> QED BY <1>0, <1>2, <2>0, <2>4, <3>1, <3>2, GivesWay
  <2> QED BY <2>1, <2>2, <2>5, <2>6, <2>7
<1> QED BY <1>4, <1>5 DEF SiphonIInv

LEMMA ArchiveMoves ==
  ASSUME SiphonIInv, NEW r \in Runs, NEW b \in run[r].todo, Archive(r, b), SiphonTypeOK'
  PROVE  SiphonIInv'
<1> DEFINE rows == {i \in b.gone : status[i] # "none"}
<1>1. /\ run[r] \in [pass : 0..5, todo : SUBSET Batch, moved : SUBSET Ideas, calm : BOOLEAN,
             linked : SUBSET Pairs]
      /\ b \in Batch /\ b.gone \subseteq Ideas /\ run[r].pass # 0
  BY DEF SiphonIInv, SiphonTypeOK, RunState, Batch, Idle
<1>2. /\ \A q \in Runs \ {r} : run'[q] = Noticed(b.gone, {r})[q]
      /\ run'[r] = [run[r] EXCEPT !.todo = @ \ {b}, !.moved = @ \ b.gone]
  BY DEF Archive, Noticed
<1>3. /\ run'[r].pass = run[r].pass /\ run'[r].calm = run[r].calm
      /\ run'[r].linked = run[r].linked
      /\ run'[r].todo = run[r].todo \ {b} /\ run'[r].moved = run[r].moved \ b.gone
  BY <1>1, <1>2
<1>4. /\ text' = text /\ worth' = worth
      /\ \A i \in Ideas : status'[i] = IF i \in rows THEN "archived" ELSE status[i]
  BY DEF Archive, Archived
<1>5. Careful(r)'
  <2> SUFFICES ASSUME NEW d \in run[r].todo \ {b}, NEW i \in d.gone, status'[i] = "accepted"
               PROVE  i \in run[r].moved \ b.gone
    BY <1>3 DEF Careful
  <2>1. i \in Ideas
    BY <1>1 DEF Batch
  <2>2. i \notin rows /\ status[i] = "accepted"
    BY <1>4, <2>1
  <2> QED BY <2>2 DEF SiphonIInv, Careful
<1>6. Left(r)' = Left(r)
  <2>1. Board' = Board \ b.gone
    BY <1>4 DEF Board
  <2>2. Due(r)' = UNION {d.gone : d \in run[r].todo \ {b}}
    BY <1>3 DEF Due
  <2>3. Due(r) = b.gone \cup UNION {d.gone : d \in run[r].todo \ {b}}
    BY DEF Due
  <2> QED BY <2>1, <2>2, <2>3 DEF Left
<1>7. Thorough(r)'
  <2> SUFFICES ASSUME run[r].calm, NEW p \in 1..run[r].pass
               PROVE  Clean(p, run[r].linked, Left(r))'
    BY <1>3 DEF Thorough
  <2>1. \A i \in Left(r) : status'[i] = status[i]
    BY <1>4 DEF Left, Due, Board
  <2>2. Clean(p, run[r].linked, Left(r))
    BY DEF SiphonIInv, Thorough
  <2> QED BY <1>3, <1>4, <1>6, <2>1, <2>2, SameIsClean
<1> QED BY <1>1, <1>2, <1>3, <1>5, <1>7, BatchMoves DEF Archive

LEMMA HalfABatchMoves ==
  ASSUME SiphonIInv, NEW b \in run[Server].todo, StopHalfway(b), SiphonTypeOK'
  PROVE  SiphonIInv'
<1>1. PICK part \in SUBSET b.gone :
        /\ Archived(part, b.keep)
        /\ run' = [Noticed(part, {Server}) EXCEPT ![Server] = Idle]
  BY DEF StopHalfway
<1>2. Server \in Runs
  BY SiphonAssumption
<1>3. run'[Server] = Idle /\ \A q \in Runs \ {Server} : run'[q] = Noticed(part, {Server})[q]
  BY <1>1, <1>2 DEF Noticed
<1>4. Careful(Server)' /\ Thorough(Server)'
  BY <1>3 DEF Careful, Thorough, Idle
<1>5. settled' = {} /\ run'[Server].todo \subseteq run[Server].todo
  BY <1>3 DEF StopHalfway, Idle
<1> QED BY <1>1, <1>2, <1>3, <1>4, <1>5, BatchMoves

(* Others move ideas, which then give way to none.                         *)
LEMMA OthersMove ==
  ASSUME SiphonIInv, NEW moved \in SUBSET Ideas, Others(moved), SiphonTypeOK',
         \A i \in Ideas \ moved : status'[i] = status[i] /\ favour'[i] = favour[i],
         \A i \in moved : favour'[i] = {}
  PROVE  SiphonIInv'
<1>1. /\ text' = text /\ overlapped' = overlapped /\ settled' = {}
      /\ run' = Noticed(moved, {})
  BY DEF Others
<1>2. ASSUME NEW q \in Runs
      PROVE  /\ Careful(q)' /\ Thorough(q)'
             /\ run'[q].pass = 0 => run'[q] = Idle
             /\ run[q] = Idle <=> run'[q] = Idle
             /\ run'[q].todo = run[q].todo
  BY <1>1, NoticedKeeps
<1>3. \A i \in Ideas : favour'[i] = favour[i] \/ favour'[i] = {}
  OBVIOUS
<1>4. ASSUME ~overlapped'
      PROVE  /\ \A q, s \in Runs : q = s \/ run'[q] = Idle \/ run'[s] = Idle
             /\ \A i \in Board' : favour'[i] = {}
             /\ \A q \in Runs : \E P \in SUBSET Ideas : Steady(q, P)'
             /\ Represented'
  <2>0. ~overlapped
    BY <1>1, <1>4
  <2>1. \A q, s \in Runs : q = s \/ run'[q] = Idle \/ run'[s] = Idle
    BY <1>2, <2>0 DEF SiphonIInv
  <2>2. \A i \in Board' : favour'[i] = {}
    BY <2>0 DEF SiphonIInv, Board
  <2>3. ASSUME NEW q \in Runs PROVE \E P \in SUBSET Ideas : Steady(q, P)'
    <3>1. PICK P \in SUBSET Ideas : Steady(q, P)
      BY <2>0 DEF SiphonIInv
    <3>2. Steady(q, P)'
      BY <1>1, <1>2, <1>3, <3>1 DEF Steady, MoreFeasible
    <3> QED BY <3>2
  <2>4. Represented'
    <3> SUFFICES ASSUME NEW S \in SUBSET Ideas, S # {},
                        \A i \in S : favour'[i] # {} /\ favour'[i] \subseteq S
                 PROVE  FALSE
      BY DEF Represented
    <3>1. \A i \in S : favour[i] # {} /\ favour[i] \subseteq S
      BY <1>3
    <3>2. S \in (SUBSET {i \in Ideas : favour[i] # {}}) \ {{}}
      BY <3>1
    <3> QED BY <2>0, <3>1, <3>2 DEF SiphonIInv, Represented
  <2> QED BY <2>1, <2>2, <2>3, <2>4
<1> QED BY <1>1, <1>2, <1>4 DEF SiphonIInv

-----------------------------------------------------------------------------
LEMMA IdleIs == Idle \in RunState
BY DEF Idle, RunState

LEMMA EnterTypes ==
  ASSUME SiphonTypeOK, NEW r \in Runs, NEW pass \in 1..5, NEW calm \in BOOLEAN,
         Enter(r, pass, calm)
  PROVE  run' \in [Runs -> RunState]
<1> DEFINE linked == IF pass = 4 THEN Links(Comparable(Board)) ELSE run[r].linked
<1>1. linked \in SUBSET Pairs
  BY TextsAssumption DEF Links, Text, SiphonTypeOK, RunState
<1> HIDE DEF linked
<1>2. [pass |-> pass, todo |-> Plan(pass), moved |-> {}, calm |-> calm,
       linked |-> linked] \in RunState
  BY <1>1, PlanIs DEF RunState
<1> QED BY <1>2 DEF Enter, SiphonTypeOK, linked

LEMMA NoticedTypes ==
  ASSUME SiphonTypeOK, NEW moved \in SUBSET Ideas, NEW own \in SUBSET Runs
  PROVE  Noticed(moved, own) \in [Runs -> RunState]
<1>1. ASSUME NEW q \in Runs
      PROVE  [run[q] EXCEPT !.moved = @ \cup (moved \cap Due(q)), !.calm = FALSE] \in RunState
  <2>1. run[q] \in RunState
    BY DEF SiphonTypeOK
  <2>2. run[q].moved \cup (moved \cap Due(q)) \in SUBSET Ideas
    BY <2>1 DEF RunState
  <2> QED BY <2>1, <2>2 DEF RunState
<1>2. ASSUME NEW q \in Runs PROVE run[q] \in RunState
  BY DEF SiphonTypeOK, RunState
<1> HIDE DEF RunState
<1> QED BY <1>1, <1>2 DEF Noticed

LEMMA ArchivedTypes ==
  ASSUME SiphonTypeOK, NEW ideas \in SUBSET Ideas, NEW keep \in SUBSET Ideas,
         Archived(ideas, keep)
  PROVE  /\ text' \in Texts /\ status' \in [Ideas -> Status] /\ worth' \in [Ideas -> 0..1]
         /\ tagged' \subseteq Ideas /\ favour' \in [Ideas -> SUBSET Ideas]
         /\ overlapped' \in BOOLEAN /\ steps' \in 0..Outside
BY DEF SiphonTypeOK, Archived, Status

LEMMA OthersTypes ==
  ASSUME SiphonTypeOK, NEW moved \in SUBSET Ideas, Others(moved),
         status' \in [Ideas -> Status], worth' \in [Ideas -> 0..1],
         tagged' \subseteq Ideas, favour' \in [Ideas -> SUBSET Ideas]
  PROVE  SiphonTypeOK'
<1>1. run' \in [Runs -> RunState]
  BY NoticedTypes DEF Others
<1>2. steps' \in 0..Outside
  BY SiphonAssumption DEF Others, SiphonTypeOK
<1> QED BY <1>1, <1>2 DEF SiphonTypeOK, Others, RunState

LEMMA BecomesTypes ==
  ASSUME SiphonTypeOK, NEW i \in Ideas, NEW s \in Status, Becomes(i, s)
  PROVE  status' \in [Ideas -> Status] /\ favour' \in [Ideas -> SUBSET Ideas]
BY DEF SiphonTypeOK, Becomes

(* A handler of one idea.                                                  *)
LEMMA OneBecomes ==
  ASSUME SiphonIInv, NEW i \in Ideas, NEW s \in Status, Becomes(i, s),
         worth' \in [Ideas -> 0..1], tagged' \subseteq Ideas
  PROVE  SiphonIInv'
<1>1. SiphonTypeOK'
  BY BecomesTypes, OthersTypes DEF SiphonIInv, Becomes
<1>2. /\ \A j \in Ideas \ {i} : status'[j] = status[j] /\ favour'[j] = favour[j]
      /\ favour'[i] = {}
  BY DEF SiphonIInv, SiphonTypeOK, Becomes
<1> QED BY <1>1, <1>2, OthersMove DEF Becomes

LEMMA SiphonInitEstablishes == SiphonInit => SiphonIInv
<1> SUFFICES ASSUME SiphonInit PROVE SiphonIInv
  OBVIOUS
<1>1. SiphonTypeOK
  <2>1. run \in [Runs -> RunState]
    BY IdleIs DEF SiphonInit
  <2>2. steps \in 0..Outside
    BY SiphonAssumption DEF SiphonInit
  <2>3. status \in [Ideas -> Status] /\ worth \in [Ideas -> 0..1]
    BY DEF SiphonInit, Status
  <2>4. favour \in [Ideas -> SUBSET Ideas]
    BY DEF SiphonInit
  <2> QED BY <2>1, <2>2, <2>3, <2>4 DEF SiphonInit, SiphonTypeOK
<1>2. ASSUME NEW r \in Runs PROVE run[r] = Idle
  BY DEF SiphonInit
<1>3. ASSUME NEW r \in Runs PROVE Careful(r) /\ Thorough(r) /\ Steady(r, {})
  BY <1>2 DEF Careful, Thorough, Steady, Idle
<1>4. \A i \in Ideas : favour[i] = {}
  BY DEF SiphonInit
<1>5. Represented
  BY <1>4 DEF Represented
<1>6. \A i \in Board : favour[i] = {}
  BY <1>4 DEF Board
<1>7. \A r \in Runs : \E P \in SUBSET Ideas : Steady(r, P)
  BY <1>3
<1> QED BY <1>1, <1>2, <1>3, <1>5, <1>6, <1>7 DEF SiphonIInv, SiphonInit

LEMMA SiphonStep == SiphonIInv /\ [SiphonNext]_siphonVars => SiphonIInv'
<1> SUFFICES ASSUME SiphonIInv, [SiphonNext]_siphonVars PROVE SiphonIInv'
  OBVIOUS
<1>0. SiphonTypeOK /\ run \in [Runs -> RunState]
  BY DEF SiphonIInv, SiphonTypeOK, RunState
<1>1. ASSUME NEW r \in Runs, Start(r) PROVE SiphonIInv'
  <2>0. Enter(r, 1, TRUE)
    BY <1>1, Zenon DEF Start
  <2>1. PICK calm \in BOOLEAN : Enter(r, 1, calm)
    BY <2>0, Zenon
  <2>2. run' \in [Runs -> RunState]
    BY <1>0, <2>1, EnterTypes
  <2>3. favour' \in [Ideas -> SUBSET Ideas] /\ overlapped' \in BOOLEAN
    BY <1>0, <1>1 DEF Start, SiphonTypeOK
  <2>4. SiphonTypeOK'
    BY <1>0, <1>1, <2>2, <2>3 DEF Start, SiphonTypeOK, RunState
  <2>5. ~overlapped' =>
          /\ ~overlapped /\ favour' = favour
          /\ \A q \in Runs : q = r \/ run[q] = Idle
    BY <1>1 DEF Start
  <2>6. UNCHANGED <<text, status, worth>> /\ settled' = settled
    BY <1>1 DEF Start
  <2> QED BY <2>4, <2>5, <2>6, <2>1, PassBegins
<1>2. ASSUME NEW r \in Runs, NextPass(r) PROVE SiphonIInv'
  <2>0. run[r] \in RunState /\ run[r].pass + 1 \in 1..5 /\ run[r].calm \in BOOLEAN
    BY <1>0, <1>2 DEF NextPass, RunState
  <2>1. run' \in [Runs -> RunState]
    BY <1>0, <1>2, <2>0, EnterTypes DEF NextPass
  <2>2. SiphonTypeOK'
    BY <1>0, <1>2, <2>1 DEF NextPass, SiphonTypeOK, RunState, boardVars
  <2>3. \A q \in Runs : ~overlapped => q = r \/ run[q] = Idle
    BY <1>2 DEF SiphonIInv, NextPass, Idle
  <2>4. run[r].pass = (run[r].pass + 1) - 1
    BY <2>0, <1>2 DEF NextPass
  <2> QED BY <1>2, <2>0, <2>2, <2>3, <2>4, PassBegins DEF NextPass, boardVars
<1>3. ASSUME NEW r \in Runs, Finish(r) PROVE SiphonIInv'
  <2>1. run' \in [Runs -> RunState]
    BY <1>0, <1>3, IdleIs DEF Finish
  <2>2. SiphonTypeOK'
    BY <1>0, <1>3, <2>1 DEF Finish, SiphonTypeOK, RunState, boardVars
  <2>3. ASSUME NEW links \in settled', NEW p \in 1..5 PROVE Clean(p, links, Board)
    <3>1. Left(r) = Board
      BY <1>3 DEF Finish, Left, Due
    <3> QED BY <1>3, <3>1 DEF Finish, SiphonIInv, Thorough
  <2> QED BY <1>3, <2>2, <2>3, RunEnds DEF Finish
<1>4. ASSUME NEW r \in Runs, Stop(r) PROVE SiphonIInv'
  <2>1. run' \in [Runs -> RunState]
    BY <1>0, <1>4, IdleIs DEF Stop
  <2>2. SiphonTypeOK'
    BY <1>0, <1>4, <2>1 DEF Stop, SiphonTypeOK, RunState, boardVars
  <2>3. \A links \in settled' : \A p \in 1..5 : Clean(p, links, Board)
    BY <1>4 DEF Stop, SiphonIInv
  <2> QED BY <1>4, <2>2, <2>3, RunEnds DEF Stop
<1>5. ASSUME NEW r \in Runs, NEW b \in run[r].todo, Archive(r, b) PROVE SiphonIInv'
  <2>1. run[r] \in RunState /\ b.gone \in SUBSET Ideas /\ b.keep \in SUBSET Ideas
    BY <1>0 DEF RunState, Batch
  <2>2. Noticed(b.gone, {r}) \in [Runs -> RunState]
    BY <1>0, <2>1, NoticedTypes
  <2>3. run' \in [Runs -> RunState]
    <3>1. run'[r] \in RunState
      BY <1>5, <2>1, <2>2 DEF Archive, RunState
    <3> QED BY <1>5, <2>2, <3>1 DEF Archive
  <2>4. SiphonTypeOK'
    <3>1. Archived(b.gone, b.keep) /\ settled' = {}
      BY <1>5 DEF Archive
    <3> QED BY <1>0, <2>1, <2>3, <3>1, ArchivedTypes DEF SiphonTypeOK
  <2> QED BY <1>5, <2>4, ArchiveMoves
<1>6. ASSUME NEW b \in run[Server].todo, StopHalfway(b) PROVE SiphonIInv'
  <2>1. b.gone \in SUBSET Ideas /\ b.keep \in SUBSET Ideas
    BY <1>0, SiphonAssumption DEF RunState, Batch
  <2>2. PICK part \in SUBSET b.gone :
          /\ Archived(part, b.keep)
          /\ run' = [Noticed(part, {Server}) EXCEPT ![Server] = Idle]
    BY <1>6 DEF StopHalfway
  <2>3. Noticed(part, {Server}) \in [Runs -> RunState]
    BY <1>0, <2>1, SiphonAssumption, NoticedTypes
  <2>4. run' \in [Runs -> RunState]
    BY <2>2, <2>3, IdleIs
  <2>5. SiphonTypeOK'
    BY <1>0, <1>6, <2>1, <2>2, <2>4, ArchivedTypes DEF StopHalfway, SiphonTypeOK, RunState
  <2> QED BY <1>6, <2>5, HalfABatchMoves
<1>7. ASSUME NEW i \in Ideas, Accept(i) PROVE SiphonIInv'
  BY <1>0, <1>7, OneBecomes DEF Accept, SiphonTypeOK, Status
<1>8. ASSUME NEW i \in Ideas, Reject(i) \/ Retire(i) PROVE SiphonIInv'
  BY <1>0, <1>8, OneBecomes DEF Reject, Retire, UpdateStatus, SiphonTypeOK, Status
<1>9. ASSUME NEW i \in Ideas, Delete(i) PROVE SiphonIInv'
  BY <1>0, <1>9, OneBecomes DEF Delete, SiphonTypeOK, Status
<1>10. ASSUME NEW i \in Ideas, NEW w \in 0..1, SaveScore(i, w) PROVE SiphonIInv'
  <2>1. Becomes(i, "new") /\ worth' \in [Ideas -> 0..1] /\ tagged' \subseteq Ideas
    BY <1>0, <1>10 DEF SaveScore, SiphonTypeOK
  <2> QED BY <2>1, OneBecomes DEF Status
<1>11. ASSUME RestoreArchive PROVE SiphonIInv'
  <2>1. tagged \in SUBSET Ideas
    BY <1>0 DEF SiphonTypeOK
  <2>2. /\ status' \in [Ideas -> Status] /\ favour' \in [Ideas -> SUBSET Ideas]
        /\ worth' \in [Ideas -> 0..1] /\ tagged' \subseteq Ideas
    BY <1>0, <1>11 DEF RestoreArchive, SiphonTypeOK, Status
  <2>3. SiphonTypeOK'
    BY <1>0, <1>11, <2>1, <2>2, OthersTypes DEF RestoreArchive
  <2> QED BY <1>11, <2>1, <2>3, OthersMove DEF RestoreArchive
<1>12. CASE UNCHANGED siphonVars
  <2>1. UNCHANGED <<text, status, worth, run, favour, settled, overlapped>>
    BY <1>12 DEF siphonVars, boardVars
  <2>2. Board' = Board
    BY <2>1 DEF Board
  <2>3. ASSUME NEW r \in Runs
        PROVE  Careful(r)' /\ Thorough(r)' /\ (run'[r].pass = 0 => run'[r] = Idle)
    <3>1. Left(r)' = Left(r)
      BY <2>1, <2>2 DEF Left, Due
    <3>2. Careful(r)'
      BY <2>1 DEF SiphonIInv, Careful
    <3>3. Thorough(r)'
      BY <2>1, <3>1, SameIsClean DEF SiphonIInv, Thorough
    <3> QED BY <2>1, <3>2, <3>3 DEF SiphonIInv
  <2>4. \A links \in settled' : \A p \in 1..5 : Clean(p, links, Board)'
    BY <2>1, <2>2, SameIsClean DEF SiphonIInv
  <2>5. ASSUME NEW r \in Runs, NEW P, Steady(r, P) PROVE Steady(r, P)'
    BY <2>1, <2>5 DEF Steady, MoreFeasible
  <2>6. SiphonTypeOK'
    BY <1>0, <1>12 DEF siphonVars, boardVars, SiphonTypeOK
  <2>7. Represented => Represented'
    BY <2>1 DEF Represented
  <2>8. ~overlapped' =>
       /\ \A q, r \in Runs : q = r \/ run'[q] = Idle \/ run'[r] = Idle
       /\ \A i \in Board' : favour'[i] = {}
       /\ \A r \in Runs : \E P \in SUBSET Ideas : Steady(r, P)'
       /\ Represented'
    BY <2>1, <2>2, <2>5, <2>7 DEF SiphonIInv
  <2> QED BY <2>3, <2>4, <2>6, <2>8 DEF SiphonIInv
<1> QED BY <1>1, <1>2, <1>3, <1>4, <1>5, <1>6, <1>7, <1>8, <1>9, <1>10, <1>11, <1>12
     DEF SiphonNext

LEMMA SiphonInvariant == SiphonSpec => []SiphonIInv
BY SiphonInitEstablishes, SiphonStep, PTL DEF SiphonSpec

THEOREM SiphonTypeCorrect == SiphonSpec => []SiphonTypeOK
<1>1. SiphonIInv => SiphonTypeOK
  BY DEF SiphonIInv
<1> QED BY <1>1, SiphonInvariant, PTL

(* siphon_all is idempotent, for any ideas, any likeness of theirs and any  *)
(* bucket cap: after a run that nobody disturbed no pass finds anything,    *)
(* but for pairs the cross-category pass of that run had not compared.      *)
THEOREM SiphonIdempotent == SiphonSpec => []Idempotent
<1>1. SiphonIInv => Idempotent
  <2> SUFFICES ASSUME SiphonIInv, NEW linked \in settled, NEW pass \in 1..5,
                      pass = 4 => Links(Comparable(Board)) \subseteq linked
               PROVE  Plan(pass) = {}
    BY DEF Idempotent
  <2>1. text \in Text /\ Clean(pass, linked, Board)
    BY TextsAssumption DEF SiphonIInv, SiphonTypeOK
  <2> QED BY <2>1, CleanFindsNothing
<1> QED BY <1>1, SiphonInvariant, PTL

(* Unless two runs overlap, duplicates never all go in favour of each      *)
(* other, wherever a run stops and whatever others do.                     *)
THEOREM AlwaysRepresented == SiphonSpec => []Represented
<1>1. SiphonIInv => Represented
  BY DEF SiphonIInv, Represented
<1> QED BY <1>1, SiphonInvariant, PTL

(* An accepted idea is archived only by a pass that read it before.        *)
THEOREM AcceptedAreSpared == SiphonSpec => AcceptedSpared
<1>1. SiphonIInv => \A r \in Runs : \A b \in run[r].todo :
                Archive(r, b) => \A i \in b.gone : status[i] = "accepted" => i \in run[r].moved
  BY DEF SiphonIInv, Careful
<1> QED BY <1>1, SiphonInvariant, PTL DEF AcceptedSpared
=============================================================================
