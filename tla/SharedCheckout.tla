--------------------------- MODULE SharedCheckout ---------------------------
(***************************************************************************)
(* The one git checkout of the project, in which the operator works and    *)
(* the self-improver commits: HEAD, the branches, the index and the files  *)
(* of the working tree.  What is in a file is the set of those whose edits *)
(* it holds.                                                               *)
(***************************************************************************)
EXTENDS Naturals

CONSTANTS
  Files, Tracked,  \* paths, and those main has
  Place, Dir,      \* of a path: its place in the order of paths, its directory
  Issues,          \* ci-queue issues, each with its branch self-improve-n
  Main,
  Op,              \* the operator
  Gone             \* in place of an author: there is no such file

ASSUME CheckoutAssumption ==
  /\ Tracked \subseteq Files /\ Main \notin Issues /\ Op \notin Issues
  /\ Gone \notin Issues \cup {Op} /\ Place \in [Files -> Nat]

Branches == {Main} \cup Issues
Absent == {Gone}
Contents == (SUBSET (Issues \cup {Op})) \cup {Absent}
Snapshots == [Files -> Contents]

VARIABLES head, commit, index, tree

git == <<head, commit, index, tree>>

Original == [f \in Files |-> IF f \in Tracked THEN {} ELSE Absent]

CheckoutInit ==
  /\ head = Main
  /\ commit = [b \in Branches |-> Original]
  /\ index = Original /\ tree = Original

CheckoutTypes ==
  /\ head \in Branches
  /\ commit \in [Branches -> Snapshots]
  /\ index \in Snapshots /\ tree \in Snapshots

(* What git takes for changed: staged, unstaged and untracked.             *)
Dirty == {f \in Files : tree[f] # index[f] \/ index[f] # commit[head][f]}

(* git status --porcelain has the files git knows first, by path, then the *)
(* new ones, of a directory that it knows no file in the directory alone.  *)
Known == {f \in Files : index[f] # Absent \/ commit[head][f] # Absent}
TopLine == {f \in Dirty \cap Known : \A g \in Dirty \cap Known : Place[f] <= Place[g]}
Folded == {f \in Dirty \ Known : \A g \in Files : Dir[g] = Dir[f] => index[g] = Absent}

Edited(f, who) == (IF tree[f] = Absent THEN {} ELSE tree[f]) \cup {who}

(* git checkout -B: the branch starts from HEAD, changes are carried over. *)
CheckoutB(b) ==
  /\ head' = b
  /\ commit' = [commit EXCEPT ![b] = commit[head]]
  /\ UNCHANGED <<index, tree>>

(* git add.                                                                *)
AddFiles(S) ==
  /\ index' = [f \in Files |-> IF f \in S THEN tree[f] ELSE index[f]]
  /\ UNCHANGED <<head, commit, tree>>

(* git commit takes the index, whoever staged it.                          *)
CommitIndex ==
  /\ index # commit[head]
  /\ commit' = [commit EXCEPT ![head] = index]
  /\ UNCHANGED <<head, index, tree>>

(* git checkout of a branch is refused if it would overwrite a change.     *)
CanSwitch(b) ==
  \A f \in Dirty : commit[b][f] \in {commit[head][f], index[f]}

Switch(b) ==
  /\ CanSwitch(b)
  /\ head' = b
  /\ index' = [f \in Files |-> IF f \in Dirty THEN index[f] ELSE commit[b][f]]
  /\ tree' = [f \in Files |-> IF f \in Dirty THEN tree[f] ELSE commit[b][f]]
  /\ UNCHANGED commit

(* git checkout -- files: from the index; a path it does not know makes it *)
(* refuse them all.                                                        *)
Restored(S) ==
  IF \E f \in S : index[f] = Absent THEN tree
  ELSE [f \in Files |-> IF f \in S THEN index[f] ELSE tree[f]]

Restore(S) == tree' = Restored(S) /\ UNCHANGED <<head, commit, index>>

-----------------------------------------------------------------------------
(* The operator edits and stages, on whatever branch is checked out.       *)
OperatorEdits(f) ==
  /\ tree' = [tree EXCEPT ![f] = Edited(f, Op)]
  /\ UNCHANGED <<head, commit, index>>

OperatorStages(f) == AddFiles({f})
=============================================================================
