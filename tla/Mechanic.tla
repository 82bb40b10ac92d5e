------------------------------ MODULE Mechanic ------------------------------
(***************************************************************************)
(* The Forge Mechanic.  A click or, when armed, the cadence launches a run *)
(* as a process of its own, which shares with the server a status file and *)
(* the board, and with GitHub the branch mechanic/<item>.  A run picks an  *)
(* item, works it in a clone, gates the change and opens a pull request;   *)
(* an operator merges or closes it.                                        *)
(*                                                                         *)
(* The status file is truncated and then written, by whoever has something *)
(* to report.  That it cannot be opened for that is left out; the code     *)
(* ignores the error.                                                      *)
(***************************************************************************)
EXTENDS Naturals

CONSTANTS
  Items,      \* self-improvement ideas on the board
  Urgent,     \* those priority_score puts before the others
  Runs,       \* processes; each runs once
  Requests,   \* approve requests in flight
  Rollups,    \* what the checks of a branch may have concluded
  None,
  StaleAfter, \* _STALE_AFTER
  Limit       \* per stage: the longest its calls' timeouts let it take

(* _ci_state tells apart what passed, what failed, what is not over, and   *)
(* conclusions it does not name, as STARTUP_FAILURE and ACTION_REQUIRED.   *)
Conclusions == {"passed", "failed", "running", "unnamed"}

Waiting == {"new", "done", "dropped"}
Stages == {"starting", "listing", "picking", "cloning", "implementing",
           "gating", "pushing", "creating"}
Progress == {"selecting", "cloning", "implementing", "gating", "opening_pr"}
Results == {"pr_opened", "gate_failed", "agent_failed", "no_change", "no_work"}

ASSUME MechanicAssumption ==
  /\ Rollups \subseteq SUBSET Conclusions
  /\ Urgent \subseteq Items /\ None \notin Runs \cup Items \cup Progress \cup Results
  /\ StaleAfter \in Nat
  /\ Limit \in [Stages -> Nat]     \* the agent's is in the environment
  /\ \A s \in Stages \ {"implementing"} : Limit[s] <= StaleAfter
  /\ Limit["listing"] + Limit["picking"] <= StaleAfter
  /\ Limit["pushing"] + Limit["creating"] <= StaleAfter

VARIABLES
  armed,    \* FORGE_MECHANIC_ENABLED
  board,    \* per item: new (or approved), done (implemented), dropped
  stage,    \* the status file's stage, or torn: empty or half overwritten
  wrote,    \* time since it was written
  pending,  \* per run: what it writes to the file it has truncated
  at,       \* per run: its stage, or unborn, over, dead
  item,     \* per run: the item it works
  excluded, \* per run: items whose pull request it saw open
  spent,    \* per run: time in its stage
  branch,   \* per item: the run whose commit is the branch's tip on GitHub
  checks,   \* per item: the conclusions of the tip's checks
  pr,       \* per run: none, open, merged or closed
  request,  \* per approve request: idle, merge, look or mark, and its run
  merges,   \* history: what was merged, and what was viewed to allow it
  overlap   \* history: a run was launched past the guard

status == <<stage, wrote, pending>>
runVars == <<at, item, excluded, spent>>
gitHub == <<branch, checks, pr>>
vars == <<armed, board, status, runVars, gitHub, request, merges, overlap>>

Running(r) == at[r] \in Stages
Live(r) == Running(r) \/ pending[r] # None
OpenOn(i) == {r \in Runs : pr[r] = "open" /\ item[r] = i}

(* Mutant: a status never goes stale.                                      *)
TerminalForEver == stage \in Results \cup {"idle", "torn"}

(* read_status: what cannot be read is idle, and what is not terminal      *)
(* counts as a dead run when it is old.                                    *)
Terminal == stage \in Results \cup {"idle", "torn"} \/ wrote > StaleAfter

(* merge_pr runs in the server's event loop, which stands still meanwhile. *)
Blocked == \E q \in Requests : request[q].at = "merge"

(* A single failure decides, then a single check that is not over, then a  *)
(* single success.                                                         *)
CiState(rollup) ==
  IF rollup = {} THEN "none"
  ELSE IF "failed" \in rollup THEN "failing"
  ELSE IF "running" \in rollup THEN "pending"
  ELSE IF "passed" \in rollup THEN "passing" ELSE "unknown"

NoRequest == [at |-> "idle", run |-> None]

Init ==
  /\ armed \in BOOLEAN
  /\ board = [i \in Items |-> "new"]
  /\ stage = "idle" /\ wrote = 0
  /\ pending = [r \in Runs |-> None]
  /\ at = [r \in Runs |-> "unborn"]
  /\ item = [r \in Runs |-> None]
  /\ excluded = [r \in Runs |-> {}]
  /\ spent = [r \in Runs |-> 0]
  /\ branch = [i \in Items |-> None]
  /\ checks = [i \in Items |-> {}]
  /\ pr = [r \in Runs |-> "none"]
  /\ request = [q \in Requests |-> NoRequest]
  /\ merges = {}
  /\ overlap = FALSE

-----------------------------------------------------------------------------
(* Run r opens the file, which empties it ...                              *)
WriteStatus(r, s) ==
  /\ stage' = "torn"
  /\ pending' = [pending EXCEPT ![r] = s]
  /\ UNCHANGED wrote

(* Run r is done with stage from.                                          *)
Enter(r, from, to) ==
  /\ at[r] = from /\ pending[r] = None
  /\ at' = [at EXCEPT ![r] = to]
  /\ spent' = [spent EXCEPT ![r] = 0]

Elsewhere == <<armed, board, request, merges, overlap>>

(* ... and writes.  A full disk, or another's text it falls on, leaves     *)
(* nothing that can be read.                                               *)
Flush(r) ==
  /\ pending[r] # None
  /\ stage' \in {pending[r], "torn"} /\ wrote' = 0
  /\ pending' = [pending EXCEPT ![r] = None]
  /\ UNCHANGED <<Elsewhere, runVars, gitHub>>

-----------------------------------------------------------------------------
(* POST /api/mechanic/run: guard, status and launch without an await.  The *)
(* server reads the file only where it does not write it.                  *)
Begin(r) ==
  /\ ~Blocked
  /\ Enter(r, "unborn", "starting")
  /\ stage' \in {"selecting", "torn"} /\ wrote' = 0
  /\ UNCHANGED <<armed, board, request, merges, pending, item, excluded, gitHub>>

(* The guard does not see a run whose report is torn, or whose agent has   *)
(* more time than _STALE_AFTER.                                            *)
Unseen(r) ==
  \/ Live(r) /\ stage = "torn"
  \/ at[r] = "implementing" /\ spent[r] > StaleAfter

Click(r) ==
  /\ Terminal
  /\ Begin(r)
  /\ overlap' = (overlap \/ \E s \in Runs : Unseen(s))

ForceClick(r) == Begin(r) /\ overlap' = TRUE

(* The cadence launches without a look at the status, and writes none.     *)
Fire(r) ==
  /\ ~Blocked /\ armed
  /\ Enter(r, "unborn", "starting")
  /\ overlap' = TRUE
  /\ UNCHANGED <<armed, board, request, merges, status, item, excluded, gitHub>>

Start(r) ==
  /\ Enter(r, "starting", "listing")
  /\ WriteStatus(r, "selecting")
  /\ UNCHANGED <<Elsewhere, item, excluded, gitHub>>

(* list_open_prs gives an empty list when gh fails.                        *)
ListOpen(r) ==
  /\ Enter(r, "listing", "picking")
  /\ excluded' = [excluded EXCEPT ![r] = {i \in Items : OpenOn(i) # {}}]
  /\ UNCHANGED <<Elsewhere, status, item, gitHub>>

ListFails(r) ==
  /\ Enter(r, "listing", "picking")
  /\ UNCHANGED <<Elsewhere, status, item, excluded, gitHub>>

Candidates(r) == {i \in Items \ excluded[r] : board[i] = "new"}
Top(S) == IF S \cap Urgent # {} THEN S \cap Urgent ELSE S

Select(r) ==
  \E i \in Top(Candidates(r)) :
    /\ Enter(r, "picking", "cloning")
    /\ item' = [item EXCEPT ![r] = i]
    /\ WriteStatus(r, "cloning")
    /\ UNCHANGED <<Elsewhere, excluded, gitHub>>

End(r, from, result) ==
  /\ Enter(r, from, "over")
  /\ WriteStatus(r, result)
  /\ UNCHANGED <<Elsewhere, item, excluded, gitHub>>

NoWork(r) == Candidates(r) = {} /\ End(r, "picking", "no_work")

(* The clone, its branch and its remote are not checked: without them the  *)
(* agent fails or changes nothing.                                         *)
Clone(r) ==
  /\ Enter(r, "cloning", "implementing")
  /\ WriteStatus(r, "implementing")
  /\ UNCHANGED <<Elsewhere, item, excluded, gitHub>>

AgentFails(r) == End(r, "implementing", "agent_failed")
NoChange(r) == End(r, "implementing", "no_change")
Forbidden(r) == End(r, "implementing", "gate_failed")

(* Mutant: the gate runs under the status of the agent.                    *)
AgentDoneUnreported(r) ==
  /\ Enter(r, "implementing", "gating")
  /\ UNCHANGED <<Elsewhere, status, item, excluded, gitHub>>

AgentDone(r) ==
  /\ Enter(r, "implementing", "gating")
  /\ WriteStatus(r, "gating")
  /\ UNCHANGED <<Elsewhere, item, excluded, gitHub>>

GateFails(r) == End(r, "gating", "gate_failed")

GatePasses(r) ==
  /\ Enter(r, "gating", "pushing")
  /\ WriteStatus(r, "opening_pr")
  /\ UNCHANGED <<Elsewhere, item, excluded, gitHub>>

(* Mutant: push --force.                                                   *)
PushForced(r) ==
  /\ Enter(r, "pushing", "creating")
  /\ branch' = [branch EXCEPT ![item[r]] = r]
  /\ checks' = [checks EXCEPT ![item[r]] = {}]
  /\ UNCHANGED <<Elsewhere, status, item, excluded, pr>>

(* The clone never fetched the branch, so the lease expects GitHub to have *)
(* none.  Nothing looks at the exit code, here and in the two steps after. *)
Push(r) ==
  /\ Enter(r, "pushing", "creating")
  /\ branch[item[r]] = None
  /\ branch' = [branch EXCEPT ![item[r]] = r]
  /\ checks' = [checks EXCEPT ![item[r]] = {}]
  /\ UNCHANGED <<Elsewhere, status, item, excluded, pr>>

PushFails(r) ==
  /\ Enter(r, "pushing", "creating")
  /\ UNCHANGED <<Elsewhere, status, item, excluded, gitHub>>

(* gh pr create: GitHub takes one open pull request per branch, whosever   *)
(* commit the branch holds.                                                *)
Create(r) ==
  /\ Enter(r, "creating", "over")
  /\ branch[item[r]] # None /\ OpenOn(item[r]) = {}
  /\ pr' = [pr EXCEPT ![r] = "open"]
  /\ WriteStatus(r, "pr_opened")
  /\ UNCHANGED <<Elsewhere, item, excluded, branch, checks>>

CreateFails(r) == End(r, "creating", "pr_opened")

(* A timeout of a call propagates and nothing reports it; so does a kill.  *)
Die(r) ==
  /\ Live(r)
  /\ at' = [at EXCEPT ![r] = "dead"]
  /\ pending' = [pending EXCEPT ![r] = None]
  /\ UNCHANGED <<Elsewhere, stage, wrote, item, excluded, spent, gitHub>>

-----------------------------------------------------------------------------
(* GitHub: the checks of a tip come, run again and conclude.               *)
Check(i) ==
  /\ branch[i] # None
  /\ \E rollup \in Rollups : checks' = [checks EXCEPT ![i] = rollup]
  /\ UNCHANGED <<armed, board, status, runVars, branch, pr, request, merges, overlap>>

(* POST /api/mechanic/prs/{number}/approve.  merge_pr views the checks ... *)
View(q, r) ==
  /\ ~Blocked /\ request[q].at = "idle" /\ pr[r] = "open"
  /\ CiState(checks[item[r]]) = "passing"
  /\ request' = [request EXCEPT ![q] =
       [at |-> "merge", run |-> r, tip |-> branch[item[r]], rollup |-> checks[item[r]]]]
  /\ UNCHANGED <<armed, board, status, runVars, gitHub, merges, overlap>>

(* ... and merges the branch as it is now, and deletes it.                 *)
Squash(q) ==
  LET r == request[q].run
  IN  /\ pr[r] = "open"
      /\ pr' = [pr EXCEPT ![r] = "merged"]
      /\ branch' = [branch EXCEPT ![item[r]] = None]
      /\ checks' = [checks EXCEPT ![item[r]] = {}]
      /\ merges' = merges \cup {[tip |-> branch[item[r]], viewed |-> request[q].tip,
                                 rollup |-> request[q].rollup]}

Merge(q) ==
  /\ request[q].at = "merge"
  /\ Squash(q)
  /\ request' = [request EXCEPT ![q] = [at |-> "look", run |-> request[q].run]]
  /\ UNCHANGED <<armed, board, status, runVars, overlap>>

(* gh merged and timed out: the exception skips the item's mark.           *)
MergeTimesOut(q) ==
  /\ request[q].at = "merge"
  /\ Squash(q)
  /\ request' = [request EXCEPT ![q] = NoRequest]
  /\ UNCHANGED <<armed, board, status, runVars, overlap>>

MergeFails(q) ==
  /\ request[q].at = "merge"
  /\ request' = [request EXCEPT ![q] = NoRequest]
  /\ UNCHANGED <<armed, board, status, runVars, gitHub, merges, overlap>>

(* get_idea, then update_idea_status.                                      *)
Look(q) ==
  /\ ~Blocked /\ request[q].at = "look"
  /\ request' = [request EXCEPT ![q] =
       IF board[item[request[q].run]] = "new"
         THEN [at |-> "mark", run |-> request[q].run] ELSE NoRequest]
  /\ UNCHANGED <<armed, board, status, runVars, gitHub, merges, overlap>>

Mark(q) ==
  /\ ~Blocked /\ request[q].at = "mark"
  /\ board' = [board EXCEPT ![item[request[q].run]] = "done"]
  /\ request' = [request EXCEPT ![q] = NoRequest]
  /\ UNCHANGED <<armed, status, runVars, gitHub, merges, overlap>>

(* close_pr, here or on GitHub itself, deletes the branch; the item stays  *)
(* as it is.                                                               *)
Reject(r) ==
  /\ pr[r] = "open"
  /\ pr' = [pr EXCEPT ![r] = "closed"]
  /\ branch' = [branch EXCEPT ![item[r]] = None]
  /\ checks' = [checks EXCEPT ![item[r]] = {}]
  /\ UNCHANGED <<armed, board, status, runVars, request, merges, overlap>>

(* Operators and the siphon take an item off the board and put it back.    *)
Curate(i) ==
  /\ ~Blocked /\ board[i] # "done"
  /\ board' = [board EXCEPT ![i] = IF @ = "new" THEN "dropped" ELSE "new"]
  /\ UNCHANGED <<armed, status, runVars, gitHub, request, merges, overlap>>

(* The server restarts; the runs have sessions of their own.               *)
Restart ==
  /\ request' = [q \in Requests |-> NoRequest]
  /\ UNCHANGED <<armed, board, status, runVars, gitHub, merges, overlap>>

(* Every call of a run times out by the limit of its stage; a write takes  *)
(* no time to speak of.                                                    *)
Tick ==
  /\ \A r \in Runs : pending[r] = None /\ (Running(r) => spent[r] < Limit[at[r]])
  /\ wrote' = IF wrote <= StaleAfter THEN wrote + 1 ELSE wrote
  /\ spent' = [r \in Runs |-> IF Running(r) THEN spent[r] + 1 ELSE spent[r]]
  /\ UNCHANGED <<Elsewhere, stage, pending, at, item, excluded, gitHub>>

-----------------------------------------------------------------------------
Launch(r) == Click(r) \/ ForceClick(r) \/ Fire(r)

Work(r) ==
  \/ Start(r) \/ ListOpen(r) \/ ListFails(r) \/ Select(r) \/ NoWork(r) \/ Clone(r)
  \/ AgentFails(r) \/ NoChange(r) \/ Forbidden(r) \/ AgentDone(r)
  \/ GateFails(r) \/ GatePasses(r) \/ Push(r) \/ PushFails(r)
  \/ Create(r) \/ CreateFails(r) \/ Flush(r) \/ Die(r)

Approve(q) ==
  \/ \E r \in Runs : View(q, r)
  \/ Merge(q) \/ MergeTimesOut(q) \/ MergeFails(q) \/ Look(q) \/ Mark(q)

Next ==
  \/ \E r \in Runs : Launch(r) \/ Work(r) \/ Reject(r)
  \/ \E q \in Requests : Approve(q)
  \/ \E i \in Items : Check(i) \/ Curate(i)
  \/ Restart
  \/ Tick

Spec == Init /\ [][Next]_vars

(* Time passes; a process goes on until it ends, one way or the other; the *)
(* handler of a request goes on.                                           *)
Fairness ==
  /\ WF_vars(Tick)
  /\ \A r \in Runs : WF_vars(Work(r))
  /\ \A q \in Requests : WF_vars(Approve(q))

FairSpec == Spec /\ Fairness

-----------------------------------------------------------------------------
RequestStates ==
  {NoRequest}
  \cup [at : {"look", "mark"}, run : Runs]
  \cup [at : {"merge"}, run : Runs, tip : Runs, rollup : SUBSET Conclusions]

TypeOK ==
  /\ armed \in BOOLEAN /\ overlap \in BOOLEAN
  /\ board \in [Items -> Waiting]
  /\ stage \in Results \cup Progress \cup {"idle", "torn"}
  /\ wrote \in 0..StaleAfter + 1
  /\ pending \in [Runs -> Results \cup Progress \cup {None}]
  /\ at \in [Runs -> {"unborn", "over", "dead"} \cup Stages]
  /\ item \in [Runs -> Items \cup {None}]
  /\ excluded \in [Runs -> SUBSET Items]
  /\ spent \in [Runs -> Nat]
  /\ branch \in [Items -> Runs \cup {None}]
  /\ checks \in [Items -> SUBSET Conclusions]
  /\ pr \in [Runs -> {"none", "open", "merged", "closed"}]
  /\ request \in [Requests -> RequestStates]
  /\ merges \subseteq [tip : Runs, viewed : Runs, rollup : SUBSET Conclusions]

(* "One run at a time": unless an operator forces one or the cadence is    *)
(* armed, no second process is launched while one is alive - but for a     *)
(* click on a torn report, or past an agent with more time than            *)
(* _STALE_AFTER, which overlap counts as well.  The guard is a file that a *)
(* run may leave untouched for as long as its longest stage, or two, and   *)
(* that a dead run leaves behind.                                          *)
OneRunAtATime == ~overlap => \A r, s \in Runs : Live(r) /\ Live(s) => r = s

(* What is merged is the commit whose checks the approval has viewed, and  *)
(* its checks passed: however many runs work the item, none replaces what  *)
(* is in review.                                                           *)
MergedAsViewed ==
  \A m \in merges : m.tip = m.viewed /\ CiState(m.rollup) = "passing"

(* A run that dies without a word does not keep the button locked.         *)
GuardReleases ==
  (~Terminal /\ \A r \in Runs : ~Live(r)) ~> (Terminal \/ \E r \in Runs : Live(r))
=============================================================================
