--------------------------- MODULE ProcessProofs ----------------------------
(***************************************************************************)
(* Runs of several processes: the mechanic's, which a status file keeps    *)
(* apart, and the expansions and scans, which nothing does.  For any number*)
(* of items, runs and requests, any timeout of the agent and others that   *)
(* fit the guard's patience: the guard against a second run, and that only *)
(* what was viewed is merged.  For any tasks, pairs and combinations:      *)
(* bridges spread evenly and what is placed counts as used.                *)
(***************************************************************************)
EXTENDS Mechanic, Generators, FiniteSetTheorems, WellFoundedInduction, TLAPS

(* How long the status file may be older than the stage: two stages begin  *)
(* without a write.                                                        *)
Slack(s) == IF s = "picking" THEN Limit["listing"]
            ELSE IF s = "creating" THEN Limit["pushing"] ELSE 0

Timed == \A r \in Runs : Running(r) => spent[r] <= Limit[at[r]]
Alone == \A r, s \in Runs : Live(r) /\ Live(s) => r = s

(* A run's report is in the file, or it is about to be.                     *)
Written(r) ==
  /\ stage \in Progress \cup {"torn"}
  /\ wrote <= spent[r] + Slack(at[r])
Reported ==
  /\ \A r \in Runs : Running(r) =>
       IF pending[r] = None THEN Written(r) ELSE stage = "torn" /\ pending[r] \in Progress
  /\ \A r \in Runs : Live(r) /\ ~Running(r) => stage = "torn"

Guarded == Timed /\ (~overlap => Alone /\ Reported)

(* A run has its item from the choice on, and its pull request at the end. *)
Working == {"cloning", "implementing", "gating", "pushing", "creating"}
Placed ==
  /\ \A r \in Runs : at[r] \in Working \/ pr[r] # "none" => item[r] \in Items
  /\ \A r \in Runs : pr[r] # "none" => at[r] \in {"over", "dead"}
  /\ \A r \in Runs : pr[r] = "open" => branch[item[r]] # None
  /\ \A r, s \in Runs : pr[r] = "open" /\ pr[s] = "open" /\ item[r] = item[s] => r = s

Viewed(q) ==
  /\ CiState(request[q].rollup) = "passing"
  /\ pr[request[q].run] = "open" => branch[item[request[q].run]] = request[q].tip

Reviewed ==
  /\ \A q \in Requests : request[q].at # "idle" => pr[request[q].run] # "none"
  /\ \A q \in Requests : request[q].at = "merge" => Viewed(q)
  /\ MergedAsViewed

IInv == TypeOK /\ Guarded /\ Placed /\ Reviewed

-----------------------------------------------------------------------------
LEMMA StagesAre ==
  /\ Stages = {"starting", "listing", "picking", "cloning", "implementing",
               "gating", "pushing", "creating"}
  /\ Limit \in [Stages -> Nat] /\ StaleAfter \in Nat
  /\ None \notin Results \cup Progress
BY MechanicAssumption DEF Stages

LEMMA EnterTypes ==
  ASSUME TypeOK, NEW r \in Runs, NEW from, NEW to, Enter(r, from, to),
         to \in {"over"} \cup Stages
  PROVE  /\ at' \in [Runs -> {"unborn", "over", "dead"} \cup Stages]
         /\ spent' \in [Runs -> Nat]
BY StagesAre DEF TypeOK, Enter

(* The guard survives a run's step that reports itself, or that is one of  *)
(* the two that need not.                                                  *)
LEMMA EnterKeepsGuard ==
  ASSUME TypeOK, Guarded, NEW r \in Runs, NEW from \in Stages,
         NEW to \in {"over"} \cup Stages, Enter(r, from, to), UNCHANGED overlap,
         \/ \E s \in Results \cup Progress :
              WriteStatus(r, s) /\ (to = "over" \/ s \in Progress)
         \/ UNCHANGED status /\ to \in Stages /\ Slack(from) = 0 /\ Slack(to) = Limit[from]
  PROVE  Guarded'
<1>1. /\ at[r] = from /\ pending[r] = None /\ spent \in [Runs -> Nat] /\ wrote \in Nat
      /\ \A s \in Runs : at'[s] = IF s = r THEN to ELSE at[s]
      /\ \A s \in Runs : spent'[s] = IF s = r THEN 0 ELSE spent[s]
      /\ \A s \in Runs : s # r => pending'[s] = pending[s]
      /\ "over" \notin Stages
  BY StagesAre DEF TypeOK, Enter, WriteStatus, status
<1>2. Live(r) /\ Running(r) /\ \A s \in Runs : (Live(s)' => Live(s)) /\ (Running(s)' => Running(s))
  BY <1>1 DEF Live, Running
<1>3. Timed'
  BY <1>1, <1>2, StagesAre DEF Guarded, Timed, Running
<1>4. ASSUME ~overlap' PROVE Alone' /\ Reported'
  <2>1. Alone /\ Reported
    BY <1>4 DEF Guarded
  <2>2. Alone' /\ \A s \in Runs : Live(s)' => s = r
    BY <2>1, <1>2 DEF Alone
  <2>3. CASE \E s \in Results \cup Progress :
               WriteStatus(r, s) /\ (to = "over" \/ s \in Progress)
    <3>1. PICK s \in Results \cup Progress :
            WriteStatus(r, s) /\ (to = "over" \/ s \in Progress)
      BY <2>3
    <3>2. stage' = "torn" /\ pending'[r] = s /\ s # None /\ at'[r] = to
      BY <1>1, <3>1, StagesAre DEF WriteStatus, TypeOK
    <3> QED BY <1>1, <2>2, <3>1, <3>2 DEF Reported, Live, Running
  <2>4. CASE UNCHANGED status /\ to \in Stages /\ Slack(from) = 0 /\ Slack(to) = Limit[from]
    <3>1. UNCHANGED <<stage, wrote, pending>>
      BY <2>4 DEF status
    <3>2. Written(r)
      BY <1>1, <1>2, <2>1 DEF Reported
    <3>3. wrote <= spent[r] /\ spent[r] <= Limit[from] /\ Limit[from] \in Nat
      BY <1>1, <1>2, <2>4, <3>2, StagesAre DEF Written, Guarded, Timed
    <3>4. at'[r] = to /\ spent'[r] = 0 /\ Slack(at[r])' = Limit[from] /\ Running(r)'
      BY <1>1, <2>4 DEF Slack, Running
    <3>5. Written(r)'
      BY <1>1, <3>1, <3>2, <3>3, <3>4 DEF Written
    <3> QED BY <1>1, <2>2, <3>1, <3>4, <3>5 DEF Reported, Live
  <2> QED BY <2>2, <2>3, <2>4
<1> QED BY <1>3, <1>4 DEF Guarded

(* Nothing the guard is about changes.                                     *)
LEMMA SameGuard ==
  ASSUME Guarded, UNCHANGED <<at, spent, stage, wrote, pending, overlap>>
  PROVE  Guarded'
BY DEF Guarded, Timed, Alone, Reported, Written, Live, Running, Slack

(* Nothing the pull requests are about changes, but for a run's stage that *)
(* is not its last.                                                        *)
LEMMA SameReview ==
  ASSUME Reviewed, UNCHANGED <<request, item, branch, pr, merges>>
  PROVE  Reviewed'
BY DEF Reviewed, Viewed, MergedAsViewed

LEMMA EnterKeepsPlaces ==
  ASSUME TypeOK, Placed, NEW r \in Runs, NEW from \in Stages,
         NEW to \in {"over"} \cup Stages, Enter(r, from, to),
         to \in Working => from \in Working, UNCHANGED <<item, branch, pr>>
  PROVE  Placed'
<1>1. /\ at[r] = from /\ "over" \notin Stages
      /\ \A s \in Runs : at'[s] = IF s = r THEN to ELSE at[s]
  BY StagesAre DEF TypeOK, Enter
<1>2. from \notin {"over", "dead"}
  BY StagesAre
<1> QED BY <1>1, <1>2 DEF Placed

(* A guarded run keeps the button locked while its report can be read and  *)
(* its agent is in time.                                                   *)
LEMMA LockedWhileLive ==
  ASSUME TypeOK, Guarded, ~overlap, NEW r \in Runs, Live(r), ~Unseen(r)
  PROVE  ~Terminal
<1>1. Running(r) /\ stage # "torn" /\ Written(r)
  BY DEF Guarded, Reported, Unseen
<1>2. at[r] \in Stages /\ spent[r] \in Nat /\ wrote \in Nat /\ spent[r] <= Limit[at[r]]
  BY <1>1 DEF Running, TypeOK, Guarded, Timed
<1>3. Slack(at[r]) \in Nat /\ Limit[at[r]] \in Nat
  BY <1>2, StagesAre DEF Slack
<1>4. spent[r] + Slack(at[r]) <= StaleAfter
  <2>1. CASE at[r] = "implementing"
    BY <1>2, <2>1, StagesAre DEF Unseen, Slack
  <2>2. CASE at[r] # "implementing"
    <3>1. Limit[at[r]] + Slack(at[r]) <= StaleAfter
      BY <1>2, <1>3, <2>2, StagesAre, MechanicAssumption DEF Slack
    <3> QED BY <1>2, <1>3, <3>1, StagesAre
  <2> QED BY <2>1, <2>2
<1>5. wrote <= StaleAfter
  BY <1>1, <1>2, <1>3, <1>4, StagesAre DEF Written
<1> QED BY <1>1, <1>2, <1>5, StagesAre DEF Terminal, Written, Progress, Results

-----------------------------------------------------------------------------
(* Init: nobody runs, nothing is on GitHub.                                *)
LEMMA InitEstablishes == Init => IInv
<1> SUFFICES ASSUME Init PROVE IInv
  OBVIOUS
<1>1. TypeOK
  <2>1. NoRequest \in RequestStates
    BY DEF RequestStates
  <2>2. request \in [Requests -> RequestStates]
    BY <2>1 DEF Init
  <2>3. armed \in BOOLEAN /\ overlap \in BOOLEAN
    BY DEF Init
  <2>4. wrote \in 0..StaleAfter + 1 /\ spent \in [Runs -> Nat]
    BY StagesAre DEF Init
  <2> QED BY <2>2, <2>3, <2>4 DEF Init, TypeOK, Waiting
<1>2. \A r \in Runs : ~Live(r) /\ ~Running(r)
  BY DEF Init, Live, Running, Stages
<1>3. Guarded
  BY <1>2 DEF Guarded, Timed, Alone, Reported
<1>4. Placed
  BY DEF Init, Placed, Working
<1>5. Reviewed
  BY DEF Init, Reviewed, MergedAsViewed, NoRequest
<1> QED BY <1>1, <1>3, <1>4, <1>5 DEF IInv

(* A run is launched.  Through the guard it is the only one.               *)
LEMMA LaunchKeeps ==
  ASSUME IInv, NEW r \in Runs, Launch(r) PROVE IInv'
<1>1. /\ Enter(r, "unborn", "starting")
      /\ UNCHANGED <<armed, board, request, merges, pending, item, excluded, branch, checks, pr>>
  BY DEF Launch, Click, ForceClick, Begin, Fire, status, gitHub
<1>2. \/ stage' \in {"selecting", "torn"} /\ wrote' = 0
      \/ UNCHANGED <<stage, wrote>>
  BY DEF Launch, Click, ForceClick, Begin, Fire, status
<1>3. \/ overlap' = TRUE
      \/ /\ overlap' = (overlap \/ \E s \in Runs : Unseen(s))
         /\ Terminal /\ stage' \in {"selecting", "torn"} /\ wrote' = 0
  BY DEF Launch, Click, ForceClick, Begin, Fire
<1>4. TypeOK'
  <2>1. overlap' \in BOOLEAN
    BY <1>3 DEF IInv, TypeOK
  <2>2. /\ stage' \in Results \cup Progress \cup {"idle", "torn"}
        /\ wrote' \in 0..StaleAfter + 1
    BY <1>2, StagesAre DEF IInv, TypeOK, Progress
  <2>3. /\ at' \in [Runs -> {"unborn", "over", "dead"} \cup Stages]
        /\ spent' \in [Runs -> Nat]
    BY <1>1, EnterTypes, StagesAre DEF IInv
  <2> QED BY <1>1, <2>1, <2>2, <2>3 DEF IInv, TypeOK
<1>5. /\ at[r] = "unborn" /\ "unborn" \notin Stages /\ spent \in [Runs -> Nat]
      /\ pending[r] = None /\ pending' = pending
      /\ \A s \in Runs : at'[s] = IF s = r THEN "starting" ELSE at[s]
      /\ \A s \in Runs : spent'[s] = IF s = r THEN 0 ELSE spent[s]
  BY <1>1, StagesAre DEF IInv, TypeOK, Enter
<1>6. Guarded'
  <2>1. Timed'
    BY <1>5, StagesAre DEF IInv, Guarded, Timed, Running
  <2>2. ASSUME ~overlap' PROVE Alone' /\ Reported'
    <3>1. /\ Terminal /\ stage' \in {"selecting", "torn"} /\ wrote' = 0
          /\ ~overlap /\ \A s \in Runs : ~Unseen(s)
      BY <1>3, <2>2
    <3>2. \A s \in Runs : ~Live(s)
      BY <3>1, LockedWhileLive DEF IInv
    <3>3. \A s \in Runs : Live(s)' => s = r
      BY <1>5, <3>2 DEF Live, Running
    <3>4. /\ at'[r] = "starting" /\ spent'[r] = 0 /\ pending'[r] = None
          /\ stage' \in Progress \cup {"torn"} /\ Running(r)'
      BY <1>5, <3>1, StagesAre DEF Progress, Running
    <3>5. Written(r)'
      BY <3>1, <3>4 DEF Written, Slack
    <3> QED BY <3>3, <3>4, <3>5 DEF Alone, Reported, Live
  <2> QED BY <2>1, <2>2 DEF Guarded
<1>7. Placed'
  BY <1>1, <1>5 DEF IInv, Placed, Working
<1>8. Reviewed'
  BY <1>1, SameReview DEF IInv
<1> QED BY <1>4, <1>6, <1>7, <1>8 DEF IInv

(* A step of run r that leaves GitHub and its item alone.                  *)
LEMMA QuietStepKeeps ==
  ASSUME IInv, NEW r \in Runs, NEW from \in Stages, NEW to \in {"over"} \cup Stages,
         Enter(r, from, to), UNCHANGED <<Elsewhere, item, gitHub>>,
         excluded' \in [Runs -> SUBSET Items], to \in Working => from \in Working,
         \/ \E s \in Results \cup Progress :
              WriteStatus(r, s) /\ (to = "over" \/ s \in Progress)
         \/ UNCHANGED status /\ to \in Stages /\ Slack(from) = 0 /\ Slack(to) = Limit[from]
  PROVE  IInv'
<1>1. UNCHANGED <<armed, board, request, merges, overlap, item, branch, checks, pr>>
  BY DEF Elsewhere, gitHub
<1>2. TypeOK'
  BY <1>1, EnterTypes, StagesAre DEF IInv, TypeOK, WriteStatus, status
<1>3. Guarded'
  BY <1>1, EnterKeepsGuard DEF IInv
<1>4. Placed'
  BY <1>1, EnterKeepsPlaces DEF IInv
<1>5. Reviewed'
  BY <1>1, SameReview DEF IInv
<1> QED BY <1>2, <1>3, <1>4, <1>5 DEF IInv

-----------------------------------------------------------------------------
(* The item is chosen.                                                     *)
LEMMA SelectKeeps ==
  ASSUME IInv, NEW r \in Runs, Select(r) PROVE IInv'
<1>1. PICK i \in Items : /\ Enter(r, "picking", "cloning")
                         /\ item' = [item EXCEPT ![r] = i]
                         /\ WriteStatus(r, "cloning")
                         /\ UNCHANGED <<Elsewhere, excluded, gitHub>>
  BY DEF Select, Top, Candidates
<1>2. UNCHANGED <<armed, board, request, merges, overlap, excluded, branch, checks, pr>>
  BY <1>1 DEF Elsewhere, gitHub
<1>3. TypeOK'
  BY <1>1, <1>2, EnterTypes, StagesAre DEF IInv, TypeOK, WriteStatus, Progress
<1>4. Guarded'
  BY <1>1, <1>2, EnterKeepsGuard, StagesAre DEF IInv, Progress
<1>5. /\ at[r] = "picking" /\ pr[r] = "none"
      /\ \A s \in Runs : at'[s] = IF s = r THEN "cloning" ELSE at[s]
      /\ \A s \in Runs : item'[s] = IF s = r THEN i ELSE item[s]
  BY <1>1 DEF IInv, TypeOK, Placed, Enter
<1>6. Placed'
  BY <1>2, <1>5 DEF IInv, Placed, Working
<1>7. \A s \in Runs : pr[s] # "none" => item'[s] = item[s]
  BY <1>5
<1>8. \A q \in Requests : request[q].at = "merge" => request[q].run \in Runs
  BY DEF IInv, TypeOK, RequestStates, NoRequest
<1>9. Reviewed'
  BY <1>2, <1>7, <1>8 DEF IInv, Reviewed, Viewed, MergedAsViewed
<1> QED BY <1>3, <1>4, <1>6, <1>9 DEF IInv

(* The push goes through only where there is no branch, and so under no    *)
(* open pull request.                                                      *)
LEMMA PushKeeps ==
  ASSUME IInv, NEW r \in Runs, Push(r) PROVE IInv'
<1>1. /\ Enter(r, "pushing", "creating")
      /\ branch[item[r]] = None
      /\ branch' = [branch EXCEPT ![item[r]] = r]
      /\ checks' = [checks EXCEPT ![item[r]] = {}]
      /\ UNCHANGED <<armed, board, request, merges, overlap, status, item, excluded, pr>>
  BY DEF Push, Elsewhere
<1>2. item[r] \in Items /\ at[r] = "pushing" /\ pr[r] = "none"
  BY <1>1 DEF IInv, TypeOK, Placed, Enter, Working
<1>3. TypeOK'
  BY <1>1, <1>2, EnterTypes, StagesAre DEF IInv, TypeOK, status
<1>4. Slack("pushing") = 0 /\ Slack("creating") = Limit["pushing"]
  BY DEF Slack
<1>5. Guarded'
  BY <1>1, <1>4, EnterKeepsGuard, StagesAre DEF IInv
<1>6. \A s \in Runs : at'[s] = IF s = r THEN "creating" ELSE at[s]
  BY <1>1 DEF IInv, TypeOK, Enter
<1>7. \A i \in Items : branch'[i] = IF i = item[r] THEN r ELSE branch[i]
  BY <1>1 DEF IInv, TypeOK
<1>8. r # None
  BY MechanicAssumption
<1>9. Placed'
  BY <1>1, <1>2, <1>6, <1>7, <1>8 DEF IInv, Placed, Working
<1>10. \A s \in Runs : pr[s] = "open" => item[s] \in Items /\ branch'[item[s]] = branch[item[s]]
  BY <1>1, <1>7 DEF IInv, Placed
<1>11. \A q \in Requests : request[q].at = "merge" => request[q].run \in Runs
  BY DEF IInv, TypeOK, RequestStates, NoRequest
<1>12. Reviewed'
  BY <1>1, <1>10, <1>11 DEF IInv, Reviewed, Viewed, MergedAsViewed
<1> QED BY <1>3, <1>5, <1>9, <1>12 DEF IInv

(* The pull request is opened, on whatever the branch holds.               *)
LEMMA CreateKeeps ==
  ASSUME IInv, NEW r \in Runs, Create(r) PROVE IInv'
<1>1. /\ Enter(r, "creating", "over")
      /\ branch[item[r]] # None /\ OpenOn(item[r]) = {}
      /\ pr' = [pr EXCEPT ![r] = "open"]
      /\ WriteStatus(r, "pr_opened")
      /\ UNCHANGED <<armed, board, request, merges, overlap, item, excluded, branch, checks>>
  BY DEF Create, Elsewhere
<1>2. item[r] \in Items /\ at[r] = "creating" /\ pr[r] = "none"
  BY <1>1 DEF IInv, TypeOK, Placed, Enter, Working
<1>3. TypeOK'
  BY <1>1, EnterTypes, StagesAre DEF IInv, TypeOK, WriteStatus, Results
<1>4. Guarded'
  BY <1>1, EnterKeepsGuard, StagesAre DEF IInv, Results
<1>5. /\ \A s \in Runs : at'[s] = IF s = r THEN "over" ELSE at[s]
      /\ \A s \in Runs : pr'[s] = IF s = r THEN "open" ELSE pr[s]
  BY <1>1 DEF IInv, TypeOK, Enter
<1>6. \A s \in Runs : pr[s] = "open" => item[s] # item[r]
  BY <1>1 DEF OpenOn
<1>7. Placed'
  BY <1>1, <1>2, <1>5, <1>6 DEF IInv, Placed, Working
<1>8. \A q \in Requests : request[q].at # "idle" =>
         request[q].run \in Runs /\ request[q].run # r
  BY <1>2 DEF IInv, TypeOK, RequestStates, NoRequest, Reviewed
<1>9. Reviewed'
  BY <1>1, <1>5, <1>8 DEF IInv, Reviewed, Viewed, MergedAsViewed
<1> QED BY <1>3, <1>4, <1>7, <1>9 DEF IInv

LEMMA DieKeeps ==
  ASSUME IInv, NEW r \in Runs, Die(r) PROVE IInv'
<1>1. /\ at' = [at EXCEPT ![r] = "dead"] /\ pending' = [pending EXCEPT ![r] = None]
      /\ UNCHANGED <<armed, board, request, merges, overlap, stage, wrote, item, excluded,
                     spent, branch, checks, pr>>
  BY DEF Die, Elsewhere, gitHub
<1>2. TypeOK'
  BY <1>1 DEF IInv, TypeOK
<1>3. /\ \A s \in Runs : at'[s] = IF s = r THEN "dead" ELSE at[s]
      /\ \A s \in Runs : pending'[s] = IF s = r THEN None ELSE pending[s]
  BY <1>1 DEF IInv, TypeOK
<1>4. \A s \in Runs : (Live(s)' => s # r /\ Live(s)) /\ (Running(s)' => s # r /\ Running(s))
  BY <1>3, StagesAre DEF Live, Running
<1>5. \A s \in Runs : s # r => Slack(at[s])' = Slack(at[s]) /\ Running(s)' = Running(s)
  BY <1>3 DEF Slack, Running
<1>6. Guarded'
  BY <1>1, <1>3, <1>4, <1>5 DEF IInv, Guarded, Timed, Alone, Reported, Written
<1>7. Placed'
  BY <1>1, <1>3, StagesAre DEF IInv, Placed, Working
<1>8. Reviewed'
  BY <1>1, SameReview DEF IInv
<1> QED BY <1>2, <1>6, <1>7, <1>8 DEF IInv

(* What was pending is in the file, or the file cannot be read.             *)
LEMMA FlushKeeps ==
  ASSUME IInv, NEW r \in Runs, Flush(r) PROVE IInv'
<1>1. /\ pending[r] # None /\ stage' \in {pending[r], "torn"} /\ wrote' = 0
      /\ pending' = [pending EXCEPT ![r] = None]
      /\ UNCHANGED <<armed, board, request, merges, overlap, branch, checks, pr>>
      /\ UNCHANGED <<at, item, excluded, spent>>
  BY DEF Flush, Elsewhere, runVars, gitHub
<1>2. /\ pending[r] \in Results \cup Progress
      /\ \A s \in Runs : pending'[s] = IF s = r THEN None ELSE pending[s]
  BY <1>1 DEF IInv, TypeOK
<1>3. TypeOK'
  BY <1>1, <1>2, StagesAre DEF IInv, TypeOK
<1>4. \A s \in Runs : Running(s)' = Running(s) /\ Slack(at[s])' = Slack(at[s])
  BY <1>1 DEF Running, Slack
<1>5. Live(r) /\ \A s \in Runs : Live(s)' => Live(s)
  BY <1>1, <1>2, <1>4 DEF Live
<1>6. Timed'
  BY <1>1, <1>4 DEF IInv, Guarded, Timed
<1>7. ASSUME ~overlap' PROVE Alone' /\ Reported'
  <2>1. Alone /\ Reported
    BY <1>1, <1>7 DEF IInv, Guarded
  <2>2. Alone' /\ \A s \in Runs : Live(s)' => s = r
    BY <1>5, <2>1 DEF Alone
  <2>3. Live(r)' => Running(r) /\ pending[r] \in Progress
    BY <1>1, <1>2, <1>4, <2>1 DEF Live, Reported
  <2>4. Running(r) => spent[r] \in Nat /\ Slack(at[r]) \in Nat
    BY StagesAre DEF IInv, TypeOK, Running, Slack
  <2>5. Live(r)' => Written(r)'
    BY <1>1, <1>4, <2>3, <2>4 DEF Written
  <2> QED BY <1>2, <1>4, <2>2, <2>3, <2>5 DEF Reported, Live
<1>8. Placed'
  BY <1>1 DEF IInv, Placed
<1>9. Reviewed'
  BY <1>1, SameReview DEF IInv
<1> QED BY <1>3, <1>6, <1>7, <1>8, <1>9 DEF IInv, Guarded

LEMMA WorkKeeps ==
  ASSUME IInv, NEW r \in Runs, Work(r) PROVE IInv'
<1>1. CASE Start(r)
  BY <1>1, QuietStepKeeps, StagesAre DEF Start, Progress, Working, IInv, TypeOK
<1>2. CASE ListOpen(r)
  <2>1. excluded' \in [Runs -> SUBSET Items]
    BY <1>2 DEF ListOpen, IInv, TypeOK
  <2>2. Slack("listing") = 0 /\ Slack("picking") = Limit["listing"]
    BY DEF Slack
  <2> QED BY <1>2, <2>1, <2>2, QuietStepKeeps, StagesAre DEF ListOpen, Working
<1>3. CASE ListFails(r)
  <2>1. Slack("listing") = 0 /\ Slack("picking") = Limit["listing"]
    BY DEF Slack
  <2> QED BY <1>3, <2>1, QuietStepKeeps, StagesAre DEF ListFails, Working, IInv, TypeOK
<1>4. CASE Select(r)
  BY <1>4, SelectKeeps
<1>5. ASSUME NEW from \in Stages, NEW result \in Results, End(r, from, result) PROVE IInv'
  BY <1>5, QuietStepKeeps DEF End, Working, IInv, TypeOK
<1>6. CASE NoWork(r) \/ AgentFails(r) \/ NoChange(r) \/ Forbidden(r) \/ GateFails(r) \/ CreateFails(r)
  BY <1>5, <1>6, StagesAre
     DEF NoWork, AgentFails, NoChange, Forbidden, GateFails, CreateFails, Results
<1>7. CASE Clone(r)
  BY <1>7, QuietStepKeeps, StagesAre DEF Clone, Progress, Working, IInv, TypeOK
<1>8. CASE AgentDone(r)
  BY <1>8, QuietStepKeeps, StagesAre DEF AgentDone, Progress, Working, IInv, TypeOK
<1>9. CASE GatePasses(r)
  BY <1>9, QuietStepKeeps, StagesAre DEF GatePasses, Progress, Working, IInv, TypeOK
<1>10. CASE Push(r)
  BY <1>10, PushKeeps
<1>11. CASE PushFails(r)
  <2>1. Slack("pushing") = 0 /\ Slack("creating") = Limit["pushing"]
    BY DEF Slack
  <2> QED BY <1>11, <2>1, QuietStepKeeps, StagesAre DEF PushFails, Working, IInv, TypeOK
<1>12. CASE Create(r)
  BY <1>12, CreateKeeps
<1>13. CASE Flush(r) \/ Die(r)
  BY <1>13, FlushKeeps, DieKeeps
<1> QED BY <1>1, <1>2, <1>3, <1>4, <1>6, <1>7, <1>8, <1>9, <1>10, <1>11, <1>12, <1>13 DEF Work

-----------------------------------------------------------------------------
(* The types of a request, without the records.                            *)
LEMMA RequestIs ==
  ASSUME TypeOK, NEW q \in Requests
  PROVE  /\ request[q] \in RequestStates
         /\ request[q].at \in {"idle", "merge", "look", "mark"}
         /\ request[q].at # "idle" => request[q].run \in Runs
         /\ request[q].at = "merge" =>
              request[q].tip \in Runs /\ request[q].rollup \in SUBSET Conclusions
BY DEF TypeOK, RequestStates, NoRequest

(* Steps of the server, the operators and GitHub.                          *)
LEMMA RequestChanges ==
  ASSUME IInv, NEW q \in Requests, NEW new \in RequestStates,
         request' = [request EXCEPT ![q] = new],
         new.at # "idle" => new.run \in Runs /\ pr[new.run] # "none",
         new.at = "merge" =>
           /\ CiState(new.rollup) = "passing"
           /\ pr[new.run] = "open" => branch[item[new.run]] = new.tip,
         board' \in [Items -> Waiting],
         UNCHANGED <<armed, status, runVars, gitHub, merges, overlap>>
  PROVE  IInv'
<1>1. UNCHANGED <<at, item, excluded, spent, branch, checks, pr, stage, wrote, pending>>
  BY DEF runVars, gitHub, status
<1>2. request' \in [Requests -> RequestStates]
  BY DEF IInv, TypeOK
<1>3. TypeOK'
  BY <1>1, <1>2 DEF IInv, TypeOK
<1>4. Guarded' /\ Placed'
  BY <1>1, SameGuard DEF IInv, Placed
<1>5. \A p \in Requests : request'[p] = IF p = q THEN new ELSE request[p]
  BY DEF IInv, TypeOK
<1>6. Reviewed'
  BY <1>1, <1>5 DEF IInv, Reviewed, Viewed, MergedAsViewed
<1> QED BY <1>3, <1>4, <1>6 DEF IInv

LEMMA ViewKeeps ==
  ASSUME IInv, NEW q \in Requests, NEW r \in Runs, View(q, r) PROVE IInv'
<1> DEFINE new == [at |-> "merge", run |-> r, tip |-> branch[item[r]], rollup |-> checks[item[r]]]
<1>1. /\ pr[r] = "open" /\ CiState(checks[item[r]]) = "passing"
      /\ request' = [request EXCEPT ![q] = new]
      /\ UNCHANGED <<armed, board, status, runVars, gitHub, merges, overlap>>
  BY DEF View
<1>2. item[r] \in Items /\ branch[item[r]] \in Runs /\ checks[item[r]] \in SUBSET Conclusions
  BY <1>1 DEF IInv, Placed, TypeOK
<1>3. new \in RequestStates
  BY <1>2 DEF RequestStates
<1>4. new.at = "merge" /\ new.run = r /\ new.rollup = checks[item[r]] /\ new.tip = branch[item[r]]
  OBVIOUS
<1> HIDE DEF new
<1>5. board' \in [Items -> Waiting]
  BY <1>1 DEF IInv, TypeOK
<1> QED BY <1>1, <1>3, <1>4, <1>5, RequestChanges

(* The pull request is gone, and its branch.                               *)
LEMMA ClosingKeepsPlaces ==
  ASSUME IInv, NEW r \in Runs, NEW state \in {"merged", "closed"}, pr[r] = "open",
         pr' = [pr EXCEPT ![r] = state],
         branch' = [branch EXCEPT ![item[r]] = None],
         checks' = [checks EXCEPT ![item[r]] = {}],
         UNCHANGED <<at, item>>
  PROVE  /\ Placed'
         /\ branch' \in [Items -> Runs \cup {None}]
         /\ checks' \in [Items -> SUBSET Conclusions]
         /\ pr' \in [Runs -> {"none", "open", "merged", "closed"}]
         /\ \A s \in Runs : pr'[s] = IF s = r THEN state ELSE pr[s]
         /\ \A s \in Runs : pr'[s] = "open" => branch'[item[s]] = branch[item[s]]
<1>1. item[r] \in Items
  BY DEF IInv, Placed
<1>2. /\ \A s \in Runs : pr'[s] = IF s = r THEN state ELSE pr[s]
      /\ \A i \in Items : branch'[i] = IF i = item[r] THEN None ELSE branch[i]
  BY DEF IInv, TypeOK
<1>3. \A s \in Runs : pr'[s] = "open" => s # r /\ item[s] \in Items /\ item[s] # item[r]
  BY <1>2 DEF IInv, Placed
<1>4. Placed'
  BY <1>2, <1>3 DEF IInv, Placed
<1> QED BY <1>2, <1>3, <1>4, <1>1 DEF IInv, TypeOK

LEMMA MergeKeeps ==
  ASSUME IInv, NEW q \in Requests, request[q].at = "merge", Squash(q),
         NEW new \in RequestStates, request' = [request EXCEPT ![q] = new],
         new.at # "merge", new.at # "idle" => new.run = request[q].run,
         UNCHANGED <<armed, board, status, runVars, overlap>>
  PROVE  IInv'
<1> DEFINE r == request[q].run
           m == [tip |-> branch[item[r]], viewed |-> request[q].tip, rollup |-> request[q].rollup]
<1>1. /\ r \in Runs /\ pr[r] = "open" /\ request[q].tip \in Runs
      /\ request[q].rollup \in SUBSET Conclusions
  BY RequestIs DEF IInv, Squash
<1>2. /\ pr' = [pr EXCEPT ![r] = "merged"]
      /\ branch' = [branch EXCEPT ![item[r]] = None]
      /\ checks' = [checks EXCEPT ![item[r]] = {}]
      /\ merges' = merges \cup {m}
      /\ UNCHANGED <<at, item, excluded, spent, stage, wrote, pending>>
  BY DEF Squash, runVars, status
<1>3. branch[item[r]] = request[q].tip /\ CiState(request[q].rollup) = "passing"
  BY <1>1 DEF IInv, Reviewed, Viewed
<1>4. m \in [tip : Runs, viewed : Runs, rollup : SUBSET Conclusions]
  BY <1>1, <1>3
<1>5. m.tip = m.viewed /\ CiState(m.rollup) = "passing"
  BY <1>3
<1> HIDE DEF m, r
<1>6. /\ Placed'
      /\ branch' \in [Items -> Runs \cup {None}]
      /\ checks' \in [Items -> SUBSET Conclusions]
      /\ pr' \in [Runs -> {"none", "open", "merged", "closed"}]
      /\ \A s \in Runs : pr'[s] = IF s = r THEN "merged" ELSE pr[s]
      /\ \A s \in Runs : pr'[s] = "open" => branch'[item[s]] = branch[item[s]]
  BY <1>1, <1>2, ClosingKeepsPlaces
<1>7. request' \in [Requests -> RequestStates]
  BY DEF IInv, TypeOK
<1>8. merges' \subseteq [tip : Runs, viewed : Runs, rollup : SUBSET Conclusions]
  BY <1>2, <1>4 DEF IInv, TypeOK
<1>9. TypeOK'
  BY <1>2, <1>6, <1>7, <1>8 DEF IInv, TypeOK
<1>10. Guarded'
  BY <1>2, SameGuard DEF IInv
<1>11. MergedAsViewed'
  BY <1>2, <1>5 DEF IInv, Reviewed, MergedAsViewed
<1>12. \A p \in Requests : request'[p] = IF p = q THEN new ELSE request[p]
  BY DEF IInv, TypeOK
<1>13. \A p \in Requests : request[p].at # "idle" => request[p].run \in Runs
  BY RequestIs DEF IInv
<1>14. Reviewed'
  BY <1>2, <1>6, <1>11, <1>12, <1>13, <1>1 DEF IInv, Reviewed, Viewed, r
<1> QED BY <1>6, <1>9, <1>10, <1>14 DEF IInv

LEMMA ApproveKeeps ==
  ASSUME IInv, NEW q \in Requests, Approve(q) PROVE IInv'
<1> DEFINE run == request[q].run
<1>1. NoRequest \in RequestStates /\ NoRequest.at = "idle"
  BY DEF RequestStates, NoRequest
<1>2. ASSUME NEW r \in Runs, View(q, r) PROVE IInv'
  BY <1>2, ViewKeeps
<1>3. ASSUME request[q].at # "idle", NEW step \in {"look", "mark"}
      PROVE  [at |-> step, run |-> run] \in RequestStates
  BY <1>3, RequestIs DEF IInv, RequestStates
<1>4. CASE Merge(q)
  <2> DEFINE new == [at |-> "look", run |-> run]
  <2>1. new \in RequestStates
    BY <1>3, <1>4 DEF Merge
  <2> QED BY <1>4, <2>1, MergeKeeps DEF Merge
<1>5. CASE MergeTimesOut(q)
  BY <1>1, <1>5, MergeKeeps DEF MergeTimesOut
<1>6. CASE MergeFails(q)
  <2>1. board' \in [Items -> Waiting]
    BY <1>6 DEF MergeFails, IInv, TypeOK
  <2> QED BY <1>1, <1>6, <2>1, RequestChanges DEF MergeFails
<1>7. CASE Look(q)
  <2>1. /\ board' \in [Items -> Waiting] /\ request[q].at = "look"
        /\ UNCHANGED <<armed, status, runVars, gitHub, merges, overlap>>
    BY <1>7 DEF Look, IInv, TypeOK
  <2>2. run \in Runs /\ pr[run] # "none"
    BY <2>1, RequestIs DEF IInv, Reviewed
  <2>3. [at |-> "mark", run |-> run] \in RequestStates
    BY <2>1, <1>3
  <2>4. CASE request' = [request EXCEPT ![q] = NoRequest]
    BY <1>1, <2>1, <2>4, RequestChanges
  <2>5. CASE request' = [request EXCEPT ![q] = [at |-> "mark", run |-> run]]
    <3> DEFINE new == [at |-> "mark", run |-> run]
    <3>1. new.at = "mark" /\ new.run = run
      OBVIOUS
    <3> HIDE DEF new
    <3> QED BY <2>1, <2>2, <2>3, <2>5, <3>1, RequestChanges DEF new
  <2> QED BY <1>7, <2>4, <2>5 DEF Look
<1>8. CASE Mark(q)
  <2>1. board' \in [Items -> Waiting]
    BY <1>8 DEF Mark, IInv, TypeOK, Waiting
  <2> QED BY <1>1, <1>8, <2>1, RequestChanges DEF Mark
<1> QED BY <1>2, <1>4, <1>5, <1>6, <1>7, <1>8 DEF Approve

LEMMA RejectKeeps ==
  ASSUME IInv, NEW r \in Runs, Reject(r) PROVE IInv'
<1>1. /\ pr[r] = "open" /\ pr' = [pr EXCEPT ![r] = "closed"]
      /\ branch' = [branch EXCEPT ![item[r]] = None]
      /\ checks' = [checks EXCEPT ![item[r]] = {}]
      /\ UNCHANGED <<armed, board, stage, wrote, pending, request, merges, overlap>>
      /\ UNCHANGED <<at, item, excluded, spent>>
  BY DEF Reject, runVars, status
<1>2. /\ Placed'
      /\ branch' \in [Items -> Runs \cup {None}]
      /\ checks' \in [Items -> SUBSET Conclusions]
      /\ pr' \in [Runs -> {"none", "open", "merged", "closed"}]
      /\ \A s \in Runs : pr'[s] = IF s = r THEN "closed" ELSE pr[s]
      /\ \A s \in Runs : pr'[s] = "open" => branch'[item[s]] = branch[item[s]]
  BY <1>1, ClosingKeepsPlaces
<1>3. TypeOK'
  BY <1>1, <1>2 DEF IInv, TypeOK
<1>4. Guarded'
  BY <1>1, SameGuard DEF IInv
<1>5. \A q \in Requests : request[q].at # "idle" => request[q].run \in Runs
  BY RequestIs DEF IInv
<1>6. Reviewed'
  BY <1>1, <1>2, <1>5 DEF IInv, Reviewed, Viewed, MergedAsViewed
<1> QED BY <1>2, <1>3, <1>4, <1>6 DEF IInv

LEMMA CheckKeeps ==
  ASSUME IInv, NEW i \in Items, Check(i) PROVE IInv'
<1>1. /\ UNCHANGED <<armed, board, stage, wrote, pending, branch, pr, request, merges, overlap>>
      /\ UNCHANGED <<at, item, excluded, spent>>
  BY DEF Check, runVars, status
<1>2. checks' \in [Items -> SUBSET Conclusions]
  BY MechanicAssumption DEF Check, IInv, TypeOK
<1>3. TypeOK'
  BY <1>1, <1>2 DEF IInv, TypeOK
<1> QED BY <1>1, <1>3, SameGuard, SameReview DEF IInv, Placed

LEMMA CurateKeeps ==
  ASSUME IInv, NEW i \in Items, Curate(i) PROVE IInv'
<1>1. /\ UNCHANGED <<armed, stage, wrote, pending, branch, checks, pr, request, merges, overlap>>
      /\ UNCHANGED <<at, item, excluded, spent>>
  BY DEF Curate, runVars, gitHub, status
<1>2. board' \in [Items -> Waiting]
  BY DEF Curate, IInv, TypeOK, Waiting
<1>3. TypeOK'
  BY <1>1, <1>2 DEF IInv, TypeOK
<1> QED BY <1>1, <1>3, SameGuard, SameReview DEF IInv, Placed

LEMMA RestartKeeps == ASSUME IInv, Restart PROVE IInv'
<1>1. /\ UNCHANGED <<armed, board, stage, wrote, pending, branch, checks, pr, merges, overlap>>
      /\ UNCHANGED <<at, item, excluded, spent>>
      /\ request' = [q \in Requests |-> NoRequest]
  BY DEF Restart, runVars, gitHub, status
<1>2. NoRequest \in RequestStates /\ NoRequest.at = "idle"
  BY DEF RequestStates, NoRequest
<1>3. TypeOK'
  BY <1>1, <1>2 DEF IInv, TypeOK
<1>4. Reviewed'
  BY <1>1, <1>2 DEF IInv, Reviewed, MergedAsViewed
<1> QED BY <1>1, <1>3, <1>4, SameGuard DEF IInv, Placed

LEMMA TickKeeps == ASSUME IInv, Tick PROVE IInv'
<1>1. /\ \A r \in Runs : pending[r] = None /\ (Running(r) => spent[r] < Limit[at[r]])
      /\ wrote' = IF wrote <= StaleAfter THEN wrote + 1 ELSE wrote
      /\ spent' = [r \in Runs |-> IF Running(r) THEN spent[r] + 1 ELSE spent[r]]
      /\ UNCHANGED <<armed, board, request, merges, overlap, stage, pending, at, item, excluded,
                     branch, checks, pr>>
  BY DEF Tick, Elsewhere, gitHub
<1>2. /\ wrote \in 0..StaleAfter + 1 /\ spent \in [Runs -> Nat]
      /\ StaleAfter \in Nat /\ \A s \in Stages : Limit[s] \in Nat
  BY StagesAre DEF IInv, TypeOK
<1>3. wrote' \in 0..StaleAfter + 1 /\ wrote' <= wrote + 1
  BY <1>1, <1>2
<1>4. \A r \in Runs : Running(r) => spent'[r] = spent[r] + 1 /\ spent'[r] <= Limit[at[r]]
  BY <1>1, <1>2 DEF Running
<1>5. spent' \in [Runs -> Nat]
  BY <1>1, <1>2
<1>6. TypeOK'
  BY <1>1, <1>3, <1>5 DEF IInv, TypeOK
<1>7. Timed'
  BY <1>1, <1>4 DEF Timed, Running
<1>8. ASSUME ~overlap', NEW r \in Runs, Running(r)' PROVE Written(r)'
  <2>1. Running(r) /\ Written(r)
    BY <1>1, <1>8 DEF IInv, Guarded, Reported, Running
  <2>2. Slack(at[r])' = Slack(at[r]) /\ Slack(at[r]) \in Nat
    BY <1>1, <2>1, StagesAre DEF Slack, Running
  <2> QED BY <1>1, <1>2, <1>3, <1>4, <2>1, <2>2 DEF Written
<1>9. Guarded'
  BY <1>1, <1>7, <1>8 DEF IInv, Guarded, Alone, Reported, Live, Running
<1> QED BY <1>1, <1>6, <1>9, SameReview DEF IInv, Placed

LEMMA StepKeeps == IInv /\ [Next]_vars => IInv'
<1> SUFFICES ASSUME IInv, [Next]_vars PROVE IInv'
  OBVIOUS
<1>1. CASE UNCHANGED vars
  <2>1. /\ UNCHANGED <<armed, board, stage, wrote, pending, branch, checks, pr, request, merges, overlap>>
        /\ UNCHANGED <<at, item, excluded, spent>>
    BY <1>1 DEF vars, runVars, gitHub, status
  <2>2. TypeOK'
    BY <2>1 DEF IInv, TypeOK
  <2> QED BY <2>1, <2>2, SameGuard, SameReview DEF IInv, Placed
<1>2. ASSUME NEW r \in Runs, Launch(r) \/ Work(r) \/ Reject(r) PROVE IInv'
  BY <1>2, LaunchKeeps, WorkKeeps, RejectKeeps
<1>3. ASSUME NEW q \in Requests, Approve(q) PROVE IInv'
  BY <1>3, ApproveKeeps
<1>4. ASSUME NEW i \in Items, Check(i) \/ Curate(i) PROVE IInv'
  BY <1>4, CheckKeeps, CurateKeeps
<1>5. CASE Restart
  BY <1>5, RestartKeeps
<1>6. CASE Tick
  BY <1>6, TickKeeps
<1> QED BY <1>1, <1>2, <1>3, <1>4, <1>5, <1>6 DEF Next

-----------------------------------------------------------------------------
(* Every variable of the mechanic stays in its range.                      *)
THEOREM TypeCorrect == Spec => []TypeOK
<1>1. Init => IInv
  BY InitEstablishes
<1>2. IInv /\ [Next]_vars => IInv'
  BY StepKeeps
<1>3. IInv => TypeOK
  BY DEF IInv
<1> QED BY <1>1, <1>2, <1>3, PTL DEF Spec

(* The button's guard, for any timeout of the agent: unforced, with the    *)
(* cadence disarmed, and but for the two reports it does not see, two runs *)
(* are never alive at once, as the other timeouts fit _STALE_AFTER.        *)
THEOREM GuardExcludes == Spec => []OneRunAtATime
<1>1. Init => IInv
  BY InitEstablishes
<1>2. IInv /\ [Next]_vars => IInv'
  BY StepKeeps
<1>3. IInv => OneRunAtATime
  BY DEF IInv, Guarded, Alone, OneRunAtATime
<1> QED BY <1>1, <1>2, <1>3, PTL DEF Spec

(* merge_pr merges the commit it viewed, however many runs push.           *)
THEOREM OnlyViewedMerges == Spec => []MergedAsViewed
<1>1. Init => IInv
  BY InitEstablishes
<1>2. IInv /\ [Next]_vars => IInv'
  BY StepKeeps
<1>3. IInv => MergedAsViewed
  BY DEF IInv, Reviewed
<1> QED BY <1>1, <1>2, <1>3, PTL DEF Spec

-----------------------------------------------------------------------------
(***************************************************************************)
(* The generators.  A task picks a pair by counts that others are about to *)
(* raise.  What it still owes is counted with the pair: whoever logs a pair *)
(* may put one more bridge on another, which the logged count pays for.    *)
(***************************************************************************)

(* A task can still put a bridge on p before q gets another: it has one in *)
(* hand, or it has logged q and its second bridge is to come.              *)
Owes(k, p, q) == k.pair = p \/ (k.pair = Nil /\ k.first = q)
Due(p, q) == {t \in Tasks : Owes(task[t], p, q)}

(* What is on p and what can still come make up no more than what is on q  *)
(* and one for each task.                                                  *)
Even ==
  /\ \A p \in Pairs : taken[p] <= count[p]
  /\ \A p, q \in Pairs :
       taken[p] + Cardinality(Due(p, q)) <= count[q] + Cardinality(Tasks)

(* What a task has in hand at each of its labels.                          *)
Equipped(k) ==
  /\ k.at \in {"tuple", "save", "record"} => k.pair \in Pairs
  /\ k.at \in {"super", "name", "store", "stored", "fallback"} => k.pair = Nil
  /\ k.at \in {"name", "store", "stored"} => k.cluster \in Clusters
  /\ k.at = "spans" => k.spans # <<>>
  /\ k.first # Nil => k.pair # k.first

GeneratorsIInv ==
  /\ GeneratorsTypeOK
  /\ Even
  /\ \A t \in Tasks : Equipped(task[t]) /\ task[t].tuple \in used \cup {Nil}
  /\ PlacedAreUsed

-----------------------------------------------------------------------------
(* The least of the counts.                                                *)
LEMMA BelowIs ==
  ASSUME NEW f \in [Pairs -> Nat], NEW p \in Pairs
  PROVE  Below(f) \in Nat /\ Below(f) <= f[p]
<1> DEFINE S == {f[q] : q \in Pairs}
<1>1. S \subseteq Nat /\ S # {}
  OBVIOUS
<1>2. \E m \in S : \A n \in S : ~(<<n, m>> \in OpToRel(<, Nat))
  <2> HIDE DEF S
  <2> QED BY <1>1, NatLessThanWellFounded, WFMin
<1>3. \E m \in S : \A n \in S : m <= n
  <2>1. PICK m \in S : \A n \in S : ~(<<n, m>> \in OpToRel(<, Nat))
    BY <1>2
  <2>2. ASSUME NEW n \in S PROVE m <= n
    <3>1. m \in Nat /\ n \in Nat
      BY <1>1
    <3>2. ~(n < m)
      BY <2>1, <3>1 DEF OpToRel
    <3> QED BY <3>1, <3>2
  <2> QED BY <2>2
<1>4. \E m \in {f[q] : q \in Pairs} : \A q \in Pairs : m <= f[q]
  BY <1>3
<1>5. Below(f) \in S /\ \A q \in Pairs : Below(f) <= f[q]
  BY <1>4 DEF Below
<1> QED BY <1>1, <1>5

LEMMA LeveledIs ==
  ASSUME NEW f \in [Pairs -> Nat], NEW g \in [Pairs -> Nat]
  PROVE  /\ Leveled(f, g) \in [Pairs -> Nat]
         /\ \A p \in Pairs : Leveled(f, g)[p] = IF f[p] < Below(g) THEN 0 ELSE f[p] - Below(g)
<1>1. ASSUME NEW p \in Pairs PROVE Less(f[p], Below(g)) \in Nat
  BY BelowIs DEF Less
<1> QED BY <1>1 DEF Leveled, Less

LEMMA TasksFinite ==
  /\ Cardinality(Tasks) \in Nat
  /\ \A S \in SUBSET Tasks : Cardinality(S) \in Nat /\ Cardinality(S) <= Cardinality(Tasks)
BY ExpansionAssumption, FS_CardinalityType, FS_Subset

LEMMA IdleIs ==
  /\ Idle \in Task /\ Equipped(Idle) /\ Idle.tuple = Nil /\ Idle.pair = Nil /\ Idle.first = Nil
  /\ \A p, q \in Pairs : ~Owes(Idle, p, q)
BY ExpansionAssumption DEF Idle, Task, GeneratorLabels, Equipped, Owes

(* Who is due after a task has taken a step.                               *)
LEMMA DueAfter ==
  ASSUME task \in [Tasks -> Task], NEW t \in Tasks, NEW k \in Task, Become(t, k),
         NEW p \in Pairs, NEW q \in Pairs
  PROVE  /\ Due(p, q) \in SUBSET Tasks /\ Due(p, q)' \in SUBSET Tasks
         /\ Due(p, q)' \subseteq Due(p, q) \cup {t}
         /\ t \in Due(p, q)' <=> Owes(k, p, q)
         /\ t \in Due(p, q) <=> Owes(task[t], p, q)
BY DEF Due, Become, Owes

LEMMA InitSpreads == GeneratorsInit => GeneratorsIInv
<1> SUFFICES ASSUME GeneratorsInit PROVE GeneratorsIInv
  OBVIOUS
<1>1. \A t \in Tasks : task[t] = Idle
  BY DEF GeneratorsInit
<1>2. task \in [Tasks -> Task]
  BY IdleIs DEF GeneratorsInit
<1>3. GeneratorsTypeOK
  BY <1>1, <1>2, IdleIs DEF GeneratorsInit, ExpansionInit, GeneratorsTypeOK
<1>4. ASSUME NEW p \in Pairs, NEW q \in Pairs
      PROVE  taken[p] + Cardinality(Due(p, q)) <= count[q] + Cardinality(Tasks)
  <2>1. Due(p, q) \in SUBSET Tasks /\ taken[p] = 0 /\ count[q] = 0
    BY DEF Due, GeneratorsInit, ExpansionInit
  <2> QED BY <2>1, TasksFinite
<1>5. Even
  BY <1>4 DEF Even, GeneratorsInit, ExpansionInit
<1> QED
  BY <1>1, <1>3, <1>5, IdleIs
  DEF GeneratorsIInv, GeneratorsInit, ExpansionInit, PlacedAreUsed

-----------------------------------------------------------------------------
(* A task takes a step that logs no pair: it may come to owe a pair only   *)
(* where that pair is not ahead.                                           *)
LEMMA TaskSpreads ==
  ASSUME GeneratorsIInv, NEW t \in Tasks, NEW k \in Task, Become(t, k), Equipped(k),
         UNCHANGED <<count, taken>>, settled' \in BOOLEAN,
         super' \in [Clusters -> {"none", "active", "archived"}],
         used \subseteq used', used' \subseteq Tuples, placed' \subseteq used',
         k.tuple \in used' \cup {Nil},
         \A p, q \in Pairs : Owes(k, p, q) => Owes(task[t], p, q) \/ taken[p] <= count[q]
  PROVE  GeneratorsIInv'
<1>1. task' \in [Tasks -> Task] /\ task'[t] = k /\ \A u \in Tasks \ {t} : task'[u] = task[u]
  BY DEF Become, GeneratorsIInv, GeneratorsTypeOK
<1>2. \A u \in Tasks : Equipped(task'[u]) /\ task'[u].tuple \in used' \cup {Nil}
  BY <1>1 DEF GeneratorsIInv
<1>3. GeneratorsTypeOK'
  BY <1>1, <1>2 DEF GeneratorsIInv, GeneratorsTypeOK, Equipped
<1>4. ASSUME NEW p \in Pairs, NEW q \in Pairs
      PROVE  taken[p] + Cardinality(Due(p, q)') <= count[q] + Cardinality(Tasks)
  <2>1. task \in [Tasks -> Task] /\ taken[p] \in Nat /\ count[q] \in Nat
    BY DEF GeneratorsIInv, GeneratorsTypeOK
  <2>2. CASE Owes(k, p, q) => Owes(task[t], p, q)
    <3>1. Due(p, q)' \subseteq Due(p, q) /\ Due(p, q) \in SUBSET Tasks
      BY <2>1, <2>2, DueAfter
    <3>2. Cardinality(Due(p, q)') <= Cardinality(Due(p, q))
      BY <3>1, ExpansionAssumption, FS_Subset
    <3>3. Cardinality(Due(p, q)') \in Nat /\ Cardinality(Due(p, q)) \in Nat
      BY <3>1, TasksFinite
    <3>4. taken[p] + Cardinality(Due(p, q)) <= count[q] + Cardinality(Tasks)
      BY DEF GeneratorsIInv, Even
    <3> QED BY <2>1, <3>2, <3>3, <3>4, TasksFinite
  <2>3. CASE taken[p] <= count[q]
    <3>1. Due(p, q)' \in SUBSET Tasks
      BY <2>1, DueAfter
    <3> QED BY <2>1, <2>3, <3>1, TasksFinite
  <2> QED BY <2>2, <2>3
<1>5. Even'
  BY <1>4 DEF Even, GeneratorsIInv
<1> QED BY <1>2, <1>3, <1>5 DEF GeneratorsIInv, PlacedAreUsed

(* A task logs a pair: the count of the pair pays for what it may owe next.*)
LEMMA LogSpreads ==
  ASSUME GeneratorsIInv, NEW t \in Tasks, NEW k \in Task, Become(t, k), Equipped(k),
         k.tuple = Nil, settled' = settled,
         NEW p0 \in Pairs, NEW bridging \in BOOLEAN, Log(p0, bridging),
         bridging => task[t].pair = p0,
         k.pair = Nil, k.first \in {p0, Nil}
  PROVE  GeneratorsIInv'
<1> DEFINE more == [count EXCEPT ![p0] = @ + 1]
           most == IF bridging THEN [taken EXCEPT ![p0] = @ + 1] ELSE taken
<1>0. /\ task \in [Tasks -> Task]
      /\ count \in [Pairs -> Nat] /\ taken \in [Pairs -> Nat]
  BY DEF GeneratorsIInv, GeneratorsTypeOK
<1>1. more \in [Pairs -> Nat] /\ most \in [Pairs -> Nat]
  BY <1>0
<1>2. /\ count' = Leveled(more, more) /\ taken' = Leveled(most, more)
      /\ UNCHANGED <<super, used, placed>>
  BY DEF Log
<1>3. task' \in [Tasks -> Task] /\ task'[t] = k /\ \A u \in Tasks \ {t} : task'[u] = task[u]
  BY <1>0 DEF Become
<1>4. \A p \in Pairs : most[p] <= more[p]
  BY <1>0 DEF GeneratorsIInv, Even
<1>5. ASSUME NEW p \in Pairs, NEW q \in Pairs
      PROVE  most[p] + Cardinality(Due(p, q)') <= more[q] + Cardinality(Tasks)
  <2>1. /\ Due(p, q) \in SUBSET Tasks /\ Due(p, q)' \in SUBSET Tasks
        /\ Due(p, q)' \subseteq Due(p, q) \cup {t}
        /\ t \in Due(p, q)' <=> Owes(k, p, q)
        /\ t \in Due(p, q) <=> Owes(task[t], p, q)
    BY <1>0, DueAfter
  <2>2. taken[p] + Cardinality(Due(p, q)) <= count[q] + Cardinality(Tasks)
    BY DEF GeneratorsIInv, Even
  <2>3. Cardinality(Due(p, q)) \in Nat /\ Cardinality(Due(p, q)') \in Nat
        /\ Cardinality(Due(p, q)') <= Cardinality(Tasks)
    BY <2>1, TasksFinite
  <2>4. IsFiniteSet(Due(p, q))
    BY <2>1, ExpansionAssumption, FS_Subset
  <2>5. CASE q = p0
    <3>1. more[q] = count[q] + 1
      BY <1>0, <2>5
    <3>2. Cardinality(Due(p, q)') <= Cardinality(Due(p, q)) + 1
      <4>1. /\ IsFiniteSet(Due(p, q) \cup {t})
            /\ Cardinality(Due(p, q) \cup {t}) \in {Cardinality(Due(p, q)), Cardinality(Due(p, q)) + 1}
        BY <2>4, FS_AddElement
      <4>2. Cardinality(Due(p, q)') <= Cardinality(Due(p, q) \cup {t})
        BY <2>1, <4>1, FS_Subset
      <4>3. Cardinality(Due(p, q) \cup {t}) \in Nat
        BY <4>1, FS_CardinalityType
      <4> QED BY <2>3, <4>1, <4>2, <4>3
    <3>3. CASE p = p0
      BY <1>1, <1>4, <2>3, <2>5, <3>3, TasksFinite
    <3>4. CASE p # p0
      <4>1. most[p] = taken[p]
        BY <1>0, <3>4
      <4> QED BY <1>0, <2>2, <2>3, <3>1, <3>2, <4>1, TasksFinite
    <3> QED BY <3>3, <3>4
  <2>6. CASE q # p0
    <3>1. more[q] = count[q]
      BY <1>0, <2>6
    <3>2. t \notin Due(p, q)'
      BY <2>1, <2>6, ExpansionAssumption DEF Owes
    <3>3. Cardinality(Due(p, q)') <= Cardinality(Due(p, q) \ {t})
          /\ Cardinality(Due(p, q) \ {t}) \in Nat
      BY <2>1, <2>4, <3>2, FS_RemoveElement, FS_Subset, FS_CardinalityType
    <3>4. CASE bridging /\ p = p0
      <4>1. t \in Due(p, q)
        BY <2>1, <3>4 DEF Owes
      <4>2. Cardinality(Due(p, q) \ {t}) = Cardinality(Due(p, q)) - 1
        BY <2>4, <4>1, FS_RemoveElement
      <4>3. most[p] = taken[p] + 1
        BY <1>0, <3>4
      <4> QED BY <1>0, <2>2, <2>3, <3>1, <3>3, <4>2, <4>3, TasksFinite
    <3>5. CASE ~(bridging /\ p = p0)
      <4>1. most[p] = taken[p]
        BY <1>0, <3>5
      <4>2. Cardinality(Due(p, q) \ {t}) <= Cardinality(Due(p, q))
        <5>1. Cardinality(Due(p, q) \ {t}) \in {Cardinality(Due(p, q)), Cardinality(Due(p, q)) - 1}
          BY <2>4, FS_RemoveElement
        <5> QED BY <2>3, <5>1
      <4> QED BY <1>0, <2>2, <2>3, <3>1, <3>3, <4>1, <4>2, TasksFinite
    <3> QED BY <3>4, <3>5
  <2> QED BY <2>5, <2>6
<1> HIDE DEF more, most
<1>6. /\ count' \in [Pairs -> Nat] /\ taken' \in [Pairs -> Nat]
      /\ \A p \in Pairs :
           /\ Below(more) \in Nat /\ Below(more) <= more[p]
           /\ count'[p] = more[p] - Below(more)
           /\ taken'[p] = IF most[p] < Below(more) THEN 0 ELSE most[p] - Below(more)
  BY <1>1, <1>2, LeveledIs, BelowIs
<1>7. \A p \in Pairs : taken'[p] <= count'[p]
  BY <1>1, <1>4, <1>6
<1>8. ASSUME NEW p \in Pairs, NEW q \in Pairs
      PROVE  taken'[p] + Cardinality(Due(p, q)') <= count'[q] + Cardinality(Tasks)
  <2>1. Cardinality(Due(p, q)') \in Nat /\ Cardinality(Due(p, q)') <= Cardinality(Tasks)
    BY <1>0, DueAfter, TasksFinite
  <2> QED BY <1>1, <1>5, <1>6, <2>1, TasksFinite
<1>9. Even'
  BY <1>7, <1>8 DEF Even
<1>10. \A u \in Tasks : Equipped(task'[u]) /\ task'[u].tuple \in used' \cup {Nil}
  BY <1>2, <1>3 DEF GeneratorsIInv
<1>11. GeneratorsTypeOK'
  BY <1>2, <1>3, <1>6, <1>10 DEF GeneratorsIInv, GeneratorsTypeOK, Equipped
<1> QED BY <1>2, <1>9, <1>10, <1>11 DEF GeneratorsIInv, PlacedAreUsed

-----------------------------------------------------------------------------
(* A task goes on with the same pair.                                      *)
LEMMA StepSpreads ==
  ASSUME GeneratorsIInv, NEW t \in Tasks, NEW k \in Task, Become(t, k), Equipped(k),
         UNCHANGED <<count, taken, settled>>,
         super' \in [Clusters -> {"none", "active", "archived"}],
         used \subseteq used', used' \subseteq Tuples, placed' \subseteq used',
         k.tuple \in used' \cup {Nil},
         k.pair \in {task[t].pair, Nil}, k.pair = Nil => k.first \in {task[t].first, Nil},
         k.pair = Nil /\ k.first # Nil => task[t].pair = Nil
  PROVE  GeneratorsIInv'
<1>1. \A p, q \in Pairs : Owes(k, p, q) => Owes(task[t], p, q)
  BY ExpansionAssumption DEF Owes
<1>2. settled' \in BOOLEAN
  BY DEF GeneratorsIInv, GeneratorsTypeOK
<1> QED BY <1>1, <1>2, TaskSpreads

LEMMA BridgeSpreads ==
  ASSUME GeneratorsIInv, NEW t \in Tasks, NEW p \in Pairs, Bridge(t, p), settled' = settled,
         task[t].pair = Nil, p # task[t].first,
         \A q \in Pairs \ {task[t].first} : count[p] <= count[q]
  PROVE  GeneratorsIInv'
<1>1. PICK to \in ModelAnswers : Become(t, [task[t] EXCEPT !.at = to, !.pair = p])
  BY DEF Bridge
<1> DEFINE k == [task[t] EXCEPT !.at = to, !.pair = p]
<1>2. task[t] \in Task
  BY DEF GeneratorsIInv, GeneratorsTypeOK
<1>3. /\ k \in Task /\ k.at \in {"save", "tuple"} /\ k.pair = p
      /\ k.first = task[t].first /\ k.tuple = task[t].tuple
  BY <1>2 DEF Task, ModelAnswers, GeneratorLabels
<1> HIDE DEF k
<1>4. Equipped(k)
  BY <1>3 DEF Equipped
<1>5. ASSUME NEW r \in Pairs, NEW q \in Pairs, Owes(k, r, q)
      PROVE  Owes(task[t], r, q) \/ taken[r] <= count[q]
  <2>1. r = p
    BY <1>3, <1>5, ExpansionAssumption DEF Owes
  <2>2. CASE q = task[t].first
    BY <2>2 DEF Owes
  <2>3. CASE q # task[t].first
    <3>1. /\ taken[p] \in Nat /\ count[p] \in Nat /\ count[q] \in Nat
          /\ taken[p] <= count[p] /\ count[p] <= count[q]
      BY <2>3 DEF GeneratorsIInv, GeneratorsTypeOK, Even
    <3> QED BY <2>1, <3>1
  <2> QED BY <2>2, <2>3
<1>6. Become(t, k) /\ UNCHANGED expansionVars
  BY <1>1 DEF k, Bridge
<1>7. task[t].tuple \in used \cup {Nil} /\ settled' \in BOOLEAN
  BY DEF GeneratorsIInv, GeneratorsTypeOK
<1> QED
  BY <1>3, <1>4, <1>5, <1>6, <1>7, TaskSpreads
  DEF expansionVars, GeneratorsIInv, GeneratorsTypeOK, PlacedAreUsed

LEMMA FirstBridgeSpreads ==
  ASSUME GeneratorsIInv, NEW t \in Tasks, NEW p \in Pairs, PickPair(t, p), settled' = settled
  PROVE  GeneratorsIInv'
BY IdleIs, ExpansionAssumption, BridgeSpreads DEF PickPair, Least

LEMMA SecondBridgeSpreads ==
  ASSUME GeneratorsIInv, NEW t \in Tasks, NEW p \in Pairs, PickSecondPair(t, p),
         settled' = settled
  PROVE  GeneratorsIInv'
<1>1. task[t].pair = Nil
  BY DEF PickSecondPair, GeneratorsIInv, Equipped
<1> QED BY <1>1, BridgeSpreads DEF PickSecondPair, Least

(* The template's combination goes into used_tuples first.                 *)
LEMMA TupleSpreads ==
  ASSUME GeneratorsIInv, NEW t \in Tasks, settled' = settled,
         RecordTemplate(t) \/ ScanTuple(t)
  PROVE  GeneratorsIInv'
<1>1. PICK to \in {"save", "scan_save"}, x \in Tuples :
        /\ to = "save" => task[t].at = "tuple"
        /\ Become(t, [task[t] EXCEPT !.at = to, !.tuple = x])
        /\ used' = used \cup {x}
        /\ UNCHANGED <<count, taken, super, placed>>
  BY DEF RecordTemplate, ScanTuple, RecordTuple
<1> DEFINE k == [task[t] EXCEPT !.at = to, !.tuple = x]
<1>2. task[t] \in Task /\ Equipped(task[t])
  BY DEF GeneratorsIInv, GeneratorsTypeOK
<1>3. /\ k \in Task /\ k.at = to /\ k.pair = task[t].pair
      /\ k.first = task[t].first /\ k.tuple = x
  BY <1>2 DEF Task, GeneratorLabels
<1> HIDE DEF k
<1>4. Equipped(k)
  BY <1>1, <1>2, <1>3 DEF Equipped
<1>5. Become(t, k)
  BY <1>1 DEF k
<1> QED
  BY <1>1, <1>3, <1>4, <1>5, StepSpreads
  DEF GeneratorsIInv, GeneratorsTypeOK, PlacedAreUsed

(* The gate: an admitted idea's combination is among the used ones.        *)
LEMMA GateSpreads ==
  ASSUME GeneratorsIInv, NEW t \in Tasks, settled' = settled, Save(t) \/ ScanSave(t)
  PROVE  GeneratorsIInv'
<1>1. PICK to \in {"record", "idle", "scan_run"} :
        /\ to = "record" => task[t].at = "save"
        /\ Become(t, [task[t] EXCEPT !.at = to, !.tuple = Nil])
        /\ placed' \subseteq placed \cup ({task[t].tuple} \ {Nil})
        /\ UNCHANGED <<count, taken, super, used>>
  BY DEF Save, ScanSave, Admit, Refuse, expansionVars
<1> DEFINE k == [task[t] EXCEPT !.at = to, !.tuple = Nil]
<1>2. task[t] \in Task /\ Equipped(task[t]) /\ task[t].tuple \in used \cup {Nil}
  BY DEF GeneratorsIInv, GeneratorsTypeOK
<1>3. /\ k \in Task /\ k.at = to /\ k.pair = task[t].pair
      /\ k.first = task[t].first /\ k.tuple = Nil
  BY <1>2 DEF Task, GeneratorLabels
<1> HIDE DEF k
<1>4. Equipped(k)
  BY <1>1, <1>2, <1>3 DEF Equipped
<1>5. Become(t, k)
  BY <1>1 DEF k
<1>6. placed' \subseteq used'
  BY <1>1, <1>2 DEF GeneratorsIInv, PlacedAreUsed
<1> QED
  BY <1>1, <1>3, <1>4, <1>5, <1>6, StepSpreads
  DEF GeneratorsIInv, GeneratorsTypeOK

(* A task goes to another label with what it has.                          *)
LEMMA GotoSpreads ==
  ASSUME GeneratorsIInv, NEW t \in Tasks, NEW to \in GeneratorLabels, Goto(t, to),
         UNCHANGED <<count, taken, used, placed, settled>>,
         super' \in [Clusters -> {"none", "active", "archived"}],
         Equipped([task[t] EXCEPT !.at = to])
  PROVE  GeneratorsIInv'
<1> DEFINE k == [task[t] EXCEPT !.at = to]
<1>1. task[t] \in Task /\ task[t].tuple \in used \cup {Nil}
  BY DEF GeneratorsIInv, GeneratorsTypeOK
<1>2. k \in Task /\ k.pair = task[t].pair /\ k.first = task[t].first /\ k.tuple = task[t].tuple
  BY <1>1 DEF Task
<1>3. Become(t, k) /\ Equipped(k)
  BY DEF Goto
<1> HIDE DEF k
<1> QED
  BY <1>1, <1>2, <1>3, StepSpreads
  DEF GeneratorsIInv, GeneratorsTypeOK, PlacedAreUsed

(* A task starts over, or goes on with little: its first pair, a cluster.  *)
LEMMA ShedSpreads ==
  ASSUME GeneratorsIInv, NEW t \in Tasks, NEW k \in Task, Become(t, k), Equipped(k),
         UNCHANGED <<count, taken, super, used, placed, settled>>,
         k.tuple \in {Nil, task[t].tuple}, k.pair = Nil,
         k.first = Nil \/ (k.first = task[t].first /\ task[t].pair = Nil)
  PROVE  GeneratorsIInv'
<1>1. task[t].tuple \in used \cup {Nil}
  BY DEF GeneratorsIInv
<1> QED
  BY <1>1, StepSpreads DEF GeneratorsIInv, GeneratorsTypeOK, PlacedAreUsed

LEMMA FallBackSpreads ==
  ASSUME GeneratorsIInv, NEW t \in Tasks, NEW from \in {"super", "name", "store", "stored"},
         FallBack(t, from), settled' = settled
  PROVE  GeneratorsIInv'
<1> DEFINE k == [Idle EXCEPT !.at = "fallback", !.first = task[t].first]
<1>1. task[t] \in Task /\ task[t].pair = Nil
  BY DEF FallBack, GeneratorsIInv, GeneratorsTypeOK, Equipped
<1>2. /\ k \in Task /\ k.at = "fallback" /\ k.pair = Nil
      /\ k.first = task[t].first /\ k.tuple = Nil
  BY <1>1, IdleIs DEF Task, GeneratorLabels
<1> HIDE DEF k
<1>3. Equipped(k) /\ Become(t, k) /\ UNCHANGED expansionVars
  BY <1>1, <1>2 DEF Equipped, FallBack, k
<1> QED BY <1>1, <1>2, <1>3, ShedSpreads DEF expansionVars

LEMMA ClusterSpreads ==
  ASSUME GeneratorsIInv, NEW t \in Tasks, NEW c \in Clusters, PickCluster(t, c),
         settled' = settled
  PROVE  GeneratorsIInv'
<1> DEFINE k == [task[t] EXCEPT !.at = "name", !.cluster = c]
<1>1. task[t] \in Task /\ Equipped(task[t]) /\ task[t].pair = Nil
  BY DEF PickCluster, GeneratorsIInv, GeneratorsTypeOK, Equipped
<1>2. /\ k \in Task /\ k.at = "name" /\ k.pair = Nil /\ k.cluster = c
      /\ k.first = task[t].first /\ k.tuple = task[t].tuple
  BY <1>1 DEF Task, GeneratorLabels
<1> HIDE DEF k
<1>3. Equipped(k)
  BY <1>1, <1>2 DEF Equipped
<1>4. Become(t, k) /\ UNCHANGED expansionVars
  BY DEF PickCluster, k
<1> QED BY <1>1, <1>2, <1>3, <1>4, ShedSpreads DEF expansionVars

(* The pairs a super has still to log.                                     *)
LEMMA SpansIs ==
  ASSUME NEW s \in Seq(Pairs), s # <<>>
  PROVE  LET k == [Idle EXCEPT !.at = "spans", !.spans = s]
         IN /\ k \in Task /\ Equipped(k)
            /\ k.pair = Nil /\ k.first = Nil /\ k.tuple = Nil
<1> DEFINE k == [Idle EXCEPT !.at = "spans", !.spans = s]
<1>1. /\ k \in Task /\ k.at = "spans" /\ k.spans = s
      /\ k.pair = Nil /\ k.first = Nil /\ k.tuple = Nil
  BY IdleIs DEF Task, GeneratorLabels
<1>2. Equipped(k)
  <2> HIDE DEF k
  <2> QED BY <1>1 DEF Equipped
<1> QED BY <1>1, <1>2

LEMMA StoredSpreads ==
  ASSUME GeneratorsIInv, NEW t \in Tasks, SuperStored(t), settled' = settled
  PROVE  GeneratorsIInv'
<1> DEFINE s == Spans[task[t].cluster]
           k == IF s = <<>> THEN Idle ELSE [Idle EXCEPT !.at = "spans", !.spans = s]
<1>1. s \in Seq(Pairs)
  BY ExpansionAssumption DEF SuperStored, GeneratorsIInv, Equipped
<1>2. Become(t, k) /\ UNCHANGED expansionVars
  BY DEF SuperStored
<1>3. k \in Task /\ Equipped(k) /\ k.pair = Nil /\ k.first = Nil /\ k.tuple = Nil
  <2> HIDE DEF s
  <2> QED BY <1>1, IdleIs, SpansIs
<1> HIDE DEF k
<1> QED BY <1>2, <1>3, ShedSpreads DEF expansionVars

LEMMA IdleSpreads ==
  ASSUME GeneratorsIInv, NEW t \in Tasks, Become(t, Idle), UNCHANGED expansionVars,
         settled' = settled
  PROVE  GeneratorsIInv'
BY IdleIs, ShedSpreads DEF expansionVars

LEMMA RecordSpreads ==
  ASSUME GeneratorsIInv, NEW t \in Tasks, RecordPair(t), settled' = settled
  PROVE  GeneratorsIInv'
<1> DEFINE k == IF task[t].first = Nil
                THEN [Idle EXCEPT !.at = "super", !.first = task[t].pair] ELSE Idle
<1>1. task[t].pair \in Pairs
  BY DEF RecordPair, GeneratorsIInv, Equipped
<1>2. /\ k \in Task /\ k.pair = Nil /\ k.tuple = Nil
      /\ k.first \in {task[t].pair, Nil} /\ Equipped(k)
  <2>1. CASE task[t].first # Nil
    BY <2>1, IdleIs
  <2>2. CASE task[t].first = Nil
    <3> DEFINE s == [Idle EXCEPT !.at = "super", !.first = task[t].pair]
    <3>1. s \in Task /\ s.at = "super" /\ s.pair = Nil /\ s.tuple = Nil /\ s.first = task[t].pair
      BY <1>1, IdleIs DEF Task, GeneratorLabels
    <3> HIDE DEF s
    <3>2. Equipped(s)
      BY <1>1, <3>1, ExpansionAssumption DEF Equipped
    <3>3. k = s
      BY <2>2 DEF s
    <3> QED BY <3>1, <3>2, <3>3
  <2> QED BY <2>1, <2>2
<1>3. Become(t, k) /\ Log(task[t].pair, TRUE)
  BY DEF RecordPair
<1> HIDE DEF k
<1> QED BY <1>1, <1>2, <1>3, LogSpreads

LEMMA SpanSpreads ==
  ASSUME GeneratorsIInv, NEW t \in Tasks, RecordSpan(t), settled' = settled
  PROVE  GeneratorsIInv'
<1> DEFINE rest == Tail(task[t].spans)
           k == IF rest = <<>> THEN Idle ELSE [Idle EXCEPT !.at = "spans", !.spans = rest]
<1>1. task[t].spans \in Seq(Pairs) /\ task[t].spans # <<>>
  BY DEF RecordSpan, GeneratorsIInv, GeneratorsTypeOK, Equipped, Task
<1>2. Head(task[t].spans) \in Pairs /\ rest \in Seq(Pairs)
  BY <1>1
<1>3. Become(t, k) /\ Log(Head(task[t].spans), FALSE)
  BY DEF RecordSpan
<1>4. k \in Task /\ Equipped(k) /\ k.pair = Nil /\ k.first = Nil /\ k.tuple = Nil
  <2> HIDE DEF rest
  <2> QED BY <1>2, IdleIs, SpansIs
<1> HIDE DEF k
<1> QED BY <1>2, <1>3, <1>4, LogSpreads

LEMMA GotosSpread ==
  ASSUME GeneratorsIInv, NEW t \in Tasks, settled' = settled,
         AcceptNamed(t) \/ StoreSuper(t) \/ ScanRun(t)
  PROVE  GeneratorsIInv'
<1>0. task[t] \in Task /\ Equipped(task[t])
  BY DEF GeneratorsIInv, GeneratorsTypeOK
<1>1. ASSUME NEW to \in {"store", "stored", "idle"},
             to = "store" => task[t].at = "name",
             to = "stored" => task[t].at = "store"
      PROVE  Equipped([task[t] EXCEPT !.at = to]) /\ to \in GeneratorLabels
  <2> DEFINE k == [task[t] EXCEPT !.at = to]
  <2>1. /\ k.at = to /\ k.pair = task[t].pair /\ k.first = task[t].first
        /\ k.cluster = task[t].cluster
    BY <1>0 DEF Task
  <2> HIDE DEF k
  <2>2. Equipped(k)
    BY <1>0, <1>1, <2>1 DEF Equipped
  <2> QED BY <2>2 DEF k, GeneratorLabels
<1>2. super \in [Clusters -> {"none", "active", "archived"}]
  BY DEF GeneratorsIInv, GeneratorsTypeOK
<1>3. CASE AcceptNamed(t)
  BY <1>1, <1>2, <1>3, GotoSpreads DEF AcceptNamed, Step, expansionVars
<1>4. CASE StoreSuper(t)
  <2>1. super' \in [Clusters -> {"none", "active", "archived"}]
    BY <1>2, <1>4 DEF StoreSuper
  <2> QED BY <1>1, <1>4, <2>1, GotoSpreads DEF StoreSuper
<1>5. CASE ScanRun(t)
  BY <1>1, <1>2, <1>5, GotoSpreads DEF ScanRun, Step, expansionVars
<1> QED BY <1>3, <1>4, <1>5

-----------------------------------------------------------------------------
LEMMA GoesSpreads ==
  ASSUME GeneratorsIInv, NEW t \in Tasks, Goes(t), settled' = settled
  PROVE  GeneratorsIInv'
<1>1. CASE RecordTemplate(t)
  BY <1>1, TupleSpreads
<1>2. CASE Save(t) \/ ScanSave(t)
  BY <1>2, GateSpreads
<1>3. CASE RecordPair(t)
  BY <1>3, RecordSpreads
<1>4. ASSUME NEW c \in Clusters, PickCluster(t, c) PROVE GeneratorsIInv'
  BY <1>4, ClusterSpreads
<1>5. CASE NoCluster(t) \/ PoorTagline(t) \/ RefuseNamed(t) \/ RefuseSuper(t) \/ SuperGone(t)
  BY <1>5, FallBackSpreads DEF NoCluster, PoorTagline, RefuseNamed, RefuseSuper, SuperGone
<1>6. CASE AcceptNamed(t) \/ StoreSuper(t) \/ ScanRun(t)
  BY <1>6, GotosSpread
<1>7. CASE SuperStored(t)
  BY <1>7, StoredSpreads
<1>8. CASE RecordSpan(t)
  BY <1>8, SpanSpreads
<1>9. ASSUME NEW p \in Pairs, PickSecondPair(t, p) PROVE GeneratorsIInv'
  BY <1>9, SecondBridgeSpreads
<1> QED
  BY <1>1, <1>2, <1>3, <1>4, <1>5, <1>6, <1>7, <1>8, <1>9 DEF Goes, Continue

LEMMA GeneratorsStep ==
  GeneratorsIInv /\ [GeneratorsNext]_generatorVars => GeneratorsIInv'
<1> SUFFICES ASSUME GeneratorsIInv, [GeneratorsNext]_generatorVars PROVE GeneratorsIInv'
  OBVIOUS
<1>1. ASSUME UNCHANGED <<task, count, taken, used, placed>>, settled' \in BOOLEAN,
             super' \in [Clusters -> {"none", "active", "archived"}]
      PROVE  GeneratorsIInv'
  <2>1. \A p, q \in Pairs : Due(p, q)' = Due(p, q)
    BY <1>1 DEF Due
  <2>2. Even'
    BY <1>1, <2>1 DEF GeneratorsIInv, Even
  <2> QED BY <1>1, <2>2 DEF GeneratorsIInv, GeneratorsTypeOK, PlacedAreUsed
<1>2. CASE Expands /\ UNCHANGED settled
  BY <1>2, FirstBridgeSpreads DEF Expands
<1>3. CASE Scans /\ UNCHANGED settled
  BY <1>3, TupleSpreads DEF Scans
<1>4. CASE Curation /\ UNCHANGED settled
  <2>1. PICK c \in Clusters, s \in {"active", "archived", "none"} : CurateSuper(c, s)
    BY <1>4 DEF Curation
  <2> QED BY <1>1, <1>4, <2>1 DEF CurateSuper, GeneratorsIInv, GeneratorsTypeOK
<1>5. ASSUME NEW t \in Tasks, Goes(t) \/ Dies(t), UNCHANGED settled PROVE GeneratorsIInv'
  BY <1>5, GoesSpreads, IdleSpreads DEF Dies
<1>6. CASE (SettleDown /\ UNCHANGED <<task, expansionVars>>) \/ UNCHANGED generatorVars
  BY <1>1, <1>6
  DEF SettleDown, generatorVars, expansionVars, GeneratorsIInv, GeneratorsTypeOK
<1> QED BY <1>2, <1>3, <1>4, <1>5, <1>6 DEF GeneratorsNext

LEMMA GeneratorsInvariant == GeneratorsSpec => []GeneratorsIInv
BY InitSpreads, GeneratorsStep, PTL DEF GeneratorsSpec

(* What the tasks have in hand, the log and the tables stay in range.      *)
THEOREM GeneratorsTypeCorrect == GeneratorsSpec => []GeneratorsTypeOK
<1>1. GeneratorsIInv => GeneratorsTypeOK
  BY DEF GeneratorsIInv
<1> QED BY <1>1, GeneratorsInvariant, PTL

(* However many expansions overlap, die and start over, no pair gets ahead *)
(* of another by more than one bridge for each of them.                    *)
THEOREM CoverageStaysEven == GeneratorsSpec => []EvenCoverage
<1>1. GeneratorsIInv => EvenCoverage
  <2> SUFFICES ASSUME GeneratorsIInv, NEW p \in Pairs, NEW q \in Pairs
               PROVE  taken[p] <= count[q] + Cardinality(Tasks)
    BY DEF EvenCoverage
  <2>1. Due(p, q) \in SUBSET Tasks /\ taken[p] \in Nat /\ count[q] \in Nat
    BY DEF Due, GeneratorsIInv, GeneratorsTypeOK
  <2> QED BY <2>1, TasksFinite DEF GeneratorsIInv, Even
<1> QED BY <1>1, GeneratorsInvariant, PTL

(* Wherever a run is cut short, what is on the board counts as used.       *)
THEOREM PlacedStayUsed == GeneratorsSpec => []PlacedAreUsed
<1>1. GeneratorsIInv => PlacedAreUsed
  BY DEF GeneratorsIInv
<1> QED BY <1>1, GeneratorsInvariant, PTL
=============================================================================
