---------------------------- MODULE JudgingProofs ----------------------------
(***************************************************************************)
(* Whoever commits whose statements, and wherever the process dies: for    *)
(* any ideas, challenges and coroutines, a challenge marked as applied has *)
(* its fields written, and a round's losers are out; and nothing else than *)
(* a whole row put back takes that away.                                   *)
(***************************************************************************)
EXTENDS Judging, TLAPS

Kept(c, d) == Fact("written", c) \in d.facts \/ Undone(c) \in d.facts
OutOf(i, d) == d.status[i] # "new" \/ Revived(i) \in d.facts

(* What may stand in the database, committed or not.                       *)
Solid(d) ==
  /\ \A c \in Proposing : Fact("applied", c) \in d.facts => Kept(c, d)
  /\ \A i \in Ideas : Fact("lost", i) \in d.facts => OutOf(i, d)

(* What a coroutine is about, by the label it stands at.                   *)
Fits(label, of) ==
  /\ label \in {"deny", "deny_status", "reject", "delete", "row", "loser", "review", "archive"}
       => of \in Ideas
  /\ label \in {"model", "apply", "reread", "mark", "evaluate", "audit"} => of \in Challenges
  /\ label = "results" => of \in Ideas \cup {Nil}

(* What it found or wrote in the database d on its way there.              *)
Gone(i, d) == ~(i \in Ideas /\ d.status[i] # "gone")
Ready(label, of, d) ==
  /\ label = "mark" /\ of \in Proposing => Kept(of, d)
  /\ label = "reread" /\ of \in Proposing => Kept(of, d) \/ Gone(About[of], d)
  /\ label = "results" /\ of # Nil => OutOf(of, d)

(* Before a commit the label that follows counts.                          *)
Place(k) == IF k.at \in {"commit", "locked_commit"} THEN k.then ELSE k.at
Placed(k, d) ==
  /\ Fits(Place(k), k.of)
  /\ Ready(Place(k), k.of, d)
  /\ k.then \in {"idle", "next", "results", "reread", "archive", "reviewed"}
  /\ k.at \in {"deny", "deny_status"} => k.then \in {"idle", "results"}
  /\ k.at = "model" => k.then \in {"idle", "next"}
  /\ k.at = "row" => k.read \in Rows

(* AppliedMeansWritten and LosersOut are not inductive: they hold because  *)
(* of the order of each coroutine's own statements, which nobody else      *)
(* undoes in the one view they share without leaving the history fact, and *)
(* because a commit makes durable a prefix of that order, whoever asks for *)
(* it.                                                                     *)
IInv ==
  /\ TypeOK
  /\ Solid(view) /\ Solid(disk)
  /\ \A t \in Tasks : Placed(task[t], view)

-----------------------------------------------------------------------------
(* The database goes on: what was written stays or is marked as undone, an *)
(* idea that is out stays out or is marked as revived.                     *)
Onward(d, e) ==
  /\ \A c \in Proposing : /\ Kept(c, d) => Kept(c, e)
                          /\ Gone(About[c], d) => Kept(c, e) \/ Gone(About[c], e)
  /\ \A i \in Ideas : OutOf(i, d) => OutOf(i, e)

TaskType == [at : Labels, of : Ideas \cup Challenges \cup {Nil}, then : Labels,
             read : Rows \cup {Nil}]

LEMMA PlacedStays ==
  ASSUME NEW k, NEW d, NEW e, Placed(k, d), Onward(d, e)
  PROVE  Placed(k, e)
<1> USE JudgingAssumption DEF Placed, Ready, Onward
<1>1. Place(k) = "results" /\ k.of # Nil => k.of \in Ideas
  BY DEF Fits
<1> QED BY <1>1

LEMMA IdlePlaced ==
  ASSUME NEW d
  PROVE  Idle \in TaskType /\ Placed(Idle, d)
BY DEF Idle, TaskType, Labels, Placed, Place, Fits, Ready

(* A label without conditions on the database.                             *)
LEMMA AtPlaced ==
  ASSUME NEW label \in Labels, NEW of \in Ideas \cup Challenges \cup {Nil}, NEW d,
         label \notin {"commit", "locked_commit", "row"}, Fits(label, of), Ready(label, of, d)
  PROVE  At(label, of) \in TaskType /\ Placed(At(label, of), d)
<1>1. Idle \in TaskType /\ Idle.then = "idle"
  BY DEF Idle, TaskType, Labels
<1>2. /\ At(label, of) \in TaskType /\ At(label, of).at = label
      /\ At(label, of).of = of /\ At(label, of).then = "idle"
  BY <1>1 DEF At, TaskType
<1> QED BY <1>2 DEF Placed, Place

-----------------------------------------------------------------------------
(* A step of one coroutine.                                                *)
LEMMA TaskKeeps ==
  ASSUME IInv, NEW t \in Tasks, NEW k \in TaskType, Become(t, k),
         disk' \in Databases, view' \in Databases, open' \in BOOLEAN,
         open' \/ view' = disk', Solid(disk'), Solid(view'), Onward(view, view'),
         picks' \subseteq Ideas, timer' = timer, Placed(k, view')
  PROVE  IInv'
<1>1. task' = [task EXCEPT ![t] = k]
  BY DEF Become
<1>2. TypeOK'
  BY <1>1 DEF IInv, TypeOK, TaskType
<1>3. ASSUME NEW u \in Tasks PROVE Placed(task'[u], view')
  <2>1. CASE u = t
    BY <1>1, <2>1 DEF IInv, TypeOK
  <2>2. CASE u # t
    <3>1. task'[u] = task[u] /\ Placed(task[u], view)
      BY <1>1, <2>2 DEF IInv, TypeOK
    <3> QED BY <3>1, PlacedStays
  <2> QED BY <2>1, <2>2
<1> QED BY <1>2, <1>3 DEF IInv

(* It only looks.                                                          *)
LEMMA LookKeeps ==
  ASSUME IInv, NEW t \in Tasks, NEW k \in TaskType, Become(t, k),
         UNCHANGED connectionVars, picks' \subseteq Ideas, timer' = timer,
         Placed(k, view)
  PROVE  IInv'
<1>1. UNCHANGED <<disk, view, open>> BY DEF connectionVars
<1>2. Onward(view, view') BY <1>1 DEF Onward
<1>3. Solid(disk') /\ Solid(view') /\ Placed(k, view') BY <1>1 DEF IInv
<1>4. /\ disk' \in Databases /\ view' \in Databases /\ open' \in BOOLEAN
      /\ open' \/ view' = disk'
  BY <1>1 DEF IInv, TypeOK
<1> QED BY <1>2, <1>3, <1>4, TaskKeeps

(* It runs a statement.                                                    *)
LEMMA WriteKeeps ==
  ASSUME IInv, NEW t \in Tasks, NEW k \in TaskType, Become(t, k),
         NEW d \in Databases, Execute(d), Solid(d), Onward(view, d), Placed(k, d),
         UNCHANGED <<picks, timer>>
  PROVE  IInv'
<1>1. view' = d /\ open' = TRUE /\ disk' = disk BY DEF Execute
<1>2. disk' \in Databases /\ Solid(disk') /\ picks' \subseteq Ideas
  BY <1>1 DEF IInv, TypeOK
<1> QED BY <1>1, <1>2, TaskKeeps

(* It commits what all of them have run.                                   *)
LEMMA CommitKeeps ==
  ASSUME IInv, NEW t \in Tasks, NEW k \in TaskType, Become(t, k),
         Commit, Placed(k, view), UNCHANGED <<picks, timer>>
  PROVE  IInv'
<1>1. disk' = view /\ view' = view /\ open' = FALSE BY DEF Commit
<1>2. /\ view' \in Databases /\ disk' \in Databases /\ Solid(view') /\ Solid(disk')
      /\ picks' \subseteq Ideas
  BY <1>1 DEF IInv, TypeOK
<1>3. Onward(view, view') /\ Placed(k, view') BY <1>1 DEF Onward
<1> QED BY <1>1, <1>2, <1>3, TaskKeeps

-----------------------------------------------------------------------------
(* The kinds of statements.                                                *)
LEMMA FactsApart == \A k, l, x, y : Fact(k, x) = Fact(l, y) => k = l /\ x = y
BY DEF Fact

LEMMA SameWrite ==
  ASSUME IInv
  PROVE  view \in Databases /\ Solid(view) /\ Onward(view, view)
BY DEF IInv, TypeOK, Onward

(* Nothing is marked as applied or lost that was not.                      *)
LEMMA StaysSolid ==
  ASSUME IInv, NEW d, Onward(view, d),
         \A c \in Proposing : Fact("applied", c) \in d.facts => Fact("applied", c) \in view.facts,
         \A i \in Ideas : Fact("lost", i) \in d.facts => Fact("lost", i) \in view.facts
  PROVE  Solid(d)
BY DEF IInv, Solid, Onward

LEMMA FactWrite ==
  ASSUME IInv, NEW kind \in {"challenge", "applied", "audit", "lost"}, NEW of,
         Fact(kind, of) \in Facts,
         kind = "applied" /\ of \in Proposing => Kept(of, view),
         kind = "lost" => OutOf(of, view)
  PROVE  LET d == [view EXCEPT !.facts = @ \cup {Fact(kind, of)}]
         IN  d \in Databases /\ Solid(d) /\ Onward(view, d)
<1> DEFINE d == [view EXCEPT !.facts = @ \cup {Fact(kind, of)}]
<1>1. view \in Databases BY DEF IInv, TypeOK
<1>2. d.facts = view.facts \cup {Fact(kind, of)} /\ d.status = view.status
  BY <1>1 DEF Databases
<1>3. d \in Databases BY <1>1 DEF Databases
<1> HIDE DEF d
<1>4. \A c : Kept(c, view) => Kept(c, d)
  BY <1>2 DEF Kept
<1>5. \A i : /\ OutOf(i, view) => OutOf(i, d)
             /\ Gone(i, view) => Gone(i, d)
  BY <1>2 DEF OutOf, Gone
<1>6. Onward(view, d)
  BY <1>4, <1>5 DEF Onward
<1>7. ASSUME NEW c \in Proposing, Fact("applied", c) \in d.facts PROVE Kept(c, d)
  BY <1>2, <1>4, <1>7, FactsApart DEF IInv, Solid
<1>8. ASSUME NEW i \in Ideas, Fact("lost", i) \in d.facts PROVE OutOf(i, d)
  BY <1>2, <1>5, <1>8, FactsApart DEF IInv, Solid
<1> QED BY <1>3, <1>6, <1>7, <1>8 DEF d, Solid

(* The fields of a challenge.                                              *)
LEMMA FieldsWrite ==
  ASSUME IInv, NEW c \in Proposing
  PROVE  LET d == [view EXCEPT !.facts = (@ \ {Undone(c)}) \cup {Fact("written", c)}]
         IN  d \in Databases /\ Solid(d) /\ Onward(view, d) /\ Kept(c, d)
<1> DEFINE d == [view EXCEPT !.facts = (@ \ {Undone(c)}) \cup {Fact("written", c)}]
<1>1. view \in Databases BY DEF IInv, TypeOK
<1>2. d.facts = (view.facts \ {Undone(c)}) \cup {Fact("written", c)} /\ d.status = view.status
  BY <1>1 DEF Databases
<1>3. Fact("written", c) \in Facts BY JudgingAssumption DEF Facts
<1>4. d \in Databases BY <1>1, <1>3 DEF Databases
<1> HIDE DEF d
<1>5. Kept(c, d) BY <1>2 DEF Kept
<1>6. \A b : Kept(b, view) => Kept(b, d)
  BY <1>2, <1>5, FactsApart DEF Kept, Undone
<1>7. \A i : /\ OutOf(i, view) => OutOf(i, d)
             /\ Gone(i, view) => Gone(i, d)
  BY <1>2, FactsApart DEF OutOf, Gone, Revived, Undone
<1>8. Onward(view, d)
  BY <1>6, <1>7 DEF Onward
<1>9. Solid(d)
  BY <1>2, <1>8, FactsApart, StaysSolid
<1> QED BY <1>4, <1>5, <1>8, <1>9 DEF d

(* A status alone.                                                         *)
LEMMA StatusWrite ==
  ASSUME IInv, NEW i \in Ideas, NEW s \in {"rejected", "archived", "gone"}
  PROVE  LET d == Out(view, i, s)
         IN  d \in Databases /\ Solid(d) /\ Onward(view, d) /\ OutOf(i, d)
<1> DEFINE d == Out(view, i, s)
<1>1. view \in Databases BY DEF IInv, TypeOK
<1>2. /\ view.status \in [Ideas -> Statuses] /\ view.facts \in SUBSET Facts
      /\ view = [status |-> view.status, facts |-> view.facts]
  BY <1>1 DEF Databases
<1>3. CASE view.status[i] = "gone"
  <2>1. d = view BY <1>3 DEF Out
  <2> QED BY <1>3, <2>1, SameWrite DEF OutOf
<1>4. CASE view.status[i] # "gone"
  <2>1. /\ d.facts = view.facts \ {Revived(i)}
        /\ d.status = [view.status EXCEPT ![i] = s]
        /\ d = [status |-> d.status, facts |-> d.facts]
    BY <1>2, <1>4 DEF Out
  <2>2. d \in Databases BY <1>2, <2>1 DEF Databases, Statuses
  <2>3. \A j \in Ideas : d.status[j] = IF j = i THEN s ELSE view.status[j]
    BY <1>2, <2>1
  <2> HIDE DEF d
  <2>4. \A j \in Ideas : OutOf(j, view) => OutOf(j, d)
    BY <2>1, <2>3, FactsApart DEF OutOf, Revived
  <2>5. \A j : Gone(j, view) => Gone(j, d)
    BY <1>4, <2>3 DEF Gone
  <2>6. \A c : Kept(c, view) => Kept(c, d)
    BY <2>1, FactsApart DEF Kept, Revived, Undone
  <2>7. Onward(view, d) BY <2>4, <2>5, <2>6 DEF Onward
  <2>8. Solid(d) BY <2>1, <2>7, StaysSolid
  <2> QED BY <2>2, <2>3, <2>7, <2>8 DEF d, OutOf
<1> QED BY <1>3, <1>4

(* The whole row, as it was.                                               *)
LEMMA RowWrite ==
  ASSUME IInv, NEW i \in Ideas, NEW r \in Rows
  PROVE  LET d == PutBack(i, r)
         IN  d \in Databases /\ Solid(d) /\ Onward(view, d)
<1> DEFINE undone == {c \in Proposing \ r.written :
                        About[c] = i /\ (Holds("written", c) \/ ~Stored(i))}
           facts == (view.facts \ ({Fact("written", c) : c \in undone}
                                     \cup {Undone(c) : c \in r.written}))
                      \cup {Fact("written", c) : c \in r.written} \cup {Undone(c) : c \in undone}
           d == PutBack(i, r)
<1>1. /\ view.status \in [Ideas -> Statuses] /\ view.facts \in SUBSET Facts
      /\ r.written \subseteq Proposing /\ r.status \in Statuses
  BY DEF IInv, TypeOK, Databases, Rows
<1>2. /\ d.status = [view.status EXCEPT ![i] = r.status]
      /\ d.facts = IF r.status # "new" THEN facts \ {Revived(i)}
                   ELSE IF view.status[i] # "new" THEN facts \cup {Revived(i)} ELSE facts
      /\ d = [status |-> d.status, facts |-> d.facts]
  BY DEF PutBack
<1>3. d \in Databases
  <2>1. \A c \in Proposing : Fact("written", c) \in Facts /\ Undone(c) \in Facts
    BY JudgingAssumption DEF Facts, Undone
  <2>2. Revived(i) \in Facts BY DEF Facts, Revived
  <2>3. facts \subseteq Facts BY <1>1, <2>1
  <2>4. d.facts \subseteq Facts BY <1>2, <2>2, <2>3
  <2>5. d.status \in [Ideas -> Statuses] BY <1>1, <1>2
  <2> HIDE DEF d
  <2> QED BY <1>2, <2>4, <2>5 DEF Databases
<1> HIDE DEF d
<1>4. \A c : /\ Fact("written", c) \in d.facts <=> Fact("written", c) \in facts
             /\ Undone(c) \in d.facts <=> Undone(c) \in facts
             /\ Fact("applied", c) \in d.facts <=> Fact("applied", c) \in facts
             /\ Fact("lost", c) \in d.facts <=> Fact("lost", c) \in facts
  BY <1>2, FactsApart DEF Revived, Undone
<1>5. ASSUME NEW c PROVE /\ Fact("applied", c) \in facts => Fact("applied", c) \in view.facts
                         /\ Fact("lost", c) \in facts => Fact("lost", c) \in view.facts
                         /\ Revived(c) \in view.facts => Revived(c) \in facts
  BY FactsApart DEF Revived, Undone
<1>6. ASSUME NEW c \in Proposing, Kept(c, view) PROVE Kept(c, d)
  <2>1. CASE c \in r.written
    BY <1>4, <2>1 DEF Kept
  <2>2. CASE c \in undone
    BY <1>4, <2>2 DEF Kept
  <2>3. CASE c \notin r.written /\ c \notin undone
    <3>1. /\ Fact("written", c) \in view.facts => Fact("written", c) \in facts
          /\ Undone(c) \in view.facts => Undone(c) \in facts
      BY <2>3, FactsApart DEF Undone
    <3> QED BY <1>4, <1>6, <3>1 DEF Kept
  <2> QED BY <2>1, <2>2, <2>3
<1>7. ASSUME NEW c \in Proposing, Gone(About[c], view) PROVE Kept(c, d) \/ Gone(About[c], d)
  <2>1. CASE About[c] = i
    <3>1. c \in r.written \/ c \in undone
      BY <1>7, <2>1 DEF Gone, Stored
    <3>2. Fact("written", c) \in facts \/ Undone(c) \in facts
      BY <3>1
    <3> QED BY <1>4, <3>2 DEF Kept
  <2>2. CASE About[c] # i
    BY <1>1, <1>2, <1>7, <2>2 DEF Gone
  <2> QED BY <2>1, <2>2
<1>8. ASSUME NEW j \in Ideas, OutOf(j, view) PROVE OutOf(j, d)
  <2>1. CASE j = i
    <3>1. r.status # "new" => d.status[i] # "new"
      BY <1>1, <1>2
    <3>2. r.status = "new" => Revived(i) \in d.facts
      BY <1>2, <1>5, <1>8, <2>1 DEF OutOf
    <3> QED BY <2>1, <3>1, <3>2 DEF OutOf
  <2>2. CASE j # i
    <3>1. d.status[j] = view.status[j]
      BY <1>1, <1>2, <2>2
    <3>2. Revived(j) # Revived(i)
      BY <2>2, FactsApart DEF Revived
    <3>3. Revived(j) \in view.facts => Revived(j) \in d.facts
      BY <1>2, <1>5, <3>2
    <3> QED BY <1>8, <3>1, <3>3 DEF OutOf
  <2> QED BY <2>1, <2>2
<1>9. Onward(view, d) BY <1>6, <1>7, <1>8 DEF Onward
<1>10. Solid(d) BY <1>4, <1>5, <1>9, StaysSolid
<1> QED BY <1>3, <1>9, <1>10 DEF d

-----------------------------------------------------------------------------
LEMMA TaskTyped ==
  ASSUME IInv, NEW t \in Tasks
  PROVE  task[t] \in TaskType /\ Placed(task[t], view)
BY DEF IInv, TypeOK, TaskType

(* It goes to a label from where it stands, or starts there.               *)
LEMMA LookAtKeeps ==
  ASSUME IInv, NEW t \in Tasks, NEW label \in Labels,
         NEW of \in Ideas \cup Challenges \cup {Nil},
         label \notin {"commit", "locked_commit", "row"}, Fits(label, of), Ready(label, of, view),
         Become(t, At(label, of)), UNCHANGED <<connectionVars, picks, timer>>
  PROVE  IInv'
<1>1. At(label, of) \in TaskType /\ Placed(At(label, of), view)
  BY AtPlaced
<1>2. picks' \subseteq Ideas /\ timer' = timer BY DEF IInv, TypeOK
<1> HIDE DEF IInv
<1> QED BY <1>1, <1>2, LookKeeps

LEMMA StopKeeps ==
  ASSUME IInv, NEW t \in Tasks, Become(t, Idle), UNCHANGED connectionVars,
         picks' \subseteq Ideas, timer' = timer
  PROVE  IInv'
BY IdlePlaced, LookKeeps

(* It runs a statement and goes to its commit, with the lock or without.   *)
LEMMA ToCommitKeeps ==
  ASSUME IInv, NEW t \in Tasks, NEW at \in {"commit", "locked_commit"},
         NEW then \in {"idle", "next", "results", "reread", "archive", "reviewed"},
         NEW d \in Databases, Execute(d), Solid(d), Onward(view, d),
         \/ Become(t, [task[t] EXCEPT !.at = at, !.then = then])
         \/ Become(t, [task[t] EXCEPT !.at = at, !.then = then, !.read = Nil]),
         Fits(then, task[t].of), Ready(then, task[t].of, d),
         UNCHANGED <<picks, timer>>
  PROVE  IInv'
<1>1. task[t] \in TaskType BY TaskTyped
<1> DEFINE u == [task[t] EXCEPT !.at = at, !.then = then]
           v == [task[t] EXCEPT !.at = at, !.then = then, !.read = Nil]
<1>2. u \in TaskType /\ u.at = at /\ u.then = then /\ u.of = task[t].of
  BY <1>1 DEF TaskType, Labels
<1>3. v \in TaskType /\ v.at = at /\ v.then = then /\ v.of = task[t].of
  BY <1>1 DEF TaskType, Labels
<1>4. Become(t, u) \/ Become(t, v)
  OBVIOUS
<1> HIDE DEF u, v
<1>5. PICK k \in TaskType : Become(t, k) /\ k.at = at /\ k.then = then /\ k.of = task[t].of
  BY <1>2, <1>3, <1>4
<1>6. Placed(k, d) BY <1>5 DEF Placed, Place
<1> QED BY <1>5, <1>6, WriteKeeps

LEMMA LockedKeeps ==
  ASSUME IInv, NEW t \in Tasks, NEW then \in {"idle", "reviewed"},
         NEW d \in Databases, Solid(d), Onward(view, d), WriteLocked(t, d, then)
  PROVE  IInv'
<1>1. Fits(then, task[t].of) /\ Ready(then, task[t].of, d)
  BY DEF Fits, Ready
<1> QED BY <1>1, ToCommitKeeps DEF WriteLocked

-----------------------------------------------------------------------------
LEMMA FinishKeeps ==
  ASSUME IInv, NEW t \in Tasks, FinishTask(t)
  PROVE  IInv'
<1> DEFINE k == task[t]
<1>1. k \in TaskType /\ Placed(k, view) BY TaskTyped
<1>2. /\ k.at \in {"commit", "locked_commit"} /\ Fits(k.then, k.of)
      /\ Ready(k.then, k.of, view)
      /\ k.then \in {"idle", "next", "results", "reread", "archive", "reviewed"}
      /\ k.of \in Ideas \cup Challenges \cup {Nil}
  BY <1>1 DEF FinishTask, Committing, Placed, Place, TaskType
<1>3. /\ At(k.then, k.of) \in TaskType /\ Placed(At(k.then, k.of), view)
  BY <1>2, AtPlaced DEF Labels
<1>4. k.then \in {"idle", "next"}
        => At(k.then, Nil) \in TaskType /\ Placed(At(k.then, Nil), view)
  BY AtPlaced DEF Labels, Fits, Ready
<1>5. \E new \in TaskType : Become(t, new) /\ Placed(new, view)
  BY <1>3, <1>4 DEF FinishTask
<1> QED BY <1>5, CommitKeeps DEF FinishTask

LEMMA DenialKeeps ==
  ASSUME IInv, NEW t \in Tasks,
         \/ InsertDenial(t) \/ SetDenied(t) \/ Reject(t) \/ Delete(t)
         \/ SaveRow(t) \/ RowDropped(t)
  PROVE  IInv'
<1> DEFINE k == task[t]
<1>1. k \in TaskType /\ Placed(k, view) BY TaskTyped
<1>2. view \in Databases /\ Solid(view) /\ Onward(view, view) BY SameWrite
<1>3. CASE InsertDenial(t)
  <2> DEFINE new == [k EXCEPT !.at = "deny_status"]
  <2>1. new \in TaskType /\ new.at = "deny_status" /\ new.of = k.of /\ new.then = k.then
    BY <1>1 DEF TaskType, Labels
  <2>2. k.at = "deny" /\ Become(t, new) BY <1>3 DEF InsertDenial
  <2> HIDE DEF new
  <2>3. Placed(new, view)
    BY <1>1, <2>1, <2>2 DEF Placed, Place, Fits, Ready
  <2> QED BY <1>2, <1>3, <2>1, <2>2, <2>3, WriteKeeps DEF InsertDenial
<1>4. CASE SetDenied(t)
  <2>1. k.at = "deny_status" /\ k.of \in Ideas /\ k.then \in {"idle", "results"}
    BY <1>1, <1>4 DEF SetDenied, Placed, Place, Fits
  <2> DEFINE d == Out(view, k.of, "rejected")
  <2>2. d \in Databases /\ Solid(d) /\ Onward(view, d) /\ OutOf(k.of, d)
    BY <2>1, StatusWrite
  <2>3. Execute(d) /\ ToCommit(t, k.then) /\ UNCHANGED <<picks, timer>>
    BY <1>4 DEF SetDenied
  <2> HIDE DEF d
  <2>4. Fits(k.then, k.of) /\ Ready(k.then, k.of, d)
    BY <2>1, <2>2 DEF Fits, Ready
  <2> QED BY <2>1, <2>2, <2>3, <2>4, ToCommitKeeps DEF ToCommit
<1>5. CASE Reject(t) \/ Delete(t)
  <2>1. k.of \in Ideas
    BY <1>1, <1>5 DEF Reject, Delete, Placed, Place, Fits
  <2>2. PICK s \in {"rejected", "gone"} : WriteLocked(t, Out(view, k.of, s), "idle")
    BY <1>5 DEF Reject, Delete
  <2> DEFINE d == Out(view, k.of, s)
  <2>3. d \in Databases /\ Solid(d) /\ Onward(view, d)
    BY <2>1, StatusWrite
  <2>4. WriteLocked(t, d, "idle") BY <2>2
  <2> HIDE DEF d
  <2> QED BY <2>3, <2>4, LockedKeeps
<1>6. CASE SaveRow(t)
  <2>1. k.of \in Ideas /\ k.read \in Rows
    BY <1>1, <1>6 DEF SaveRow, Placed, Place, Fits
  <2> DEFINE d == PutBack(k.of, k.read)
  <2>2. d \in Databases /\ Solid(d) /\ Onward(view, d)
    BY <2>1, RowWrite
  <2>3. WriteLocked(t, d, "idle") BY <1>6 DEF SaveRow
  <2> HIDE DEF d
  <2> QED BY <2>2, <2>3, LockedKeeps
<1>7. CASE RowDropped(t)
  <2>1. picks' \subseteq Ideas BY <1>7 DEF RowDropped, Go, IInv, TypeOK
  <2> QED BY <1>7, <2>1, StopKeeps DEF RowDropped, Go
<1> QED BY <1>3, <1>4, <1>5, <1>6, <1>7

LEMMA RoundKeeps ==
  ASSUME IInv, NEW t \in Tasks,
         SaveRound(t) \/ DenyLoser(t) \/ SpareLoser(t) \/ SaveResults(t)
  PROVE  IInv'
<1> DEFINE k == task[t]
<1>1. k \in TaskType /\ Placed(k, view) BY TaskTyped
<1>2. view \in Databases /\ Solid(view) /\ Onward(view, view) BY SameWrite
<1>3. \A of, d : Fits("idle", of) /\ Ready("idle", of, d) BY DEF Fits, Ready
<1>4. CASE SaveRound(t)
  BY <1>2, <1>3, <1>4, ToCommitKeeps DEF SaveRound, ToCommit
<1>5. CASE DenyLoser(t)
  <2> DEFINE new == [k EXCEPT !.at = "deny", !.then = "results"]
  <2>1. new \in TaskType /\ new.at = "deny" /\ new.of = k.of /\ new.then = "results"
    BY <1>1 DEF TaskType, Labels
  <2>2. k.at = "loser" /\ Become(t, new) /\ UNCHANGED <<connectionVars, picks, timer>>
    BY <1>5 DEF DenyLoser, Go
  <2> HIDE DEF new
  <2>3. Placed(new, view)
    BY <1>1, <2>1, <2>2 DEF Placed, Place, Fits, Ready
  <2>4. picks' \subseteq Ideas BY <2>2 DEF IInv, TypeOK
  <2> QED BY <2>1, <2>2, <2>3, <2>4, LookKeeps
<1>6. CASE SpareLoser(t)
  <2>1. k.at = "loser" /\ k.of \in Ideas /\ OutOf(k.of, view)
    BY <1>1, <1>6 DEF SpareLoser, Placed, Place, Fits, OutOf
  <2>2. Fits("results", k.of) /\ Ready("results", k.of, view)
    BY <2>1 DEF Fits, Ready
  <2> QED BY <1>6, <2>1, <2>2, LookAtKeeps DEF SpareLoser, Go, Labels
<1>7. CASE SaveResults(t)
  <2>1. k.at = "results" /\ k.of \in Ideas \cup {Nil}
        /\ (k.of # Nil => OutOf(k.of, view))
    BY <1>1, <1>7 DEF SaveResults, Placed, Place, Fits, Ready
  <2>2. CASE k.of = Nil
    BY <1>2, <1>3, <1>7, <2>2, ToCommitKeeps DEF SaveResults, ToCommit
  <2>3. CASE k.of # Nil
    <3> DEFINE d == [view EXCEPT !.facts = @ \cup {Fact("lost", k.of)}]
    <3>1. Fact("lost", k.of) \in Facts BY <2>1, <2>3 DEF Facts
    <3>2. d \in Databases /\ Solid(d) /\ Onward(view, d)
      BY <2>1, <2>3, <3>1, FactWrite
    <3>3. Execute(d) BY <1>7, <2>3 DEF SaveResults, AddFact
    <3> HIDE DEF d
    <3> QED BY <1>3, <1>7, <3>2, <3>3, ToCommitKeeps DEF SaveResults, ToCommit
  <2> QED BY <2>2, <2>3
<1> QED BY <1>4, <1>5, <1>6, <1>7
LEMMA ChallengeKeeps ==
  ASSUME IInv, NEW t \in Tasks,
         \/ (\E i \in Ideas : TakeUp(t, i)) \/ CycleEnds(t)
         \/ SaveChallenge(t) \/ ModelFails(t)
  PROVE  IInv'
<1> DEFINE k == task[t]
<1>1. k \in TaskType /\ Placed(k, view) BY TaskTyped
<1>2. ASSUME NEW i \in Ideas, TakeUp(t, i) PROVE IInv'
  <2>1. PICK c \in Challenges : Become(t, [At("model", c) EXCEPT !.then = "next"])
    BY <1>2 DEF TakeUp
  <2> DEFINE new == [At("model", c) EXCEPT !.then = "next"]
  <2>2. At("model", c) \in TaskType /\ Placed(At("model", c), view)
    BY AtPlaced DEF Labels, Fits, Ready
  <2>3. At("model", c).at = "model" /\ At("model", c).of = c
    BY DEF At, Idle
  <2>4. new \in TaskType /\ new.at = "model" /\ new.of = c /\ new.then = "next"
    BY <2>2, <2>3 DEF TaskType, Labels
  <2>5. Become(t, new) BY <2>1
  <2> HIDE DEF new
  <2>6. Placed(new, view) BY <2>4 DEF Placed, Place, Fits, Ready
  <2>7. picks' \subseteq Ideas BY <1>2 DEF TakeUp, IInv, TypeOK
  <2> QED BY <1>2, <2>4, <2>5, <2>6, <2>7, LookKeeps DEF TakeUp
<1>3. CASE CycleEnds(t)
  BY <1>3, StopKeeps DEF CycleEnds
<1>4. CASE SaveChallenge(t)
  <2>1. k.at = "model" /\ k.of \in Challenges /\ k.then \in {"idle", "next"}
    BY <1>1, <1>4 DEF SaveChallenge, Placed, Place, Fits
  <2> DEFINE d == [view EXCEPT !.facts = @ \cup {Fact("challenge", k.of)}]
             new == [k EXCEPT !.at = "commit"]
  <2>2. Fact("challenge", k.of) \in Facts BY <2>1 DEF Facts
  <2>3. d \in Databases /\ Solid(d) /\ Onward(view, d)
    BY <2>2, FactWrite
  <2>4. Execute(d) /\ Become(t, new) BY <1>4 DEF SaveChallenge, AddFact
  <2>5. new \in TaskType /\ new.at = "commit" /\ new.of = k.of /\ new.then = k.then
    BY <1>1 DEF TaskType, Labels
  <2> HIDE DEF d, new
  <2>6. Placed(new, d) BY <2>1, <2>5 DEF Placed, Place, Fits, Ready
  <2> QED BY <1>4, <2>3, <2>4, <2>5, <2>6, WriteKeeps DEF SaveChallenge
<1>5. CASE ModelFails(t)
  <2>1. k.at = "model" /\ k.then \in {"idle", "next"}
    BY <1>1, <1>5 DEF ModelFails, Go, Placed
  <2>2. Fits(k.then, Nil) /\ Ready(k.then, Nil, view)
    BY <2>1 DEF Fits, Ready
  <2> QED BY <1>5, <2>1, <2>2, LookAtKeeps DEF ModelFails, Go, Labels
<1> QED BY <1>2, <1>3, <1>4, <1>5

(* The fields, a look whether the idea is there, and only then the mark.   *)
LEMMA ApplyKeeps ==
  ASSUME IInv, NEW t \in Tasks,
         UpdateFields(t) \/ Reread(t) \/ MarkApplied(t)
  PROVE  IInv'
<1> DEFINE k == task[t]
<1>1. k \in TaskType /\ Placed(k, view) BY TaskTyped
<1>2. view \in Databases /\ Solid(view) /\ Onward(view, view) BY SameWrite
<1>3. ASSUME UpdateFields(t) PROVE IInv'
  <2>1. k.at = "apply" /\ k.of \in Challenges
    BY <1>1, <1>3 DEF UpdateFields, Placed, Place, Fits
  <2>2. Fits("reread", k.of) BY <2>1 DEF Fits
  <2>3. CASE k.of \notin Proposing
    <3>1. Ready("reread", k.of, view) BY <2>3 DEF Ready
    <3> QED BY <1>3, <2>1, <2>2, <2>3, <3>1, LookAtKeeps DEF UpdateFields, Labels
  <2>4. CASE k.of \in Proposing /\ Stored(About[k.of])
    <3> DEFINE d == [view EXCEPT !.facts = (@ \ {Undone(k.of)}) \cup {Fact("written", k.of)}]
    <3>1. d \in Databases /\ Solid(d) /\ Onward(view, d) /\ Kept(k.of, d)
      BY <2>4, FieldsWrite
    <3>2. Execute(d) BY <1>3, <2>4 DEF UpdateFields
    <3> HIDE DEF d
    <3>3. Ready("reread", k.of, d) BY <3>1 DEF Ready
    <3> QED BY <1>3, <2>2, <2>4, <3>1, <3>2, <3>3, ToCommitKeeps DEF UpdateFields, ToCommit
  <2>5. CASE k.of \in Proposing /\ ~Stored(About[k.of])
    <3>1. Ready("reread", k.of, view) BY <2>5 DEF Ready, Gone, Stored
    <3> QED BY <1>2, <1>3, <2>2, <2>5, <3>1, ToCommitKeeps DEF UpdateFields, ToCommit
  <2> QED BY <2>3, <2>4, <2>5
<1>4. CASE Reread(t)
  <2>1. k.at = "reread" /\ k.of \in Challenges /\ Ready("reread", k.of, view)
    BY <1>1, <1>4 DEF Reread, Placed, Place, Fits
  <2>2. CASE Stored(About[k.of])
    <3>1. Fits("mark", k.of) /\ Ready("mark", k.of, view)
      BY <2>1, <2>2 DEF Fits, Ready, Gone, Stored
    <3> QED BY <1>4, <2>1, <2>2, <3>1, LookAtKeeps DEF Reread, Go, Labels
  <2>3. CASE ~Stored(About[k.of])
    <3>1. picks' \subseteq Ideas BY <1>4 DEF Reread, Go, IInv, TypeOK
    <3> QED BY <1>4, <2>3, <3>1, StopKeeps DEF Reread, Go
  <2> QED BY <2>2, <2>3
<1>5. CASE MarkApplied(t)
  <2> DEFINE d == [view EXCEPT !.facts = @ \cup {Fact("applied", k.of)}]
  <2>1. k.at = "mark" /\ k.of \in Challenges /\ Ready("mark", k.of, view)
    BY <1>1, <1>5 DEF MarkApplied, Placed, Place, Fits
  <2>2. Fact("applied", k.of) \in Facts BY <2>1 DEF Facts
  <2>3. d \in Databases /\ Solid(d) /\ Onward(view, d)
    BY <2>1, <2>2, FactWrite DEF Ready
  <2>4. Execute(d) BY <1>5 DEF MarkApplied, AddFact
  <2> HIDE DEF d
  <2>5. Fits("idle", k.of) /\ Ready("idle", k.of, d) BY DEF Fits, Ready
  <2> QED BY <1>5, <2>3, <2>4, <2>5, ToCommitKeeps DEF MarkApplied, ToCommit
<1> QED BY <1>3, <1>4, <1>5

LEMMA AuditKeeps ==
  ASSUME IInv, NEW t \in Tasks,
         \/ (\E c \in Challenges : Sample(t, c)) \/ NothingToAudit(t)
         \/ Evaluate(t) \/ EvaluationFails(t) \/ SaveAudit(t) \/ StartAudit(t)
  PROVE  IInv'
<1> DEFINE k == task[t]
<1>1. k \in TaskType /\ Placed(k, view) /\ picks \subseteq Ideas
  BY TaskTyped DEF IInv, TypeOK
<1>2. ASSUME NEW c \in Challenges, Sample(t, c) PROVE IInv'
  <2>1. CASE Stored(About[c])
    <3>1. Fits("evaluate", c) /\ Ready("evaluate", c, view) BY DEF Fits, Ready
    <3> QED BY <1>2, <2>1, <3>1, LookAtKeeps DEF Sample, Go, Labels
  <2>2. CASE ~Stored(About[c])
    BY <1>1, <1>2, <2>2, StopKeeps DEF Sample, Go
  <2> QED BY <2>1, <2>2
<1>3. CASE NothingToAudit(t) \/ EvaluationFails(t)
  BY <1>1, <1>3, StopKeeps DEF NothingToAudit, EvaluationFails, Go
<1>4. CASE Evaluate(t)
  <2>1. k.at = "evaluate" /\ k.of \in Challenges
    BY <1>1, <1>4 DEF Evaluate, Placed, Place, Fits
  <2>2. At("audit", k.of) \in TaskType /\ Placed(At("audit", k.of), view)
    BY <2>1, AtPlaced DEF Labels, Fits, Ready
  <2> QED BY <1>4, <2>2, CommitKeeps DEF Evaluate
<1>5. CASE SaveAudit(t)
  <2> DEFINE d == [view EXCEPT !.facts = @ \cup {Fact("audit", k.of)}]
  <2>1. k.of \in Challenges
    BY <1>1, <1>5 DEF SaveAudit, Placed, Place, Fits
  <2>2. Fact("audit", k.of) \in Facts BY <2>1 DEF Facts
  <2>3. d \in Databases /\ Solid(d) /\ Onward(view, d)
    BY <2>2, FactWrite
  <2>4. Execute(d) BY <1>5 DEF SaveAudit, AddFact
  <2> HIDE DEF d
  <2>5. Fits("idle", k.of) /\ Ready("idle", k.of, d) BY DEF Fits, Ready
  <2> QED BY <1>5, <2>3, <2>4, <2>5, ToCommitKeeps DEF SaveAudit, ToCommit
<1>6. CASE StartAudit(t)
  <2>1. At("sample", Nil) \in TaskType /\ Placed(At("sample", Nil), view)
    BY AtPlaced DEF Labels, Fits, Ready
  <2> QED BY <1>6, <2>1, CommitKeeps DEF StartAudit
<1> QED BY <1>2, <1>3, <1>4, <1>5, <1>6

LEMMA ReviewKeeps ==
  ASSUME IInv, NEW t \in Tasks,
         RecordReview(t) \/ ReviewFails(t) \/ Archive(t) \/ NextReview(t)
  PROVE  IInv'
<1> DEFINE k == task[t]
<1>1. k \in TaskType /\ Placed(k, view) /\ picks \subseteq Ideas
  BY TaskTyped DEF IInv, TypeOK
<1>2. view \in Databases /\ Solid(view) /\ Onward(view, view) BY SameWrite
<1>3. CASE RecordReview(t)
  <2>1. k.of \in Ideas
    BY <1>1, <1>3 DEF RecordReview, Placed, Place, Fits
  <2>2. PICK then \in {"archive", "reviewed"} : ToCommit(t, then)
    BY <1>3 DEF RecordReview, AfterReview
  <2>3. Fits(then, k.of) /\ Ready(then, k.of, view)
    BY <2>1 DEF Fits, Ready
  <2> QED BY <1>2, <1>3, <2>2, <2>3, ToCommitKeeps DEF RecordReview, ToCommit
<1>4. CASE ReviewFails(t) \/ NextReview(t)
  BY <1>1, <1>4, StopKeeps DEF ReviewFails, NextReview, Go
<1>5. CASE Archive(t)
  <2>1. k.of \in Ideas
    BY <1>1, <1>5 DEF Archive, Placed, Place, Fits
  <2> DEFINE d == Out(view, k.of, "archived")
  <2>2. d \in Databases /\ Solid(d) /\ Onward(view, d)
    BY <2>1, StatusWrite
  <2>3. WriteLocked(t, d, "reviewed") BY <1>5 DEF Archive
  <2> HIDE DEF d
  <2> QED BY <2>2, <2>3, LockedKeeps
<1> QED BY <1>3, <1>4, <1>5

LEMMA StartKeeps ==
  ASSUME IInv, NEW t \in Tasks, Start(t)
  PROVE  IInv'
<1>1. ASSUME NEW label \in {"deny", "reject", "delete", "loser", "review"},
             NEW i \in Ideas, Begin(t, At(label, i))
      PROVE  IInv'
  <2>1. Fits(label, i) /\ Ready(label, i, view) BY DEF Fits, Ready
  <2> QED BY <1>1, <2>1, LookAtKeeps DEF Begin, Labels
<1>2. ASSUME NEW label \in {"round", "results"}, Begin(t, At(label, Nil))
      PROVE  IInv'
  <2>1. Fits(label, Nil) /\ Ready(label, Nil, view) BY DEF Fits, Ready
  <2> QED BY <1>2, <2>1, LookAtKeeps DEF Begin, Labels
<1>3. ASSUME NEW label \in {"model", "apply"}, NEW c \in Challenges,
             Begin(t, At(label, c))
      PROVE  IInv'
  <2>1. Fits(label, c) /\ Ready(label, c, view) BY DEF Fits, Ready
  <2> QED BY <1>3, <2>1, LookAtKeeps DEF Begin, Labels
<1>4. CASE PickIdeas(t)
  <2>1. At("next", Nil) \in TaskType /\ Placed(At("next", Nil), view)
    BY AtPlaced DEF Labels, Fits, Ready
  <2>2. picks' \subseteq Ideas BY <1>4 DEF PickIdeas
  <2> QED BY <1>4, <2>1, <2>2, LookKeeps DEF PickIdeas
<1>5. CASE StartAudit(t)
  BY <1>5, AuditKeeps
<1>6. ASSUME NEW i \in Ideas,
             \/ RequestDenial(t, i) \/ RequestRejection(t, i) \/ RequestDelete(t, i)
             \/ CompareSimilar(t, i) \/ StartReview(t, i)
      PROVE  IInv'
  BY <1>1, <1>6 DEF RequestDenial, RequestRejection, RequestDelete, CompareSimilar, StartReview
<1>7. CASE RequestRound(t) \/ CompareDistinct(t)
  BY <1>2, <1>7 DEF RequestRound, CompareDistinct
<1>8. ASSUME NEW c \in Challenges, RequestChallenge(t, c) \/ RequestApply(t, c)
      PROVE  IInv'
  BY <1>3, <1>8 DEF RequestChallenge, RequestApply
<1>9. ASSUME NEW i \in Ideas, ReadRow(t, i) PROVE IInv'
  <2> DEFINE r == [status |-> view.status[i],
                   written |-> {c \in Proposing : About[c] = i /\ Holds("written", c)}]
             k == [At("row", i) EXCEPT !.read = r]
  <2>1. r \in Rows BY <1>9 DEF ReadRow, Stored, Rows, IInv, TypeOK, Databases
  <2> HIDE DEF r
  <2>2. /\ k \in TaskType /\ k.at = "row" /\ k.of = i /\ k.then = "idle" /\ k.read = r
    BY <2>1 DEF At, Idle, TaskType, Labels
  <2>3. Begin(t, k) BY <1>9 DEF ReadRow, r
  <2> HIDE DEF k
  <2>4. Placed(k, view) BY <2>1, <2>2 DEF Placed, Place, Fits, Ready
  <2>5. picks' \subseteq Ideas BY <2>3 DEF Begin, IInv, TypeOK
  <2> QED BY <2>2, <2>3, <2>4, <2>5, LookKeeps DEF Begin
<1> QED BY <1>4, <1>5, <1>6, <1>7, <1>8, <1>9 DEF Start

-----------------------------------------------------------------------------
(* The other process writes when nothing is open, so on what it reads.     *)
LEMMA TimerKeeps ==
  ASSUME IInv, \/ \E i \in Ideas : TimerReviews(i)
               \/ TimerArchives \/ TimerLeaves
  PROVE  IInv'
<1>1. ASSUME NEW d \in Databases, ExecuteElsewhere(d), Solid(d), Onward(view, d),
             UNCHANGED <<task, picks>>, timer' \in Ideas \cup {Nil}
      PROVE  IInv'
  <2>1. disk' = d /\ view' = d /\ open' = open BY <1>1 DEF ExecuteElsewhere
  <2>2. TypeOK' BY <1>1, <2>1 DEF IInv, TypeOK
  <2>3. \A t \in Tasks : Placed(task'[t], view')
    BY <1>1, <2>1, PlacedStays DEF IInv
  <2> QED BY <1>1, <2>1, <2>2, <2>3 DEF IInv
<1>2. ~open => disk = view /\ view \in Databases /\ Solid(view) /\ Onward(view, view)
  BY SameWrite DEF IInv, TypeOK
<1>3. ASSUME NEW i \in Ideas, TimerReviews(i) PROVE IInv'
  BY <1>1, <1>2, <1>3 DEF TimerReviews, ExecuteElsewhere
<1>4. CASE TimerArchives
  <2>1. ~open /\ timer \in Ideas /\ timer' = Nil /\ UNCHANGED <<task, picks>>
    BY <1>4 DEF TimerArchives, ExecuteElsewhere, IInv, TypeOK
  <2> DEFINE d == Out(disk, timer, "archived")
  <2>2. disk = view BY <1>2, <2>1
  <2>3. d \in Databases /\ Solid(d) /\ Onward(view, d)
    BY <2>1, <2>2, StatusWrite
  <2>4. ExecuteElsewhere(d) BY <1>4 DEF TimerArchives
  <2> HIDE DEF d
  <2> QED BY <1>1, <2>1, <2>3, <2>4
<1>5. CASE TimerLeaves
  <2>1. UNCHANGED <<disk, view, open, task, picks>> /\ timer' = Nil
    BY <1>5 DEF TimerLeaves, connectionVars
  <2> QED BY <2>1 DEF IInv, TypeOK
<1> QED BY <1>3, <1>4, <1>5

(* A restart loses what nobody committed, and every coroutine with it.     *)
LEMMA RestartKeeps ==
  ASSUME IInv, Restart
  PROVE  IInv'
<1>1. /\ view' = disk /\ disk' = disk /\ open' = FALSE /\ timer' = timer
      /\ task' = [t \in Tasks |-> Idle] /\ picks' = {}
  BY DEF Restart, LoseUncommitted
<1>2. \A d : Idle \in TaskType /\ Placed(Idle, d) BY IdlePlaced
<1>3. TypeOK' BY <1>1, <1>2 DEF IInv, TypeOK, TaskType
<1> QED BY <1>1, <1>2, <1>3 DEF IInv

LEMMA StepKeeps == IInv /\ [Next]_vars => IInv'
<1> SUFFICES ASSUME IInv, [Next]_vars PROVE IInv'
  OBVIOUS
<1>1. ASSUME NEW t \in Tasks, Continue(t) PROVE IInv'
  BY <1>1, FinishKeeps, DenialKeeps, RoundKeeps, ChallengeKeeps, ApplyKeeps,
     AuditKeeps, ReviewKeeps DEF Continue
<1>2. CASE UNCHANGED vars
  BY <1>2 DEF vars, connectionVars, IInv, TypeOK
<1> QED BY <1>1, <1>2, StartKeeps, TimerKeeps, RestartKeeps DEF Next

LEMMA InitEstablishes == Init => IInv
<1> SUFFICES ASSUME Init PROVE IInv
  OBVIOUS
<1>1. PICK old \in SUBSET Challenges :
        Connect([status |-> [i \in Ideas |-> "new"],
                 facts |-> {Fact("challenge", c) : c \in old}])
  BY DEF Init
<1> DEFINE d == [status |-> [i \in Ideas |-> "new"],
                 facts |-> {Fact("challenge", c) : c \in old}]
<1>2. disk = d /\ view = d /\ open = FALSE BY <1>1 DEF Connect
<1>3. d \in Databases BY DEF Databases, Statuses, Facts
<1>4. Solid(d) BY FactsApart DEF Solid
<1> HIDE DEF d
<1>5. task = [t \in Tasks |-> Idle] /\ picks = {} /\ timer = Nil BY DEF Init
<1>6. Idle \in TaskType /\ Placed(Idle, view) BY IdlePlaced
<1>7. TypeOK BY <1>2, <1>3, <1>5, <1>6 DEF TypeOK, TaskType
<1> QED BY <1>2, <1>4, <1>5, <1>6, <1>7 DEF IInv

(* Every variable stays in its range, and what is not open is committed.   *)
THEOREM TypeCorrect == Spec => []TypeOK
<1>1. IInv => TypeOK BY DEF IInv
<1> QED BY <1>1, InitEstablishes, StepKeeps, PTL DEF Spec

(* A mark that turns later calls away stands for fields that are there, or *)
(* that a whole-row save has taken back.                                   *)
THEOREM AppliedIsWritten == Spec => []AppliedMeansWritten
<1>1. IInv => AppliedMeansWritten BY DEF IInv, Solid, Kept, AppliedMeansWritten
<1> QED BY <1>1, InitEstablishes, StepKeeps, PTL DEF Spec

(* A round that shows a loser has taken it out of the running, and only a  *)
(* whole-row save brings it back.                                          *)
THEOREM LosersStayOut == Spec => []LosersOut
<1>1. IInv => LosersOut BY DEF IInv, Solid, OutOf, LosersOut
<1> QED BY <1>1, InitEstablishes, StepKeeps, PTL DEF Spec
=============================================================================
