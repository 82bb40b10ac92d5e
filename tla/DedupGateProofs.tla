--------------------------- MODULE DedupGateProofs ---------------------------
(* The gate's checks are admissions, for any number of generators and drafts, *)
(* and so the overshoot of cap and copies is bounded.                         *)
EXTENDS DedupGate, FiniteSetTheorems, TLAPS

(* A generator at work has a draft of its own, which is not stored yet; it    *)
(* follows the path for supers or the other, and has rows left to compare     *)
(* only while it compares.                                                    *)
Drafting ==
    \A g \in Gens :
        /\ task[g].at = "idle" <=> task[g].draft = None
        /\ task[g].at # "idle" => row[task[g].draft] = "none"
        /\ \A h \in Gens : h # g /\ task[h].draft = task[g].draft => task[g].draft = None
OnPath ==
    \A g \in Gens :
        /\ task[g].at = "super" => task[g].draft \in text.supers
        /\ task[g].at \in {"cap", "read", "compare", "cross"} => task[g].draft \notin text.supers
        /\ task[g].at \notin {"compare", "filter"} => task[g].todo = {}
        /\ task[g].draft \notin task[g].todo

(* What has the hash of a draft past check 1 came after that check.           *)
HashSeen ==
    \A g \in Gens : task[g].at \notin {"idle", "hash", "filter"} =>
        \A e \in hashed : Same("hash", task[g].draft, e) => e \in missed[g]

IInv == TypeOK /\ Drafting /\ OnPath /\ HashSeen

USE SizesAssumption

LEMMA InitEstablishes == Init => IInv
<1> SUFFICES ASSUME Init PROVE IInv
  OBVIOUS
<1>1. TypeOK
  BY DEF Init, TypeOK, RowStates, Labels, Tasks, Idle
<1>2. Drafting /\ OnPath /\ HashSeen
  BY DEF Init, Idle, Drafting, OnPath, HashSeen
<1> QED BY <1>1, <1>2 DEF IInv

-----------------------------------------------------------------------------
(* A generator goes from one check to another with the same draft.            *)
LEMMA MoveKeeps ==
    ASSUME IInv, NEW g \in Gens, NEW label \in Labels, NEW T \in SUBSET Drafts,
           Turn(g, label, T),
           Table, UNCHANGED missed,
           task[g].at # "idle", label # "idle",
           label = "super" => task[g].draft \in text.supers,
           label \in {"cap", "read", "compare", "cross"} => task[g].draft \notin text.supers,
           label \notin {"compare", "filter"} => T = {}, task[g].draft \notin T,
           label \notin {"hash", "filter"} =>
               \A e \in hashed : Same("hash", task[g].draft, e) => e \in missed[g]
    PROVE  IInv'
<1> USE DEF Table
<1>1. task[g] \in Tasks /\ [at |-> label, draft |-> task[g].draft, todo |-> T] \in Tasks
  BY DEF IInv, TypeOK, Tasks
<1>2. TypeOK'
  BY <1>1 DEF IInv, TypeOK, Turn
<1>3. /\ task'[g].at = label /\ task'[g].draft = task[g].draft /\ task'[g].todo = T
      /\ \A h \in Gens : h # g => task'[h] = task[h]
      /\ \A h \in Gens : task'[h].draft = task[h].draft
  BY <1>1 DEF IInv, TypeOK, Turn
<1>4. Drafting'
  BY <1>3 DEF IInv, Drafting
<1>5. OnPath'
  BY <1>3 DEF IInv, OnPath
<1>6. HashSeen'
  BY <1>3 DEF IInv, HashSeen, Same
<1> QED BY <1>2, <1>4, <1>5, <1>6 DEF IInv

(* The generators in A end, the rows stay.                                    *)
LEMMA EndKeeps ==
    ASSUME IInv, NEW A \in SUBSET Gens,
           task' = [g \in Gens |-> IF g \in A THEN Idle ELSE task[g]],
           missed' = [g \in Gens |-> IF g \in A THEN {} ELSE missed[g]],
           Table
    PROVE  IInv'
<1> USE DEF Table
<1>1. TypeOK'
  BY DEF IInv, TypeOK, Tasks, Labels, Idle
<1>2. Drafting' /\ OnPath'
  BY DEF IInv, Idle, Drafting, OnPath
<1>3. HashSeen'
  BY DEF IInv, Idle, HashSeen, Same
<1> QED BY <1>1, <1>2, <1>3 DEF IInv

(* Rows change, but not those of drafts on their way, and none gains a hash.  *)
LEMMA OperateKeeps ==
    ASSUME IInv, NEW d \in Drafts, row[d] # "none", Others,
           NEW s \in RowStates, row' = [row EXCEPT ![d] = s],
           NEW a \in {"no", "archive", "rejection"}, readmitted' = [readmitted EXCEPT ![d] = a],
           hashed' \subseteq hashed, s = "none" => d \notin hashed'
    PROVE  IInv'
<1> USE DEF Others
<1>1. TypeOK'
  BY DEF IInv, TypeOK
<1>2. Drafting'
  BY DEF IInv, TypeOK, Drafting, Tasks
<1>3. OnPath' /\ HashSeen'
  BY DEF IInv, OnPath, HashSeen, Same
<1> QED BY <1>1, <1>2, <1>3 DEF IInv

(* What a check leaves: the label it went to.                                 *)
LEMMA CheckKeeps ==
    ASSUME IInv, NEW g \in Gens, NEW at \in Labels \ {"idle", "compare", "filter"},
           NEW dup \in BOOLEAN, NEW next \in Labels, Check(g, at, dup, next), next # "idle",
           next # "compare",
           next = "super" => task[g].draft \in text.supers,
           next \in {"cap", "read", "compare", "cross"} => task[g].draft \notin text.supers,
           ~dup /\ next \notin {"hash", "filter"} =>
               \A e \in hashed : Same("hash", task[g].draft, e) => e \in missed[g]
    PROVE  IInv'
<1> DEFINE label == IF dup THEN "filter" ELSE next
<1>1. task[g].todo = {} /\ task[g].at # "idle"
  BY DEF Check, IInv, OnPath
<1>2. Turn(g, label, {})
  BY <1>1 DEF Check, Goto, IInv, TypeOK, Tasks
<1>3. label \in Labels
  BY DEF Labels
<1> QED BY <1>1, <1>2, <1>3, MoveKeeps DEF Check

LEMMA StepKeeps == IInv /\ [Next]_vars => IInv'
<1> SUFFICES ASSUME IInv, [Next]_vars PROVE IInv'
  OBVIOUS
<1>1. ASSUME NEW g \in Gens, NEW d \in Drafts, Begin(g, d) PROVE IInv'
  <2> USE <1>1 DEF Begin, Table
  <2>1. /\ task'[g] = [at |-> "hash", draft |-> d, todo |-> {}]
        /\ \A h \in Gens : h # g => task'[h] = task[h] /\ missed'[h] = missed[h]
    BY DEF IInv, TypeOK
  <2>2. TypeOK'
    BY DEF IInv, TypeOK, Tasks, Labels
  <2>3. Drafting'
    BY <2>1 DEF IInv, Drafting
  <2>4. OnPath'
    BY <2>1 DEF IInv, OnPath
  <2>5. HashSeen'
    BY <2>1 DEF IInv, HashSeen, Same
  <2> QED BY <2>2, <2>3, <2>4, <2>5 DEF IInv
<1>2. ASSUME NEW g \in Gens, CheckHash(g) PROVE IInv'
  <2> DEFINE d == task[g].draft
             next == IF d \in text.supers THEN "super" ELSE IF Stem(d) # None THEN "cap" ELSE "read"
             dup == \E e \in hashed : Same("hash", d, e)
  <2>1. Check(g, "hash", dup, next)
    BY <1>2 DEF CheckHash
  <2>2. next \in Labels /\ "hash" \in Labels /\ next \in {"super", "cap", "read"} /\ dup \in BOOLEAN
    BY DEF Labels
  <2>3. (next = "super") = (d \in text.supers)
    OBVIOUS
  <2>4. ~dup => \A e \in hashed : ~Same("hash", d, e)
    OBVIOUS
  <2> HIDE DEF next, dup
  <2> QED BY <2>1, <2>2, <2>3, <2>4, CheckKeeps
<1>3. ASSUME NEW g \in Gens, CheckSuper(g) PROVE IInv'
  <2>1. PICK dup \in BOOLEAN : Check(g, "super", dup, "save")
    BY <1>3 DEF CheckSuper
  <2> QED BY <2>1, CheckKeeps DEF Check, Labels, IInv, HashSeen
<1>4. ASSUME NEW g \in Gens, CheckCap(g) PROVE IInv'
  <2>1. PICK dup : dup \in BOOLEAN /\ Check(g, "cap", dup, "read")
    <3> DEFINE full == Cardinality({e \in Siblings(Stem(task[g].draft)) : Active(e)}) >= VerticalCap
    <3>1. full \in BOOLEAN /\ Check(g, "cap", full, "read")
      BY <1>4 DEF CheckCap
    <3> HIDE DEF full
    <3> QED BY <3>1
  <2> QED BY <2>1, CheckKeeps DEF Check, Labels, IInv, HashSeen, OnPath
<1>5. ASSUME NEW g \in Gens, ReadCategory(g) PROVE IInv'
  <2>1. /\ Comparable(task[g].draft) \in SUBSET Drafts
        /\ task[g].draft \notin Comparable(task[g].draft)
    BY <1>5 DEF ReadCategory, Comparable, IInv, Drafting
  <2>2. Turn(g, "compare", Comparable(task[g].draft))
    BY <1>5 DEF ReadCategory, IInv, TypeOK, Tasks
  <2> QED BY <1>5, <2>1, <2>2, MoveKeeps DEF ReadCategory, Labels, IInv, HashSeen, OnPath
<1>6. ASSUME NEW g \in Gens, NEW e \in Drafts, Compare(g, e) PROVE IInv'
  <2>1. CASE Goto(g, "filter")
    <3>1. Turn(g, "filter", task[g].todo) /\ task[g] \in Tasks
      BY <2>1 DEF Goto, IInv, TypeOK, Tasks
    <3> QED BY <1>6, <3>1, MoveKeeps DEF Compare, Labels, Tasks, IInv, OnPath
  <2>2. CASE Turn(g, "compare", task[g].todo \ {e})
    <3>1. /\ Turn(g, "compare", task[g].todo \ {e})
          /\ task[g] \in Tasks
      BY <1>6, <2>2 DEF Compare, IInv, TypeOK, Tasks
    <3> QED BY <1>6, <3>1, MoveKeeps DEF Compare, Labels, Tasks, IInv, HashSeen, OnPath
  <2> QED BY <1>6, <2>1, <2>2 DEF Compare
<1>7. ASSUME NEW g \in Gens, CompareDone(g) PROVE IInv'
  <2>1. Turn(g, "cross", {})
    BY <1>7 DEF CompareDone, Check, Goto, IInv, TypeOK, Tasks
  <2> QED BY <1>7, <2>1, MoveKeeps DEF CompareDone, Check, Labels, IInv, HashSeen, OnPath
<1>8. ASSUME NEW g \in Gens, CheckCross(g) PROVE IInv'
  <2>1. PICK dup \in BOOLEAN : Check(g, "cross", dup, "save")
    BY <1>8 DEF CheckCross
  <2> QED BY <2>1, CheckKeeps DEF Check, Labels, IInv, HashSeen
<1>9. ASSUME NEW g \in Gens, Save(g) PROVE IInv'
  <2> DEFINE d == task[g].draft
             gone == {e \in hashed : Same("hash", d, e)}
  <2>1. d \in Drafts /\ row[d] = "none" /\ task[g].at = "save" /\ d \notin hashed
    BY <1>9 DEF Save, IInv, TypeOK, Tasks, Drafting
  <2>2. /\ hashed' \subseteq hashed \union {d} /\ hashed' \cap gone = {}
        /\ \A e \in Drafts : e # d /\ e \notin gone => row'[e] = row[e]
        /\ row'[d] = "active" /\ \A e \in gone : row'[e] = "none"
        /\ row' \in [Drafts -> RowStates]
    BY <1>9, <2>1 DEF Save, IInv, TypeOK, RowStates
  <2>3. /\ task' = [task EXCEPT ![g] = Idle] /\ text' = text
        /\ readmitted' = [readmitted EXCEPT ![d] = "no"]
        /\ missed' = [h \in Gens |-> IF h = g THEN {} ELSE missed[h] \union {d}]
    BY <1>9 DEF Save
  <2>4. /\ task'[g] = Idle /\ \A h \in Gens : h # g => task'[h] = task[h]
    BY <2>3 DEF IInv, TypeOK
  <2> HIDE DEF gone, d
  <2>5. TypeOK'
    <3>1. hashed' \subseteq {e \in Drafts : row'[e] # "none"}
      BY <2>1, <2>2 DEF IInv, TypeOK
    <3>2. task' \in [Gens -> Tasks]
      BY <2>3 DEF IInv, TypeOK, Tasks, Labels, Idle
    <3> QED BY <2>1, <2>2, <2>3, <3>1, <3>2 DEF IInv, TypeOK
  <2>6. Drafting'
    <3>1. ASSUME NEW h \in Gens, h # g, task[h].at # "idle" PROVE row'[task[h].draft] = "none"
      <4>1. task[h].draft # d /\ row[task[h].draft] = "none" /\ task[h].draft \in Drafts
        BY <2>1, <3>1 DEF IInv, TypeOK, Tasks, Drafting, d
      <4> QED BY <2>2, <4>1
    <3> QED BY <2>4, <3>1 DEF IInv, Drafting, Idle
  <2>7. OnPath'
    BY <2>3, <2>4 DEF IInv, OnPath, Idle
  <2>8. HashSeen'
    <3> SUFFICES ASSUME NEW h \in Gens, task'[h].at \notin {"idle", "hash", "filter"},
                        NEW e \in hashed', {task'[h].draft, e} \in text'["hash"]
                 PROVE  e \in missed'[h]
      BY DEF HashSeen, Same
    <3>1. h # g /\ task'[h] = task[h] /\ missed'[h] = missed[h] \union {d}
      BY <2>3, <2>4 DEF Idle
    <3>2. Same("hash", task[h].draft, e)
      BY <2>3, <3>1 DEF Same
    <3> QED BY <2>2, <3>1, <3>2 DEF IInv, HashSeen
  <2> QED BY <2>5, <2>6, <2>7, <2>8 DEF IInv
<1>10. ASSUME NEW g \in Gens, Filter(g) \/ Abort(g) PROVE IInv'
  <2>1. /\ task' = [h \in Gens |-> IF h \in {g} THEN Idle ELSE task[h]]
        /\ missed' = [h \in Gens |-> IF h \in {g} THEN {} ELSE missed[h]]
        /\ Table
    BY <1>10 DEF Filter, Abort, End, IInv, TypeOK
  <2> QED BY <2>1, EndKeeps
<1>11. CASE Reload
  <2>1. /\ task' = [h \in Gens |-> IF h \in Gens THEN Idle ELSE task[h]]
        /\ missed' = [h \in Gens |-> IF h \in Gens THEN {} ELSE missed[h]]
        /\ Table
    BY <1>11 DEF Reload
  <2> QED BY <2>1, EndKeeps
<1>12. ASSUME NEW d \in Drafts, Operate(d) PROVE IInv'
  <2>1. CASE Reject(d)
    BY <2>1, OperateKeeps DEF Reject, Others, RowStates
  <2>2. CASE Archive(d)
    BY <2>2, OperateKeeps DEF Archive, Others, RowStates
  <2>3. CASE Restore(d)
    BY <2>3, OperateKeeps DEF Restore, Others, RowStates
  <2>4. CASE Rescore(d)
    BY <2>4 DEF Rescore, Others, IInv, TypeOK, Drafting, OnPath, HashSeen, Same
  <2>5. CASE Delete(d)
    BY <2>5, OperateKeeps DEF Delete, Others, RowStates
  <2> QED BY <1>12, <2>1, <2>2, <2>3, <2>4, <2>5 DEF Operate
<1>13. CASE UNCHANGED vars
  BY <1>13 DEF vars, IInv, TypeOK, Drafting, OnPath, HashSeen, Same
<1> QED
  BY <1>1, <1>2, <1>3, <1>4, <1>5, <1>6, <1>7, <1>8, <1>9, <1>10, <1>11, <1>12, <1>13
     DEF Next, Generate
-----------------------------------------------------------------------------
(* The instances' own copies of the operators of FiniteSets are the same.     *)
LEMMA SameFiniteSets ==
    ASSUME NEW S
    PROVE  /\ CapCheck!Cardinality(S) = Cardinality(S)
           /\ CopyCheck!Cardinality(S) = Cardinality(S)
           /\ SuperCheck!Cardinality(S) = Cardinality(S)
           /\ CapCheck!IsFiniteSet(S) <=> IsFiniteSet(S)
           /\ CopyCheck!IsFiniteSet(S) <=> IsFiniteSet(S)
           /\ SuperCheck!IsFiniteSet(S) <=> IsFiniteSet(S)
BY DEF CapCheck!Cardinality, CopyCheck!Cardinality, SuperCheck!Cardinality, Cardinality,
       CapCheck!IsFiniteSet, CopyCheck!IsFiniteSet, SuperCheck!IsFiniteSet, IsFiniteSet

(* The refinements. Most steps only take rows from the board and clearances   *)
(* from generators.                                                           *)
LEMMA CapShrinks ==
    ASSUME Family' \subseteq Family, PastCap' \subseteq PastCap
    PROVE  CapCheck!Next
<1>1. CapCheck!Withdraw(Gens \ PastCap')
  BY DEF CapCheck!Withdraw, PastCap
<1> QED BY <1>1 DEF CapCheck!Next

LEMMA CopiesShrink ==
    ASSUME Twins' \subseteq Twins, PastRead' \subseteq PastRead
    PROVE  CopyCheck!Next
<1>1. CopyCheck!Withdraw(Gens \ PastRead')
  BY DEF CopyCheck!Withdraw, PastRead
<1> QED BY <1>1 DEF CopyCheck!Next

LEMMA SupersShrink ==
    ASSUME Supers' \subseteq Supers, PastSuper' \subseteq PastSuper
    PROVE  SuperCheck!Next
<1>1. SuperCheck!Withdraw(Gens \ PastSuper')
  BY DEF SuperCheck!Withdraw, PastSuper
<1> QED BY <1>1 DEF SuperCheck!Next

(* Members of the three gates are lost row by row.                            *)
LEMMA MembersShrink ==
    ASSUME text' = text, NEW S \in SUBSET Drafts,
           \A e \in Drafts \ S :
               /\ row'[e] = "active" /\ readmitted'[e] = "no"
                      => row[e] = "active" /\ readmitted[e] = "no"
               /\ row'[e] \in {"active", "archived"} /\ readmitted'[e] # "rejection"
                      => row[e] \in {"active", "archived"} /\ readmitted[e] # "rejection"
    PROVE  /\ Family' \subseteq Family \union S
           /\ Twins' \subseteq Twins \union S
           /\ Supers' \subseteq Supers \union S
<1> USE DEF Siblings, Active, OnBoard, Kept, AreCopies, AreKinSupers, Same, Stem
<1>1. Family' \subseteq Family \union S
  BY DEF Family
<1>2. Twins' \subseteq Twins \union S
  <2>1. AreCopies' = AreCopies
    OBVIOUS
  <2>2. Kept(Alike)' \subseteq Kept(Alike) \union S
    BY SizesAssumption
  <2> QED BY <2>1, <2>2 DEF Twins
<1>3. Supers' \subseteq Supers \union S
  <2>1. AreKinSupers' = AreKinSupers
    OBVIOUS
  <2>2. OnBoard(Alike)' \subseteq OnBoard(Alike) \union S
    BY SizesAssumption
  <2> QED BY <2>1, <2>2 DEF Supers
<1> QED BY <1>1, <1>2, <1>3

(* What operators and cadences do to a row never adds a member.               *)
LEMMA OperateRemoves ==
    ASSUME IInv, NEW d \in Drafts, Operate(d)
    PROVE  Family' \subseteq Family /\ Twins' \subseteq Twins /\ Supers' \subseteq Supers
<1>1. text' = text
  BY DEF Operate, Others, Reject, Archive, Restore, Rescore, Delete
<1>2. ASSUME NEW e \in Drafts
      PROVE  /\ row'[e] = "active" /\ readmitted'[e] = "no"
                    => row[e] = "active" /\ readmitted[e] = "no"
             /\ row'[e] \in {"active", "archived"} /\ readmitted'[e] # "rejection"
                    => row[e] \in {"active", "archived"} /\ readmitted[e] # "rejection"
  BY DEF Operate, Others, Reject, Archive, Restore, Rescore, Delete, IInv, TypeOK
<1> DEFINE S == {}
<1>3. /\ Family' \subseteq Family \union S
      /\ Twins' \subseteq Twins \union S
      /\ Supers' \subseteq Supers \union S
  <2>1. S \in SUBSET Drafts
    OBVIOUS
  <2> HIDE DEF S
  <2> QED BY <1>1, <1>2, <2>1, MembersShrink
<1> QED BY <1>3

(* What a generator does between its first check and its save.                *)
LEMMA TableKeeps ==
    ASSUME Table
    PROVE  /\ Family' = Family /\ Twins' = Twins /\ Supers' = Supers
           /\ AreCopies' = AreCopies /\ AreKinSupers' = AreKinSupers
           /\ Siblings(Watched)' = Siblings(Watched) /\ text' = text
BY DEF Table, Family, Twins, Supers, AreCopies, AreKinSupers, Siblings, OnBoard, Kept, Active,
       Same, Stem

Walk(g) ==
    \/ \E d \in Drafts : Begin(g, d) \/ Compare(g, d)
    \/ CheckHash(g) \/ CheckSuper(g) \/ CheckCap(g) \/ ReadCategory(g) \/ CompareDone(g)
    \/ CheckCross(g) \/ Filter(g) \/ Abort(g)

(* Where a step of one generator takes it; the rows and the others stay.      *)
LEMMA WalkMoves ==
    ASSUME IInv, NEW g \in Gens, Walk(g)
    PROVE  /\ Table
           /\ \A h \in Gens : h # g => task'[h] = task[h]
           /\ \/ task'[g].at \in {"idle", "hash", "filter"}
              \/ /\ task[g].at = "hash" /\ task'[g].draft = task[g].draft
                 /\ task'[g].at \in {"super", "cap"} \/ (task'[g].at = "read" /\ Stem(task[g].draft) = None)
              \/ CheckSuper(g) /\ task'[g].at = "save" /\ task'[g].draft = task[g].draft
              \/ CheckCap(g) /\ task'[g].at = "read" /\ task'[g].draft = task[g].draft
              \/ ReadCategory(g)
              \/ /\ \E e \in task[g].todo :
                        ~Same("hard", task[g].draft, e) /\ Turn(g, "compare", task[g].todo \ {e})
                 /\ task[g].at = "compare"
              \/ Turn(g, "cross", task[g].todo) /\ task[g].at = "compare"
              \/ Turn(g, "save", task[g].todo) /\ task[g].at = "cross"
<1> USE DEF IInv, TypeOK, Table
<1>1. ASSUME NEW d \in Drafts, Begin(g, d)
      PROVE  /\ \A h \in Gens : h # g => task'[h] = task[h]
             /\ task'[g].at = "hash"
  BY <1>1 DEF Begin
<1>2. ASSUME NEW e \in Drafts, Compare(g, e)
      PROVE  /\ \A h \in Gens : h # g => task'[h] = task[h]
             /\ \/ task'[g].at = "filter"
                \/ /\ ~Same("hard", task[g].draft, e) /\ Turn(g, "compare", task[g].todo \ {e})
                   /\ task[g].at = "compare" /\ e \in task[g].todo
  BY <1>2 DEF Compare, Goto, Turn
<1>3. ASSUME NEW at, NEW dup, NEW next, Check(g, at, dup, next)
      PROVE  /\ \A h \in Gens : h # g => task'[h] = task[h]
             /\ task'[g].draft = task[g].draft /\ task[g].at = at
             /\ dup => task'[g].at = "filter"
             /\ ~dup => Turn(g, next, task[g].todo) /\ task'[g].at = next
  BY <1>3 DEF Check, Goto, Turn
<1>4. CASE Filter(g) \/ Abort(g)
  BY <1>4 DEF Filter, Abort, End, Idle
<1>5. CASE ReadCategory(g)
  BY <1>5 DEF ReadCategory, Turn
<1>6. Table
  BY DEF Walk, Begin, Compare, CheckHash, CheckSuper, CheckCap, ReadCategory, CompareDone,
         CheckCross, Filter, Abort, End, Check
<1>7. CASE CheckHash(g)
  <2> DEFINE next == IF task[g].draft \in text.supers THEN "super"
                     ELSE IF Stem(task[g].draft) # None THEN "cap" ELSE "read"
             dup == \E e \in hashed : Same("hash", task[g].draft, e)
  <2>1. Check(g, "hash", dup, next)
    BY <1>7 DEF CheckHash
  <2>2. next \in {"super", "cap"} \/ (next = "read" /\ Stem(task[g].draft) = None)
    OBVIOUS
  <2> HIDE DEF next, dup
  <2> QED BY <1>3, <1>6, <2>1, <2>2
<1>8. CASE CheckSuper(g)
  <2> DEFINE dup == \E e \in text.supers : Active(e) /\ Same("kin", task[g].draft, e)
  <2>1. Check(g, "super", dup, "save")
    BY <1>8 DEF CheckSuper
  <2> HIDE DEF dup
  <2> QED BY <1>3, <1>6, <1>8, <2>1
<1>9. CASE CheckCap(g)
  <2> DEFINE dup == Cardinality({e \in Siblings(Stem(task[g].draft)) : Active(e)}) >= VerticalCap
  <2>1. Check(g, "cap", dup, "read")
    BY <1>9 DEF CheckCap
  <2> HIDE DEF dup
  <2> QED BY <1>3, <1>6, <1>9, <2>1
<1>10. CASE CompareDone(g)
  <2>1. Check(g, "compare", FALSE, "cross")
    BY <1>10 DEF CompareDone
  <2> QED BY <1>3, <1>6, <2>1
<1>11. CASE CheckCross(g)
  <2> DEFINE dup == \E e \in Drafts : row[e] \notin {"none", "rejected"} /\ Same("far", task[g].draft, e)
  <2>1. Check(g, "cross", dup, "save")
    BY <1>11 DEF CheckCross
  <2> HIDE DEF dup
  <2> QED BY <1>3, <1>6, <2>1
<1> QED
  BY <1>1, <1>2, <1>4, <1>5, <1>6, <1>7, <1>8, <1>9, <1>10, <1>11 DEF Walk

(* A save adds the one draft, and ends its generator.                         *)
LEMMA SaveMoves ==
    ASSUME IInv, NEW g \in Gens, Save(g)
    PROVE  /\ text' = text /\ \A h \in Gens : h # g => task'[h] = task[h]
           /\ task'[g].at = "idle" /\ task[g].at = "save" /\ task[g].draft \in Drafts
           /\ task[g].todo = {}
           /\ Family' \subseteq Family \union {task[g].draft}
           /\ Twins' \subseteq Twins \union {task[g].draft}
           /\ Supers' \subseteq Supers \union {task[g].draft}
<1> DEFINE d == task[g].draft
<1>1. /\ text' = text /\ \A h \in Gens : h # g => task'[h] = task[h]
      /\ task'[g].at = "idle" /\ task[g].at = "save" /\ d \in Drafts /\ task[g].todo = {}
  BY DEF Save, Idle, IInv, TypeOK, Tasks, Drafting, OnPath
<1>2. \A e \in Drafts \ {d} :
          /\ row'[e] = "active" /\ readmitted'[e] = "no"
                => row[e] = "active" /\ readmitted[e] = "no"
          /\ row'[e] \in {"active", "archived"} /\ readmitted'[e] # "rejection"
                => row[e] \in {"active", "archived"} /\ readmitted[e] # "rejection"
  BY DEF Save, IInv, TypeOK
<1> HIDE DEF d
<1>3. {d} \in SUBSET Drafts
  BY <1>1
<1> DEFINE S == {d}
<1>4. /\ Family' \subseteq Family \union S
      /\ Twins' \subseteq Twins \union S
      /\ Supers' \subseteq Supers \union S
  <2> HIDE DEF S
  <2> QED BY <1>1, <1>2, <1>3, MembersShrink DEF S
<1> QED BY <1>1, <1>4 DEF d

(* At most one more.                                                          *)
LEMMA OneMore ==
    ASSUME NEW S, NEW T, NEW d, T \subseteq S \union {d}
    PROVE  IsFiniteSet(T \ S) /\ Cardinality(T \ S) <= 1
<1>1. T \ S \subseteq {d} /\ IsFiniteSet({d}) /\ Cardinality({d}) = 1
  BY FS_Singleton
<1> QED BY <1>1, FS_Subset, FS_CardinalityType

(* A clearance that a step leaves alone, and one it may take away.            *)
LEMMA CapStep == IInv /\ [Next]_vars => [CapCheck!Next]_CapCheck!vars
<1> SUFFICES ASSUME IInv, [Next]_vars PROVE CapCheck!Next \/ UNCHANGED CapCheck!vars
  OBVIOUS
<1>1. ASSUME NEW g \in Gens, Walk(g) PROVE CapCheck!Next
  <2>1. Family' = Family /\ Siblings(Watched)' = Siblings(Watched)
    BY <1>1, WalkMoves, TableKeeps
  <2>2. ASSUME g \in PastCap' => g \in PastCap PROVE CapCheck!Next
    <3>1. PastCap' \subseteq PastCap
      BY <1>1, <2>1, <2>2, WalkMoves DEF PastCap
    <3> QED BY <2>1, <3>1, CapShrinks
  <2>3. CASE task'[g].at \in {"idle", "hash", "filter", "super", "cap"}
    BY <2>2, <2>3 DEF PastCap
  <2>4. CASE task'[g].at = "read" /\ task'[g].draft = task[g].draft /\ Stem(task[g].draft) = None
    <3>1. task[g].draft \notin Siblings(Watched)
      BY <2>4 DEF Siblings
    <3> QED BY <2>1, <2>2, <2>4, <3>1 DEF PastCap
  <2>5. CASE CheckSuper(g) /\ task'[g].draft = task[g].draft
    <3>1. task[g].draft \notin Siblings(Watched)
      BY <2>5 DEF CheckSuper, Check, IInv, OnPath, Siblings
    <3> QED BY <2>1, <2>2, <2>5, <3>1 DEF PastCap
  <2>6. CASE CheckCap(g) /\ task'[g].at = "read" /\ task'[g].draft = task[g].draft
    <3>1. CASE task[g].draft \in Siblings(Watched)
      <4> DEFINE seen == {e \in Siblings(Watched) : Active(e)}
      <4>1. Stem(task[g].draft) = Watched
        BY <3>1 DEF Siblings
      <4>2. ~(Cardinality(seen) >= VerticalCap)
        BY <2>6, <4>1 DEF CheckCap, Check, Goto, Turn, IInv, TypeOK
      <4>3. Family \subseteq seen /\ IsFiniteSet(seen)
        <5>1. seen \subseteq Drafts
          BY DEF Siblings
        <5> QED BY <5>1, FS_Subset DEF Family, OnBoard
      <4>4. Cardinality(Family) <= Cardinality(seen) /\ Cardinality(seen) \in Nat
            /\ Cardinality(Family) \in Nat
        BY <4>3, FS_Subset, FS_CardinalityType
      <4>5. Cardinality(Family) < VerticalCap
        BY <4>2, <4>4
      <4>6. PastCap' = PastCap \union {g}
        BY <1>1, <2>1, <2>6, <3>1, WalkMoves DEF PastCap
      <4>7. CapCheck!Clear(g)
        BY <2>1, <4>5, <4>6, SameFiniteSets DEF CapCheck!Clear
      <4> QED BY <4>7 DEF CapCheck!Next
    <3>2. CASE task[g].draft \notin Siblings(Watched)
      BY <2>1, <2>2, <2>6, <3>2 DEF PastCap
    <3> QED BY <3>1, <3>2
  <2>7. CASE ReadCategory(g)
    BY <2>1, <2>2, <2>7 DEF ReadCategory, Turn, PastCap, IInv, TypeOK
  <2>8. CASE (\E T : Turn(g, "compare", T) \/ Turn(g, "cross", T)) /\ task[g].at = "compare"
    BY <2>1, <2>2, <2>8 DEF Turn, PastCap, IInv, TypeOK
  <2>9. CASE Turn(g, "save", task[g].todo) /\ task[g].at = "cross"
    BY <2>1, <2>2, <2>9 DEF Turn, PastCap, IInv, TypeOK
  <2> QED BY <1>1, <2>3, <2>4, <2>5, <2>6, <2>7, <2>8, <2>9, WalkMoves
<1>2. ASSUME NEW g \in Gens, Save(g) PROVE CapCheck!Next
  <2> DEFINE d == task[g].draft
  <2>1. /\ text' = text /\ \A h \in Gens : h # g => task'[h] = task[h]
        /\ task'[g].at = "idle" /\ task[g].at = "save" /\ d \in Drafts
    BY <1>2, SaveMoves
  <2>2. PastCap' = PastCap \ {g}
    BY <2>1 DEF PastCap, Siblings, Stem
  <2> HIDE DEF d
  <2>4. Family' \subseteq Family \union {d}
    BY <1>2, SaveMoves DEF d
  <2>5. CASE d \in Siblings(Watched)
    <3>1. IsFiniteSet(Family' \ Family) /\ Cardinality(Family' \ Family) <= 1
      BY <2>4, OneMore
    <3>2. g \in PastCap
      BY <2>1, <2>5 DEF PastCap, d
    <3>3. CapCheck!Enter(g)
      BY <2>2, <3>1, <3>2, SameFiniteSets DEF CapCheck!Enter
    <3> QED BY <3>3 DEF CapCheck!Next
  <2>6. CASE d \notin Siblings(Watched)
    <3>1. d \notin Family'
      BY <2>1, <2>6 DEF Family, OnBoard, Siblings, Stem
    <3> QED BY <2>2, <2>4, <3>1, CapShrinks
  <2> QED BY <2>5, <2>6
<1>3. ASSUME NEW d \in Drafts, Operate(d) PROVE CapCheck!Next
  <2>1. task' = task /\ text' = text
    BY <1>3 DEF Operate, Others, Reject, Archive, Restore, Rescore, Delete
  <2>2. PastCap' = PastCap
    BY <2>1 DEF PastCap, Siblings, Stem
  <2> QED BY <1>3, <2>2, OperateRemoves, CapShrinks
<1>4. CASE Reload
  <2>1. PastCap' = {} /\ Table
    BY <1>4 DEF Reload, PastCap, Idle
  <2> QED BY <2>1, TableKeeps, CapShrinks
<1>5. CASE UNCHANGED vars
  BY <1>5 DEF vars, CapCheck!vars, Family, PastCap, OnBoard, Siblings, Stem, Active
<1> QED BY <1>1, <1>2, <1>3, <1>4, <1>5 DEF Next, Generate, Walk

LEMMA CopyStep == IInv /\ [Next]_vars => [CopyCheck!Next]_CopyCheck!vars
<1> SUFFICES ASSUME IInv, [Next]_vars PROVE CopyCheck!Next \/ UNCHANGED CopyCheck!vars
  OBVIOUS
<1>1. ASSUME NEW g \in Gens, Walk(g) PROVE CopyCheck!Next
  <2>1. Twins' = Twins /\ AreCopies' = AreCopies
    BY <1>1, WalkMoves, TableKeeps
  <2>2. ASSUME g \in PastRead' => g \in PastRead PROVE CopyCheck!Next
    <3>1. PastRead' \subseteq PastRead
      BY <1>1, <2>1, <2>2, WalkMoves DEF PastRead
    <3> QED BY <2>1, <3>1, CopiesShrink
  <2>3. CASE task'[g].at \in {"idle", "hash", "filter", "super", "cap", "read"}
    BY <2>2, <2>3 DEF PastRead
  <2>4. CASE CheckSuper(g) /\ task'[g].draft = task[g].draft
    <3>1. AreCopies => task[g].draft \notin Alike
      BY <2>4 DEF CheckSuper, Check, IInv, OnPath, AreCopies
    <3> QED BY <2>1, <2>2, <2>4, <3>1 DEF PastRead
  <2>5. CASE ReadCategory(g)
    <3>1. /\ task[g].draft \in Drafts /\ task'[g].draft = task[g].draft
          /\ task'[g].todo = Comparable(task[g].draft)
      BY <2>5 DEF ReadCategory, Turn, IInv, TypeOK, Tasks, Drafting
    <3>2. CASE g \in PastRead'
      <4>1. AreCopies /\ task[g].draft \in Alike /\ Comparable(task[g].draft) \cap Alike = {}
        BY <2>1, <3>1, <3>2 DEF PastRead
      <4>2. Twins = {}
        <5> SUFFICES ASSUME NEW e \in Twins PROVE FALSE
          OBVIOUS
        <5>1. e \in Alike /\ e \in Drafts /\ row[e] \in {"active", "archived"}
          BY <4>1, SizesAssumption DEF Twins, Kept
        <5>2. row[task[g].draft] = "none"
          BY <2>5 DEF ReadCategory, IInv, Drafting
        <5>3. /\ Same("hard", task[g].draft, e)
              /\ Stem(task[g].draft) # None => Stem(e) # Stem(task[g].draft)
          BY <4>1, <5>1, <5>2 DEF AreCopies
        <5>4. e \in Comparable(task[g].draft)
          BY <5>1, <5>3 DEF Comparable
        <5> QED BY <4>1, <5>1, <5>4
      <4>3. CopyCheck!Cardinality(Twins) < 1
        BY <4>2, FS_EmptySet, SameFiniteSets
      <4>4. PastRead' = PastRead \union {g}
        BY <1>1, <2>1, <3>2, WalkMoves DEF PastRead
      <4>5. CopyCheck!Clear(g)
        BY <2>1, <4>3, <4>4 DEF CopyCheck!Clear
      <4> QED BY <4>5 DEF CopyCheck!Next
    <3> QED BY <2>2, <3>2
  <2>6. ASSUME NEW e \in task[g].todo, ~Same("hard", task[g].draft, e),
               Turn(g, "compare", task[g].todo \ {e}), task[g].at = "compare"
        PROVE CopyCheck!Next
    <3>1. task'[g].draft = task[g].draft /\ task'[g].todo = task[g].todo \ {e}
      BY <2>6 DEF Turn, IInv, TypeOK
    <3>2. AreCopies /\ task[g].draft \in Alike => e \notin Alike
      BY <2>6 DEF AreCopies, IInv, OnPath
    <3> QED BY <2>1, <2>2, <2>6, <3>1, <3>2 DEF PastRead
  <2>7. CASE \/ Turn(g, "cross", task[g].todo) /\ task[g].at = "compare"
             \/ Turn(g, "save", task[g].todo) /\ task[g].at = "cross"
    BY <2>1, <2>2, <2>7 DEF Turn, PastRead, IInv, TypeOK
  <2>8. CASE CheckCap(g) /\ task'[g].at = "read"
    BY <2>3, <2>8
  <2> QED BY <1>1, <2>3, <2>4, <2>5, <2>6, <2>7, <2>8, WalkMoves
<1>2. ASSUME NEW g \in Gens, Save(g) PROVE CopyCheck!Next
  <2> DEFINE d == task[g].draft
  <2>1. /\ text' = text /\ \A h \in Gens : h # g => task'[h] = task[h]
        /\ task'[g].at = "idle" /\ task[g].at = "save" /\ d \in Drafts
        /\ task[g].todo = {} /\ Twins' \subseteq Twins \union {d}
    BY <1>2, SaveMoves
  <2>2. AreCopies' = AreCopies
    BY <2>1 DEF AreCopies, Same, Stem
  <2>3. PastRead' = PastRead \ {g}
    BY <2>1, <2>2 DEF PastRead
  <2> HIDE DEF d
  <2>4. CASE AreCopies /\ d \in Alike
    <3>1. CopyCheck!IsFiniteSet(Twins' \ Twins) /\ CopyCheck!Cardinality(Twins' \ Twins) <= 1
      <4> DEFINE new == Twins' \ Twins
      <4>1. IsFiniteSet(new) /\ Cardinality(new) <= 1
        BY <2>1, OneMore
      <4> HIDE DEF new
      <4>2. CopyCheck!IsFiniteSet(new) /\ CopyCheck!Cardinality(new) <= 1
        BY <4>1, SameFiniteSets
      <4> QED BY <4>2 DEF new
    <3>2. g \in PastRead
      BY <2>1, <2>4 DEF PastRead, d
    <3>3. CopyCheck!Enter(g)
      BY <2>3, <3>1, <3>2 DEF CopyCheck!Enter
    <3> QED BY <3>3 DEF CopyCheck!Next
  <2>5. CASE ~(AreCopies /\ d \in Alike)
    <3>1. d \notin Twins'
      BY <2>2, <2>5 DEF Twins, Kept
    <3> QED BY <2>1, <2>3, <3>1, CopiesShrink
  <2> QED BY <2>4, <2>5
<1>3. ASSUME NEW d \in Drafts, Operate(d) PROVE CopyCheck!Next
  <2>1. task' = task /\ text' = text
    BY <1>3 DEF Operate, Others, Reject, Archive, Restore, Rescore, Delete
  <2>2. PastRead' = PastRead
    BY <2>1 DEF PastRead, AreCopies, Same, Stem
  <2> QED BY <1>3, <2>2, OperateRemoves, CopiesShrink
<1>4. CASE Reload
  <2>1. PastRead' = {} /\ Table
    BY <1>4 DEF Reload, PastRead, Idle
  <2> QED BY <2>1, TableKeeps, CopiesShrink
<1>5. CASE UNCHANGED vars
  BY <1>5 DEF vars, CopyCheck!vars, Twins, PastRead, Kept, AreCopies, Same, Stem
<1> QED BY <1>1, <1>2, <1>3, <1>4, <1>5 DEF Next, Generate, Walk

LEMMA SuperStep == IInv /\ [Next]_vars => [SuperCheck!Next]_SuperCheck!vars
<1> SUFFICES ASSUME IInv, [Next]_vars PROVE SuperCheck!Next \/ UNCHANGED SuperCheck!vars
  OBVIOUS
<1>1. ASSUME NEW g \in Gens, Walk(g) PROVE SuperCheck!Next
  <2>1. Supers' = Supers /\ AreKinSupers' = AreKinSupers
    BY <1>1, WalkMoves, TableKeeps
  <2>2. ASSUME g \in PastSuper' => g \in PastSuper PROVE SuperCheck!Next
    <3>1. PastSuper' \subseteq PastSuper
      BY <1>1, <2>1, <2>2, WalkMoves DEF PastSuper
    <3> QED BY <2>1, <3>1, SupersShrink
  <2>3. CASE task'[g].at # "save"
    BY <2>2, <2>3 DEF PastSuper
  <2>4. CASE CheckSuper(g) /\ task'[g].at = "save" /\ task'[g].draft = task[g].draft
    <3>1. CASE AreKinSupers /\ task[g].draft \in Alike
      <4>1. Supers = {}
        <5> SUFFICES ASSUME NEW e \in Supers PROVE FALSE
          OBVIOUS
        <5>1. e \in Alike /\ Active(e)
          BY <3>1 DEF Supers, OnBoard
        <5>2. row[task[g].draft] = "none" /\ task[g].draft \in Drafts
          BY <2>4 DEF CheckSuper, Check, IInv, TypeOK, Tasks, Drafting
        <5>3. e \in text.supers /\ Same("kin", task[g].draft, e)
          BY <3>1, <5>1, <5>2 DEF AreKinSupers, Active
        <5>4. task'[g].at = "filter"
          BY <2>4, <5>1, <5>3 DEF CheckSuper, Check, Goto, Turn, IInv, TypeOK
        <5> QED BY <2>4, <5>4
      <4>2. SuperCheck!Cardinality(Supers) < 1
        BY <4>1, FS_EmptySet, SameFiniteSets
      <4>3. PastSuper' = PastSuper \union {g}
        BY <1>1, <2>1, <2>4, <3>1, WalkMoves DEF PastSuper
      <4>4. SuperCheck!Clear(g)
        BY <2>1, <4>2, <4>3 DEF SuperCheck!Clear
      <4> QED BY <4>4 DEF SuperCheck!Next
    <3>2. CASE ~(AreKinSupers /\ task[g].draft \in Alike)
      BY <2>1, <2>2, <2>4, <3>2 DEF PastSuper
    <3> QED BY <3>1, <3>2
  <2>5. CASE Turn(g, "save", task[g].todo) /\ task[g].at = "cross"
    <3>1. task'[g].draft = task[g].draft
      BY <2>5 DEF Turn, IInv, TypeOK
    <3>2. ~(AreKinSupers /\ task[g].draft \in Alike)
      BY <2>5 DEF AreKinSupers, IInv, OnPath
    <3> QED BY <2>1, <2>2, <3>1, <3>2 DEF PastSuper
  <2>6. ASSUME NEW T, Turn(g, "compare", T) \/ Turn(g, "cross", T) PROVE task'[g].at # "save"
    BY <2>6 DEF Turn, IInv, TypeOK
  <2>7. ReadCategory(g) => task'[g].at # "save"
    BY DEF ReadCategory, Turn, IInv, TypeOK
  <2> QED BY <1>1, <2>3, <2>4, <2>5, <2>6, <2>7, WalkMoves
<1>2. ASSUME NEW g \in Gens, Save(g) PROVE SuperCheck!Next
  <2> DEFINE d == task[g].draft
  <2>1. /\ text' = text /\ \A h \in Gens : h # g => task'[h] = task[h]
        /\ task'[g].at = "idle" /\ task[g].at = "save" /\ d \in Drafts
        /\ Supers' \subseteq Supers \union {d}
    BY <1>2, SaveMoves
  <2>2. AreKinSupers' = AreKinSupers
    BY <2>1 DEF AreKinSupers, Same
  <2>3. PastSuper' = PastSuper \ {g}
    BY <2>1, <2>2 DEF PastSuper
  <2> HIDE DEF d
  <2>4. CASE AreKinSupers /\ d \in Alike
    <3>1. SuperCheck!IsFiniteSet(Supers' \ Supers) /\ SuperCheck!Cardinality(Supers' \ Supers) <= 1
      <4> DEFINE new == Supers' \ Supers
      <4>1. IsFiniteSet(new) /\ Cardinality(new) <= 1
        BY <2>1, OneMore
      <4> HIDE DEF new
      <4>2. SuperCheck!IsFiniteSet(new) /\ SuperCheck!Cardinality(new) <= 1
        BY <4>1, SameFiniteSets
      <4> QED BY <4>2 DEF new
    <3>2. g \in PastSuper
      BY <2>1, <2>4 DEF PastSuper, d
    <3>3. SuperCheck!Enter(g)
      BY <2>3, <3>1, <3>2 DEF SuperCheck!Enter
    <3> QED BY <3>3 DEF SuperCheck!Next
  <2>5. CASE ~(AreKinSupers /\ d \in Alike)
    <3>1. d \notin Supers'
      BY <2>2, <2>5 DEF Supers, OnBoard
    <3> QED BY <2>1, <2>3, <3>1, SupersShrink
  <2> QED BY <2>4, <2>5
<1>3. ASSUME NEW d \in Drafts, Operate(d) PROVE SuperCheck!Next
  <2>1. task' = task /\ text' = text
    BY <1>3 DEF Operate, Others, Reject, Archive, Restore, Rescore, Delete
  <2>2. PastSuper' = PastSuper
    BY <2>1 DEF PastSuper, AreKinSupers, Same
  <2> QED BY <1>3, <2>2, OperateRemoves, SupersShrink
<1>4. CASE Reload
  <2>1. PastSuper' = {} /\ Table
    BY <1>4 DEF Reload, PastSuper, Idle
  <2> QED BY <2>1, TableKeeps, SupersShrink
<1>5. CASE UNCHANGED vars
  BY <1>5 DEF vars, SuperCheck!vars, Supers, PastSuper, OnBoard, Active, AreKinSupers, Same
<1> QED BY <1>1, <1>2, <1>3, <1>4, <1>5 DEF Next, Generate, Walk

-----------------------------------------------------------------------------
(* At the start nobody is stored or cleared.                                  *)
LEMMA InitNobody ==
    ASSUME Init
    PROVE  /\ Family = {} /\ PastCap = {} /\ Twins = {} /\ PastRead = {}
           /\ Supers = {} /\ PastSuper = {}
<1>1. /\ \A d \in Drafts : row[d] = "none"
      /\ \A g \in Gens : task[g].at = "idle"
  BY DEF Init, Idle
<1> QED BY <1>1, SizesAssumption
        DEF Family, PastCap, Twins, PastRead, Supers, PastSuper, OnBoard, Kept, Active, Siblings

(* Every variable stays in its range.                                         *)
THEOREM TypeCorrect == Spec => []TypeOK
<1>1. IInv => TypeOK BY DEF IInv
<1> QED BY <1>1, InitEstablishes, StepKeeps, PTL DEF Spec

(* The vertical cap is a check-then-enter gate with VerticalCap places, for   *)
(* any number of generators, drafts and whatever happens to the rows.         *)
THEOREM CapImplementsAdmission == Spec => CapIsAdmission
<1>1. Init => CapCheck!Init
  BY InitNobody DEF CapCheck!Init
<1> QED BY <1>1, CapStep, InitEstablishes, StepKeeps, PTL DEF Spec, CapIsAdmission, CapCheck!Spec

(* The similarity check and the check of supers are gates with one place.     *)
THEOREM CopiesImplementAdmission == Spec => CopiesAreAdmitted
<1>1. Init => CopyCheck!Init /\ SuperCheck!Init
  BY InitNobody DEF CopyCheck!Init, SuperCheck!Init
<1> QED BY <1>1, CopyStep, SuperStep, InitEstablishes, StepKeeps, PTL
        DEF Spec, CopiesAreAdmitted, CopyCheck!Spec, SuperCheck!Spec

-----------------------------------------------------------------------------
(* What such a gate promises, for any agents and limit.                       *)
Within(A, L, m, c) ==
    /\ IsFiniteSet(m) /\ c \subseteq A
    /\ Cardinality(m) + Cardinality(c) < L + Cardinality(A)

LEMMA WithinCounts ==
    ASSUME NEW A, IsFiniteSet(A), NEW L \in Nat, NEW m, NEW c, Within(A, L, m, c)
    PROVE  /\ IsFiniteSet(c) /\ Cardinality(m) \in Nat /\ Cardinality(c) \in Nat
           /\ Cardinality(A) \in Nat
BY FS_Subset, FS_CardinalityType DEF Within

(* Who is cleared saw room: at that moment the members are below the limit,   *)
(* and the clearances are at most the agents.                                 *)
LEMMA ClearWithin ==
    ASSUME NEW A, IsFiniteSet(A), NEW L \in Nat, NEW m, NEW c, Within(A, L, m, c),
           NEW a \in A, Cardinality(m) < L
    PROVE  Within(A, L, m, c \union {a})
<1>1. c \union {a} \subseteq A BY DEF Within
<1>2. /\ Cardinality(c \union {a}) \in Nat
      /\ Cardinality(c \union {a}) <= Cardinality(A)
  BY <1>1, FS_Subset, FS_CardinalityType
<1> QED BY <1>1, <1>2, WithinCounts DEF Within

(* Entering turns a clearance into a member.                                  *)
LEMMA EnterWithin ==
    ASSUME NEW A, IsFiniteSet(A), NEW L \in Nat, NEW m, NEW c, Within(A, L, m, c),
           NEW a \in c, NEW m2, IsFiniteSet(m2 \ m), Cardinality(m2 \ m) <= 1
    PROVE  Within(A, L, m2, c \ {a})
<1> DEFINE new == m2 \ m
<1>0. /\ IsFiniteSet(c) /\ Cardinality(m) \in Nat /\ Cardinality(c) \in Nat
      /\ Cardinality(A) \in Nat
  BY WithinCounts
<1>1. Cardinality(c \ {a}) = Cardinality(c) - 1
  BY <1>0, FS_RemoveElement
<1>2. Cardinality(new) \in Nat
  BY FS_CardinalityType
<1>3. /\ IsFiniteSet(m \union new)
      /\ Cardinality(m \union new) <= Cardinality(m) + 1
  <2>1. Cardinality(m \cap new) = 0
    <3>1. m \cap new = {} OBVIOUS
    <3> QED BY <3>1, FS_EmptySet
  <2>2. Cardinality(m \union new) = Cardinality(m) + Cardinality(new) - Cardinality(m \cap new)
    BY FS_Union DEF Within
  <2>3. IsFiniteSet(m \union new) BY FS_Union DEF Within
  <2> HIDE DEF new
  <2>4. Cardinality(new) <= 1 BY DEF new
  <2> QED BY <1>0, <1>2, <2>1, <2>2, <2>3, <2>4
<1>4. /\ IsFiniteSet(m2) /\ Cardinality(m2) \in Nat
      /\ Cardinality(m2) <= Cardinality(m) + 1
  <2>1. m2 \subseteq m \union new OBVIOUS
  <2> HIDE DEF new
  <2>2. /\ IsFiniteSet(m2) /\ Cardinality(m2) <= Cardinality(m \union new)
        /\ Cardinality(m2) \in Nat /\ Cardinality(m \union new) \in Nat
    BY <1>3, <2>1, FS_Subset, FS_CardinalityType
  <2> QED BY <1>0, <1>3, <2>2
<1>5. c \ {a} \subseteq A BY DEF Within
<1>6. Cardinality(m2) + Cardinality(c \ {a}) < L + Cardinality(A)
  BY <1>0, <1>1, <1>4 DEF Within
<1> QED BY <1>4, <1>5, <1>6 DEF Within

LEMMA LeaveWithin ==
    ASSUME NEW A, IsFiniteSet(A), NEW L \in Nat, NEW m, NEW c, Within(A, L, m, c),
           NEW m2 \in SUBSET m, NEW c2 \in SUBSET c
    PROVE  Within(A, L, m2, c2)
<1>0. /\ IsFiniteSet(c) /\ Cardinality(m) \in Nat /\ Cardinality(c) \in Nat
      /\ Cardinality(A) \in Nat
  BY WithinCounts
<1>1. /\ IsFiniteSet(m2) /\ Cardinality(m2) <= Cardinality(m)
      /\ Cardinality(c2) <= Cardinality(c)
  BY <1>0, FS_Subset DEF Within
<1>2. Cardinality(m2) \in Nat /\ Cardinality(c2) \in Nat
  BY <1>0, <1>1, FS_Subset, FS_CardinalityType
<1> QED BY <1>0, <1>1, <1>2 DEF Within

(* The three gates keep it, so a generator that is alone never exceeds one.   *)
LEMMA CapOvershoot == CapCheck!Spec => []CapCheck!IInv
<1> DEFINE limit == VerticalCap
           I == Within(Gens, limit, Family, PastCap)
<1>1. CapCheck!IInv <=> I
  BY SameFiniteSets DEF CapCheck!IInv, CapCheck!Bounded, Within
<1>2. (CapCheck!IInv)' <=> I'
  BY SameFiniteSets DEF CapCheck!IInv, CapCheck!Bounded, Within
<1>3. IsFiniteSet(Gens) /\ limit \in Nat
  BY SizesAssumption
<1>4. CapCheck!Init => I
  <2>1. Cardinality(Gens) \in Nat /\ Cardinality(Gens) # 0
    BY SizesAssumption, FS_CardinalityType, FS_EmptySet
  <2> QED BY <2>1, SizesAssumption, FS_EmptySet DEF CapCheck!Init, Within
<1>5. I /\ [CapCheck!Next]_CapCheck!vars => I'
  <2> SUFFICES ASSUME I, [CapCheck!Next]_CapCheck!vars PROVE I'
    OBVIOUS
  <2>1. ASSUME NEW a \in Gens, CapCheck!Clear(a) PROVE I'
    <3>1. Cardinality(Family) < limit /\ PastCap' = PastCap \union {a} /\ Family' = Family
      BY <2>1, SameFiniteSets DEF CapCheck!Clear
    <3>2. Within(Gens, limit, Family, PastCap \union {a})
      <4> HIDE DEF limit
      <4> QED BY <1>3, <3>1, ClearWithin
    <3> QED BY <3>1, <3>2
  <2>2. ASSUME NEW a \in Gens, CapCheck!Enter(a) PROVE I'
    <3>1. /\ a \in PastCap /\ PastCap' = PastCap \ {a}
          /\ IsFiniteSet(Family' \ Family) /\ Cardinality(Family' \ Family) <= 1
      BY <2>2, SameFiniteSets DEF CapCheck!Enter
    <3>2. Within(Gens, limit, Family', PastCap \ {a})
      <4> HIDE DEF limit
      <4> QED BY <1>3, <3>1, EnterWithin
    <3> QED BY <3>1, <3>2
  <2>3. ASSUME PastCap' \in SUBSET PastCap, Family' \in SUBSET Family PROVE I'
    <3> HIDE DEF limit
    <3> QED BY <1>3, <2>3, LeaveWithin
  <2>4. ASSUME NEW A \in SUBSET Gens, CapCheck!Withdraw(A) PROVE I'
    BY <2>3, <2>4 DEF CapCheck!Withdraw
  <2>5. CASE UNCHANGED CapCheck!vars
    BY <2>3, <2>5 DEF CapCheck!vars
  <2> QED BY <2>1, <2>2, <2>4, <2>5 DEF CapCheck!Next
<1> QED BY <1>1, <1>2, <1>4, <1>5, PTL DEF CapCheck!Spec

LEMMA CopyOvershoot == CopyCheck!Spec => []CopyCheck!IInv
<1> DEFINE limit == 1
           I == Within(Gens, limit, Twins, PastRead)
<1>1. CopyCheck!IInv <=> I
  BY SameFiniteSets DEF CopyCheck!IInv, CopyCheck!Bounded, Within
<1>2. (CopyCheck!IInv)' <=> I'
  BY SameFiniteSets DEF CopyCheck!IInv, CopyCheck!Bounded, Within
<1>3. IsFiniteSet(Gens) /\ limit \in Nat
  BY SizesAssumption
<1>4. CopyCheck!Init => I
  <2>1. Cardinality(Gens) \in Nat /\ Cardinality(Gens) # 0
    BY SizesAssumption, FS_CardinalityType, FS_EmptySet
  <2> QED BY <2>1, SizesAssumption, FS_EmptySet DEF CopyCheck!Init, Within
<1>5. I /\ [CopyCheck!Next]_CopyCheck!vars => I'
  <2> SUFFICES ASSUME I, [CopyCheck!Next]_CopyCheck!vars PROVE I'
    OBVIOUS
  <2>1. ASSUME NEW a \in Gens, CopyCheck!Clear(a) PROVE I'
    <3>1. Cardinality(Twins) < limit /\ PastRead' = PastRead \union {a} /\ Twins' = Twins
      BY <2>1, SameFiniteSets DEF CopyCheck!Clear
    <3>2. Within(Gens, limit, Twins, PastRead \union {a})
      <4> HIDE DEF limit
      <4> QED BY <1>3, <3>1, ClearWithin
    <3> QED BY <3>1, <3>2
  <2>2. ASSUME NEW a \in Gens, CopyCheck!Enter(a) PROVE I'
    <3>1. /\ a \in PastRead /\ PastRead' = PastRead \ {a}
          /\ IsFiniteSet(Twins' \ Twins) /\ Cardinality(Twins' \ Twins) <= 1
      BY <2>2, SameFiniteSets DEF CopyCheck!Enter
    <3>2. Within(Gens, limit, Twins', PastRead \ {a})
      <4> HIDE DEF limit
      <4> QED BY <1>3, <3>1, EnterWithin
    <3> QED BY <3>1, <3>2
  <2>3. ASSUME PastRead' \in SUBSET PastRead, Twins' \in SUBSET Twins PROVE I'
    <3> HIDE DEF limit
    <3> QED BY <1>3, <2>3, LeaveWithin
  <2>4. ASSUME NEW A \in SUBSET Gens, CopyCheck!Withdraw(A) PROVE I'
    BY <2>3, <2>4 DEF CopyCheck!Withdraw
  <2>5. CASE UNCHANGED CopyCheck!vars
    BY <2>3, <2>5 DEF CopyCheck!vars
  <2> QED BY <2>1, <2>2, <2>4, <2>5 DEF CopyCheck!Next
<1> QED BY <1>1, <1>2, <1>4, <1>5, PTL DEF CopyCheck!Spec

LEMMA SuperOvershoot == SuperCheck!Spec => []SuperCheck!IInv
<1> DEFINE limit == 1
           I == Within(Gens, limit, Supers, PastSuper)
<1>1. SuperCheck!IInv <=> I
  BY SameFiniteSets DEF SuperCheck!IInv, SuperCheck!Bounded, Within
<1>2. (SuperCheck!IInv)' <=> I'
  BY SameFiniteSets DEF SuperCheck!IInv, SuperCheck!Bounded, Within
<1>3. IsFiniteSet(Gens) /\ limit \in Nat
  BY SizesAssumption
<1>4. SuperCheck!Init => I
  <2>1. Cardinality(Gens) \in Nat /\ Cardinality(Gens) # 0
    BY SizesAssumption, FS_CardinalityType, FS_EmptySet
  <2> QED BY <2>1, SizesAssumption, FS_EmptySet DEF SuperCheck!Init, Within
<1>5. I /\ [SuperCheck!Next]_SuperCheck!vars => I'
  <2> SUFFICES ASSUME I, [SuperCheck!Next]_SuperCheck!vars PROVE I'
    OBVIOUS
  <2>1. ASSUME NEW a \in Gens, SuperCheck!Clear(a) PROVE I'
    <3>1. Cardinality(Supers) < limit /\ PastSuper' = PastSuper \union {a} /\ Supers' = Supers
      BY <2>1, SameFiniteSets DEF SuperCheck!Clear
    <3>2. Within(Gens, limit, Supers, PastSuper \union {a})
      <4> HIDE DEF limit
      <4> QED BY <1>3, <3>1, ClearWithin
    <3> QED BY <3>1, <3>2
  <2>2. ASSUME NEW a \in Gens, SuperCheck!Enter(a) PROVE I'
    <3>1. /\ a \in PastSuper /\ PastSuper' = PastSuper \ {a}
          /\ IsFiniteSet(Supers' \ Supers) /\ Cardinality(Supers' \ Supers) <= 1
      BY <2>2, SameFiniteSets DEF SuperCheck!Enter
    <3>2. Within(Gens, limit, Supers', PastSuper \ {a})
      <4> HIDE DEF limit
      <4> QED BY <1>3, <3>1, EnterWithin
    <3> QED BY <3>1, <3>2
  <2>3. ASSUME PastSuper' \in SUBSET PastSuper, Supers' \in SUBSET Supers PROVE I'
    <3> HIDE DEF limit
    <3> QED BY <1>3, <2>3, LeaveWithin
  <2>4. ASSUME NEW A \in SUBSET Gens, SuperCheck!Withdraw(A) PROVE I'
    BY <2>3, <2>4 DEF SuperCheck!Withdraw
  <2>5. CASE UNCHANGED SuperCheck!vars
    BY <2>3, <2>5 DEF SuperCheck!vars
  <2> QED BY <2>1, <2>2, <2>4, <2>5 DEF SuperCheck!Next
<1> QED BY <1>1, <1>2, <1>4, <1>5, PTL DEF SuperCheck!Spec

(* A gate that is checked before it is entered, with no lock between, exceeds *)
(* its limit by less than the number of its agents.                           *)
THEOREM OvershootBounded ==
    /\ CapIsAdmission => []CapCheck!Bounded
    /\ CopiesAreAdmitted => []CopyCheck!Bounded /\ []SuperCheck!Bounded
<1>1. /\ CapCheck!IInv => CapCheck!Bounded
      /\ CopyCheck!IInv => CopyCheck!Bounded
      /\ SuperCheck!IInv => SuperCheck!Bounded
  BY DEF CapCheck!IInv, CopyCheck!IInv, SuperCheck!IInv
<1> QED BY <1>1, CapOvershoot, CopyOvershoot, SuperOvershoot, PTL
        DEF CapIsAdmission, CopiesAreAdmitted

(* The vertical cap is exceeded by less than the number of generators.        *)
THEOREM FamilyNeverOverruns == Spec => []FamilyBounded
<1>1. CapCheck!IInv => FamilyBounded
  <2> SUFFICES ASSUME CapCheck!IInv PROVE FamilyBounded
    OBVIOUS
  <2>1. /\ IsFiniteSet(Family) /\ PastCap \subseteq Gens
        /\ Cardinality(Family) + Cardinality(PastCap) < VerticalCap + Cardinality(Gens)
    BY SameFiniteSets DEF CapCheck!IInv, CapCheck!Bounded
  <2>2. Cardinality(PastCap) \in Nat /\ Cardinality(Family) \in Nat /\ Cardinality(Gens) \in Nat
    BY <2>1, SizesAssumption, FS_Subset, FS_CardinalityType
  <2> QED BY <2>1, <2>2, SizesAssumption DEF FamilyBounded
<1> QED BY <1>1, CapOvershoot, CapImplementsAdmission, PTL DEF CapIsAdmission

(* No more copies, and no more supers of one base, than generators.           *)
THEOREM CopiesNeverOutnumber == Spec => []CopiesBounded
<1>1. CopyCheck!IInv => Cardinality(Twins) <= Cardinality(Gens)
  <2> SUFFICES ASSUME CopyCheck!IInv PROVE Cardinality(Twins) <= Cardinality(Gens)
    OBVIOUS
  <2>1. /\ IsFiniteSet(Twins) /\ PastRead \subseteq Gens
        /\ Cardinality(Twins) + Cardinality(PastRead) < 1 + Cardinality(Gens)
    BY SameFiniteSets DEF CopyCheck!IInv, CopyCheck!Bounded
  <2>2. Cardinality(PastRead) \in Nat /\ Cardinality(Twins) \in Nat /\ Cardinality(Gens) \in Nat
    BY <2>1, SizesAssumption, FS_Subset, FS_CardinalityType
  <2> QED BY <2>1, <2>2
<1>2. SuperCheck!IInv => Cardinality(Supers) <= Cardinality(Gens)
  <2> SUFFICES ASSUME SuperCheck!IInv PROVE Cardinality(Supers) <= Cardinality(Gens)
    OBVIOUS
  <2>1. /\ IsFiniteSet(Supers) /\ PastSuper \subseteq Gens
        /\ Cardinality(Supers) + Cardinality(PastSuper) < 1 + Cardinality(Gens)
    BY SameFiniteSets DEF SuperCheck!IInv, SuperCheck!Bounded
  <2>2. Cardinality(PastSuper) \in Nat /\ Cardinality(Supers) \in Nat /\ Cardinality(Gens) \in Nat
    BY <2>1, SizesAssumption, FS_Subset, FS_CardinalityType
  <2> QED BY <2>1, <2>2
<1>3. (Cardinality(Twins) <= Cardinality(Gens)) /\ (Cardinality(Supers) <= Cardinality(Gens))
        => CopiesBounded
  BY DEF CopiesBounded
<1> QED BY <1>1, <1>2, <1>3, CopyOvershoot, SuperOvershoot, CopiesImplementAdmission, PTL DEF CopiesAreAdmitted

(* A save deletes no row that was there when its generator began to check.    *)
THEOREM KnownRowsStay == Spec => NeverDisplacesKnown
<1>1. ASSUME IInv, NEW g \in Gens, NEW d \in Drafts, Save(g), row[d] # "none", row'[d] = "none"
      PROVE  d \in missed[g]
  <2>1. d \in hashed /\ Same("hash", task[g].draft, d)
    BY <1>1 DEF Save, IInv, TypeOK
  <2> QED BY <1>1, <2>1 DEF Save, IInv, HashSeen
<1>2. IInv /\ [Next]_vars
        => [\A g \in Gens, d \in Drafts :
              Save(g) /\ row[d] # "none" /\ row'[d] = "none" => d \in missed[g]]_vars
  BY <1>1
<1> QED BY <1>2, InitEstablishes, StepKeeps, PTL DEF Spec, NeverDisplacesKnown
=============================================================================
