------------------------------ MODULE DedupGate ------------------------------
(* engine/dedup.py: should_accept and filter_and_save, run by any number of   *)
(* generators at once. Each check is a query of its own and the save is       *)
(* another: between any two of them other generators, operators and cadences  *)
(* run. What the texts of the drafts have in common (text) is fixed.          *)
EXTENDS Naturals, FiniteSets

CONSTANTS
    Drafts,       \* ids of ideas generated
    Gens,         \* coroutines that generate: cadences and requests
    Stems, None,  \* concept stems of "X for <vertical>" names
    VerticalCap,  \* VERTICAL_CAP
    Texts,        \* what drafts may have in common
    Watched,      \* any stem
    Alike         \* any set of drafts

ASSUME SizesAssumption ==
    /\ IsFiniteSet(Gens) /\ Gens # {} /\ IsFiniteSet(Drafts) /\ Alike \subseteq Drafts
    /\ VerticalCap \in Nat \ {0} /\ None \notin Stems /\ None \notin Drafts /\ Watched \in Stems

VARIABLES
    text,        \* the relations among the drafts' texts
    row,         \* the draft's row in ideas: none, active, archived, rejected
    hashed,      \* drafts whose row has its content_hash
    task,        \* per generator: label, draft, rows still to compare
    readmitted,  \* history: from where a row came back without the gate
    missed       \* history: drafts saved since the generator began to check

vars == <<text, row, hashed, task, readmitted, missed>>

RowStates == {"none", "active", "archived", "rejected"}
Labels == {"idle", "hash", "super", "cap", "read", "compare", "cross", "filter", "save"}
Tasks == [at : Labels, draft : Drafts \union {None}, todo : SUBSET Drafts]
Idle == [at |-> "idle", draft |-> None, todo |-> {}]

TypeOK ==
    /\ text \in Texts
    /\ row \in [Drafts -> RowStates]
    /\ hashed \subseteq {d \in Drafts : row[d] # "none"}
    /\ task \in [Gens -> Tasks]
    /\ readmitted \in [Drafts -> {"no", "archive", "rejection"}]
    /\ missed \in [Gens -> SUBSET Drafts]

Init ==
    /\ text \in Texts
    /\ row = [d \in Drafts |-> "none"]
    /\ hashed = {}
    /\ task = [g \in Gens |-> Idle]
    /\ readmitted = [d \in Drafts |-> "no"]
    /\ missed = [g \in Gens |-> {}]

-----------------------------------------------------------------------------
(* The relations: supers of one base name or with shared atoms (kin), the     *)
(* stem of a vertical clone, drafts of one combination of seeds (hash), and   *)
(* the similarity of taglines and names: hard, or borderline around the       *)
(* threshold; and across categories (far).                                    *)
Same(rel, d, e) == {d, e} \in text[rel]
Stem(d) == text.stem[d]
Active(d) == row[d] = "active"

Table == UNCHANGED <<text, row, hashed, readmitted>>

(* A generator goes on to `next', or to the audit trail with its draft.       *)
Turn(g, label, todo) ==
    task' = [task EXCEPT ![g] = [at |-> label, draft |-> task[g].draft, todo |-> todo]]
Goto(g, label) == Turn(g, label, task[g].todo)
Check(g, at, duplicate, next) ==
    /\ task[g].at = at
    /\ Goto(g, IF duplicate THEN "filter" ELSE next)
    /\ Table /\ UNCHANGED missed

(* A generator has a draft nobody else has.                                   *)
Begin(g, d) ==
    /\ task[g] = Idle /\ row[d] = "none"
    /\ \A h \in Gens : task[h].draft # d
    /\ task' = [task EXCEPT ![g] = [at |-> "hash", draft |-> d, todo |-> {}]]
    /\ missed' = [missed EXCEPT ![g] = {}]
    /\ Table

CheckHashOnBoard(g) ==
    LET d == task[g].draft IN
    Check(g, "hash", \E e \in hashed : Active(e) /\ Same("hash", d, e),
          IF d \in text.supers THEN "super" ELSE IF Stem(d) # None THEN "cap" ELSE "read")

(* Check 1 looks at rows of any status, as long as they kept their hash.      *)
CheckHash(g) ==
    LET d == task[g].draft IN
    Check(g, "hash", \E e \in hashed : Same("hash", d, e),
          IF d \in text.supers THEN "super" ELSE IF Stem(d) # None THEN "cap" ELSE "read")

(* Check 2, for supers the last one.                                          *)
CheckSuper(g) ==
    Check(g, "super",
          \E e \in text.supers : Active(e) /\ Same("kin", task[g].draft, e), "save")

Siblings(s) == {d \in Drafts : Stem(d) = s /\ d \notin text.supers}
CheckCapLate(g) ==
    Check(g, "cap",
          Cardinality({e \in Siblings(Stem(task[g].draft)) : Active(e)}) > VerticalCap, "read")

(* Check 3: siblings are counted over the rows of the board only.             *)
CheckCap(g) ==
    Check(g, "cap",
          Cardinality({e \in Siblings(Stem(task[g].draft)) : Active(e)}) >= VerticalCap, "read")

ComparableOnBoard(d) ==
    {e \in Drafts : /\ Active(e)
                    /\ Same("hard", d, e) \/ Same("borderline", d, e)
                    /\ Stem(d) # None => Stem(e) # Stem(d)}

(* Check 4 reads the rows of the category, archived ones too, except the      *)
(* siblings that the cap answers for.                                         *)
Comparable(d) ==
    {e \in Drafts : /\ row[e] \notin {"none", "rejected"}
                    /\ Same("hard", d, e) \/ Same("borderline", d, e)
                    /\ Stem(d) # None => Stem(e) # Stem(d)}

ReadCategory(g) ==
    /\ task[g].at = "read"
    /\ Turn(g, "compare", Comparable(task[g].draft))
    /\ Table /\ UNCHANGED missed

(* One row after the other, from the copy read: a hard match is decisive; a   *)
(* borderline one asks the model, whose yes rejects, whose no goes on, and    *)
(* whose silence leaves it to the threshold.                                  *)
Compare(g, e) ==
    LET d == task[g].draft
        distinct == Turn(g, "compare", task[g].todo \ {e})
    IN /\ task[g].at = "compare" /\ e \in task[g].todo
       /\ IF Same("hard", d, e) THEN Goto(g, "filter") ELSE Goto(g, "filter") \/ distinct
       /\ Table /\ UNCHANGED missed

CompareDone(g) ==
    /\ task[g].todo = {}
    /\ Check(g, "compare", FALSE, "cross")

(* Check 5: the strict cross-category gate.                                   *)
CheckCross(g) ==
    Check(g, "cross",
          \E e \in Drafts : row[e] \notin {"none", "rejected"} /\ Same("far", task[g].draft, e), "save")

(* INSERT OR REPLACE under the unique index on content_hash: a row with the   *)
(* same hash goes.                                                            *)
Save(g) ==
    LET d == task[g].draft
        displaced == {e \in hashed : Same("hash", d, e)}
        copy == {f \in {d} : \E e \in Drafts : Same("hash", d, e)}
    IN /\ task[g].at = "save"
       /\ row' = [e \in Drafts |-> IF e = d THEN "active"
                                   ELSE IF e \in displaced THEN "none" ELSE row[e]]
       /\ hashed' = (hashed \ displaced) \union copy
       /\ readmitted' = [readmitted EXCEPT ![d] = "no"]
       /\ missed' = [h \in Gens |-> IF h = g THEN {} ELSE missed[h] \union {d}]
       /\ task' = [task EXCEPT ![g] = Idle]
       /\ UNCHANGED text

(* The audit trail takes the draft; or an exception, caught by the cycle,     *)
(* drops it.                                                                  *)
End(g) ==
    /\ task' = [task EXCEPT ![g] = Idle]
    /\ missed' = [missed EXCEPT ![g] = {}]
    /\ Table
Filter(g) == task[g].at = "filter" /\ End(g)
Abort(g) == task[g].at # "idle" /\ End(g)

-----------------------------------------------------------------------------
(* What else writes the rows.                                                 *)
Others == UNCHANGED <<text, task, missed>>

Reject(d) ==
    /\ row[d] \in {"active", "archived"}
    /\ row' = [row EXCEPT ![d] = "rejected"]
    /\ readmitted' = [readmitted EXCEPT ![d] = "no"]
    /\ Others /\ UNCHANGED hashed

(* Review and siphon, the former whatever the status is.                      *)
Archive(d) ==
    /\ row[d] \in {"active", "rejected"}
    /\ row' = [row EXCEPT ![d] = "archived"]
    /\ readmitted' = [readmitted EXCEPT ![d] =
           IF row[d] = "rejected" \/ @ = "rejection" THEN "rejection" ELSE "no"]
    /\ Others /\ UNCHANGED hashed

(* Undoing a siphon, or accepting what had been rejected, asks no gate.       *)
Restore(d) ==
    /\ row[d] \in {"archived", "rejected"}
    /\ row' = [row EXCEPT ![d] = "active"]
    /\ readmitted' = [readmitted EXCEPT ![d] =
           IF row[d] = "rejected" \/ @ = "rejection" THEN "rejection" ELSE "archive"]
    /\ Others /\ UNCHANGED hashed

(* A scorer saves the row as _row_to_idea built it, without the hash.         *)
Rescore(d) ==
    /\ d \in hashed
    /\ hashed' = hashed \ {d}
    /\ Others /\ UNCHANGED <<row, readmitted>>

(* An operator's delete.                                                      *)
Delete(d) ==
    /\ row[d] # "none"
    /\ row' = [row EXCEPT ![d] = "none"]
    /\ hashed' = hashed \ {d}
    /\ readmitted' = [readmitted EXCEPT ![d] = "no"]
    /\ Others

Reload ==
    /\ task' = [g \in Gens |-> Idle]
    /\ missed' = [g \in Gens |-> {}]
    /\ Table

Generate(g) ==
    \/ \E d \in Drafts : Begin(g, d) \/ Compare(g, d)
    \/ CheckHash(g) \/ CheckSuper(g) \/ CheckCap(g) \/ ReadCategory(g) \/ CompareDone(g)
    \/ CheckCross(g) \/ Save(g) \/ Filter(g) \/ Abort(g)
Operate(d) == Reject(d) \/ Archive(d) \/ Restore(d) \/ Rescore(d) \/ Delete(d)

Next == (\E g \in Gens : Generate(g)) \/ (\E d \in Drafts : Operate(d)) \/ Reload

Spec == Init /\ [][Next]_vars

-----------------------------------------------------------------------------
(* Alike: a set of drafts each of which check 4 rejects for any other, or     *)
(* supers that check 2 does.                                                  *)
AreCopies ==
    \A d, e \in Alike :
        /\ d \notin text.supers
        /\ d # e => Same("hard", d, e) /\ (Stem(d) # None => Stem(e) # Stem(d))
AreKinSupers == \A d, e \in Alike : d \in text.supers /\ (d # e => Same("kin", d, e))

OnBoard(K) == {d \in K : Active(d) /\ readmitted[d] = "no"}
Kept(K) == {d \in K : row[d] \in {"active", "archived"} /\ readmitted[d] # "rejection"}

(* A generator holds a clearance from the read that let it pass to its save.  *)
PastCap ==
    {g \in Gens : /\ task[g].draft \in Siblings(Watched)
                  /\ task[g].at \in {"read", "compare", "cross", "save"}}
PastRead ==
    {g \in Gens : /\ AreCopies /\ task[g].draft \in Alike
                  /\ task[g].at \in {"compare", "cross", "save"} /\ task[g].todo \cap Alike = {}}
PastSuper == {g \in Gens : AreKinSupers /\ task[g].draft \in Alike /\ task[g].at = "save"}

Family == OnBoard(Siblings(Watched))
Twins == IF AreCopies THEN Kept(Alike) ELSE {}
Supers == IF AreKinSupers THEN OnBoard(Alike) ELSE {}

CapCheck == INSTANCE Admission WITH
    Agents <- Gens, Limit <- VerticalCap, members <- Family, cleared <- PastCap
CopyCheck == INSTANCE Admission WITH
    Agents <- Gens, Limit <- 1, members <- Twins, cleared <- PastRead
SuperCheck == INSTANCE Admission WITH
    Agents <- Gens, Limit <- 1, members <- Supers, cleared <- PastSuper

(* The vertical cap is such a gate, whatever operators and other cadences do  *)
(* to the rows meanwhile.                                                     *)
CapIsAdmission == CapCheck!Spec

(* So are the similarity check and the check of supers, with room for one.    *)
CopiesAreAdmitted == CopyCheck!Spec /\ SuperCheck!Spec

(* The cap is exceeded by less than the number of generators: by none when    *)
(* one runs at a time. Siblings an operator or an undo put back do not count. *)
FamilyBounded == Cardinality(Family) < VerticalCap + Cardinality(Gens)

(* There are never more copies of an idea than generators: none when one runs *)
(* at a time.                                                                 *)
CopiesBounded == Cardinality(Twins) <= Cardinality(Gens) /\ Cardinality(Supers) <= Cardinality(Gens)

(* INSERT OR REPLACE under the unique index may delete another idea's row,    *)
(* promoted or not: but never one that was there when the generator checked.  *)
NeverDisplacesKnown ==
    [][\A g \in Gens, d \in Drafts :
          Save(g) /\ row[d] # "none" /\ row'[d] = "none" => d \in missed[g]]_vars
=============================================================================
