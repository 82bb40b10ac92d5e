----------------------------- MODULE Generators -----------------------------
(***************************************************************************)
(* The expansion of the server, the expansion of the timer and the         *)
(* template scan, next to each other.                                      *)
(***************************************************************************)
EXTENDS AutoScan, Restarts

generatorVars == <<task, expansionVars, settled>>

GeneratorsInit ==
  /\ task = [t \in Tasks |-> Idle]
  /\ ExpansionInit
  /\ settled = FALSE

(* An exception that nobody handles, a kill, a restart of the server.      *)
Dies(t) ==
  /\ ~settled
  /\ task[t] # Idle
  /\ Become(t, Idle)
  /\ UNCHANGED expansionVars

Goes(t) == Continue(t) \/ ScanSave(t) \/ ScanRun(t)
Expands == \E t \in Tasks, p \in Pairs : PickPair(t, p)
Scans == \E t \in Tasks : ScanTuple(t)

GeneratorsNext ==
  \/ /\ Expands \/ Scans \/ Curation \/ \E t \in Tasks : Goes(t) \/ Dies(t)
     /\ UNCHANGED settled
  \/ SettleDown /\ UNCHANGED <<task, expansionVars>>

GeneratorsSpec == GeneratorsInit /\ [][GeneratorsNext]_generatorVars

(* Calls have timeouts, the expansion is run again and again, and in the   *)
(* end it is not cut short each time.                                      *)
GeneratorsFairness ==
  /\ WF_generatorVars(SettleDown /\ UNCHANGED <<task, expansionVars>>)
  /\ \A t \in Tasks : WF_generatorVars(Goes(t) /\ UNCHANGED settled)
  /\ SF_generatorVars(Expands /\ UNCHANGED settled)

FairGenerators == GeneratorsSpec /\ GeneratorsFairness

-----------------------------------------------------------------------------
GeneratorLabels == {"idle", "tuple", "save", "record", "super", "name", "store",
           "stored", "spans", "fallback", "scan_save", "scan_run"}

Task == [at : GeneratorLabels, pair : Pairs \cup {Nil}, first : Pairs \cup {Nil},
         cluster : Clusters \cup {Nil}, spans : Seq(Pairs),
         tuple : Tuples \cup {Nil}]

GeneratorsTypeOK ==
  /\ task \in [Tasks -> Task]
  /\ \A t \in Tasks : task[t].first # Nil => task[t].pair # task[t].first
  /\ count \in [Pairs -> Nat] /\ taken \in [Pairs -> Nat]
  /\ super \in [Clusters -> {"none", "active", "archived"}]
  /\ used \subseteq Tuples /\ placed \subseteq Tuples
  /\ settled \in BOOLEAN

(* However many run the expansion at once, bridging ideas do not pile up   *)
(* on one pair of categories while another lies idle: none is ahead of any *)
(* other by more than the number of tasks.                                 *)
EvenCoverage ==
  \A p, q \in Pairs : taken[p] <= count[q] + Cardinality(Tasks)

(* Wherever a run is cut short: no combination of the templates has an     *)
(* idea on the board and counts as unused, to be drawn again.              *)
PlacedAreUsed == placed \subseteq used

(* Every pair of categories is explored again and again.                   *)
EveryPairExplored == \A p \in Pairs : []<><<Logs(p)>>_count
=============================================================================
