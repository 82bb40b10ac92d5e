------------------------------ MODULE AutoScan ------------------------------
(***************************************************************************)
(* cron/auto_scan.py: the template scan, one idea after the other.  Which  *)
(* combinations were used is read once, and when none of fifty draws is    *)
(* new an old one is taken: any combination can come up.                   *)
(***************************************************************************)
EXTENDS Expansion

(* One idea of a scan; the next one begins where this one ends.            *)
ScanTuple(t) == RecordTuple(t, "idle", "scan_save")

(* review_idea and filter_and_save; a refused idea leaves no run, an       *)
(* admitted one and an exception do.                                       *)
ScanSave(t) ==
  \/ Admit(t, "scan_save", "scan_run")
  \/ \E to \in {"idle", "scan_run"} : Refuse(t, "scan_save", to)

(* save_run.                                                               *)
ScanRun(t) == Step(t, "scan_run", "idle")
=============================================================================
