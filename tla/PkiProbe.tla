------------------------------ MODULE PkiProbe ------------------------------
(***************************************************************************)
(* The hourly PKI probe: list the gaps already probed, sweep the sources,  *)
(* pick the best new gap, generate one idea for it, review it, and leave a *)
(* row in pki_probes whatever came of it.  That row is both the watermark  *)
(* the schedule needs and the memory of which gaps have been worked.       *)
(*                                                                         *)
(* Left out: which idea came of the gap and where it is stored.            *)
(***************************************************************************)
EXTENDS CadenceLoop, Sequences

CONSTANTS
  Gaps,      \* gaps the sources can surface
  Linked,    \* those whose feed entry carries a URL
  Cited,     \* RFCs, CVEs, other trackers' URLs a draft may cite in its text
  Window,    \* how many of the newest rows list_pki_probes returns
  Nil

ASSUME GapsAssumption ==
  /\ Linked \subseteq Gaps
  /\ Nil \notin Gaps \cup Cited
  /\ Window \in Nat \ {0}

VARIABLES
  pc,       \* where the cycle stands
  log,      \* the newest rows of pki_probes, newest first, at most Window
  seen,     \* seen_urls
  gap,      \* the gap being worked
  anchor,   \* the anchor the row of this cycle will carry
  burn,     \* history: time since the last generation call, like age
  excused   \* history: that call's cycle died without leaving a row

cycleVars == <<pc, seen, gap, anchor>>
vars == <<loopVars, cycleVars, log, burn, excused>>

Anchors == Gaps \cup Cited \cup {Nil}
Rows == [gap : Gaps \cup {Nil}, anchor : Anchors]

(* A gap's URL stands for the gap itself.                                  *)
Url(g) == IF g \in Linked THEN g ELSE Nil

Called == {"generating", "review", "save", "record"}
Steps == {"list", "fetch", "generate"} \cup Called \cup {"crash"}

Init ==
  /\ LoopInit
  /\ pc = "sleep"
  /\ log = <<>>
  /\ seen = {}
  /\ gap = Nil
  /\ anchor = Nil
  /\ burn = Interval
  /\ excused = FALSE

-----------------------------------------------------------------------------
(* The newest rows after one more.                                         *)
Logged(r) ==
  LET all == <<r>> \o log IN
  IF Len(all) > Window THEN SubSeq(all, 1, Window) ELSE all

(* record_pki_probe.                                                       *)
Insert(r) == log' = Logged(r) /\ Stamp

(* The cycle returns to cadence_tick.                                      *)
Return ==
  /\ pc' = "sleep"
  /\ seen' = {}
  /\ gap' = Nil
  /\ anchor' = Nil
  /\ SleepAgain

Goto(label) == pc' = label

-----------------------------------------------------------------------------
(* Not overdue, or the query raised: nothing until the next pass.          *)
SkipTick ==
  /\ pc = "sleep"
  /\ nap = 0
  /\ SleepAgain
  /\ UNCHANGED <<age, cycleVars, log, burn, excused>>

FireTick ==
  /\ pc = "sleep"
  /\ nap = 0
  /\ Overdue
  /\ Goto("list")
  /\ UNCHANGED <<loopVars, seen, gap, anchor, log, burn, excused>>

ListProbes ==
  /\ pc = "list"
  /\ seen' = {log[k].anchor : k \in DOMAIN log} \ {Nil}
  /\ Goto("fetch")
  /\ UNCHANGED <<loopVars, gap, anchor, log, burn, excused>>

(* pick_top_gap, over whatever the sweep brought in: a gap is skipped when *)
(* its URL has been seen, so one without a URL never is.                   *)
PickGap(g) ==
  /\ pc = "fetch"
  /\ Url(g) \notin seen
  /\ gap' = g
  /\ Goto("generate")
  /\ UNCHANGED <<loopVars, seen, anchor, log, burn, excused>>

(* Mutant: a quiet hour leaves no row.                                     *)
NoNewGapUnlogged ==
  /\ pc = "fetch"
  /\ Return
  /\ UNCHANGED <<age, log, burn, excused>>

NoNewGap ==
  /\ pc = "fetch"
  /\ Goto("record")
  /\ UNCHANGED <<loopVars, seen, gap, anchor, log, burn, excused>>

(* The generation prompt is built from the database, then the model is     *)
(* called.                                                                 *)
CallModel ==
  /\ pc = "generate"
  /\ Goto("generating")
  /\ burn' = 0
  /\ excused' = FALSE
  /\ UNCHANGED <<loopVars, seen, gap, anchor, log>>

(* No parseable idea: the row carries the gap's own URL.                   *)
NoDraft ==
  /\ pc = "generating"
  /\ anchor' = Url(gap)
  /\ Goto("record")
  /\ UNCHANGED <<loopVars, seen, gap, log, burn, excused>>

(* idea.pki_anchor: what the draft cites, or else the gap's URL.           *)
Draft(a) ==
  /\ pc = "generating"
  /\ a \in Cited \cup {Url(gap)}
  /\ anchor' = a
  /\ Goto("review")
  /\ UNCHANGED <<loopVars, seen, gap, log, burn, excused>>

(* Mutant: a dropped draft is only logged to the text log.                 *)
DropUnlogged ==
  /\ pc = "review"
  /\ Return
  /\ UNCHANGED <<age, log, burn, excused>>

(* Prior art, the red-team panel or the gate drops it, and a draft without *)
(* an anchor never passes the gate.                                        *)
Drop ==
  /\ pc = "review"
  /\ Goto("record")
  /\ UNCHANGED <<loopVars, seen, gap, anchor, log, burn, excused>>

Survive ==
  /\ pc = "review"
  /\ anchor # Nil
  /\ Goto("save")
  /\ UNCHANGED <<loopVars, seen, gap, anchor, log, burn, excused>>

(* filter_and_save stores it or rejects it as a duplicate.                 *)
Save ==
  /\ pc = "save"
  /\ Goto("record")
  /\ UNCHANGED <<loopVars, seen, gap, anchor, log, burn, excused>>

Record ==
  /\ pc = "record"
  /\ Insert([gap |-> gap, anchor |-> anchor])
  /\ Return
  /\ excused' = FALSE
  /\ UNCHANGED burn

(* Any step of the cycle can raise.                                        *)
Raise ==
  /\ pc \in Steps \ {"crash"}
  /\ Goto("crash")
  /\ UNCHANGED <<loopVars, seen, gap, anchor, log, burn, excused>>

(* The handler's row carries the URL of the gap, if one was picked.        *)
RecordCrash ==
  /\ pc = "crash"
  /\ Insert([gap |-> gap, anchor |-> IF gap = Nil THEN Nil ELSE Url(gap)])
  /\ Return
  /\ excused' = FALSE
  /\ UNCHANGED burn

(* "could not record the crash either"                                     *)
RecordCrashFails ==
  /\ pc = "crash"
  /\ Return
  /\ excused' = TRUE
  /\ UNCHANGED <<age, log, burn>>

(* The process restarts: the cancelled cycle runs no handler.              *)
Reload ==
  /\ pc' = "sleep"
  /\ seen' = {}
  /\ gap' = Nil
  /\ anchor' = Nil
  /\ Restart
  /\ excused' = (excused \/ pc \in Called \cup {"crash"})
  /\ UNCHANGED <<log, burn>>

Pass ==
  /\ Elapse
  /\ burn' = Older(burn)
  /\ UNCHANGED <<cycleVars, log, excused>>

-----------------------------------------------------------------------------
Cycle ==
  \/ ListProbes
  \/ \E g \in Gaps : PickGap(g)
  \/ NoNewGap
  \/ CallModel
  \/ NoDraft
  \/ \E a \in Anchors : Draft(a)
  \/ Drop
  \/ Survive
  \/ Save
  \/ Record
  \/ Raise
  \/ RecordCrash
  \/ RecordCrashFails

(* What happens while the process is up.                                   *)
Running == SkipTick \/ FireTick \/ Cycle \/ Pass

Next == Running \/ Reload

Spec == Init /\ [][Next]_vars

-----------------------------------------------------------------------------
TypeOK ==
  /\ age \in Ages
  /\ nap \in Nat
  /\ pc \in {"sleep"} \cup Steps
  /\ log \in Seq(Rows)
  /\ Len(log) <= Window
  /\ seen \subseteq Gaps \cup Cited
  /\ gap \in Gaps \cup {Nil}
  /\ anchor \in Anchors
  /\ burn \in Ages
  /\ excused \in BOOLEAN

(* A deterministic failure must not become "an unbounded LLM burn loop":   *)
(* the model is called again only after a full interval, unless the last   *)
(* cycle could leave no row at all, because the process died or the        *)
(* database refused even the row about the crash.                          *)
NoBurnLoop == [][CallModel => burn = Interval \/ excused]_vars
=============================================================================
