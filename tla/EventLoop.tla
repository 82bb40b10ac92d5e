----------------------------- MODULE EventLoop -----------------------------
(***************************************************************************)
(* The coroutines of the one uvicorn process.  Between two awaits a        *)
(* coroutine runs alone; at an await any other may run.  A coroutine is a  *)
(* slot that is idle or stands at the await its label names, working on    *)
(* one idea, with the copy of its row it read earlier.                     *)
(*                                                                         *)
(* A cadence works through a list of ideas one after the other; the rows   *)
(* of different ideas never meet in a write, so its work on each idea is a *)
(* slot of its own, begun when the list is read.                           *)
(***************************************************************************)
EXTENDS GitHub

CONSTANT Tasks  \* coroutine slots

VARIABLES
  pc,         \* the await a coroutine stands at
  arg,        \* the idea it works on
  snap,       \* the row it holds in memory
  approvals   \* history: ideas an operator has clicked approve or promote on

taskVars == <<pc, arg, snap>>
vars == <<storeVars, gitHubVars, taskVars, approvals>>

Labels == {"idle", "promote:file", "promote:save", "approve:file",
           "approve:urls", "approve:status", "deny:save",
           "scaffold:create", "scaffold:urls", "scaffold:status",
           "add:file", "add:status", "add:urls", "delete:check",
           "delete:row", "mechanic:read", "mechanic:status",
           "score:read", "score:save", "siphon:archive", "review:archive",
           "sync:fetch", "sync:read", "sync:save", "sync:archive",
           "reconcile:mark"}

(* An idle slot takes up work on i and stops at its first await.           *)
Begin(t, i, label, r) ==
  /\ pc[t] = "idle"
  /\ pc' = [pc EXCEPT ![t] = label]
  /\ arg' = [arg EXCEPT ![t] = i]
  /\ snap' = [snap EXCEPT ![t] = r]

Goto(t, label, r) ==
  /\ pc' = [pc EXCEPT ![t] = label]
  /\ snap' = [snap EXCEPT ![t] = r]
  /\ UNCHANGED arg

(* The handler returns or raises.                                          *)
Finish(t) == Goto(t, "idle", Blank)

(* A cadence is one task: it works on an idea at most once at a time.      *)
NoneAt(i, labels) == \A t \in Tasks : arg[t] = i => pc[t] \notin labels

(* uvicorn --reload, or a crash: every coroutine is gone, the database and *)
(* GitHub stay as they are.                                                *)
Reload ==
  /\ pc' = [t \in Tasks |-> "idle"]
  /\ snap' = [t \in Tasks |-> Blank]
  /\ UNCHANGED <<arg, storeVars, gitHubVars, approvals>>
=============================================================================
