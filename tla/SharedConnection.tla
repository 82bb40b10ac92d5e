-------------------------- MODULE SharedConnection --------------------------
(***************************************************************************)
(* The web process has one sqlite connection, and all its coroutines use   *)
(* it: a request or a cadence runs a statement, waits, and commits later.  *)
(* The first statement that writes opens the connection's one transaction; *)
(* whoever commits then makes everybody's statements durable, the first    *)
(* half of another coroutine's pair included.                              *)
(*                                                                         *)
(* Another process has a connection of its own.  It sees the committed     *)
(* rows, and it can write only when the web process has nothing open.      *)
(***************************************************************************)
VARIABLES
  disk,  \* the committed database
  view,  \* what the web process's connection reads
  open   \* its transaction has begun

connectionVars == <<disk, view, open>>

Connect(d) == disk = d /\ view = d /\ open = FALSE

Execute(d) == view' = d /\ open' = TRUE /\ UNCHANGED disk

(* Mutant: the coroutine leaves the commit to the next one.                *)
CommitLater == UNCHANGED connectionVars

Commit == disk' = view /\ open' = FALSE /\ UNCHANGED view

(* The process ends or is reloaded.                                        *)
LoseUncommitted == view' = disk /\ open' = FALSE /\ UNCHANGED disk

(* A transaction of another process, a single write.                       *)
ExecuteElsewhere(d) == ~open /\ disk' = d /\ view' = d /\ UNCHANGED open
=============================================================================
