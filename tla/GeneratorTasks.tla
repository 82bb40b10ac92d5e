--------------------------- MODULE GeneratorTasks ---------------------------
(***************************************************************************)
(* What generates ideas runs next to other generators: a cadence of the    *)
(* server, a process that a timer starts, a script.  A task is one of them *)
(* and goes from await to await; wherever it waits it can raise or be      *)
(* killed, and its next run starts from the beginning.                     *)
(***************************************************************************)
CONSTANTS Tasks, Nil

VARIABLE task  \* per task: where it waits and what it has in hand

Idle == [at |-> "idle", pair |-> Nil, first |-> Nil, cluster |-> Nil,
         spans |-> <<>>, tuple |-> Nil]

Become(t, k) == task' = [task EXCEPT ![t] = k]
Goto(t, label) == Become(t, [task[t] EXCEPT !.at = label])
=============================================================================
