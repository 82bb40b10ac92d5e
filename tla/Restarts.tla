------------------------------ MODULE Restarts ------------------------------
(***************************************************************************)
(* The process is restarted any number of times, then no more: what a      *)
(* liveness property needs, and no condition on the restarts' own steps    *)
(* can say, since the end of a coroutine can look like one.                *)
(***************************************************************************)
VARIABLE settled  \* the process will not be restarted again

SettleDown == ~settled /\ settled' = TRUE
=============================================================================
