---------------------------- MODULE CadenceLoop ----------------------------
(***************************************************************************)
(* A cadence that schedules itself by a log of its own: the watermark is   *)
(* the newest row, whatever that row says.                                 *)
(***************************************************************************)
EXTENDS CadenceSleep

VARIABLE age  \* time since the newest row; Interval too when there is none

loopVars == <<age, nap>>

LoopInit == age = Interval /\ SleepInit

(* _delay_from_watermark(MAX(ts), interval) = 0.                           *)
Overdue == age = Interval

(* A row is inserted: it is the newest.                                    *)
Stamp == age' = 0

Elapse == age' = Older(age) /\ Doze

(* The log is on disk.                                                     *)
Restart == StartAfresh /\ UNCHANGED age
=============================================================================
