---------------------------- MODULE CadenceSleep ----------------------------
(***************************************************************************)
(* The loop of one cadence of web/lifespan_scheduler.py: it sleeps, makes  *)
(* a pass, sleeps again.  A pass asks a watermark, the time of the newest  *)
(* of some rows, and runs the cycle when that is an interval ago.          *)
(*                                                                         *)
(* Only differences of times matter, so the clock is kept as ages.  An age *)
(* stops growing at Interval: the code never asks for more.                *)
(***************************************************************************)
EXTENDS Naturals

CONSTANTS
  Interval,      \* minimum time between two fires
  TickInterval,  \* sleep of the loop after each pass
  InitialDelay   \* sleep after the process has started

ASSUME TimesAssumption ==
  Interval \in Nat \ {0} /\ TickInterval \in Nat /\ InitialDelay \in Nat

VARIABLE nap  \* what is left of the loop's sleep

Ages == 0..Interval

Older(a) == IF a < Interval THEN a + 1 ELSE a

SleepInit == nap = InitialDelay

(* The pass is over, one way or the other.                                 *)
SleepAgain == nap' = TickInterval

(* One unit of time.                                                       *)
Doze == nap' = IF nap > 0 THEN nap - 1 ELSE nap

(* The lifespan starts the supervisor afresh.                              *)
StartAfresh == nap' = InitialDelay
=============================================================================
