----------------------------- MODULE MCMechanic -----------------------------
(* A unit of time is half an hour.  The agent's timeout was raised to more  *)
(* than StaleAfter; every other stage takes less than one.                  *)
EXTENDS Mechanic

MCLimit == [s \in Stages |-> IF s = "implementing" THEN 3 ELSE 1]

MCRollups == {{"passed"}, {"passed", "failed"}}
=============================================================================
