---------------------------- MODULE MCGenerators ----------------------------
(* Three pairs stand for all; the cluster spans two of them.                *)
EXTENDS Generators, TLC

CONSTANTS p1, p2, k1
MCSpans == k1 :> <<p1, p2>>
=============================================================================
