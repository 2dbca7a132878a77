-------------------------- MODULE MCScheduleClaim ---------------------------
(***************************************************************************)
(* An instance of ScheduleClaim for TLC.                                   *)
(***************************************************************************)
EXTENDS ScheduleClaim, TLC

CONSTANTS t1, t2

\* One rule fires a unit of time before the other, then both at once.
TwoRhythms == ("often" :> {1, 3, 5}) @@ ("rare" :> {2, 3, 5})
TwoRules == DOMAIN TwoRhythms
=============================================================================
