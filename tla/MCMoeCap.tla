------------------------------ MODULE MCMoeCap ------------------------------
(* An instance of MoeCap: three tokens, two of three experts each, and      *)
(* capacities 1 and 2, a capacity that skips the batch, and one that does   *)
(* not bind.                                                                *)
EXTENDS MoeCap

MCEnvs ==
  {[num |-> 1, den |-> 2, min |-> 1, observe |-> TRUE],
   [num |-> 5, den |-> 4, min |-> 1, observe |-> TRUE],
   [num |-> 5, den |-> 4, min |-> 1, observe |-> FALSE],
   [num |-> 1, den |-> 2, min |-> 8, observe |-> TRUE]}
=============================================================================
