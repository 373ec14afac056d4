------------------------------ MODULE MCMulticore ------------------------------
(* The fewest cores the test accepts (a coordinator, a worker that stays in  *)
(* the mask and the excluded one), two hardware threads each.                *)
EXTENDS Multicore
=============================================================================
