----------------------------- MODULE MCLockVerify -----------------------------
(* The test's own three worker threads, two iterations of each loop, two     *)
(* swis in the stall phase.                                                  *)
EXTENDS LockVerify
=============================================================================
