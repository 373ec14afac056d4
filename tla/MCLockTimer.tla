------------------------------ MODULE MCLockTimer ------------------------------
(* Two workers, two interrupts and three rounds: both workers pass the       *)
(* target, and an SWI meets workers that hold, wait for and have left the    *)
(* lock.  Two SWIs a test: the second may meet a handler of the first that   *)
(* has counted but not yet returned.                                         *)
EXTENDS LockTimer
=============================================================================
