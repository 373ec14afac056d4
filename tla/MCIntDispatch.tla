----------------------------- MODULE MCIntDispatch -----------------------------
(* Three threads and two interrupts; the boot thread masks one of them       *)
(* (as lock_verify.c does for its main thread).  TLB misses leave 0x60 in    *)
(* CAUSE; a started thread has 1 in USR[20:16], the boot thread 0.           *)
EXTENDS IntDispatch

MCUsrInt == [t \in Threads |-> IF t = 0 THEN 0 ELSE 1]
MCIMask == [t \in Threads |-> IF t = 0 THEN {2} ELSE {}]
=============================================================================
