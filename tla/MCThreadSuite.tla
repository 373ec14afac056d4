---------------------------- MODULE MCThreadSuite ----------------------------
(* Instance: main and three threads, two interrupts, loops of two rounds; two *)
(* threads of two increments for sys_atomics.c, run at most twice.            *)
EXTENDS ThreadSuite
=============================================================================
