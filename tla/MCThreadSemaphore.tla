-------------------------- MODULE MCThreadSemaphore --------------------------
(* Main and three workers: a mask can hold several threads, some of which    *)
(* are slow, and a thread number can be created twice.                       *)
EXTENDS ThreadSemaphore
=============================================================================
