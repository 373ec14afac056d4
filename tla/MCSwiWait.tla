------------------------------- MODULE MCSwiWait -------------------------------
(* Two waiting threads and two interrupts: one thread may serve both, or     *)
(* both threads one each.                                                    *)
EXTENDS SwiWait, Functions

(* Total is the sum of the entries, on arrays of the sizes that occur here.  *)
ASSUME TotalIsSum == \A f \in [Waiters -> 0 .. 8] : Total(f) = SumFunction(f)
=============================================================================
