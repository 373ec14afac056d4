-------------------------------- MODULE Launch --------------------------------
(* What thread_common.c promises its clients: a thread is handed a job of its *)
(* own, is held until it is released, and once released runs that job, once,  *)
(* whatever the stores to the semaphores and the polls of them look like.     *)
EXTENDS Naturals

CONSTANTS Threads,      \* threads jobs are handed to
          MaxJobs       \* jobs are numbered in the order they are handed out

VARIABLES
    phase,      \* "idle", "held" or "released"
    job,        \* the job a thread has; 0: none
    handed,     \* jobs handed out so far
    finished    \* jobs that were run

launchVars == <<phase, job, handed, finished>>

Init ==
    /\ phase = [t \in Threads |-> "idle"]
    /\ job = [t \in Threads |-> 0]
    /\ handed = 0
    /\ finished = {}

(* create_waiting_thread.                                                    *)
Hand(t) ==
    /\ phase[t] = "idle" /\ handed < MaxJobs
    /\ handed' = handed + 1
    /\ job' = [job EXCEPT ![t] = handed + 1]
    /\ phase' = [phase EXCEPT ![t] = "held"]
    /\ UNCHANGED finished

(* start_waiting_threads, for one thread of its mask.                        *)
Release(t) ==
    /\ phase[t] = "held"
    /\ phase' = [phase EXCEPT ![t] = "released"]
    /\ UNCHANGED <<job, handed, finished>>

(* The thread's function: a job is run by the thread it was handed to, and   *)
(* not again.                                                                *)
Run(t) ==
    /\ phase[t] = "released" /\ job[t] \notin finished
    /\ finished' = finished \cup {job[t]}
    /\ job' = [job EXCEPT ![t] = 0]
    /\ phase' = [phase EXCEPT ![t] = "idle"]
    /\ UNCHANGED handed

Next == \E t \in Threads : Hand(t) \/ Release(t) \/ Run(t)

SafeSpec == Init /\ [][Next]_launchVars

(* A released thread does run.                                               *)
Spec == SafeSpec /\ \A t \in Threads : WF_launchVars(Run(t))
=============================================================================
