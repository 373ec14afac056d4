--------------------------- MODULE ThreadSemaphore ---------------------------
(* The thread launch library of the system tests:                            *)
(* standalone_systests/src/thread_common.c and include/thread_common.h.      *)
(*                                                                           *)
(* A client thread creates hardware threads that park in wait_on_semaphore,  *)
(* waits until every thread of a mask is parked, and only then lets them     *)
(* run.  Everything is plain loads and stores on thread_semaphore[], so each *)
(* store, and each successful poll of a spin loop, is a step of its own.     *)
(*                                                                           *)
(* The library calls are parameterised by the calling thread, so that a      *)
(* composition (StartTest) can run them on any thread.                       *)
EXTENDS Naturals, FiniteSets

CONSTANTS Threads,    \* hardware thread numbers
          Main,       \* the thread that runs main()
          MaxRounds   \* bound on the number of thread creations

ASSUME ThreadsAssumption == Threads \subseteq Nat
ASSUME MainAssumption == Main \in Threads
ASSUME RoundsAssumption == MaxRounds \in Nat

VARIABLES
    thread_semaphore,  \* the shared array
    pc,                \* where each thread is
    mask,              \* argument of the library call a thread is in
    cur,               \* thread numbers its loop still has to visit
    ret,               \* where the library call returns to
    work,              \* the malloc'ed thread_work of a thread, 0 if none
    created,           \* creations so far; also the param given to the last one
    ran                \* params of the functions that ran, in a bag: param -> times

vars == <<thread_semaphore, pc, mask, cur, ret, work, created, ran>>
libVars == <<mask, cur, ret>>

THREAD_SEMAPHORE_OFF == "OFF"
THREAD_SEMAPHORE_ON_WAIT == "ON_WAIT"
THREAD_SEMAPHORE_GO == "GO"
SemStates == {THREAD_SEMAPHORE_OFF, THREAD_SEMAPHORE_ON_WAIT, THREAD_SEMAPHORE_GO}

(* "client" is code that may call the library, "func" a worker's function,   *)
(* "enter" and "spin" are the store and the loop of wait_on_semaphore.       *)
Locations == {"stopped", "client", "enter", "spin", "func", "waitLoop", "setLoop", "join"}
Workers == Threads \ {Main}
Params == 1 .. MaxRounds

TypeOK ==
    /\ thread_semaphore \in [Threads -> SemStates]
    /\ pc \in [Threads -> Locations]
    /\ mask \in [Threads -> SUBSET Threads]
    /\ cur \in [Threads -> SUBSET Threads]
    /\ ret \in [Threads -> {"client", "join"}]
    /\ work \in [Threads -> 0 .. MaxRounds]
    /\ created \in 0 .. MaxRounds
    /\ ran \in [Params -> Nat]

Init ==
    /\ thread_semaphore = [t \in Threads |-> THREAD_SEMAPHORE_OFF]
    /\ pc = [t \in Threads |-> IF t = Main THEN "client" ELSE "stopped"]
    /\ mask = [t \in Threads |-> {}]
    /\ cur = [t \in Threads |-> {}]
    /\ ret = [t \in Threads |-> "client"]
    /\ work = [t \in Threads |-> 0]
    /\ created = 0
    /\ ran = [p \in Params |-> 0]

-----------------------------------------------------------------------------
(* The caller's side.                                                        *)

(* Wrong variant: the caller is not taken out of its mask.                   *)
KeepMyself(me, m) == m

remove_myself(me, m) == m \ {me}

(* The loops visit thread numbers upwards from 0.                            *)
Lowest(S, t) == t \in S /\ \A u \in S : t <= u

(* thread_create is the toolchain's: it writes the start tables and issues   *)
(* the start instruction, after which the thread runs thread_wrapper.        *)
thread_create(t) == pc[t] = "stopped"

(* Wrong variant: one static block shared by every thread.                   *)
PrepareShared(t) ==
    /\ created < MaxRounds
    /\ created' = created + 1
    /\ work' = [u \in Threads |-> IF u = t \/ work[u] # 0 THEN created + 1 ELSE 0]
    /\ thread_semaphore' = [thread_semaphore EXCEPT ![t] = THREAD_SEMAPHORE_OFF]
    /\ thread_create(t)
    /\ UNCHANGED ran

(* create_waiting_thread without the change of pc, which its callers make.   *)
PrepareWaitingThread(t) ==
    /\ created < MaxRounds
    /\ created' = created + 1
    /\ work' = [work EXCEPT ![t] = created + 1]
    /\ thread_semaphore' = [thread_semaphore EXCEPT ![t] = THREAD_SEMAPHORE_OFF]
    /\ thread_create(t)
    /\ UNCHANGED ran

create_waiting_thread(me, t) ==
    /\ pc[me] = "client"
    /\ t # me
    /\ PrepareWaitingThread(t)
    /\ pc' = [pc EXCEPT ![t] = "enter"]
    /\ UNCHANGED libVars

(* Wrong variant: GO without waiting for ON_WAIT.                            *)
CallStartNoWait(me, m, after) ==
    /\ mask' = [mask EXCEPT ![me] = m]
    /\ cur' = [cur EXCEPT ![me] = {}]
    /\ ret' = [ret EXCEPT ![me] = after]

(* The call of start_waiting_threads: wait_semaphore_state leaves the caller *)
(* out of the mask, the later set_semaphore_state does not.                  *)
CallStart(me, m, after) ==
    /\ mask' = [mask EXCEPT ![me] = m]
    /\ cur' = [cur EXCEPT ![me] = remove_myself(me, m)]
    /\ ret' = [ret EXCEPT ![me] = after]

start_waiting_threads(me, m) ==
    /\ pc[me] = "client"
    /\ CallStart(me, m, "client")
    /\ pc' = [pc EXCEPT ![me] = "waitLoop"]
    /\ UNCHANGED <<thread_semaphore, work, created, ran>>

(* thread_create_blocked returns to its client, thread_run_blocked joins.    *)
thread_create_blocked(me, t, after) ==
    /\ pc[me] = "client"
    /\ t # me
    /\ PrepareWaitingThread(t)
    /\ CallStart(me, {t}, after)
    /\ pc' = [pc EXCEPT ![t] = "enter", ![me] = "waitLoop"]

thread_run_blocked(me, t) == thread_create_blocked(me, t, "join")

(* Wrong variant: the loop takes any state but GO for "waiting".             *)
WaitNotGo(me) ==
    /\ pc[me] = "waitLoop"
    /\ \E t \in cur[me] :
          /\ Lowest(cur[me], t)
          /\ thread_semaphore[t] # THREAD_SEMAPHORE_GO
          /\ cur' = [cur EXCEPT ![me] = @ \ {t}]
    /\ UNCHANGED <<thread_semaphore, pc, mask, ret, work, created, ran>>

(* One thread found in the wanted state; the poll spins otherwise.           *)
wait_semaphore_state(me) ==
    /\ pc[me] = "waitLoop"
    /\ \E t \in cur[me] :
          /\ Lowest(cur[me], t)
          /\ thread_semaphore[t] = THREAD_SEMAPHORE_ON_WAIT
          /\ cur' = [cur EXCEPT ![me] = @ \ {t}]
    /\ UNCHANGED <<thread_semaphore, pc, mask, ret, work, created, ran>>

(* Every thread was seen parked: on to set_semaphore_state(mask, GO).        *)
AllWaiting(me) ==
    /\ pc[me] = "waitLoop"
    /\ cur[me] = {}
    /\ cur' = [cur EXCEPT ![me] = mask[me]]
    /\ pc' = [pc EXCEPT ![me] = "setLoop"]
    /\ UNCHANGED <<thread_semaphore, mask, ret, work, created, ran>>

set_semaphore_state(me) ==
    /\ pc[me] = "setLoop"
    /\ \E t \in cur[me] :
          /\ Lowest(cur[me], t)
          /\ thread_semaphore' = [thread_semaphore EXCEPT ![t] = THREAD_SEMAPHORE_GO]
          /\ cur' = [cur EXCEPT ![me] = @ \ {t}]
    /\ UNCHANGED <<pc, mask, ret, work, created, ran>>

ReturnFromStart(me) ==
    /\ pc[me] = "setLoop"
    /\ cur[me] = {}
    /\ pc' = [pc EXCEPT ![me] = ret[me]]
    /\ UNCHANGED <<thread_semaphore, libVars, work, created, ran>>

(* A client that joins a set of threads on its own.                          *)
CallJoin(me, m) ==
    /\ pc[me] = "client"
    /\ pc' = [pc EXCEPT ![me] = "join"]
    /\ mask' = [mask EXCEPT ![me] = m]
    /\ UNCHANGED <<thread_semaphore, cur, ret, work, created, ran>>

(* thread_join is the toolchain's: it returns when the threads of the mask   *)
(* have executed stop.                                                       *)
thread_join(me) ==
    /\ pc[me] = "join"
    /\ \A t \in mask[me] : pc[t] = "stopped"
    /\ pc' = [pc EXCEPT ![me] = "client"]
    /\ UNCHANGED <<thread_semaphore, libVars, work, created, ran>>

-----------------------------------------------------------------------------
(* The created thread's side: thread_wrapper.                                *)

(* Wrong variant: the thread parks without saying so.                        *)
ParkSilently(t) ==
    /\ pc[t] = "enter"
    /\ pc' = [pc EXCEPT ![t] = "spin"]
    /\ UNCHANGED <<thread_semaphore, libVars, work, created, ran>>

wait_on_semaphore(t) ==
    /\ pc[t] = "enter"
    /\ thread_semaphore' = [thread_semaphore EXCEPT ![t] = THREAD_SEMAPHORE_ON_WAIT]
    /\ pc' = [pc EXCEPT ![t] = "spin"]
    /\ UNCHANGED <<libVars, work, created, ran>>

SeeGo(t) ==
    /\ pc[t] = "spin"
    /\ thread_semaphore[t] = THREAD_SEMAPHORE_GO
    /\ pc' = [pc EXCEPT ![t] = "func"]
    /\ UNCHANGED <<thread_semaphore, libVars, work, created, ran>>

(* work->func(work->param), free(work), and the return to thread_stop.       *)
thread_wrapper(t) ==
    /\ pc[t] = "func"
    /\ ran' = [ran EXCEPT ![work[t]] = @ + 1]
    /\ work' = [work EXCEPT ![t] = 0]
    /\ pc' = [pc EXCEPT ![t] = "stopped"]
    /\ UNCHANGED <<thread_semaphore, libVars, created>>

Worker(t) == wait_on_semaphore(t) \/ SeeGo(t) \/ thread_wrapper(t)

(* Threads that were created and not yet released.                           *)
Parked == {t \in Workers : /\ pc[t] \in {"enter", "spin"}
                           /\ thread_semaphore[t] # THREAD_SEMAPHORE_GO}

(* What the tests do with the library: create some threads, start a set of   *)
(* created threads, join threads that were started.                          *)
Client ==
    \/ \E t \in Workers : create_waiting_thread(Main, t)
    \/ \E t \in Workers : thread_create_blocked(Main, t, "client")
    \/ \E t \in Workers : thread_run_blocked(Main, t)
    \/ \E m \in SUBSET Parked : m # {} /\ start_waiting_threads(Main, m)
    \/ \E m \in SUBSET (Workers \ Parked) : m # {} /\ CallJoin(Main, m)

Library(me) ==
    \/ wait_semaphore_state(me)
    \/ AllWaiting(me)
    \/ set_semaphore_state(me)
    \/ ReturnFromStart(me)
    \/ thread_join(me)

Next == Client \/ Library(Main) \/ \E t \in Workers : Worker(t)

Spec == Init /\ [][Next]_vars

(* Every hardware thread that is not stopped keeps executing: a spin loop    *)
(* has pause(#1) in it and never blocks another thread.                      *)
Fairness == WF_vars(Library(Main)) /\ \A t \in Workers : WF_vars(Worker(t))

FairSpec == Spec /\ Fairness
-----------------------------------------------------------------------------
(* Properties.                                                               *)

(* start_waiting_threads is a barrier: it writes GO for a thread only when   *)
(* every other thread of its mask has stored ON_WAIT and is in its loop (or  *)
(* was itself just released), so no function starts while a peer of the same *)
(* mask is still on its way.                                                 *)
ReleaseOnlyWhenAllArrived ==
    [][\A t \in Threads :
         thread_semaphore[t] # THREAD_SEMAPHORE_GO /\ thread_semaphore'[t] = THREAD_SEMAPHORE_GO
           => \A u \in mask[Main] : pc[u] # "enter"]_vars

(* A GO is never lost: the thread's own ON_WAIT store (wait_on_semaphore)    *)
(* never comes after the GO meant for it.  A thread that has been released   *)
(* is spinning and will see it, running, or stopped.                         *)
NoLostGo ==
    \A t \in Workers :
        thread_semaphore[t] = THREAD_SEMAPHORE_GO => pc[t] \in {"spin", "func", "stopped"}

(* Every function handed to the library runs at most once, and with the      *)
(* thread_work of its own creation: a param that ran is no longer allocated, *)
(* and no two live threads share one.                                        *)
RunsOnceWithOwnWork ==
    /\ \A p \in Params : ran[p] <= 1
    /\ \A t \in Workers : work[t] # 0 => ran[work[t]] = 0
    /\ \A t, u \in Workers : t # u /\ work[t] # 0 => work[t] # work[u]

(* A thread executing thread_wrapper holds its thread_work, and a stopped    *)
(* thread has freed it: no use after free, no leak.                          *)
WorkOwned == \A t \in Workers : (work[t] # 0) <=> (pc[t] # "stopped")

(* What a client sees of the library: a worker is held until GO is stored    *)
(* for it, and released from then until its function has returned.           *)
PhaseOf(t) ==
    IF pc[t] = "stopped" THEN "idle"
    ELSE IF pc[t] = "func" \/ thread_semaphore[t] = THREAD_SEMAPHORE_GO THEN "released"
    ELSE "held"

Abstract == INSTANCE Launch
    WITH Threads <- Workers, MaxJobs <- MaxRounds,
         phase <- [t \in Workers |-> PhaseOf(t)],
         job <- [t \in Workers |-> work[t]],
         handed <- created,
         finished <- {p \in Params : ran[p] > 0}

(* The stores and polls of thread_semaphore[], with the malloc and free of   *)
(* the thread_work, implement the abstract launch: no step takes a release   *)
(* back, makes a thread run before it or with another's job, and a released  *)
(* thread does run.                                                          *)
ImplementsLaunch == Abstract!Spec

(* thread_create_blocked, start_waiting_threads and thread_run_blocked       *)
(* return: the caller does not stay in the library for ever.                 *)
CallsReturn == pc[Main] # "client" ~> pc[Main] = "client"
=============================================================================
