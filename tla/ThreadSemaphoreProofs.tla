------------------------ MODULE ThreadSemaphoreProofs ------------------------
(* The barrier of thread_common.c, for any set of hardware threads and any   *)
(* number of thread creations; and start.c, which runs on it, for any number *)
(* of hardware threads.                                                      *)
EXTENDS StartTest, FiniteSetTheorems, TLAPS

(* Main is in client or library code, a worker in thread_wrapper or stopped. *)
Places ==
    /\ pc[Main] \in {"client", "waitLoop", "setLoop", "join"}
    /\ \A t \in Workers : pc[t] \in {"stopped", "enter", "spin", "func"}

(* create_waiting_thread stored OFF, and only the thread itself moves its     *)
(* semaphore on: whoever is seen in ON_WAIT has arrived.                     *)
Arriving == \A t \in Workers : pc[t] = "enter" => thread_semaphore[t] = "OFF"

(* While start_waiting_threads polls, its threads are still to be released,  *)
(* and those it has passed are parked.                                       *)
Waiting ==
    pc[Main] = "waitLoop" =>
        /\ mask[Main] \subseteq Workers
        /\ cur[Main] \subseteq mask[Main]
        /\ \A t \in mask[Main] : pc[t] \in {"enter", "spin"} /\ thread_semaphore[t] # "GO"
        /\ \A t \in mask[Main] \ cur[Main] : pc[t] = "spin"

(* While it writes GO, every thread of the mask has arrived, and those it    *)
(* has not reached yet are still in their loop.                              *)
Releasing ==
    pc[Main] = "setLoop" =>
        /\ mask[Main] \subseteq Workers
        /\ cur[Main] \subseteq mask[Main]
        /\ \A t \in mask[Main] : pc[t] # "enter"
        /\ \A t \in cur[Main] : pc[t] = "spin" /\ thread_semaphore[t] # "GO"

(* Params are handed out once.                                               *)
Fresh ==
    /\ \A t \in Workers : work[t] <= created
    /\ \A p \in Params : p > created => ran[p] = 0

BarrierInv == Places /\ Arriving /\ Waiting /\ Releasing /\ NoLostGo
WorkInv == Fresh /\ WorkOwned /\ RunsOnceWithOwnWork
IInv == TypeOK /\ BarrierInv /\ WorkInv

LEMMA InitIInv == Init => IInv
<1> SUFFICES ASSUME Init PROVE IInv
  OBVIOUS
<1> USE ThreadsAssumption, MainAssumption, RoundsAssumption DEF Init
<1>1. TypeOK
  BY DEF TypeOK, SemStates, Locations, THREAD_SEMAPHORE_OFF, Params
<1>2. BarrierInv
  BY DEF BarrierInv, Places, Arriving, Waiting, Releasing, NoLostGo, Workers, THREAD_SEMAPHORE_OFF,
         THREAD_SEMAPHORE_GO
<1>3. WorkInv
  BY DEF WorkInv, Fresh, WorkOwned, RunsOnceWithOwnWork, Workers, Params
<1> QED
  BY <1>1, <1>2, <1>3 DEF IInv

(* One action at a time: the disjuncts of Next as the proofs below split it. *)
LEMMA NextCases ==
  ASSUME Next
  PROVE  \/ \E t \in Workers : create_waiting_thread(Main, t)
         \/ \E t \in Workers, a \in {"client", "join"} : thread_create_blocked(Main, t, a)
         \/ \E m \in SUBSET Parked : start_waiting_threads(Main, m)
         \/ \E m \in SUBSET Workers : CallJoin(Main, m)
         \/ wait_semaphore_state(Main)
         \/ AllWaiting(Main)
         \/ set_semaphore_state(Main)
         \/ ReturnFromStart(Main)
         \/ thread_join(Main)
         \/ \E t \in Workers : wait_on_semaphore(t)
         \/ \E t \in Workers : SeeGo(t)
         \/ \E t \in Workers : thread_wrapper(t)
BY DEF Next, Client, Library, Worker, thread_run_blocked

LEMMA TypeStep == TypeOK /\ [Next]_vars => TypeOK'
<1> SUFFICES ASSUME TypeOK, [Next]_vars PROVE TypeOK'
  OBVIOUS
<1> USE ThreadsAssumption, MainAssumption, RoundsAssumption
    DEF TypeOK, SemStates, Locations, Workers, THREAD_SEMAPHORE_OFF,
        THREAD_SEMAPHORE_ON_WAIT, THREAD_SEMAPHORE_GO
<1>1. ASSUME NEW t \in Workers, create_waiting_thread(Main, t) PROVE TypeOK'
  BY <1>1 DEF create_waiting_thread, PrepareWaitingThread, libVars
<1>2. ASSUME NEW t \in Workers, NEW a \in {"client", "join"},
             thread_create_blocked(Main, t, a)
      PROVE  TypeOK'
  BY <1>2 DEF thread_create_blocked, PrepareWaitingThread, CallStart, remove_myself
<1>3. ASSUME NEW m \in SUBSET Parked, start_waiting_threads(Main, m) PROVE TypeOK'
  BY <1>3 DEF start_waiting_threads, CallStart, remove_myself, Parked
<1>4. ASSUME NEW m \in SUBSET Workers, CallJoin(Main, m) PROVE TypeOK'
  BY <1>4 DEF CallJoin
<1>5. CASE wait_semaphore_state(Main)
  BY <1>5 DEF wait_semaphore_state
<1>6. CASE AllWaiting(Main)
  BY <1>6 DEF AllWaiting
<1>7. CASE set_semaphore_state(Main)
  BY <1>7 DEF set_semaphore_state
<1>8. CASE ReturnFromStart(Main)
  BY <1>8 DEF ReturnFromStart, libVars
<1>9. CASE thread_join(Main)
  BY <1>9 DEF thread_join, libVars
<1>10. ASSUME NEW t \in Workers, wait_on_semaphore(t) PROVE TypeOK'
  BY <1>10 DEF wait_on_semaphore, libVars
<1>11. ASSUME NEW t \in Workers, SeeGo(t) PROVE TypeOK'
  BY <1>11 DEF SeeGo, libVars
<1>12. ASSUME NEW t \in Workers, thread_wrapper(t) PROVE TypeOK'
  <2>1. ran' = [p \in Params |-> IF p = work[t] THEN ran[p] + 1 ELSE ran[p]]
    BY <1>12 DEF thread_wrapper
  <2>2. ran' \in [Params -> Nat]
    BY <2>1
  <2> QED
    BY <1>12, <2>2 DEF thread_wrapper, libVars
<1>13. CASE UNCHANGED vars
  BY <1>13 DEF vars
<1> QED
  BY NextCases, <1>1, <1>2, <1>3, <1>4, <1>5, <1>6, <1>7, <1>8, <1>9, <1>10, <1>11,
     <1>12, <1>13

LEMMA BarrierStep == TypeOK /\ BarrierInv /\ [Next]_vars => BarrierInv'
<1> SUFFICES ASSUME TypeOK, BarrierInv, [Next]_vars PROVE BarrierInv'
  OBVIOUS
<1> USE MainAssumption
    DEF TypeOK, BarrierInv, Places, Arriving, Waiting, Releasing, NoLostGo, Workers,
        THREAD_SEMAPHORE_OFF, THREAD_SEMAPHORE_ON_WAIT, THREAD_SEMAPHORE_GO
<1>1. ASSUME NEW t \in Workers, create_waiting_thread(Main, t) PROVE BarrierInv'
  BY <1>1 DEF create_waiting_thread, PrepareWaitingThread, libVars
<1>2. ASSUME NEW t \in Workers, NEW a \in {"client", "join"},
             thread_create_blocked(Main, t, a)
      PROVE  BarrierInv'
  BY <1>2 DEF thread_create_blocked, PrepareWaitingThread, CallStart, remove_myself
<1>3. ASSUME NEW m \in SUBSET Parked, start_waiting_threads(Main, m) PROVE BarrierInv'
  BY <1>3 DEF start_waiting_threads, CallStart, remove_myself, Parked
<1>4. ASSUME NEW m \in SUBSET Workers, CallJoin(Main, m) PROVE BarrierInv'
  BY <1>4 DEF CallJoin
<1>5. CASE wait_semaphore_state(Main)
  <2>1. PICK t \in cur[Main] : /\ thread_semaphore[t] = "ON_WAIT"
                              /\ cur' = [cur EXCEPT ![Main] = @ \ {t}]
    BY <1>5 DEF wait_semaphore_state
  <2>2. UNCHANGED <<thread_semaphore, pc, mask>> /\ pc[Main] = "waitLoop"
    BY <1>5 DEF wait_semaphore_state
  <2> QED
    BY <2>1, <2>2
<1>6. CASE AllWaiting(Main)
  BY <1>6 DEF AllWaiting
<1>7. CASE set_semaphore_state(Main)
  BY <1>7 DEF set_semaphore_state
<1>8. CASE ReturnFromStart(Main)
  BY <1>8 DEF ReturnFromStart, libVars
<1>9. CASE thread_join(Main)
  BY <1>9 DEF thread_join, libVars
<1>10. ASSUME NEW t \in Workers, wait_on_semaphore(t) PROVE BarrierInv'
  BY <1>10 DEF wait_on_semaphore, libVars
<1>11. ASSUME NEW t \in Workers, SeeGo(t) PROVE BarrierInv'
  BY <1>11 DEF SeeGo, libVars
<1>12. ASSUME NEW t \in Workers, thread_wrapper(t) PROVE BarrierInv'
  BY <1>12 DEF thread_wrapper, libVars
<1>13. CASE UNCHANGED vars
  BY <1>13 DEF vars
<1> QED
  BY NextCases, <1>1, <1>2, <1>3, <1>4, <1>5, <1>6, <1>7, <1>8, <1>9, <1>10, <1>11,
     <1>12, <1>13

LEMMA WorkStep == IInv /\ [Next]_vars => WorkInv'
<1> SUFFICES ASSUME IInv, [Next]_vars PROVE WorkInv'
  OBVIOUS
<1> USE MainAssumption, RoundsAssumption
    DEF IInv, TypeOK, BarrierInv, Places, WorkInv, Fresh, WorkOwned, RunsOnceWithOwnWork,
        Workers, Params
<1>1. ASSUME NEW t \in Workers, PrepareWaitingThread(t),
             pc'[t] = "enter", \A u \in Workers \ {t} : pc'[u] = pc[u]
      PROVE  WorkInv'
  <2>1. work' = [work EXCEPT ![t] = created + 1] /\ created' = created + 1 /\ ran' = ran
    BY <1>1 DEF PrepareWaitingThread
  <2>2. created + 1 \in Params /\ ran[created + 1] = 0
    BY <1>1 DEF PrepareWaitingThread
  <2>3. Fresh'
    BY <2>1
  <2>4. WorkOwned'
    BY <1>1, <2>1
  <2>5. \A u \in Workers : work'[u] # 0 => ran'[work'[u]] = 0
    BY <2>1, <2>2
  <2>6. \A u, v \in Workers : u # v /\ work'[u] # 0 => work'[u] # work'[v]
    BY <2>1
  <2> QED
    BY <2>1, <2>3, <2>4, <2>5, <2>6
<1>2. ASSUME NEW t \in Workers, create_waiting_thread(Main, t) PROVE WorkInv'
  BY <1>1, <1>2 DEF create_waiting_thread
<1>3. ASSUME NEW t \in Workers, NEW a \in {"client", "join"},
             thread_create_blocked(Main, t, a)
      PROVE  WorkInv'
  BY <1>1, <1>3 DEF thread_create_blocked
<1>4. ASSUME UNCHANGED <<work, created, ran>>,
             \A t \in Workers : (pc[t] = "stopped") <=> (pc'[t] = "stopped")
      PROVE  WorkInv'
  BY <1>4
<1>5. ASSUME NEW m \in SUBSET Parked, start_waiting_threads(Main, m) PROVE WorkInv'
  BY <1>4, <1>5 DEF start_waiting_threads
<1>6. ASSUME NEW m \in SUBSET Workers, CallJoin(Main, m) PROVE WorkInv'
  BY <1>4, <1>6 DEF CallJoin
<1>7. CASE wait_semaphore_state(Main)
  BY <1>4, <1>7 DEF wait_semaphore_state
<1>8. CASE AllWaiting(Main)
  BY <1>4, <1>8 DEF AllWaiting
<1>9. CASE set_semaphore_state(Main)
  BY <1>4, <1>9 DEF set_semaphore_state
<1>10. CASE ReturnFromStart(Main)
  BY <1>4, <1>10 DEF ReturnFromStart
<1>11. CASE thread_join(Main)
  BY <1>4, <1>11 DEF thread_join
<1>12. ASSUME NEW t \in Workers, wait_on_semaphore(t) PROVE WorkInv'
  BY <1>4, <1>12 DEF wait_on_semaphore
<1>13. ASSUME NEW t \in Workers, SeeGo(t) PROVE WorkInv'
  BY <1>4, <1>13 DEF SeeGo
<1>14. ASSUME NEW t \in Workers, thread_wrapper(t) PROVE WorkInv'
  <2>1. /\ pc[t] = "func"
        /\ ran' = [ran EXCEPT ![work[t]] = @ + 1]
        /\ work' = [work EXCEPT ![t] = 0]
        /\ pc' = [pc EXCEPT ![t] = "stopped"]
        /\ created' = created
    BY <1>14 DEF thread_wrapper
  <2>2. work[t] # 0 /\ work[t] \in Params /\ ran[work[t]] = 0 /\ work[t] <= created
    BY <2>1
  <2>3. Fresh'
    BY <2>1, <2>2
  <2>4. WorkOwned'
    BY <2>1
  <2>5. \A p \in Params : ran'[p] <= 1
    BY <2>1, <2>2
  <2>6. \A u \in Workers : work'[u] # 0 => ran'[work'[u]] = 0
    BY <2>1, <2>2
  <2>7. \A u, v \in Workers : u # v /\ work'[u] # 0 => work'[u] # work'[v]
    BY <2>1, <2>2
  <2> QED
    BY <2>3, <2>4, <2>5, <2>6, <2>7
<1>15. CASE UNCHANGED vars
  BY <1>4, <1>15 DEF vars
<1> QED
  BY NextCases, <1>2, <1>3, <1>5, <1>6, <1>7, <1>8, <1>9, <1>10, <1>11, <1>12, <1>13,
     <1>14, <1>15

(* The inductive invariant holds in every behaviour of the library.          *)
THEOREM Invariance == Spec => []IInv
<1>1. IInv /\ [Next]_vars => IInv'
  BY TypeStep, BarrierStep, WorkStep DEF IInv
<1> QED
  BY InitIInv, <1>1, PTL DEF Spec

(* The variables keep their types.                                           *)
THEOREM TypeCorrect == Spec => []TypeOK
<1>1. IInv => TypeOK
  BY DEF IInv
<1> QED
  BY Invariance, <1>1, PTL

(* No GO is lost to the late ON_WAIT store of wait_on_semaphore.             *)
THEOREM GoIsNeverLost == Spec => []NoLostGo
<1>1. IInv => NoLostGo
  BY DEF IInv, BarrierInv
<1> QED
  BY Invariance, <1>1, PTL

(* Each function given to create_waiting_thread runs at most once, with the  *)
(* block allocated for it.                                                   *)
THEOREM RunsOnce == Spec => []RunsOnceWithOwnWork
<1>1. IInv => RunsOnceWithOwnWork
  BY DEF IInv, WorkInv
<1> QED
  BY Invariance, <1>1, PTL

(* thread_wrapper neither leaks its block nor uses it after the free.        *)
THEOREM WorkIsOwned == Spec => []WorkOwned
<1>1. IInv => WorkOwned
  BY DEF IInv, WorkInv
<1> QED
  BY Invariance, <1>1, PTL

(* start_waiting_threads is a barrier: GO is written only once every thread  *)
(* of the mask is parked.                                                    *)
THEOREM Barrier == Spec => ReleaseOnlyWhenAllArrived
<1> DEFINE Release ==
      \A t \in Threads :
         thread_semaphore[t] # THREAD_SEMAPHORE_GO /\ thread_semaphore'[t] = THREAD_SEMAPHORE_GO
           => \A u \in mask[Main] : pc[u] # "enter"
<1>1. IInv /\ [Next]_vars => [Release]_vars
  <2> SUFFICES ASSUME IInv, Next, NEW t \in Threads,
                      thread_semaphore[t] # THREAD_SEMAPHORE_GO,
                      thread_semaphore'[t] = THREAD_SEMAPHORE_GO
               PROVE  \A u \in mask[Main] : pc[u] # "enter"
    BY DEF vars
  <2> USE DEF IInv, TypeOK, THREAD_SEMAPHORE_OFF, THREAD_SEMAPHORE_ON_WAIT,
              THREAD_SEMAPHORE_GO
  <2>1. CASE set_semaphore_state(Main)
    BY <2>1 DEF set_semaphore_state, BarrierInv, Releasing
  <2>2. CASE thread_semaphore' = thread_semaphore
    BY <2>2
  <2>3. CASE \E u \in Workers : PrepareWaitingThread(u)
    BY <2>3 DEF PrepareWaitingThread
  <2>4. CASE \E u \in Workers : wait_on_semaphore(u)
    BY <2>4 DEF wait_on_semaphore
  <2> QED
    BY NextCases, <2>1, <2>2, <2>3, <2>4
       DEF create_waiting_thread, thread_create_blocked, start_waiting_threads, CallJoin,
           wait_semaphore_state, AllWaiting, ReturnFromStart, thread_join, SeeGo, thread_wrapper
<1> QED
  BY Invariance, <1>1, PTL DEF Spec, ReleaseOnlyWhenAllArrived

(* The mapping, step by step.  A step that leaves the phase and the work of  *)
(* every worker alone is a stutter of the abstract launch.                   *)
LEMMA StutterStep ==
  ASSUME UNCHANGED <<work, created, ran>>, \A t \in Workers : PhaseOf(t)' = PhaseOf(t)
  PROVE  UNCHANGED Abstract!launchVars
<1>1. [t \in Workers |-> PhaseOf(t)]' = [t \in Workers |-> PhaseOf(t)]
  OBVIOUS
<1>2. [t \in Workers |-> work[t]]' = [t \in Workers |-> work[t]]
  OBVIOUS
<1>3. {p \in Params : ran[p] > 0}' = {p \in Params : ran[p] > 0}
  BY DEF Params
<1> QED
  BY <1>1, <1>2, <1>3 DEF Abstract!launchVars

LEMMA HandStep ==
  ASSUME IInv, NEW t \in Workers, PrepareWaitingThread(t), pc'[t] = "enter",
         \A u \in Workers \ {t} : pc'[u] = pc[u]
  PROVE  Abstract!Hand(t)
<1> USE DEF IInv, TypeOK, Workers, PrepareWaitingThread, thread_create
<1>1. PhaseOf(t) = "idle" /\ PhaseOf(t)' = "held"
  BY DEF PhaseOf, THREAD_SEMAPHORE_OFF, THREAD_SEMAPHORE_GO
<1>2. \A u \in Workers \ {t} : PhaseOf(u)' = PhaseOf(u)
  BY DEF PhaseOf
<1>3. [u \in Workers |-> PhaseOf(u)]' = [[u \in Workers |-> PhaseOf(u)] EXCEPT ![t] = "held"]
  BY <1>1, <1>2
<1>4. [u \in Workers |-> work[u]]' = [[u \in Workers |-> work[u]] EXCEPT ![t] = created + 1]
  OBVIOUS
<1>5. {p \in Params : ran[p] > 0}' = {p \in Params : ran[p] > 0}
  BY DEF Params
<1> QED
  BY <1>1, <1>3, <1>4, <1>5 DEF Abstract!Hand

LEMMA ReleaseStep ==
  ASSUME IInv, set_semaphore_state(Main)
  PROVE  \E t \in Workers : Abstract!Release(t)
<1>1. PICK t \in cur[Main] : thread_semaphore' = [thread_semaphore EXCEPT ![t] = "GO"]
  BY DEF set_semaphore_state, THREAD_SEMAPHORE_GO
<1>2. UNCHANGED <<pc, work, created, ran>> /\ pc[Main] = "setLoop"
  BY DEF set_semaphore_state
<1>3. t \in Workers /\ pc[t] = "spin" /\ thread_semaphore[t] # "GO"
  BY <1>2 DEF IInv, BarrierInv, Releasing
<1>4. PhaseOf(t) = "held" /\ PhaseOf(t)' = "released"
  BY <1>1, <1>2, <1>3 DEF PhaseOf, IInv, TypeOK, Workers, THREAD_SEMAPHORE_GO
<1>5. \A u \in Workers \ {t} : PhaseOf(u)' = PhaseOf(u)
  BY <1>1, <1>2, <1>3 DEF PhaseOf, IInv, TypeOK, Workers
<1>6. [u \in Workers |-> PhaseOf(u)]' = [[u \in Workers |-> PhaseOf(u)] EXCEPT ![t] = "released"]
  BY <1>3, <1>4, <1>5
<1>7. {p \in Params : ran[p] > 0}' = {p \in Params : ran[p] > 0}
  BY <1>2 DEF Params
<1>8. [u \in Workers |-> work[u]]' = [u \in Workers |-> work[u]]
  BY <1>2
<1> QED
  BY <1>2, <1>3, <1>4, <1>6, <1>7, <1>8 DEF Abstract!Release

LEMMA RunStep ==
  ASSUME IInv, NEW t \in Workers, thread_wrapper(t)
  PROVE  Abstract!Run(t)
<1> USE DEF IInv, TypeOK, Workers
<1>1. /\ pc[t] = "func" /\ pc' = [pc EXCEPT ![t] = "stopped"]
      /\ ran' = [ran EXCEPT ![work[t]] = @ + 1]
      /\ work' = [work EXCEPT ![t] = 0]
      /\ UNCHANGED <<thread_semaphore, created>>
  BY DEF thread_wrapper
<1>2. work[t] \in Params /\ ran[work[t]] = 0
  BY <1>1, RoundsAssumption DEF WorkInv, WorkOwned, RunsOnceWithOwnWork, Params
<1>3. PhaseOf(t) = "released" /\ PhaseOf(t)' = "idle"
  BY <1>1 DEF PhaseOf
<1>4. \A u \in Workers \ {t} : PhaseOf(u)' = PhaseOf(u)
  BY <1>1 DEF PhaseOf
<1>5. [u \in Workers |-> PhaseOf(u)]' = [[u \in Workers |-> PhaseOf(u)] EXCEPT ![t] = "idle"]
  BY <1>3, <1>4
<1>6. [u \in Workers |-> work[u]]' = [[u \in Workers |-> work[u]] EXCEPT ![t] = 0]
  BY <1>1
<1>7. {p \in Params : ran[p] > 0}' = {p \in Params : ran[p] > 0} \cup {work[t]}
  BY <1>1, <1>2 DEF Params
<1>8. work[t] \notin {p \in Params : ran[p] > 0}
  BY <1>2
<1> QED
  BY <1>1, <1>3, <1>5, <1>6, <1>7, <1>8 DEF Abstract!Run

(* Every step of the library is a step of the abstract launch or a stutter.  *)
LEMMA LaunchStep == IInv /\ [Next]_vars => [Abstract!Next]_(Abstract!launchVars)
<1> SUFFICES ASSUME IInv, [Next]_vars PROVE Abstract!Next \/ UNCHANGED Abstract!launchVars
  OBVIOUS
<1>1. ASSUME NEW t \in Workers, create_waiting_thread(Main, t) PROVE Abstract!Hand(t)
  BY <1>1, HandStep DEF create_waiting_thread, IInv, TypeOK, Workers
<1>2. ASSUME NEW t \in Workers, NEW a \in {"client", "join"},
             thread_create_blocked(Main, t, a)
      PROVE  Abstract!Hand(t)
  BY <1>2, HandStep, MainAssumption DEF thread_create_blocked, IInv, TypeOK, Workers
<1>3. ASSUME UNCHANGED <<thread_semaphore, work, created, ran>>,
             \A t \in Workers : pc'[t] = pc[t]
      PROVE  UNCHANGED Abstract!launchVars
  BY <1>3, StutterStep DEF PhaseOf
<1>4. ASSUME NEW m \in SUBSET Parked, start_waiting_threads(Main, m)
      PROVE  UNCHANGED Abstract!launchVars
  BY <1>3, <1>4 DEF start_waiting_threads, IInv, TypeOK, Workers
<1>5. ASSUME NEW m \in SUBSET Workers, CallJoin(Main, m) PROVE UNCHANGED Abstract!launchVars
  BY <1>3, <1>5 DEF CallJoin, IInv, TypeOK, Workers
<1>6. CASE wait_semaphore_state(Main)
  BY <1>3, <1>6 DEF wait_semaphore_state
<1>7. CASE AllWaiting(Main)
  BY <1>3, <1>7 DEF AllWaiting, IInv, TypeOK, Workers
<1>8. CASE ReturnFromStart(Main)
  BY <1>3, <1>8 DEF ReturnFromStart, IInv, TypeOK, Workers
<1>9. CASE thread_join(Main)
  BY <1>3, <1>9 DEF thread_join, IInv, TypeOK, Workers
<1>10. ASSUME NEW t \in Workers, wait_on_semaphore(t) PROVE UNCHANGED Abstract!launchVars
  <2>1. \A u \in Workers : PhaseOf(u)' = PhaseOf(u)
    BY <1>10 DEF wait_on_semaphore, PhaseOf, IInv, TypeOK, BarrierInv, Arriving, Workers,
                THREAD_SEMAPHORE_ON_WAIT, THREAD_SEMAPHORE_GO
  <2> QED
    BY <1>10, <2>1, StutterStep DEF wait_on_semaphore
<1>11. ASSUME NEW t \in Workers, SeeGo(t) PROVE UNCHANGED Abstract!launchVars
  <2>1. \A u \in Workers : PhaseOf(u)' = PhaseOf(u)
    BY <1>11 DEF SeeGo, PhaseOf, IInv, TypeOK, Workers
  <2> QED
    BY <1>11, <2>1, StutterStep DEF SeeGo
<1>12. CASE UNCHANGED vars
  BY <1>3, <1>12 DEF vars
<1> QED
  BY NextCases, ReleaseStep, RunStep, <1>1, <1>2, <1>4, <1>5, <1>6, <1>7, <1>8, <1>9, <1>10, <1>11,
     <1>12 DEF Abstract!Next

(* The library implements the abstract launch, fairness apart: the initial   *)
(* states map to initial states and every step to a step or a stutter.       *)
THEOREM LaunchImplemented == Spec => Abstract!SafeSpec
<1>1. Init => Abstract!Init
  BY RoundsAssumption, MainAssumption DEF Init, Abstract!Init, PhaseOf, Workers, Params
<1> QED
  BY Invariance, <1>1, LaunchStep, PTL DEF Spec, Abstract!SafeSpec

-----------------------------------------------------------------------------
(* start.c.  One thread at a time executes thread_func: main at first, and    *)
(* then the one that main created last.                                       *)

Tester == IF mainNext = 0 THEN Main ELSE mainNext - 1

(* The threads its call of test_start has started.                           *)
Started == IF phase[Tester] = "idle" THEN {} ELSE TestMask(testNo[Tester]) \ {Tester}

Logged == {"k0lock", "store", "k0unlock", "stopped"}    \* my_reset_handler has stored the cause
Stored == {"k0unlock", "stopped"}                       \* and its bit of reset_mask

StTypes ==
    /\ mainNext \in 0 .. Cardinality(Threads)
    /\ testNo \in [Threads -> 0 .. NumTests]
    /\ phase \in [Threads -> {"idle", "started", "joining"}]
    /\ pc \in [Threads -> Locations \cup {"k0lock", "store", "k0unlock"}]
    /\ mask \in [Threads -> SUBSET Threads]
    /\ ret \in [Threads -> {"client", "join"}]
    /\ mode \in [Threads -> {"wrapper", "reset"}]
    /\ ssrCause \in [Threads -> {"dummy", "set", "reset"}]
    /\ ssr_cause_log \in [Threads -> {"dummy", "set", "reset"}]
    /\ tmp \in [Threads -> SUBSET Threads]

(* The threads before the tester have done their tests; all but the tester,  *)
(* main and the started threads are stopped.                                 *)
Roster ==
    /\ \A t \in Threads : t < Tester => testNo[t] = NumTests
    /\ \A t \in Threads : t # Tester => phase[t] = "idle"
    /\ \A t \in Threads : t \notin {Main, Tester} /\ t \notin Started => pc[t] = "stopped"

(* Main as tester, and main waiting in thread_run_blocked for another one.   *)
MainTests ==
    Tester = Main =>
        /\ phase[Main] = "idle" => pc[Main] = "client"
        /\ mainNext = 1 => phase[Main] = "idle" /\ testNo[Main] = NumTests
MainWaits ==
    Tester # Main =>
        /\ mode[Tester] = "wrapper"
        /\ pc[Main] \in {"waitLoop", "setLoop", "join", "client"}
        /\ pc[Main] \in {"waitLoop", "setLoop"} => ret[Main] = "join"
        /\ pc[Main] # "client" => mask[Main] = {Tester}
        /\ pc[Main] = "client" => pc[Tester] = "stopped"
        /\ phase[Tester] = "idle" => pc[Tester] \in {"enter", "spin", "func", "stopped"}
        /\ pc[Tester] = "stopped" => phase[Tester] = "idle" /\ testNo[Tester] = NumTests

(* Where the tester is in test_start; the threads it joined have stopped.    *)
Testing ==
    /\ phase[Tester] # "idle" => testNo[Tester] < NumTests
    /\ phase[Tester] = "started" =>
         /\ pc[Tester] \in {"waitLoop", "setLoop", "client"}
         /\ ret[Tester] = "client" /\ mask[Tester] = TestMask(testNo[Tester])
    /\ phase[Tester] = "joining" =>
         /\ pc[Tester] \in {"join", "client"} /\ mask[Tester] = Started
         /\ pc[Tester] = "client" => \A u \in Started : pc[u] = "stopped"

(* A started thread is in my_reset_handler or through with it.               *)
Resetting ==
    \A u \in Started :
        /\ mode[u] = "reset" /\ ssrCause[u] = RESET_CAUSE
        /\ pc[u] \in {"enter", "spin", "func"} \cup Logged

(* Only the owner of the kernel lock is between its load and its unlock, and *)
(* what it has loaded is current.                                            *)
MaskLock ==
    \A u \in Threads :
        /\ pc[u] \in {"store", "k0unlock"} => k0 = u
        /\ pc[u] = "store" => tmp[u] = reset_mask

(* What the handlers have written so far is what test_start will check.      *)
Reported ==
    phase[Tester] # "idle" =>
        /\ ssrCause[Tester] = SET_CAUSE
        /\ reset_mask = {u \in Started : pc[u] \in Stored}
        /\ \A u \in Threads \ {Tester} :
             ssr_cause_log[u] = IF u \in Started /\ pc[u] \in Logged THEN RESET_CAUSE ELSE DUMMY_CAUSE

Clean == ~ err /\ (phase[Tester] = "idle" => handler = "default")

StInv ==
    /\ StTypes /\ Roster /\ MainTests /\ MainWaits /\ Testing /\ Resetting /\ MaskLock /\ Reported
    /\ Clean

(* The thread numbers, from 0.                                               *)
LEMMA Numbers ==
  /\ Cardinality(Threads) \in Nat \ {0} /\ Main = 0
  /\ \A t : t \in Threads <=> t \in Nat /\ t < Cardinality(Threads)
<1>1. Cardinality(Threads) \in Nat
  BY NumberingAssumption, FS_CardinalityType
<1> DEFINE n == Cardinality(Threads)
<1>2. n \in Nat /\ Threads = 0 .. n - 1 /\ 0 \in Threads
  BY <1>1, NumberingAssumption, MainAssumption
<1> HIDE DEF n
<1>3. n # 0 /\ \A t : t \in Threads <=> t \in Nat /\ t < n
  BY <1>2
<1> QED
  BY <1>2, <1>3, NumberingAssumption DEF n

LEMMA MaskFacts ==
  ASSUME NEW n \in Nat
  PROVE  TestMask(n) \subseteq Workers
BY NumberingAssumption DEF TestMask, Workers

(* Who may be where.                                                         *)
LEMMA Seats ==
  ASSUME StInv
  PROVE  /\ Tester \in Threads /\ Main \in Threads /\ Threads \subseteq Nat
         /\ Started \subseteq Workers /\ Tester \notin Started /\ Main \notin Started
         /\ pc[Main] \in {"waitLoop", "setLoop", "join", "client"}
         /\ pc[Tester] \notin {"k0lock", "store", "k0unlock"}
         /\ \A t \in Threads : t # Tester => phase[t] = "idle"
         /\ \A t \in Threads : pc[t] \in {"k0lock", "store", "k0unlock"} => t \in Started
         /\ \A t \in Threads : pc[t] \in {"waitLoop", "setLoop", "join"} => t = Main \/ t = Tester
<1>1. Tester \in Threads /\ Main \in Threads /\ Threads \subseteq Nat
  BY Numbers, MainAssumption DEF StInv, StTypes, Tester
<1>2. Started \subseteq Workers /\ Tester \notin Started /\ Main \notin Started
  <2>1. testNo[Tester] \in Nat
    BY <1>1 DEF StInv, StTypes, NumTests
  <2> QED
    BY <2>1, MaskFacts DEF Started, Workers
<1>3. phase[Tester] \in {"idle", "started", "joining"}
  BY <1>1 DEF StInv, StTypes
<1>4. pc[Main] \in {"waitLoop", "setLoop", "join", "client"}
  BY <1>1, <1>3 DEF StInv, MainTests, MainWaits, Testing
<1>5. pc[Tester] \notin {"k0lock", "store", "k0unlock"}
  BY <1>1, <1>3, <1>4 DEF StInv, MainTests, MainWaits, Testing
<1>6. \A t \in Threads : pc[t] \in {"k0lock", "store", "k0unlock"} => t \in Started
  BY <1>4, <1>5 DEF StInv, Roster
<1>7. \A t \in Threads : pc[t] \in {"waitLoop", "setLoop", "join"} => t = Main \/ t = Tester
  BY DEF StInv, Roster, Resetting, Logged
<1> QED
  BY <1>1, <1>2, <1>4, <1>5, <1>6, <1>7 DEF StInv, Roster

LEMMA InitStInv == StartInit => StInv
<1> SUFFICES ASSUME StartInit PROVE StInv
  OBVIOUS
<1> USE NumberingAssumption, ThreadsAssumption, MainAssumption
<1>1. /\ mainNext = 0 /\ Tester = Main /\ Started = {} /\ handler = "default" /\ ~ err
      /\ \A t \in Threads : phase[t] = "idle" /\ testNo[t] = 0
      /\ \A t \in Threads : pc[t] = IF t = Main THEN "client" ELSE "stopped"
  BY DEF StartInit, Init, Tester, Started
<1>2. Cardinality(Threads) \in Nat
  BY FS_CardinalityType
<1>3. StTypes
  BY <1>2 DEF StartInit, Init, StTypes, NumTests, Locations, RESET_CAUSE
<1>4. Roster /\ MainTests /\ MainWaits /\ Testing /\ Resetting /\ MaskLock /\ Reported /\ Clean
  BY <1>1 DEF Roster, MainTests, MainWaits, Testing, Resetting, MaskLock, Reported, Clean
<1> QED
  BY <1>3, <1>4 DEF StInv

(* The tester and the threads it started stay the same while no test begins  *)
(* or ends.                                                                  *)
LEMMA SameTester ==
  ASSUME UNCHANGED <<mainNext, phase, testNo>>
  PROVE  Tester' = Tester /\ Started' = Started
<1>1. Tester' = Tester
  BY DEF Tester
<1> QED
  BY <1>1 DEF Started, TestMask

(* wait_on_semaphore: the created tester, or a started thread, on its way.   *)
LEMMA ParkStep ==
  ASSUME StInv, NEW t \in Threads, wait_on_semaphore(t) \/ SeeGo(t), UNCHANGED testVars
  PROVE  StInv'
<1>1. /\ pc[t] \in {"enter", "spin"} /\ pc'[t] \in {"spin", "func"} /\ pc' = [pc EXCEPT ![t] = pc'[t]]
      /\ UNCHANGED <<mask, ret, handler, mode, phase, testNo, mainNext, ssrCause, ssr_cause_log,
                     reset_mask, k0, tmp, err>>
  BY DEF wait_on_semaphore, SeeGo, libVars, testVars, StInv, StTypes
<1>2. Tester' = Tester /\ Started' = Started
  BY <1>1, SameTester
<1>3. \A u \in Threads : u # t => pc'[u] = pc[u]
  BY <1>1 DEF StInv, StTypes
<1>4. StTypes'
  BY <1>1 DEF StInv, StTypes, Locations
<1>5. t # Main /\ (t = Tester => phase[t] = "idle" /\ Tester # Main)
  BY <1>1, Seats DEF StInv, StTypes, Testing
<1>6. Roster' /\ MainTests' /\ MainWaits' /\ Testing'
  BY <1>1, <1>2, <1>3, <1>5, Seats DEF StInv, Roster, MainTests, MainWaits, Testing
<1>7. Resetting' /\ MaskLock' /\ Reported' /\ Clean'
  BY <1>1, <1>2, <1>3, Seats DEF StInv, Resetting, MaskLock, Reported, Clean, Logged, Stored, Workers
<1> QED
  BY <1>4, <1>6, <1>7 DEF StInv

(* The library on the tester, and on main while it runs a tester.            *)
LEMMA LibraryStep ==
  ASSUME StInv, NEW t \in Threads, Library(t), UNCHANGED testVars
  PROVE  StInv'
<1>1. /\ pc[t] \in {"waitLoop", "setLoop", "join"}
      /\ \/ pc[t] = "waitLoop" /\ pc'[t] \in {"waitLoop", "setLoop"}
         \/ pc[t] = "setLoop" /\ pc'[t] \in {"setLoop", ret[t]}
         \/ pc[t] = "join" /\ pc'[t] = "client" /\ \A u \in mask[t] : pc[u] = "stopped"
      /\ pc' = [pc EXCEPT ![t] = pc'[t]]
      /\ UNCHANGED <<mask, ret>>
  BY DEF Library, wait_semaphore_state, AllWaiting, set_semaphore_state, ReturnFromStart, thread_join,
         libVars, StInv, StTypes
<1>2. UNCHANGED <<handler, mode, phase, testNo, mainNext, ssrCause, ssr_cause_log, reset_mask,
                  k0, tmp, err>>
  BY DEF testVars
<1>3. Tester' = Tester /\ Started' = Started
  BY <1>2, SameTester
<1>4. \A u \in Threads : u # t => pc'[u] = pc[u]
  BY <1>1 DEF StInv, StTypes
<1>5. StTypes'
  BY <1>1, <1>2 DEF StInv, StTypes, Locations
<1>6. (t = Main \/ t = Tester) /\ TestMask(testNo[Tester])' = TestMask(testNo[Tester])
  BY <1>1, <1>2, <1>3, Seats DEF TestMask
<1>7. t \notin Started /\ pc'[t] \notin {"store", "k0unlock", "stopped"}
  BY <1>1, <1>6, Seats DEF StInv, StTypes
<1>8. Roster'
  BY <1>2, <1>3, <1>4, <1>6 DEF StInv, Roster
<1>9. MainTests' /\ MainWaits' /\ Testing'
  <2>1. CASE t = Tester
    <3>1. phase[t] # "idle" /\ phase[t] \in {"idle", "started", "joining"}
      BY <1>1, <2>1 DEF StInv, StTypes, MainTests, MainWaits
    <3>2. Testing'
      <4>1. \A u \in Started : u # t /\ u \in Threads
        BY <1>7, Seats DEF Workers
      <4>2. CASE phase[t] = "started"
        BY <1>1, <1>2, <1>3, <1>6, <2>1, <4>2 DEF StInv, Testing
      <4>3. CASE phase[t] = "joining"
        BY <1>1, <1>2, <1>3, <1>4, <2>1, <4>1, <4>3 DEF StInv, Testing
      <4> QED
        BY <3>1, <4>2, <4>3
    <3>3. MainTests' /\ MainWaits'
      BY <1>1, <1>2, <1>3, <1>4, <1>7, <2>1, <3>1, Seats DEF StInv, MainTests, MainWaits
    <3> QED
      BY <3>2, <3>3
  <2>2. CASE t = Main /\ t # Tester
    <3>1. Testing'
      <4>1. UNCHANGED <<mask, ret>> /\ pc'[Tester] = pc[Tester] /\ \A u \in Started : pc'[u] = pc[u]
        BY <1>1, <1>4, <2>2, Seats DEF Workers
      <4> QED
        BY <1>2, <1>3, <1>6, <4>1 DEF StInv, Testing
    <3>2. MainTests' /\ MainWaits'
      BY <1>1, <1>2, <1>3, <1>4, <2>2, Seats DEF StInv, MainTests, MainWaits
    <3> QED
      BY <3>1, <3>2
  <2> QED
    BY <1>6, <2>1, <2>2
<1>10. Resetting' /\ MaskLock' /\ Reported' /\ Clean'
  BY <1>2, <1>3, <1>4, <1>7, Seats DEF StInv, Resetting, MaskLock, Reported, Clean, Logged, Stored,
     Workers
<1> QED
  BY <1>5, <1>8, <1>9, <1>10 DEF StInv

(* Only the tester is in thread_func, and nobody else runs but a main that   *)
(* waits for it.                                                             *)
LEMMA StartStep == ASSUME StInv, NEW t \in Threads, test_start(t) PROVE StInv'
<1>1. t = Tester /\ phase[t] = "idle" /\ testNo[t] < NumTests /\ mainNext # 1
  <2>1. phase[t] = "idle" /\ testNo[t] < NumTests /\ InThreadFunc(t)
    BY DEF test_start
  <2>2. CASE t = Main
    BY <2>1, <2>2 DEF InThreadFunc, Tester
  <2>3. CASE t # Main
    <3>1. pc[t] = "func" /\ mode[t] = "wrapper"
      BY <2>1, <2>3 DEF InThreadFunc
    <3>2. t = Tester
      BY <2>3, <3>1 DEF StInv, Roster, Resetting
    <3> QED
      BY <2>1, <2>3, <3>2, Numbers DEF Tester
  <2> QED
    BY <2>2, <2>3
<1>2. Started = {} /\ \A u \in Threads : u \notin {Main, Tester} => pc[u] = "stopped"
  BY <1>1 DEF StInv, Roster, Started
<1> DEFINE m == TestMask(testNo[t])
<1>3. m \subseteq Workers
  <2>1. testNo[t] \in Nat
    BY DEF StInv, StTypes, NumTests
  <2> QED
    BY <2>1, MaskFacts
<1>4. /\ pc' = [u \in Threads |-> IF u = t THEN "waitLoop" ELSE IF u \in m THEN "enter" ELSE pc[u]]
      /\ mode' = [u \in Threads |-> IF u \in m \ {t} THEN "reset" ELSE mode[u]]
      /\ ssrCause' = [u \in Threads |-> IF u = t THEN SET_CAUSE
                                        ELSE IF u \in m THEN RESET_CAUSE ELSE ssrCause[u]]
      /\ mask' = [mask EXCEPT ![t] = m] /\ ret' = [ret EXCEPT ![t] = "client"]
      /\ reset_mask' = {} /\ ssr_cause_log' = [u \in Threads |-> DUMMY_CAUSE]
      /\ phase' = [phase EXCEPT ![t] = "started"]
      /\ UNCHANGED <<testNo, mainNext, k0, tmp, err>>
  BY DEF test_start, CallStart
<1>5. Tester' = Tester /\ phase'[Tester] = "started" /\ Started' = m \ {t}
  BY <1>1, <1>4 DEF Tester, Started, StInv, StTypes, TestMask
<1>6. m \in SUBSET Threads
  BY <1>3 DEF Workers
<1>7. /\ TestMask(testNo[t])' = m /\ mask'[t] = m /\ ret'[t] = "client"
      /\ \A u \in Threads : u # t => mask'[u] = mask[u] /\ ret'[u] = ret[u] /\ phase'[u] = phase[u]
  BY <1>4 DEF StInv, StTypes, TestMask
<1>8. \A u \in Threads : u # Main => (u \in Workers)
  BY DEF Workers
<1>9. Main \notin m
  BY <1>3 DEF Workers
<1> HIDE DEF m
<1>10. StTypes'
  BY <1>4, <1>6 DEF StInv, StTypes, Locations, SET_CAUSE, RESET_CAUSE, DUMMY_CAUSE
<1>11. Roster'
  BY <1>1, <1>2, <1>4, <1>5, <1>7 DEF StInv, Roster
<1>12. pc'[Tester] = "waitLoop" /\ \A u \in Threads : u # Tester => pc'[u] = IF u \in m THEN "enter" ELSE pc[u]
  BY <1>1, <1>4, Seats
<1>13. MainTests'
  BY <1>1, <1>4, <1>5 DEF MainTests
<1>14. MainWaits'
  <2>1. ASSUME Tester # Main PROVE pc[Tester] = "func" /\ mode[Tester] = "wrapper"
    BY <1>1, <2>1 DEF test_start, InThreadFunc
  <2>2. ASSUME Tester # Main
        PROVE  /\ pc'[Main] = pc[Main] /\ mask'[Main] = mask[Main] /\ ret'[Main] = ret[Main]
               /\ mode'[Tester] = "wrapper"
    BY <1>1, <1>4, <1>7, <1>9, <2>1, <2>2, Seats
  <2> QED
    BY <1>5, <1>12, <2>1, <2>2 DEF StInv, MainWaits
<1>15. Testing'
  BY <1>1, <1>4, <1>5, <1>7, <1>12 DEF Testing, m
<1>16. Resetting'
  BY <1>1, <1>4, <1>5, <1>6, <1>12 DEF Resetting
<1>17. \A u \in Threads : pc'[u] \notin {"store", "k0unlock"} /\ (u \in m \ {t} => pc'[u] = "enter")
  BY <1>1, <1>2, <1>12, Seats
<1>18. MaskLock'
  BY <1>17 DEF MaskLock
<1>19. Reported'
  <2>1. {u \in m \ {t} : pc'[u] \in Stored} = {}
    BY <1>6, <1>17 DEF Stored
  <2>2. ssrCause'[t] = SET_CAUSE
    BY <1>4
  <2>3. \A u \in Threads : ssr_cause_log'[u] = DUMMY_CAUSE
    BY <1>4
  <2>4. \A u \in m \ {t} : pc'[u] \notin Logged
    BY <1>6, <1>17 DEF Logged
  <2> QED
    BY <1>1, <1>4, <1>5, <2>1, <2>2, <2>3, <2>4 DEF Reported, DUMMY_CAUSE, SET_CAUSE, RESET_CAUSE
<1>20. Clean'
  BY <1>4, <1>5 DEF StInv, Clean
<1> QED
  BY <1>10, <1>11, <1>13, <1>14, <1>15, <1>16, <1>18, <1>19, <1>20 DEF StInv

LEMMA JoinStep == ASSUME StInv, NEW t \in Threads, JoinStarted(t) PROVE StInv'
<1>1. t = Tester
  BY Seats DEF JoinStarted
<1>2. /\ pc[t] = "client" /\ phase[t] = "started"
      /\ pc' = [pc EXCEPT ![t] = "join"]
      /\ mask' = [mask EXCEPT ![t] = mask[t] \ {t}]
      /\ phase' = [phase EXCEPT ![t] = "joining"]
      /\ UNCHANGED <<ret, handler, mode, testNo, mainNext, ssrCause, ssr_cause_log, reset_mask, k0,
                     tmp, err>>
  BY DEF JoinStarted, CallJoin, remove_myself
<1>3. Tester' = Tester /\ phase'[Tester] = "joining" /\ Started' = Started
  BY <1>1, <1>2 DEF Tester, Started, StInv, StTypes, TestMask
<1>4. /\ \A u \in Threads : u # t => pc'[u] = pc[u] /\ mask'[u] = mask[u] /\ phase'[u] = phase[u]
      /\ pc'[t] = "join" /\ mask'[t] = mask[t] \ {t}
  BY <1>2 DEF StInv, StTypes
<1>5. mask'[t] = Started
  BY <1>1, <1>2, <1>4 DEF StInv, Testing, Started
<1>6. StTypes'
  BY <1>2 DEF StInv, StTypes, Locations
<1>7. Roster' /\ MainTests' /\ Testing'
  BY <1>1, <1>2, <1>3, <1>4, <1>5 DEF StInv, Roster, MainTests, Testing
<1>8. MainWaits'
  BY <1>1, <1>2, <1>3, <1>4, Seats DEF StInv, MainWaits
<1>9. Resetting' /\ MaskLock' /\ Reported' /\ Clean'
  BY <1>1, <1>2, <1>3, <1>4, Seats DEF StInv, Resetting, MaskLock, Reported, Clean, Logged, Stored, Workers
<1> QED
  BY <1>6, <1>7, <1>8, <1>9 DEF StInv

(* The checks of test_start, after the join.                                 *)
LEMMA TestPasses ==
  ASSUME StInv, NEW t \in Threads, pc[t] = "client", phase[t] = "joining"
  PROVE  ChecksPass(t) /\ t = Tester
<1>1. t = Tester
  BY Seats
<1>2. mask[t] = Started /\ \A u \in Started : pc[u] = "stopped"
  BY <1>1 DEF StInv, Testing
<1>3. \A u \in Started : pc[u] \in Stored /\ pc[u] \in Logged
  BY <1>2 DEF Stored, Logged
<1>4. reset_mask = Started
  BY <1>1, <1>3 DEF StInv, Reported
<1> QED
  BY <1>1, <1>2, <1>3, <1>4 DEF StInv, Reported, ChecksPass

LEMMA FinishStep == ASSUME StInv, NEW t \in Threads, FinishTestStart(t) PROVE StInv'
<1>1. t = Tester /\ pc[t] = "client" /\ phase[t] = "joining" /\ ChecksPass(t)
  BY TestPasses DEF FinishTestStart
<1>2. /\ handler' = "default" /\ err' = FALSE
      /\ phase' = [phase EXCEPT ![t] = "idle"]
      /\ testNo' = [testNo EXCEPT ![t] = @ + 1]
      /\ pc' = [pc EXCEPT ![t] = IF t = Main THEN "client" ELSE "func"]
      /\ UNCHANGED <<mask, ret, mode, mainNext, ssrCause, ssr_cause_log, reset_mask, k0, tmp>>
  BY <1>1 DEF FinishTestStart, libVars, StInv, Clean
<1>3. Tester' = Tester /\ phase'[Tester] = "idle" /\ Started' = {}
  BY <1>1, <1>2 DEF Tester, Started, StInv, StTypes
<1>4. /\ \A u \in Threads : u # t => pc'[u] = pc[u] /\ phase'[u] = phase[u] /\ testNo'[u] = testNo[u]
      /\ pc'[t] = IF t = Main THEN "client" ELSE "func"
  BY <1>2 DEF StInv, StTypes
<1>5. \A u \in Threads : u \notin {Main, Tester} => pc[u] = "stopped"
  BY <1>1 DEF StInv, Roster, Testing
<1>6. testNo[t] < NumTests
  BY <1>1 DEF StInv, Testing
<1>7. StTypes'
  BY <1>2, <1>6 DEF StInv, StTypes, Locations, NumTests
<1>8. Roster'
  BY <1>1, <1>3, <1>4, <1>5, Seats DEF StInv, Roster
<1>9. MainTests' /\ MainWaits' /\ Testing'
  BY <1>1, <1>2, <1>3, <1>4, Seats DEF StInv, MainTests, MainWaits, Testing
<1>10. \A u \in Threads : pc'[u] \notin {"store", "k0unlock"}
  BY <1>1, <1>4, <1>5, Seats
<1>11. Resetting' /\ MaskLock' /\ Reported' /\ Clean'
  BY <1>2, <1>3, <1>10 DEF Resetting, MaskLock, Reported, Clean
<1> QED
  BY <1>7, <1>8, <1>9, <1>11 DEF StInv

LEMMA MainNextStep == ASSUME StInv, MainNext PROVE StInv'
<1>1. /\ mainNext = 0 /\ mainNext' = 1 /\ phase[Main] = "idle" /\ testNo[Main] = NumTests
      /\ pc[Main] = "client"
      /\ UNCHANGED <<pc, mask, ret, handler, mode, phase, testNo, ssrCause, ssr_cause_log, reset_mask,
                     k0, tmp, err>>
  BY DEF MainNext, vars
<1>2. Tester = Main /\ Tester' = Main /\ Started = {} /\ Started' = {}
  BY <1>1, NumberingAssumption DEF Tester, Started
<1>3. 1 \in 0 .. Cardinality(Threads)
  BY Numbers
<1>4. StTypes'
  BY <1>1, <1>3 DEF StInv, StTypes
<1> QED
  BY <1>1, <1>2, <1>4 DEF StInv, Roster, MainTests, MainWaits, Testing, Resetting, MaskLock, Reported,
     Clean

(* The next tester starts with crt0's handler in place.                      *)
LEMMA MainRunsStep == ASSUME StInv, MainRuns PROVE StInv'
<1>1. /\ mainNext \in Workers /\ pc[Main] = "client" /\ pc[mainNext] = "stopped"
      /\ pc' = [pc EXCEPT ![mainNext] = "enter", ![Main] = "waitLoop"]
      /\ mask' = [mask EXCEPT ![Main] = {mainNext}] /\ ret' = [ret EXCEPT ![Main] = "join"]
      /\ mode' = [mode EXCEPT ![mainNext] = IF handler = "default" THEN "wrapper" ELSE "reset"]
      /\ mainNext' = mainNext + 1
      /\ UNCHANGED <<handler, phase, testNo, ssrCause, ssr_cause_log, reset_mask, k0, tmp, err>>
  BY DEF MainRuns, thread_run_blocked, thread_create_blocked, PrepareWaitingThread, thread_create,
         CallStart
<1>2. /\ mainNext \in Threads /\ mainNext # Main /\ mainNext \in Nat /\ mainNext # 0
      /\ mainNext + 1 \in 0 .. Cardinality(Threads)
  BY <1>1, Numbers DEF Workers
<1>3. Tester = mainNext - 1 /\ Tester' = mainNext
  BY <1>1, <1>2 DEF Tester
<1>4. phase[Tester] = "idle" /\ testNo[Tester] = NumTests
  BY <1>1, <1>2, <1>3, NumberingAssumption DEF StInv, MainTests, MainWaits
<1>5. Started = {} /\ Started' = {} /\ \A u \in Threads : phase[u] = "idle"
  BY <1>1, <1>2, <1>3, <1>4, Seats DEF Started
<1>6. \A u \in Threads : u # Main => pc[u] = "stopped"
  BY <1>1, <1>3, <1>5, Seats DEF StInv, Roster, MainWaits
<1>7. /\ pc'[mainNext] = "enter" /\ pc'[Main] = "waitLoop"
      /\ \A u \in Threads : u \notin {Main, mainNext} => pc'[u] = "stopped"
      /\ mask'[Main] = {mainNext} /\ ret'[Main] = "join"
  BY <1>1, <1>2, <1>6, MainAssumption DEF StInv, StTypes
<1>8. handler = "default" /\ mode'[mainNext] = "wrapper"
  BY <1>1, <1>2, <1>4 DEF StInv, StTypes, Clean
<1>9. StTypes'
  BY <1>1, <1>2, MainAssumption DEF StInv, StTypes, Locations
<1>10. Roster'
  <2>1. \A u \in Threads : u < mainNext => u < Tester \/ u = Tester
    BY <1>2, <1>3, Numbers
  <2>2. \A u \in Threads : u < mainNext => testNo'[u] = NumTests
    BY <1>1, <1>4, <2>1 DEF StInv, Roster
  <2> QED
    BY <1>1, <1>3, <1>5, <1>7, <2>2 DEF Roster
<1>11. MainTests' /\ MainWaits' /\ Testing'
  BY <1>1, <1>2, <1>3, <1>5, <1>7, <1>8 DEF MainTests, MainWaits, Testing
<1>12. Resetting' /\ MaskLock' /\ Reported' /\ Clean'
  BY <1>1, <1>2, <1>3, <1>5, <1>7, <1>8 DEF StInv, Resetting, MaskLock, Reported, Clean
<1> QED
  BY <1>9, <1>10, <1>11, <1>12 DEF StInv

LEMMA ReturnsStep == ASSUME StInv, NEW t \in Threads, WorkerReturns(t) PROVE StInv'
<1>1. /\ mode[t] = "wrapper" /\ phase[t] = "idle" /\ testNo[t] = NumTests /\ pc[t] = "func"
      /\ pc' = [pc EXCEPT ![t] = "stopped"]
      /\ UNCHANGED <<mask, ret, handler, mode, phase, testNo, mainNext, ssrCause, ssr_cause_log,
                     reset_mask, k0, tmp, err>>
  BY DEF WorkerReturns, thread_wrapper, libVars, testVars
<1>2. Tester' = Tester /\ Started' = Started
  BY <1>1, SameTester
<1>3. t = Tester /\ t # Main /\ Started = {}
  BY <1>1, Seats DEF StInv, Roster, Resetting, Started
<1>4. pc'[t] = "stopped" /\ \A u \in Threads : u # t => pc'[u] = pc[u]
  BY <1>1 DEF StInv, StTypes
<1>5. StTypes'
  BY <1>1 DEF StInv, StTypes, Locations
<1>6. Roster' /\ MainTests' /\ MainWaits' /\ Testing'
  BY <1>1, <1>2, <1>3, <1>4, Seats DEF StInv, Roster, MainTests, MainWaits, Testing
<1>7. Resetting' /\ MaskLock' /\ Reported' /\ Clean'
  BY <1>1, <1>2, <1>3, <1>4 DEF StInv, Resetting, MaskLock, Reported, Clean
<1> QED
  BY <1>5, <1>6, <1>7 DEF StInv

(* my_reset_handler: each store adds to what the test will read, and the     *)
(* lock keeps a load and its store together.                                 *)
LEMMA HandlerStep == ASSUME StInv, NEW t \in Threads, my_reset_handler(t) PROVE StInv'
<1>1. /\ UNCHANGED <<mask, ret, handler, mode, phase, testNo, mainNext, ssrCause, err>>
      /\ \/ mode[t] = "reset" /\ pc[t] = "func" /\ pc'[t] = "k0lock"
         \/ pc[t] = "k0lock" /\ pc'[t] = "store"
         \/ pc[t] = "store" /\ pc'[t] = "k0unlock"
         \/ pc[t] = "k0unlock" /\ pc'[t] = "stopped"
      /\ pc' = [pc EXCEPT ![t] = pc'[t]]
  BY DEF my_reset_handler, LogCause, LoadMask, StoreMask, UnlockAndStop, libVars, StInv, StTypes
<1>2. Tester' = Tester /\ Started' = Started
  BY <1>1, SameTester
<1>3. \A u \in Threads : u # t => pc'[u] = pc[u]
  BY <1>1 DEF StInv, StTypes
<1>4. t \in Started /\ t # Tester /\ t # Main
  <2>1. CASE pc[t] = "func" /\ mode[t] = "reset"
    <3>1. t # Main
      BY <2>1, Seats
    <3>2. phase[Tester] \in {"idle", "started", "joining"}
      BY Seats DEF StInv, StTypes
    <3>3. t # Tester
      BY <2>1, <3>1, <3>2 DEF StInv, MainWaits, Testing
    <3> QED
      BY <2>1, <3>1, <3>3 DEF StInv, Roster
  <2>2. CASE pc[t] # "func"
    BY <1>1, <2>2, Seats
  <2> QED
    BY <1>1, <2>1, <2>2, Seats
<1>5. phase[Tester] # "idle" /\ ~ (phase[Tester] = "joining" /\ pc[Tester] = "client")
  BY <1>1, <1>4 DEF StInv, Started, Testing
<1>6. Roster' /\ MainTests' /\ MainWaits' /\ Testing'
  BY <1>1, <1>2, <1>3, <1>4, <1>5, Seats DEF StInv, Roster, MainTests, MainWaits, Testing, TestMask
<1>7. Resetting' /\ Clean'
  BY <1>1, <1>2, <1>3, <1>4, Seats DEF StInv, Resetting, Clean, Logged, Workers
<1>8. ssr_cause_log[t] = (IF pc[t] \in Logged THEN RESET_CAUSE ELSE DUMMY_CAUSE) /\ ssrCause[t] = RESET_CAUSE
  BY <1>4, <1>5 DEF StInv, Reported, Resetting
<1>9. reset_mask \subseteq Threads
  BY <1>5, Seats DEF StInv, Reported, Workers
<1>10. CASE LogCause(t)
  <2>1. /\ pc[t] = "func" /\ pc'[t] = "k0lock"
        /\ ssr_cause_log' = [ssr_cause_log EXCEPT ![t] = ssrCause[t]]
        /\ UNCHANGED <<reset_mask, k0, tmp>>
    BY <1>10 DEF LogCause, StInv, StTypes
  <2>2. StTypes'
    BY <1>1, <2>1 DEF StInv, StTypes, Locations
  <2>3. MaskLock'
    BY <1>3, <2>1 DEF StInv, MaskLock
  <2>4. Reported'
    <3>1. {u \in Started : pc'[u] \in Stored} = {u \in Started : pc[u] \in Stored}
      BY <1>3, <1>4, <2>1, Seats DEF Stored, Workers
    <3>2. /\ ssr_cause_log'[t] = RESET_CAUSE /\ pc'[t] \in Logged
          /\ \A u \in Threads : u # t => ssr_cause_log'[u] = ssr_cause_log[u]
      BY <1>8, <2>1 DEF Logged, StInv, StTypes
    <3> QED
      BY <1>1, <1>2, <1>3, <1>4, <2>1, <3>1, <3>2 DEF StInv, Reported
  <2> QED
    BY <1>6, <1>7, <2>2, <2>3, <2>4 DEF StInv
<1>11. CASE LoadMask(t)
  <2>1. /\ pc[t] = "k0lock" /\ pc'[t] = "store" /\ k0 = NoThread /\ k0' = t
        /\ tmp' = [tmp EXCEPT ![t] = reset_mask]
        /\ UNCHANGED <<ssr_cause_log, reset_mask>>
    BY <1>11 DEF LoadMask, StInv, StTypes
  <2>2. StTypes'
    BY <1>1, <1>9, <2>1 DEF StInv, StTypes, Locations
  <2>3. MaskLock'
    BY <1>3, <2>1, NoThreadAssumption DEF StInv, MaskLock, StTypes
  <2>4. Reported'
    <3>1. {u \in Started : pc'[u] \in Stored} = {u \in Started : pc[u] \in Stored}
      BY <1>3, <1>4, <2>1, Seats DEF Stored, Workers
    <3>2. \A u \in Threads : pc'[u] \in Logged <=> pc[u] \in Logged
      BY <1>3, <2>1 DEF Logged
    <3> QED
      BY <1>1, <1>2, <2>1, <3>1, <3>2 DEF StInv, Reported
  <2> QED
    BY <1>6, <1>7, <2>2, <2>3, <2>4 DEF StInv
<1>12. CASE StoreMask(t)
  <2>1. /\ pc[t] = "store" /\ pc'[t] = "k0unlock" /\ reset_mask' = tmp[t] \cup {t}
        /\ UNCHANGED <<ssr_cause_log, k0, tmp>>
    BY <1>12 DEF StoreMask, StInv, StTypes
  <2>2. StTypes'
    BY <1>1, <2>1 DEF StInv, StTypes, Locations
  <2>3. tmp[t] = reset_mask /\ k0 = t
    BY <2>1 DEF StInv, MaskLock
  <2>4. MaskLock'
    BY <1>3, <2>1, <2>3 DEF StInv, MaskLock
  <2>5. Reported'
    <3>1. {u \in Started : pc'[u] \in Stored} = {u \in Started : pc[u] \in Stored} \cup {t}
      BY <1>3, <1>4, <2>1, Seats DEF Stored, Workers
    <3>2. \A u \in Threads : pc'[u] \in Logged <=> pc[u] \in Logged
      BY <1>3, <2>1 DEF Logged
    <3>3. reset_mask' = {u \in Started : pc'[u] \in Stored}
      BY <1>5, <2>1, <2>3, <3>1 DEF StInv, Reported
    <3> QED
      BY <1>1, <1>2, <2>1, <3>2, <3>3 DEF StInv, Reported
  <2> QED
    BY <1>6, <1>7, <2>2, <2>4, <2>5 DEF StInv
<1>13. CASE UnlockAndStop(t)
  <2>1. /\ pc[t] = "k0unlock" /\ pc'[t] = "stopped" /\ k0' = IF k0 = t THEN NoThread ELSE k0
        /\ UNCHANGED <<ssr_cause_log, reset_mask, tmp>>
    BY <1>13 DEF UnlockAndStop, StInv, StTypes
  <2>2. StTypes'
    BY <1>1, <2>1 DEF StInv, StTypes, Locations
  <2>3. MaskLock'
    BY <1>3, <2>1 DEF StInv, MaskLock
  <2>4. Reported'
    <3>1. {u \in Started : pc'[u] \in Stored} = {u \in Started : pc[u] \in Stored}
      BY <1>3, <1>4, <2>1, Seats DEF Stored, Workers
    <3>2. \A u \in Threads : pc'[u] \in Logged <=> pc[u] \in Logged
      BY <1>3, <2>1 DEF Logged
    <3> QED
      BY <1>1, <1>2, <2>1, <3>1, <3>2 DEF StInv, Reported
  <2> QED
    BY <1>6, <1>7, <2>2, <2>3, <2>4 DEF StInv
<1> QED
  BY <1>10, <1>11, <1>12, <1>13 DEF my_reset_handler

(* One tester at a time, whose started threads report in reset_mask and      *)
(* ssr_cause_log under the kernel lock, for any number of hardware threads.  *)
THEOREM StartTestInv == StartSpec => []StInv
<1>1. StInv /\ [StartNext]_allVars => StInv'
  <2> SUFFICES ASSUME StInv, [StartNext]_allVars PROVE StInv'
    OBVIOUS
  <2>1. CASE UNCHANGED allVars
    <3>1. UNCHANGED <<pc, mask, ret, handler, mode, phase, testNo, mainNext, ssrCause, ssr_cause_log,
                      reset_mask, k0, tmp, err>>
      BY <2>1 DEF allVars, vars, testVars
    <3>2. Tester' = Tester /\ Started' = Started
      BY <3>1, SameTester
    <3> QED
      BY <3>1, <3>2 DEF StInv, StTypes, Roster, MainTests, MainWaits, Testing, Resetting, MaskLock,
         Reported, Clean, TestMask
  <2> QED
    BY <2>1, ParkStep, LibraryStep, StartStep, JoinStep, FinishStep, MainNextStep, MainRunsStep,
       ReturnsStep, HandlerStep DEF StartNext, Thread, Exit
<1> QED
  BY InitStInv, <1>1, PTL DEF StartSpec

(* start.c's own check32 calls never fail: no started thread's bit is lost   *)
(* from reset_mask, and no thread outside the mask is touched.               *)
THEOREM StartChecksPass == StartSpec => []NoTestFailure
<1>1. StInv => NoTestFailure
  BY DEF StInv, Clean, NoTestFailure
<1> QED
  BY StartTestInv, <1>1, PTL

(* When the program ends every thread has run thread_func: crt0's handler is *)
(* back whenever main creates a thread.                                      *)
THEOREM EveryThreadTested == StartSpec => []AllThreadsTested
<1>1. StInv => AllThreadsTested
  <2> SUFFICES ASSUME StInv, Done, NEW t \in Threads PROVE testNo[t] = NumTests
    BY DEF AllThreadsTested
  <2>1. Cardinality(Threads) \in Nat \ {0}
    BY Numbers
  <2>2. Tester = Cardinality(Threads) - 1 /\ t \in Nat /\ t <= Tester
    BY <2>1, Numbers DEF Done, Tester
  <2>3. testNo[Tester] = NumTests
    BY <2>1, <2>2, NumberingAssumption DEF StInv, MainTests, MainWaits, Done
  <2> QED
    BY <2>2, <2>3, Seats DEF StInv, Roster
<1> QED
  BY StartTestInv, <1>1, PTL
=============================================================================
