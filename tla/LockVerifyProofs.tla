---------------------------- MODULE LockVerifyProofs ----------------------------
(* lock_verify.c: the checks of its multi-thread tests, for any number of     *)
(* waiters, iterations and software interrupts.                               *)
EXTENDS LockVerify, FiniteSetTheorems, TLAPS

(* Where a worker holds the lock under test.                                 *)
InSection == {"load", "store", "unlock", "ready", "hold", "delay"}
Locks == {"k0", "tlb"}

Types ==
    /\ step \in 1 .. Len(Plan) + 1
    /\ mpc \in {"setup", "fire", "holder", "waiters", "stallFire", "endPhase", "complete", "join"}
    /\ mpc # "setup" => ~Done
    /\ swis \in Nat
    /\ owner \in [Locks -> Workers \cup {NoThread}]
    /\ pc \in [Workers -> {"stopped", "lock", "mask", "signal"} \cup InSection]
    /\ iter \in [Workers -> Nat] /\ temp \in [Workers -> Nat] /\ shared_counter \in Nat
    /\ pend \in BOOLEAN /\ iad \in BOOLEAN
    /\ isr \in [Workers -> {"no", "enter", "write"}]
    /\ reg \in [Workers -> Nat] /\ syscfg \in [Workers -> BOOLEAN]
    /\ isr_count \in Nat /\ isr_set_count \in Nat /\ taken \in Nat /\ takenByOwner \in Nat
    /\ isr_while_pended \in Nat /\ stall_isr_htid \in [Workers -> Nat]

(* The lock under test is held exactly by the worker in its section; the     *)
(* other lock is free.                                                       *)
LockOwned ==
    /\ \A w \in Workers : pc[w] \in InSection => ~Done /\ owner[Lock] = w
    /\ \A l \in Locks : owner[l] # NoThread => ~Done /\ l = Lock /\ pc[owner[l]] \in InSection

(* IAD is set exactly while a handler runs, and only one runs, on a worker   *)
(* that has not stopped.                                                     *)
OneHandler ==
    /\ \A w \in Workers : isr[w] # "no" => iad /\ pc[w] # "stopped"
    /\ \A v, w \in Workers : isr[v] # "no" /\ isr[w] # "no" => v = w
    /\ iad => \E w \in Workers : isr[w] # "no"

(* Nothing of a test is left over when the next one starts.                  *)
CleanStart ==
    mpc = "setup" => /\ ~pend /\ taken = 0 /\ takenByOwner = 0
                     /\ \A w \in Workers : pc[w] = "stopped"

(* The sections that have been executed, by worker and iteration.            *)
Sections == {x \in Workers \X (1 .. ITERATIONS) : x[2] <= iter[x[1]]}

(* The counting tests: what a worker has loaded is still the counter's       *)
(* value, and the counter is the number of sections executed.                *)
Counting ==
    mpc # "setup" /\ Test # "stall" =>
        /\ mpc \in {"fire", "join"} /\ (mpc = "fire" => Test = "intr")
        /\ \A w \in Workers :
             /\ pc[w] \in {"lock", "load", "store", "unlock", "stopped"}
             /\ iter[w] <= ITERATIONS
             /\ pc[w] \in {"lock", "load", "store"} => iter[w] < ITERATIONS
             /\ pc[w] = "stopped" => iter[w] = ITERATIONS
             /\ pc[w] = "store" => temp[w] = shared_counter
        /\ shared_counter = Cardinality(Sections)
        /\ Test = "mutex" => ~pend

(* With interrupts: a SWI is pending or was taken, and a pending one finds a *)
(* worker that has not passed its last delay.                                *)
Interrupted ==
    mpc # "setup" /\ Test = "intr" =>
        /\ mpc = "fire" => \A w \in Workers : iter[w] < ITERATIONS
        /\ mpc = "join" => pend \/ taken > 0
        /\ mpc = "join" /\ pend =>
             /\ \E w \in Workers : iter[w] < ITERATIONS
             /\ \A w \in Workers : isr[w] # "no" => iter[w] < ITERATIONS

(* A handler that will find the lock set.                                    *)
SeesLock ==
    \E w \in Workers : \/ isr[w] = "enter" /\ owner[Lock] = w
                       \/ isr[w] = "write" /\ syscfg[w]

(* The handler's counts lag behind the deliveries by the handler that runs.  *)
Counts ==
    mpc # "setup" /\ Test = "intr" =>
        /\ taken = isr_count + IF iad THEN 1 ELSE 0
        /\ \A w \in Workers : isr[w] = "write" => reg[w] = isr_count
        /\ isr_set_count <= isr_count
        /\ takenByOwner <= isr_set_count + IF SeesLock THEN 1 ELSE 0

(* The stall tests: until Main joins, the holder sits on the lock, masked,   *)
(* and no handler runs; from then on pended SWIs go to the waiters.          *)
Stalling ==
    mpc # "setup" /\ Test = "stall" =>
        /\ mpc \in {"holder", "waiters", "stallFire", "endPhase", "complete", "join"}
        /\ isr[Holder] = "no" /\ stall_isr_htid[Holder] = 0 /\ isr_while_pended = 0
        /\ pc[Holder] = "mask" \/ Holder \in masked
        /\ mpc # "join" => ~iad /\ ~swis_complete
        /\ mpc \in {"holder", "waiters"} => ~pend
        /\ mpc = "holder" => /\ pc[Holder] \in {"mask", "lock", "ready", "hold"}
                             /\ holder_ready => pc[Holder] = "hold"
                             /\ \A w \in Waiters : pc[w] = "stopped"
        /\ mpc = "waiters" => pc[Holder] = "hold" /\ \A w \in Waiters : pc[w] \in {"signal", "lock"}
        /\ mpc \in {"stallFire", "endPhase", "complete"} =>
             pc[Holder] = "hold" /\ \A w \in Waiters : pc[w] = "lock"
        /\ mpc \in {"endPhase", "complete"} => pend
        /\ mpc \in {"complete", "join"} => ~stall_phase
        /\ mpc = "join" =>
             /\ pc[Holder] \in {"hold", "unlock", "stopped"}
             /\ \A w \in Waiters : pc[w] \in {"lock", "delay", "unlock", "stopped"}
             /\ pend => ~iad /\ \A w \in Waiters : pc[w] \in {"lock", "delay"}
             /\ pend \/ iad \/ \E w \in Waiters : stall_isr_htid[w] # 0

LvInv == /\ Types /\ LockOwned /\ OneHandler /\ CleanStart /\ Counting /\ Interrupted
         /\ Counts /\ Stalling
-----------------------------------------------------------------------------
LEMMA SameStep ==
  ASSUME UNCHANGED step
  PROVE  Test' = Test /\ Lock' = Lock /\ (Done' <=> Done)
BY DEF Test, Lock, Done

(* Every entry of the plan is one of the three tests, on one of the locks.   *)
LEMMA TestTypes ==
  ASSUME step \in 1 .. Len(Plan) + 1, ~Done
  PROVE  Test \in {"mutex", "intr", "stall"} /\ Lock \in Locks
<1>1. step \in 1 .. 6
  BY DEF Plan, Done
<1> QED
  BY <1>1 DEF Plan, Test, Lock, Locks

LEMMA NextCases ==
  ASSUME Next
  PROVE  \/ StartCounting \/ Fire \/ stall_test_setup \/ StartWaiters \/ StartFiring
         \/ StallFire \/ EndFiring \/ Join \/ UNCHANGED vars
         \/ \E w \in Workers : Acquire(w)
         \/ \E w \in Workers : Load(w)
         \/ \E w \in Workers : Store(w)
         \/ \E w \in Workers : Release(w)
         \/ \E w \in Workers : HolderMasks(w)
         \/ \E w \in Workers : HolderReady(w)
         \/ \E w \in Workers : HolderDone(w)
         \/ \E w \in Workers : WaiterSignals(w)
         \/ \E w \in Workers : WaiterDelays(w)
         \/ \E w \in Workers : Deliver(w)
         \/ \E w \in Workers : HandlerReads(w)
         \/ \E w \in Workers : HandlerWrites(w)
BY DEF Next, MainNext, Finished, Worker, Handler

(* The sections executed are a finite set that grows by one with each store. *)
LEMMA SameSections == ASSUME UNCHANGED iter PROVE Sections' = Sections
BY DEF Sections

LEMMA WorkersFinite == IsFiniteSet(Workers)
BY ThreadAssumption, FS_AddElement DEF Workers

LEMMA SectionsFinite ==
  /\ IsFiniteSet(Workers \X (1 .. ITERATIONS))
  /\ Cardinality(Workers \X (1 .. ITERATIONS)) = COMPUTE_THREADS * ITERATIONS
  /\ IsFiniteSet(Sections)
<1>1. IsFiniteSet(1 .. ITERATIONS) /\ Cardinality(1 .. ITERATIONS) = ITERATIONS
  <2>1. /\ IsFiniteSet(1 .. ITERATIONS)
        /\ Cardinality(1 .. ITERATIONS) = IF 1 > ITERATIONS THEN 0 ELSE ITERATIONS - 1 + 1
    BY FS_Interval, BoundAssumption
  <2> QED
    BY <2>1, BoundAssumption
<1>2. /\ IsFiniteSet(Workers \X (1 .. ITERATIONS))
      /\ Cardinality(Workers \X (1 .. ITERATIONS))
           = Cardinality(Workers) * Cardinality(1 .. ITERATIONS)
  BY <1>1, WorkersFinite, FS_Product
<1>3. Sections \subseteq Workers \X (1 .. ITERATIONS)
  BY DEF Sections
<1> QED
  BY <1>1, <1>2, <1>3, FS_Subset DEF COMPUTE_THREADS

LEMMA NoSections ==
  ASSUME \A w \in Workers : iter'[w] = 0
  PROVE  Cardinality(Sections') = 0
<1>1. Sections' = {}
  BY DEF Sections
<1> QED
  BY <1>1, FS_EmptySet

LEMMA AllSections ==
  ASSUME \A w \in Workers : iter[w] = ITERATIONS
  PROVE  Cardinality(Sections) = COMPUTE_THREADS * ITERATIONS
<1>1. Sections = Workers \X (1 .. ITERATIONS)
  BY BoundAssumption DEF Sections
<1> QED
  BY <1>1, SectionsFinite

LEMMA OneMoreSection ==
  ASSUME iter \in [Workers -> Nat], NEW w \in Workers, iter[w] < ITERATIONS,
         iter' = [iter EXCEPT ![w] = @ + 1]
  PROVE  Cardinality(Sections') = Cardinality(Sections) + 1
<1>1. Sections' = Sections \cup {<<w, iter[w] + 1>>}
  BY BoundAssumption DEF Sections
<1>2. <<w, iter[w] + 1>> \notin Sections
  BY DEF Sections
<1> QED
  BY <1>1, <1>2, SectionsFinite, FS_AddElement

LEMMA SameSees ==
  ASSUME UNCHANGED <<step, isr, owner, syscfg>>
  PROVE  SeesLock' <=> SeesLock
BY SameStep DEF SeesLock

LEMMA TypesStep == LvInv /\ [Next]_vars => Types'
<1> SUFFICES ASSUME LvInv, [Next]_vars PROVE Types'
  OBVIOUS
<1> USE ThreadAssumption, BoundAssumption DEF LvInv, Types, Locks, InSection, Workers,
    Threads, mainVars, workVars, intVars, isrVars, counts, testVars
<1>1. CASE StartCounting
  BY <1>1, SameStep, TestTypes DEF StartCounting, StartThreads, ResetCounter
<1>2. CASE Fire
  BY <1>2, SameStep, TestTypes DEF Fire
<1>3. CASE stall_test_setup
  BY <1>3, SameStep, TestTypes DEF stall_test_setup, StartThreads
<1>4. CASE StartWaiters
  BY <1>4, SameStep, TestTypes DEF StartWaiters, StartThreads
<1>5. CASE StartFiring
  BY <1>5, SameStep, TestTypes DEF StartFiring
<1>6. CASE StallFire
  BY <1>6, SameStep, TestTypes DEF StallFire
<1>7. CASE EndFiring
  BY <1>7, SameStep, TestTypes DEF EndFiring
<1>8. CASE Join
  <2>1. step \in 1 .. 6 /\ Len(Plan) = 6
    BY <1>8 DEF Join, Done, Plan
  <2> QED
    BY <1>8, <2>1 DEF Join
<1>9. ASSUME NEW w \in Workers, Acquire(w) PROVE Types'
  BY <1>9, SameStep, TestTypes DEF Acquire, Runs, Goto, AcquiredBy
<1>10. ASSUME NEW w \in Workers, Load(w) PROVE Types'
  BY <1>10, SameStep, TestTypes DEF Load, Runs, Goto
<1>11. ASSUME NEW w \in Workers, Store(w) PROVE Types'
  <2>1. temp[w] + 1 \in Nat /\ iter[w] + 1 \in Nat
    OBVIOUS
  <2> QED
    BY <1>11, <2>1, SameStep DEF Store, Runs, Goto
<1>12. ASSUME NEW w \in Workers, Release(w) PROVE Types'
  BY <1>12, SameStep, TestTypes DEF Release, Runs, Goto
<1>13. ASSUME NEW w \in Workers, HolderMasks(w) PROVE Types'
  BY <1>13, SameStep, TestTypes DEF HolderMasks, Runs, Goto
<1>14. ASSUME NEW w \in Workers, HolderReady(w) PROVE Types'
  BY <1>14, SameStep, TestTypes DEF HolderReady, Runs, Goto
<1>15. ASSUME NEW w \in Workers, HolderDone(w) PROVE Types'
  BY <1>15, SameStep, TestTypes DEF HolderDone, Runs, Goto
<1>16. ASSUME NEW w \in Workers, WaiterSignals(w) PROVE Types'
  BY <1>16, SameStep, TestTypes DEF WaiterSignals, Runs, Goto
<1>17. ASSUME NEW w \in Workers, WaiterDelays(w) PROVE Types'
  BY <1>17, SameStep, TestTypes DEF WaiterDelays, Runs, Goto, LongDelay
<1>18. ASSUME NEW w \in Workers, Deliver(w) PROVE Types'
  <2>1. taken' \in Nat /\ takenByOwner' \in Nat
    BY <1>18 DEF Deliver
  <2>2. isr' \in [Workers -> {"no", "enter", "write"}]
    BY <1>18 DEF Deliver
  <2> QED
    BY <1>18, <2>1, <2>2, SameStep DEF Deliver
<1>19. ASSUME NEW w \in Workers, HandlerReads(w) PROVE Types'
  BY <1>19, SameStep, TestTypes DEF HandlerReads
<1>20. ASSUME NEW w \in Workers, HandlerWrites(w) PROVE Types'
  <2>1. isr_count' \in Nat /\ isr_set_count' \in Nat
    <3>1. reg[w] + 1 \in Nat /\ isr_set_count + (IF syscfg[w] THEN 1 ELSE 0) \in Nat
      OBVIOUS
    <3> QED
      BY <1>20, <3>1 DEF HandlerWrites
  <2>2. isr_while_pended' \in Nat /\ stall_isr_htid' \in [Workers -> Nat]
    <3>1. stall_isr_htid[w] + 1 \in Nat /\ isr_while_pended + (IF stall_phase THEN 1 ELSE 0) \in Nat
      OBVIOUS
    <3> QED
      BY <1>20, <3>1 DEF HandlerWrites
  <2> QED
    BY <1>20, <2>1, <2>2, SameStep DEF HandlerWrites
<1>21. CASE UNCHANGED vars
  BY <1>21, SameStep DEF vars
<1> QED
  BY NextCases, <1>1, <1>2, <1>3, <1>4, <1>5, <1>6, <1>7, <1>8, <1>9, <1>10, <1>11, <1>12,
      <1>13, <1>14, <1>15, <1>16, <1>17, <1>18, <1>19, <1>20, <1>21

LEMMA LockStep == LvInv /\ [Next]_vars => LockOwned'
<1> SUFFICES ASSUME LvInv, [Next]_vars PROVE LockOwned'
  OBVIOUS
<1> USE ThreadAssumption, BoundAssumption DEF LvInv, Types, Locks, InSection, Workers,
    Threads, mainVars, workVars, intVars, isrVars, counts, testVars, LockOwned, CleanStart
<1>1. CASE StartCounting
  BY <1>1, SameStep, TestTypes DEF StartCounting, StartThreads, ResetCounter
<1>2. CASE Fire
  BY <1>2, SameStep, TestTypes DEF Fire
<1>3. CASE stall_test_setup
  BY <1>3, SameStep, TestTypes DEF stall_test_setup, StartThreads
<1>4. CASE StartWaiters
  <2>1. mpc = "holder" /\ Test = "stall" /\ \A w \in Waiters : pc[w] = "stopped"
    BY <1>4, TestTypes DEF StartWaiters, Counting, Stalling
  <2>2. \A w \in Waiters : pc'[w] = "signal"
    BY <1>4 DEF StartWaiters, StartThreads
  <2>3. pc'[Holder] = pc[Holder]
    BY <1>4 DEF StartWaiters, StartThreads
  <2> QED
    BY <1>4, <2>1, <2>2, <2>3, SameStep DEF StartWaiters
<1>5. CASE StartFiring
  BY <1>5, SameStep, TestTypes DEF StartFiring
<1>6. CASE StallFire
  BY <1>6, SameStep, TestTypes DEF StallFire
<1>7. CASE EndFiring
  BY <1>7, SameStep, TestTypes DEF EndFiring
<1>8. CASE Join
  BY <1>8, SameStep, TestTypes DEF Join
<1>9. ASSUME NEW w \in Workers, Acquire(w) PROVE LockOwned'
  BY <1>9, SameStep, TestTypes DEF Acquire, Runs, Goto, AcquiredBy
<1>10. ASSUME NEW w \in Workers, Load(w) PROVE LockOwned'
  BY <1>10, SameStep, TestTypes DEF Load, Runs, Goto
<1>11. ASSUME NEW w \in Workers, Store(w) PROVE LockOwned'
  BY <1>11, SameStep, TestTypes DEF Store, Runs, Goto, LongDelay
<1>12. ASSUME NEW w \in Workers, Release(w) PROVE LockOwned'
  BY <1>12, SameStep, TestTypes DEF Release, Runs, Goto
<1>13. ASSUME NEW w \in Workers, HolderMasks(w) PROVE LockOwned'
  BY <1>13, SameStep, TestTypes DEF HolderMasks, Runs, Goto
<1>14. ASSUME NEW w \in Workers, HolderReady(w) PROVE LockOwned'
  BY <1>14, SameStep, TestTypes DEF HolderReady, Runs, Goto
<1>15. ASSUME NEW w \in Workers, HolderDone(w) PROVE LockOwned'
  BY <1>15, SameStep, TestTypes DEF HolderDone, Runs, Goto
<1>16. ASSUME NEW w \in Workers, WaiterSignals(w) PROVE LockOwned'
  BY <1>16, SameStep, TestTypes DEF WaiterSignals, Runs, Goto
<1>17. ASSUME NEW w \in Workers, WaiterDelays(w) PROVE LockOwned'
  BY <1>17, SameStep, TestTypes DEF WaiterDelays, Runs, Goto, LongDelay
<1>18. ASSUME NEW w \in Workers, Deliver(w) PROVE LockOwned'
  BY <1>18, SameStep, TestTypes DEF Deliver, Stalled
<1>19. ASSUME NEW w \in Workers, HandlerReads(w) PROVE LockOwned'
  BY <1>19, SameStep, TestTypes DEF HandlerReads
<1>20. ASSUME NEW w \in Workers, HandlerWrites(w) PROVE LockOwned'
  BY <1>20, SameStep, TestTypes DEF HandlerWrites
<1>21. CASE UNCHANGED vars
  BY <1>21, SameStep DEF vars
<1> QED
  BY NextCases, <1>1, <1>2, <1>3, <1>4, <1>5, <1>6, <1>7, <1>8, <1>9, <1>10, <1>11, <1>12,
      <1>13, <1>14, <1>15, <1>16, <1>17, <1>18, <1>19, <1>20, <1>21

LEMMA HandlerStep == LvInv /\ [Next]_vars => OneHandler'
<1> SUFFICES ASSUME LvInv, [Next]_vars PROVE OneHandler'
  OBVIOUS
<1> USE ThreadAssumption, BoundAssumption DEF LvInv, Types, Locks, InSection, Workers,
    Threads, mainVars, workVars, intVars, isrVars, counts, testVars, OneHandler,
    CleanStart, Stalling
<1>1. CASE StartCounting
  BY <1>1, SameStep, TestTypes DEF StartCounting, StartThreads, ResetCounter
<1>2. CASE Fire
  BY <1>2, SameStep, TestTypes DEF Fire
<1>3. CASE stall_test_setup
  BY <1>3, SameStep, TestTypes DEF stall_test_setup, StartThreads
<1>4. CASE StartWaiters
  BY <1>4, SameStep, TestTypes DEF StartWaiters, StartThreads
<1>5. CASE StartFiring
  BY <1>5, SameStep, TestTypes DEF StartFiring
<1>6. CASE StallFire
  BY <1>6, SameStep, TestTypes DEF StallFire
<1>7. CASE EndFiring
  BY <1>7, SameStep, TestTypes DEF EndFiring
<1>8. CASE Join
  BY <1>8, SameStep, TestTypes DEF Join
<1>9. ASSUME NEW w \in Workers, Acquire(w) PROVE OneHandler'
  BY <1>9, SameStep, TestTypes DEF Acquire, Runs, Goto, AcquiredBy
<1>10. ASSUME NEW w \in Workers, Load(w) PROVE OneHandler'
  BY <1>10, SameStep, TestTypes DEF Load, Runs, Goto
<1>11. ASSUME NEW w \in Workers, Store(w) PROVE OneHandler'
  BY <1>11, SameStep, TestTypes DEF Store, Runs, Goto, LongDelay
<1>12. ASSUME NEW w \in Workers, Release(w) PROVE OneHandler'
  BY <1>12, SameStep, TestTypes DEF Release, Runs, Goto
<1>13. ASSUME NEW w \in Workers, HolderMasks(w) PROVE OneHandler'
  BY <1>13, SameStep, TestTypes DEF HolderMasks, Runs, Goto
<1>14. ASSUME NEW w \in Workers, HolderReady(w) PROVE OneHandler'
  BY <1>14, SameStep, TestTypes DEF HolderReady, Runs, Goto
<1>15. ASSUME NEW w \in Workers, HolderDone(w) PROVE OneHandler'
  BY <1>15, SameStep, TestTypes DEF HolderDone, Runs, Goto
<1>16. ASSUME NEW w \in Workers, WaiterSignals(w) PROVE OneHandler'
  BY <1>16, SameStep, TestTypes DEF WaiterSignals, Runs, Goto
<1>17. ASSUME NEW w \in Workers, WaiterDelays(w) PROVE OneHandler'
  BY <1>17, SameStep, TestTypes DEF WaiterDelays, Runs, Goto, LongDelay
<1>18. ASSUME NEW w \in Workers, Deliver(w) PROVE OneHandler'
  BY <1>18, SameStep, TestTypes DEF Deliver, Stalled
<1>19. ASSUME NEW w \in Workers, HandlerReads(w) PROVE OneHandler'
  BY <1>19, SameStep, TestTypes DEF HandlerReads
<1>20. ASSUME NEW w \in Workers, HandlerWrites(w) PROVE OneHandler'
  BY <1>20, SameStep, TestTypes DEF HandlerWrites
<1>21. CASE UNCHANGED vars
  BY <1>21, SameStep DEF vars
<1> QED
  BY NextCases, <1>1, <1>2, <1>3, <1>4, <1>5, <1>6, <1>7, <1>8, <1>9, <1>10, <1>11, <1>12,
      <1>13, <1>14, <1>15, <1>16, <1>17, <1>18, <1>19, <1>20, <1>21

LEMMA CleanStep == LvInv /\ [Next]_vars => CleanStart'
<1> SUFFICES ASSUME LvInv, [Next]_vars PROVE CleanStart'
  OBVIOUS
<1> USE ThreadAssumption, BoundAssumption DEF LvInv, Types, Locks, InSection, Workers,
    Threads, mainVars, workVars, intVars, isrVars, counts, testVars, CleanStart,
    OneHandler, Interrupted, Stalling, Counting
<1>1. CASE StartCounting
  BY <1>1, SameStep, TestTypes DEF StartCounting, StartThreads, ResetCounter
<1>2. CASE Fire
  BY <1>2, SameStep, TestTypes DEF Fire
<1>3. CASE stall_test_setup
  BY <1>3, SameStep, TestTypes DEF stall_test_setup, StartThreads
<1>4. CASE StartWaiters
  BY <1>4, SameStep, TestTypes DEF StartWaiters, StartThreads
<1>5. CASE StartFiring
  BY <1>5, SameStep, TestTypes DEF StartFiring
<1>6. CASE StallFire
  BY <1>6, SameStep, TestTypes DEF StallFire
<1>7. CASE EndFiring
  BY <1>7, SameStep, TestTypes DEF EndFiring
<1>8. CASE Join
  <2>1. \A w \in Workers : pc[w] = "stopped" /\ isr[w] = "no"
    BY <1>8 DEF Join
  <2>2. Waiters # {} /\ Test \in {"mutex", "intr", "stall"}
    BY <1>8, TestTypes DEF Join
  <2>3. CASE Test = "mutex"
    BY <1>8, <2>3 DEF Join
  <2>4. CASE Test = "intr"
    <3>1. \A w \in Workers : iter[w] = ITERATIONS
      BY <1>8, <2>1, <2>4 DEF Join
    <3> QED
      BY <1>8, <3>1, <2>1, <2>4 DEF Join
  <2>5. CASE Test = "stall"
    BY <1>8, <2>1, <2>2, <2>5 DEF Join
  <2> QED
    BY <2>2, <2>3, <2>4, <2>5
<1>9. ASSUME NEW w \in Workers, Acquire(w) PROVE CleanStart'
  BY <1>9, SameStep, TestTypes DEF Acquire, Runs, Goto, AcquiredBy
<1>10. ASSUME NEW w \in Workers, Load(w) PROVE CleanStart'
  BY <1>10, SameStep, TestTypes DEF Load, Runs, Goto
<1>11. ASSUME NEW w \in Workers, Store(w) PROVE CleanStart'
  BY <1>11, SameStep, TestTypes DEF Store, Runs, Goto, LongDelay
<1>12. ASSUME NEW w \in Workers, Release(w) PROVE CleanStart'
  BY <1>12, SameStep, TestTypes DEF Release, Runs, Goto
<1>13. ASSUME NEW w \in Workers, HolderMasks(w) PROVE CleanStart'
  BY <1>13, SameStep, TestTypes DEF HolderMasks, Runs, Goto
<1>14. ASSUME NEW w \in Workers, HolderReady(w) PROVE CleanStart'
  BY <1>14, SameStep, TestTypes DEF HolderReady, Runs, Goto
<1>15. ASSUME NEW w \in Workers, HolderDone(w) PROVE CleanStart'
  BY <1>15, SameStep, TestTypes DEF HolderDone, Runs, Goto
<1>16. ASSUME NEW w \in Workers, WaiterSignals(w) PROVE CleanStart'
  BY <1>16, SameStep, TestTypes DEF WaiterSignals, Runs, Goto
<1>17. ASSUME NEW w \in Workers, WaiterDelays(w) PROVE CleanStart'
  BY <1>17, SameStep, TestTypes DEF WaiterDelays, Runs, Goto, LongDelay
<1>18. ASSUME NEW w \in Workers, Deliver(w) PROVE CleanStart'
  BY <1>18, SameStep, TestTypes DEF Deliver, Stalled
<1>19. ASSUME NEW w \in Workers, HandlerReads(w) PROVE CleanStart'
  BY <1>19, SameStep, TestTypes DEF HandlerReads
<1>20. ASSUME NEW w \in Workers, HandlerWrites(w) PROVE CleanStart'
  BY <1>20, SameStep, TestTypes DEF HandlerWrites
<1>21. CASE UNCHANGED vars
  BY <1>21, SameStep DEF vars
<1> QED
  BY NextCases, <1>1, <1>2, <1>3, <1>4, <1>5, <1>6, <1>7, <1>8, <1>9, <1>10, <1>11, <1>12,
      <1>13, <1>14, <1>15, <1>16, <1>17, <1>18, <1>19, <1>20, <1>21

LEMMA CountingStep == LvInv /\ [Next]_vars => Counting'
<1> SUFFICES ASSUME LvInv, [Next]_vars PROVE Counting'
  OBVIOUS
<1> USE ThreadAssumption, BoundAssumption DEF LvInv, Types, Locks, InSection, Workers,
    Threads, mainVars, workVars, intVars, isrVars, counts, testVars, Counting, LockOwned,
    CleanStart
<1>1. CASE StartCounting
  <2>1. Cardinality(Sections') = 0
    BY <1>1, NoSections DEF StartCounting, StartThreads
  <2> QED
    BY <1>1, <2>1, SameStep, TestTypes DEF StartCounting, StartThreads, ResetCounter
<1>2. CASE Fire
  BY <1>2, SameStep, TestTypes, SameSections DEF Fire
<1>3. CASE stall_test_setup
  BY <1>3, SameStep, TestTypes, SameSections DEF stall_test_setup, StartThreads
<1>4. CASE StartWaiters
  BY <1>4, SameStep, TestTypes, SameSections DEF StartWaiters, StartThreads
<1>5. CASE StartFiring
  BY <1>5, SameStep, TestTypes, SameSections DEF StartFiring
<1>6. CASE StallFire
  BY <1>6, SameStep, TestTypes, SameSections DEF StallFire
<1>7. CASE EndFiring
  BY <1>7, SameStep, TestTypes, SameSections DEF EndFiring
<1>8. CASE Join
  BY <1>8, SameStep, TestTypes, SameSections DEF Join
<1>9. ASSUME NEW w \in Workers, Acquire(w) PROVE Counting'
  BY <1>9, SameStep, TestTypes, SameSections DEF Acquire, Runs, Goto, AcquiredBy
<1>10. ASSUME NEW w \in Workers, Load(w) PROVE Counting'
  BY <1>10, SameStep, TestTypes, SameSections DEF Load, Runs, Goto
<1>11. ASSUME NEW w \in Workers, Store(w) PROVE Counting'
  <2>1. CASE Test # "stall"
    <3>1. iter[w] < ITERATIONS
      BY <1>11, <2>1 DEF Store, Runs
    <3>2. Cardinality(Sections') = Cardinality(Sections) + 1
      BY <1>11, <3>1, OneMoreSection DEF Store
    <3>3. \A v \in Workers \ {w} : pc[v] # "store"
      BY <1>11 DEF Store, Runs
    <3>4. mpc # "setup" /\ shared_counter' = Cardinality(Sections')
      BY <1>11, <2>1, <3>2 DEF Store, Runs
    <3>5. ASSUME NEW v \in Workers
          PROVE  /\ pc'[v] \in {"lock", "load", "store", "unlock", "stopped"}
                 /\ iter'[v] <= ITERATIONS
                 /\ pc'[v] \in {"lock", "load", "store"} => iter'[v] < ITERATIONS
                 /\ pc'[v] = "stopped" => iter'[v] = ITERATIONS
                 /\ pc'[v] # "store"
      <4>1. /\ iter'[v] = IF v = w THEN iter[w] + 1 ELSE iter[v]
            /\ pc'[v] = IF v = w THEN "unlock" ELSE pc[v]
        BY <1>11 DEF Store, Goto
      <4> QED
        BY <2>1, <3>1, <3>3, <3>4, <4>1
    <3> QED
      BY <1>11, <2>1, <3>4, <3>5, SameStep DEF Store
  <2>2. CASE Test = "stall"
    BY <1>11, <2>2, SameStep DEF Store, Runs, Goto, LongDelay
  <2> QED
    BY <2>1, <2>2
<1>12. ASSUME NEW w \in Workers, Release(w) PROVE Counting'
  BY <1>12, SameStep, TestTypes, SameSections DEF Release, Runs, Goto
<1>13. ASSUME NEW w \in Workers, HolderMasks(w) PROVE Counting'
  BY <1>13, SameStep, TestTypes, SameSections DEF HolderMasks, Runs, Goto
<1>14. ASSUME NEW w \in Workers, HolderReady(w) PROVE Counting'
  BY <1>14, SameStep, TestTypes, SameSections DEF HolderReady, Runs, Goto
<1>15. ASSUME NEW w \in Workers, HolderDone(w) PROVE Counting'
  BY <1>15, SameStep, TestTypes, SameSections DEF HolderDone, Runs, Goto
<1>16. ASSUME NEW w \in Workers, WaiterSignals(w) PROVE Counting'
  BY <1>16, SameStep, TestTypes, SameSections DEF WaiterSignals, Runs, Goto
<1>17. ASSUME NEW w \in Workers, WaiterDelays(w) PROVE Counting'
  BY <1>17, SameStep, TestTypes, SameSections DEF WaiterDelays, Runs, Goto, LongDelay
<1>18. ASSUME NEW w \in Workers, Deliver(w) PROVE Counting'
  BY <1>18, SameStep, TestTypes, SameSections DEF Deliver, Stalled
<1>19. ASSUME NEW w \in Workers, HandlerReads(w) PROVE Counting'
  BY <1>19, SameStep, TestTypes, SameSections DEF HandlerReads
<1>20. ASSUME NEW w \in Workers, HandlerWrites(w) PROVE Counting'
  BY <1>20, SameStep, TestTypes, SameSections DEF HandlerWrites
<1>21. CASE UNCHANGED vars
  BY <1>21, SameStep, SameSections DEF vars
<1> QED
  BY NextCases, <1>1, <1>2, <1>3, <1>4, <1>5, <1>6, <1>7, <1>8, <1>9, <1>10, <1>11, <1>12,
      <1>13, <1>14, <1>15, <1>16, <1>17, <1>18, <1>19, <1>20, <1>21

LEMMA InterruptedStep == LvInv /\ [Next]_vars => Interrupted'
<1> SUFFICES ASSUME LvInv, [Next]_vars PROVE Interrupted'
  OBVIOUS
<1> USE ThreadAssumption, BoundAssumption DEF LvInv, Types, Locks, InSection, Workers,
    Threads, mainVars, workVars, intVars, isrVars, counts, testVars, Interrupted,
    Counting, OneHandler, CleanStart
<1>1. CASE StartCounting
  BY <1>1, SameStep, TestTypes DEF StartCounting, StartThreads, ResetCounter
<1>2. CASE Fire
  BY <1>2, SameStep, TestTypes DEF Fire
<1>3. CASE stall_test_setup
  BY <1>3, SameStep, TestTypes DEF stall_test_setup, StartThreads
<1>4. CASE StartWaiters
  BY <1>4, SameStep, TestTypes DEF StartWaiters, StartThreads
<1>5. CASE StartFiring
  BY <1>5, SameStep, TestTypes DEF StartFiring
<1>6. CASE StallFire
  BY <1>6, SameStep, TestTypes DEF StallFire
<1>7. CASE EndFiring
  BY <1>7, SameStep, TestTypes DEF EndFiring
<1>8. CASE Join
  BY <1>8, SameStep, TestTypes DEF Join
<1>9. ASSUME NEW w \in Workers, Acquire(w) PROVE Interrupted'
  BY <1>9, SameStep, TestTypes DEF Acquire, Runs, Goto, AcquiredBy
<1>10. ASSUME NEW w \in Workers, Load(w) PROVE Interrupted'
  BY <1>10, SameStep, TestTypes DEF Load, Runs, Goto
<1>11. ASSUME NEW w \in Workers, Store(w) PROVE Interrupted'
  <2>1. CASE iter[w] + 1 = ITERATIONS /\ Test = "intr"
    <3>1. mpc = "join" /\ ~(pend /\ ~iad) /\ isr[w] = "no"
      BY <1>11, <2>1 DEF Store, Runs, Goto, LongDelay
    <3>2. pend => \E v \in Workers : v # w /\ isr[v] # "no"
      BY <3>1
    <3>3. \A v \in Workers \ {w} : iter'[v] = iter[v]
      BY <1>11 DEF Store
    <3> QED
      BY <1>11, <2>1, <3>1, <3>2, <3>3, SameStep DEF Store
  <2>2. CASE iter[w] + 1 # ITERATIONS /\ Test = "intr"
    <3>1. mpc # "setup" /\ iter[w] < ITERATIONS
      BY <1>11, <2>2 DEF Store, Runs, Goto, LongDelay
    <3>2. iter'[w] < ITERATIONS /\ \A v \in Workers \ {w} : iter'[v] = iter[v]
      <4>1. iter' = [iter EXCEPT ![w] = iter[w] + 1]
        BY <1>11 DEF Store
      <4>2. iter[w] \in Nat /\ ITERATIONS \in Nat
        OBVIOUS
      <4>3. iter[w] + 1 < ITERATIONS
        BY ONLY <2>2, <3>1, <4>2
      <4> QED
        BY <4>1, <4>3
    <3> QED
      BY <1>11, <2>2, <3>1, <3>2, SameStep DEF Store
  <2>3. CASE Test # "intr"
    BY <1>11, <2>3, SameStep DEF Store
  <2> QED
    BY <2>1, <2>2, <2>3
<1>12. ASSUME NEW w \in Workers, Release(w) PROVE Interrupted'
  BY <1>12, SameStep, TestTypes DEF Release, Runs, Goto
<1>13. ASSUME NEW w \in Workers, HolderMasks(w) PROVE Interrupted'
  BY <1>13, SameStep, TestTypes DEF HolderMasks, Runs, Goto
<1>14. ASSUME NEW w \in Workers, HolderReady(w) PROVE Interrupted'
  BY <1>14, SameStep, TestTypes DEF HolderReady, Runs, Goto
<1>15. ASSUME NEW w \in Workers, HolderDone(w) PROVE Interrupted'
  BY <1>15, SameStep, TestTypes DEF HolderDone, Runs, Goto
<1>16. ASSUME NEW w \in Workers, WaiterSignals(w) PROVE Interrupted'
  BY <1>16, SameStep, TestTypes DEF WaiterSignals, Runs, Goto
<1>17. ASSUME NEW w \in Workers, WaiterDelays(w) PROVE Interrupted'
  BY <1>17, SameStep, TestTypes DEF WaiterDelays, Runs, Goto, LongDelay
<1>18. ASSUME NEW w \in Workers, Deliver(w) PROVE Interrupted'
  BY <1>18, SameStep, TestTypes DEF Deliver, Stalled
<1>19. ASSUME NEW w \in Workers, HandlerReads(w) PROVE Interrupted'
  BY <1>19, SameStep, TestTypes DEF HandlerReads
<1>20. ASSUME NEW w \in Workers, HandlerWrites(w) PROVE Interrupted'
  BY <1>20, SameStep, TestTypes DEF HandlerWrites
<1>21. CASE UNCHANGED vars
  BY <1>21, SameStep DEF vars
<1> QED
  BY NextCases, <1>1, <1>2, <1>3, <1>4, <1>5, <1>6, <1>7, <1>8, <1>9, <1>10, <1>11, <1>12,
      <1>13, <1>14, <1>15, <1>16, <1>17, <1>18, <1>19, <1>20, <1>21

LEMMA CountsStep == LvInv /\ [Next]_vars => Counts'
<1> SUFFICES ASSUME LvInv, [Next]_vars PROVE Counts'
  OBVIOUS
<1> USE ThreadAssumption, BoundAssumption DEF LvInv, Types, Locks, InSection, Workers,
    Threads, mainVars, workVars, intVars, isrVars, counts, testVars, Counts, OneHandler,
    LockOwned, Counting, CleanStart
<1>1. CASE StartCounting
  BY <1>1, SameStep, TestTypes, SameSees DEF StartCounting, StartThreads, ResetCounter
<1>2. CASE Fire
  BY <1>2, SameStep, TestTypes, SameSees DEF Fire
<1>3. CASE stall_test_setup
  BY <1>3, SameStep, TestTypes, SameSees DEF stall_test_setup, StartThreads
<1>4. CASE StartWaiters
  BY <1>4, SameStep, TestTypes, SameSees DEF StartWaiters, StartThreads
<1>5. CASE StartFiring
  BY <1>5, SameStep, TestTypes, SameSees DEF StartFiring
<1>6. CASE StallFire
  BY <1>6, SameStep, TestTypes, SameSees DEF StallFire
<1>7. CASE EndFiring
  BY <1>7, SameStep, TestTypes, SameSees DEF EndFiring
<1>8. CASE Join
  BY <1>8, SameStep, TestTypes, SameSees DEF Join
<1>9. ASSUME NEW w \in Workers, Acquire(w) PROVE Counts'
  <2>1. CASE mpc # "setup" /\ Test = "intr"
    <3>1. Lock \in Locks /\ owner[Lock] = NoThread /\ \A v \in Workers : v # NoThread
      BY <1>9, <2>1, TestTypes DEF Acquire, AcquiredBy
    <3>2. SeesLock => SeesLock'
      BY <1>9, <3>1, SameStep DEF Acquire, SeesLock
    <3> QED
      <4>1. UNCHANGED <<mpc, step, iad, isr, reg, isr_count, isr_set_count, taken, takenByOwner>>
        BY <1>9 DEF Acquire
      <4> QED
        BY <2>1, <3>2, <4>1, SameStep
  <2> QED
    BY <1>9, <2>1, SameStep DEF Acquire
<1>10. ASSUME NEW w \in Workers, Load(w) PROVE Counts'
  BY <1>10, SameStep, TestTypes, SameSees DEF Load, Runs, Goto
<1>11. ASSUME NEW w \in Workers, Store(w) PROVE Counts'
  BY <1>11, SameStep, TestTypes, SameSees DEF Store, Runs, Goto, LongDelay
<1>12. ASSUME NEW w \in Workers, Release(w) PROVE Counts'
  <2>1. CASE mpc # "setup" /\ Test = "intr"
    <3>1. Lock \in Locks /\ owner[Lock] = w /\ isr[w] = "no"
      BY <1>12, <2>1, TestTypes DEF Release, Runs
    <3>2. SeesLock => SeesLock'
      BY <1>12, <3>1, SameStep DEF Release, SeesLock
    <3> QED
      <4>1. UNCHANGED <<mpc, step, iad, isr, reg, isr_count, isr_set_count, taken, takenByOwner>>
        BY <1>12 DEF Release
      <4> QED
        BY <2>1, <3>2, <4>1, SameStep
  <2> QED
    BY <1>12, <2>1, SameStep DEF Release
<1>13. ASSUME NEW w \in Workers, HolderMasks(w) PROVE Counts'
  BY <1>13, SameStep, TestTypes, SameSees DEF HolderMasks, Runs, Goto
<1>14. ASSUME NEW w \in Workers, HolderReady(w) PROVE Counts'
  BY <1>14, SameStep, TestTypes, SameSees DEF HolderReady, Runs, Goto
<1>15. ASSUME NEW w \in Workers, HolderDone(w) PROVE Counts'
  BY <1>15, SameStep, TestTypes, SameSees DEF HolderDone, Runs, Goto
<1>16. ASSUME NEW w \in Workers, WaiterSignals(w) PROVE Counts'
  BY <1>16, SameStep, TestTypes, SameSees DEF WaiterSignals, Runs, Goto
<1>17. ASSUME NEW w \in Workers, WaiterDelays(w) PROVE Counts'
  BY <1>17, SameStep, TestTypes, SameSees DEF WaiterDelays, Runs, Goto, LongDelay
<1>18. ASSUME NEW w \in Workers, Deliver(w) PROVE Counts'
  <2>1. \A v \in Workers : isr[v] = "no"
    BY <1>18 DEF Deliver
  <2>2. ~SeesLock
    BY <2>1 DEF SeesLock
  <2>3. isr'[w] = "enter" /\ \A v \in Workers \ {w} : isr'[v] = "no"
    BY <1>18, <2>1 DEF Deliver
  <2>4. takenByOwner' = takenByOwner + (IF owner[Lock] = w THEN 1 ELSE 0)
    BY <1>18 DEF Deliver
  <2>5. owner[Lock] = w => SeesLock'
    BY <1>18, <2>3, SameStep DEF Deliver, SeesLock
  <2>6. /\ taken' = taken + 1 /\ ~iad /\ iad' = TRUE
        /\ UNCHANGED <<mpc, step, reg, isr_count, isr_set_count>>
    BY <1>18 DEF Deliver
  <2> QED
    BY <2>2, <2>3, <2>4, <2>5, <2>6, SameStep
<1>19. ASSUME NEW w \in Workers, HandlerReads(w) PROVE Counts'
  <2>1. iad /\ \A v \in Workers \ {w} : isr[v] = "no"
    BY <1>19 DEF HandlerReads
  <2>2. CASE mpc # "setup" /\ Test = "intr"
    <3>1. SeesLock => owner[Lock] # NoThread
      <4>1. w # NoThread /\ isr[w] = "enter"
        BY <1>19 DEF HandlerReads
      <4> QED
        BY <2>1, <4>1 DEF SeesLock
    <3>2. isr'[w] = "write" /\ syscfg'[w] = (owner[Lock] # NoThread)
      BY <1>19 DEF HandlerReads
    <3>3. SeesLock => SeesLock'
      BY <3>1, <3>2 DEF SeesLock
    <3>4. reg'[w] = isr_count /\ \A v \in Workers \ {w} : isr'[v] = "no"
      BY <1>19, <2>1 DEF HandlerReads
    <3> QED
      BY <1>19, <2>2, <3>3, <3>4, SameStep DEF HandlerReads
  <2> QED
    BY <1>19, <2>2, SameStep DEF HandlerReads
<1>20. ASSUME NEW w \in Workers, HandlerWrites(w) PROVE Counts'
  <2>1. iad /\ \A v \in Workers \ {w} : isr[v] = "no"
    BY <1>20 DEF HandlerWrites
  <2>2. CASE mpc # "setup" /\ Test = "intr"
    <3>1. SeesLock => syscfg[w]
      BY <1>20, <2>1 DEF HandlerWrites, SeesLock
    <3>2. /\ isr_count' = isr_count + 1
          /\ isr_set_count' = isr_set_count + (IF syscfg[w] THEN 1 ELSE 0)
      BY <1>20, <2>2 DEF HandlerWrites
    <3>3. /\ ~iad' /\ \A v \in Workers : isr'[v] = "no"
          /\ UNCHANGED <<mpc, step, taken, takenByOwner>>
      BY <1>20, <2>1 DEF HandlerWrites
    <3> QED
      BY <2>1, <2>2, <3>1, <3>2, <3>3, SameStep
  <2> QED
    BY <1>20, <2>2, SameStep DEF HandlerWrites
<1>21. CASE UNCHANGED vars
  BY <1>21, SameStep, SameSees DEF vars
<1> QED
  BY NextCases, <1>1, <1>2, <1>3, <1>4, <1>5, <1>6, <1>7, <1>8, <1>9, <1>10, <1>11, <1>12,
      <1>13, <1>14, <1>15, <1>16, <1>17, <1>18, <1>19, <1>20, <1>21

LEMMA StallStep == LvInv /\ [Next]_vars => Stalling'
<1> SUFFICES ASSUME LvInv, [Next]_vars PROVE Stalling'
  OBVIOUS
<1> USE ThreadAssumption, BoundAssumption DEF LvInv, Types, Locks, InSection, Workers,
    Threads, mainVars, workVars, intVars, isrVars, counts, testVars, Stalling, OneHandler,
    LockOwned, CleanStart
<1>1. CASE StartCounting
  BY <1>1, SameStep, TestTypes DEF StartCounting, StartThreads, ResetCounter
<1>2. CASE Fire
  BY <1>2, SameStep, TestTypes DEF Fire
<1>3. CASE stall_test_setup
  BY <1>3, SameStep, TestTypes DEF stall_test_setup, StartThreads
<1>4. CASE StartWaiters
  BY <1>4, SameStep, TestTypes DEF StartWaiters, StartThreads
<1>5. CASE StartFiring
  BY <1>5, SameStep, TestTypes DEF StartFiring
<1>6. CASE StallFire
  BY <1>6, SameStep, TestTypes DEF StallFire
<1>7. CASE EndFiring
  BY <1>7, SameStep, TestTypes DEF EndFiring
<1>8. CASE Join
  BY <1>8, SameStep, TestTypes DEF Join
<1>9. ASSUME NEW w \in Workers, Acquire(w) PROVE Stalling'
  BY <1>9, SameStep, TestTypes DEF Acquire, Runs, Goto, AcquiredBy
<1>10. ASSUME NEW w \in Workers, Load(w) PROVE Stalling'
  BY <1>10, SameStep, TestTypes DEF Load, Runs, Goto
<1>11. ASSUME NEW w \in Workers, Store(w) PROVE Stalling'
  BY <1>11, SameStep, TestTypes DEF Store, Runs, Goto, LongDelay
<1>12. ASSUME NEW w \in Workers, Release(w) PROVE Stalling'
  BY <1>12, SameStep, TestTypes DEF Release, Runs, Goto
<1>13. ASSUME NEW w \in Workers, HolderMasks(w) PROVE Stalling'
  BY <1>13, SameStep, TestTypes DEF HolderMasks, Runs, Goto
<1>14. ASSUME NEW w \in Workers, HolderReady(w) PROVE Stalling'
  BY <1>14, SameStep, TestTypes DEF HolderReady, Runs, Goto
<1>15. ASSUME NEW w \in Workers, HolderDone(w) PROVE Stalling'
  BY <1>15, SameStep, TestTypes DEF HolderDone, Runs, Goto
<1>16. ASSUME NEW w \in Workers, WaiterSignals(w) PROVE Stalling'
  BY <1>16, SameStep, TestTypes DEF WaiterSignals, Runs, Goto
<1>17. ASSUME NEW w \in Workers, WaiterDelays(w) PROVE Stalling'
  BY <1>17, SameStep, TestTypes DEF WaiterDelays, Runs, Goto, LongDelay
<1>18. ASSUME NEW w \in Workers, Deliver(w) PROVE Stalling'
  BY <1>18, SameStep, TestTypes DEF Deliver, Stalled
<1>19. ASSUME NEW w \in Workers, HandlerReads(w) PROVE Stalling'
  BY <1>19, SameStep, TestTypes DEF HandlerReads
<1>20. ASSUME NEW w \in Workers, HandlerWrites(w) PROVE Stalling'
  BY <1>20, SameStep, TestTypes DEF HandlerWrites
<1>21. CASE UNCHANGED vars
  BY <1>21, SameStep DEF vars
<1> QED
  BY NextCases, <1>1, <1>2, <1>3, <1>4, <1>5, <1>6, <1>7, <1>8, <1>9, <1>10, <1>11, <1>12,
      <1>13, <1>14, <1>15, <1>16, <1>17, <1>18, <1>19, <1>20, <1>21

LEMMA InitLvInv == Init => LvInv
<1> SUFFICES ASSUME Init PROVE LvInv
  OBVIOUS
<1> USE ThreadAssumption, BoundAssumption DEF Init
<1>1. Types
  <2>1. Len(Plan) + 1 = 7
    BY DEF Plan
  <2>2. /\ step \in 1 .. Len(Plan) + 1 /\ (mpc # "setup" => ~Done)
        /\ mpc \in {"setup", "fire", "holder", "waiters", "stallFire", "endPhase", "complete", "join"}
    BY <2>1
  <2>3. /\ owner \in [Locks -> Workers \cup {NoThread}]
        /\ pc \in [Workers -> {"stopped", "lock", "mask", "signal"} \cup InSection]
        /\ isr \in [Workers -> {"no", "enter", "write"}]
    BY DEF Locks
  <2>4. /\ iter \in [Workers -> Nat] /\ temp \in [Workers -> Nat] /\ reg \in [Workers -> Nat]
        /\ syscfg \in [Workers -> BOOLEAN] /\ stall_isr_htid \in [Workers -> Nat]
    OBVIOUS
  <2> QED
    BY <2>2, <2>3, <2>4 DEF Types
<1>2. LockOwned /\ OneHandler /\ CleanStart
  BY DEF LockOwned, OneHandler, CleanStart, Locks, InSection, Workers
<1>3. Counting /\ Interrupted /\ Counts /\ Stalling
  BY DEF Counting, Interrupted, Counts, Stalling
<1> QED
  BY <1>1, <1>2, <1>3 DEF LvInv

(* The strengthening that the checks of the multi-thread tests rest on.      *)
THEOREM LockVerifyInv == Spec => []LvInv
<1>1. LvInv /\ [Next]_vars => LvInv'
  BY TypesStep, LockStep, HandlerStep, CleanStep, CountingStep, InterruptedStep,
      CountsStep, StallStep
     DEF LvInv
<1> QED
  BY InitLvInv, <1>1, PTL DEF Spec

(* test_*_mutual_exclusion and test_*_with_interrupts: when the workers are   *)
(* joined, shared_counter is COMPUTE_THREADS * ITERATIONS, whatever the       *)
(* numbers: no increment of a locked section is lost.                         *)
THEOREM CountersAreExact == Spec => []CounterExact
<1>1. LvInv => CounterExact
  <2> SUFFICES ASSUME LvInv, ~Done, Joined, Test # "stall"
               PROVE  shared_counter = COMPUTE_THREADS * ITERATIONS
    BY DEF CounterExact
  <2>1. shared_counter = Cardinality(Sections) /\ \A w \in Workers : iter[w] = ITERATIONS
    BY DEF LvInv, Counting, Joined
  <2> QED
    BY <2>1, AllSections
<1> QED
  BY LockVerifyInv, <1>1, PTL

(* test_*_with_interrupts: lock_interrupt_handler counts every delivery once  *)
(* although isr_count++ is a load and a store, at least one SWI got through,  *)
(* and each that hit the owner of the lock found its bit set in SYSCFG.       *)
THEOREM EveryInterruptCounted == Spec => []InterruptsCounted
<1>1. LvInv => InterruptsCounted
  <2> SUFFICES ASSUME LvInv, ~Done, Joined, Test = "intr"
               PROVE  /\ isr_count = taken /\ isr_count # 0
                      /\ takenByOwner <= isr_set_count /\ isr_set_count <= isr_count
    BY DEF InterruptsCounted
  <2>1. ~iad /\ \A w \in Workers : isr[w] = "no"
    BY DEF LvInv, OneHandler, Joined, Types
  <2>2. ~SeesLock
    BY <2>1 DEF SeesLock
  <2>3. \A w \in Workers : iter[w] = ITERATIONS
    BY DEF LvInv, Counting, Joined
  <2>4. ~pend
    BY <2>3, BoundAssumption DEF LvInv, Interrupted, Joined
  <2>5. taken > 0
    BY <2>4 DEF LvInv, Interrupted, Joined
  <2> QED
    BY <2>1, <2>2, <2>5 DEF LvInv, Counts, Joined, Types
<1> QED
  BY LockVerifyInv, <1>1, PTL

(* stall_test_verify: in the stall tests no handler ran in the stall phase    *)
(* and none on the holder, and after it some waiter served a pended SWI.      *)
THEOREM StalledThreadsSpared == Spec => []StalledNotInterrupted
<1>1. LvInv => StalledNotInterrupted
  <2> SUFFICES ASSUME LvInv, ~Done, Test = "stall",
                      mpc \in {"stallFire", "endPhase", "complete", "join"}
               PROVE  /\ isr_while_pended = 0 /\ stall_isr_htid[Holder] = 0
                      /\ Joined => \E w \in Waiters : stall_isr_htid[w] # 0
    BY DEF StalledNotInterrupted
  <2>1. isr_while_pended = 0 /\ stall_isr_htid[Holder] = 0
    BY DEF LvInv, Stalling
  <2>2. ASSUME Joined PROVE \E w \in Waiters : stall_isr_htid[w] # 0
    <3>1. ~iad
      BY <2>2 DEF LvInv, OneHandler, Joined, Types
    <3>2. ~pend
      BY <2>2, ThreadAssumption DEF LvInv, Stalling, Joined, Workers
    <3> QED
      BY <2>2, <3>1, <3>2 DEF LvInv, Stalling, Joined
  <2> QED
    BY <2>1, <2>2
<1> QED
  BY LockVerifyInv, <1>1, PTL
=============================================================================
