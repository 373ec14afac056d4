------------------------------ MODULE ThreadSuite ------------------------------
(* The multi-threaded tests of standalone_systests, one of which a behaviour  *)
(* executes: the tests of ThreadTests, or sys_atomics.c (SysAtomics).         *)
EXTENDS ThreadTests, SysAtomics

VARIABLE suite      \* "threads" or "atomics"

suiteVars == <<ttVars, saVars, suite>>

(* The variables of the tests that do not run have no meaning.               *)
TtOff == ttProg = 0 /\ ttHw = 0 /\ ttPc = 0 /\ ttIsr = 0 /\ ttCur = 0 /\ ttReg = 0 /\ tt = 0
SaOff == /\ saTry = 0 /\ saPc = 0 /\ saErr = 0 /\ prev_tick = 0 /\ tick = 0 /\ contention = 0
         /\ done = 0 /\ saI = 0 /\ saK = 0 /\ saAt = 0 /\ old = 0 /\ saFailed = 0

SuiteInit ==
    \/ suite = "threads" /\ TtInit /\ SaOff
    \/ suite = "atomics" /\ TtOff /\ SaInit

InThreads(A) == suite = "threads" /\ A /\ UNCHANGED <<saVars, suite>>
InAtomics(A) == suite = "atomics" /\ A /\ UNCHANGED <<ttVars, suite>>

SuiteNext == InThreads(TtNext) \/ InAtomics(SaNext)

(* A hardware thread that can run does.  Unlock wakes the waiters and each   *)
(* of them gets the lock in its turn; a pending interrupt that some thread   *)
(* takes again and again is taken.                                           *)
SuiteSpec ==
    /\ SuiteInit /\ [][SuiteNext]_suiteVars
    /\ \A t \in Threads : WF_suiteVars(InThreads(TtStep(t)))
    /\ \A t \in Threads : SF_suiteVars(InThreads(OpLock(t)))
    /\ SF_suiteVars(InThreads(\E t \in Threads : TakeInterrupt(t)))
    /\ WF_suiteVars(InAtomics(SaMain))
    /\ \A t \in Ids : WF_suiteVars(InAtomics(SaThread(t)))

-----------------------------------------------------------------------------
(* No check of a test fails, in no order of the threads' steps and of the    *)
(* interrupts: with one exception.  test-thread.c creates a thread for every *)
(* i up to THCNT, and on a machine that has that many the last one fails the *)
(* assertion that its id is below THCNT.                                     *)
ThreadChecksPass == suite = "threads" => (tt.fail => ttProg = "mutex" /\ ttHw = Threads)

(* sys_atomics.c: no increment is lost or made twice, the ticks never fall   *)
(* between two polls, and the test ends without contention or with the       *)
(* expected sums, never with others.                                         *)
AtomicsExact == suite = "atomics" => TicksExact /\ SaPasses

(* test-thread.c: thcnt, incremented with a load and a store, is the number  *)
(* of threads that have come through the mutex, at any time and until an     *)
(* assertion ends the program.  No increment is lost although every thread   *)
(* polls trylockMutex and main unlocks the mutex while they do.              *)
ThcntExact ==
    suite = "threads" /\ ttProg = "mutex" /\ ~ tt.fail =>
        tt.mem[Var("thcnt")] = Cardinality({t \in 1 .. THCNT - 1 : ThroughMutex(t)})

(* swi.c, swi2.c: an interrupt that was raised is pending, in a handler, or  *)
(* counted, once and only once, while masks and the global enable come and   *)
(* go.                                                                       *)
NothingLost ==
    suite = "threads" /\ ttProg \in {"swi", "swi2"} =>
        \A i \in TestInts :
            tt.raised[i] = tt.mem[<<"count", i>>]
                           + (IF i \in tt.ipend THEN 1 ELSE 0)
                           + Cardinality({t \in Threads : ttIsr[t] \in 1 .. 2 /\ ttCur[t] = i})

(* Every test ends.  Some do not have to: k0locklock.c and tlblocklock.c,    *)
(* which lock twice on purpose, pend_wake_wait.c, whose handler locks the    *)
(* lock of the thread it interrupts, bestwait.c, whose interrupt may come    *)
(* before the wait that it is to end, and k0lock-syscfg.c, where the machine *)
(* has taken the lock bit from a stale SYSCFG.                               *)
SuiteEnds ==
    <> \/ suite = "atomics" /\ SaEnded
       \/ /\ suite = "threads"
          /\ TtEnded \/ (ttProg \in {"pend", "locklock"} /\ SelfLocked) \/ WaitAfterWakeup \/ LockLeftSet
=============================================================================
