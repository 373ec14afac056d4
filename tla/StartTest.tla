------------------------------- MODULE StartTest -------------------------------
(* standalone_systests/src/start.c: the test of the start instruction, run on *)
(* thread 0 and then, through thread_run_blocked, on each other thread.  It   *)
(* composes the launch library (ThreadSemaphore) with a reset handler that    *)
(* the started threads run instead of thread_wrapper.                         *)
EXTENDS ThreadSemaphore

CONSTANT NoThread      \* the value of k0 when no thread holds the kernel lock

(* main runs on thread 0 and its loop visits the other thread numbers.       *)
ASSUME NumberingAssumption ==
    IsFiniteSet(Threads) /\ Threads = 0 .. Cardinality(Threads) - 1 /\ Main = 0
ASSUME NoThreadAssumption == NoThread \notin Threads

VARIABLES
    handler,        \* event 0 handler: "default" (crt0) or "my_reset_handler"
    mode,           \* what a launched thread executes: "wrapper" or "reset"
    phase,          \* where a thread is inside test_start
    testNo,         \* calls of test_start that thread_func has finished
    mainNext,       \* main's loop variable i; 0 while main runs thread_func itself
    ssrCause,       \* SSR.CAUSE of each thread
    ssr_cause_log,
    reset_mask,
    k0,             \* owner of the kernel lock
    tmp,            \* the value of reset_mask a handler has loaded
    err

testVars == <<handler, mode, phase, testNo, mainNext, ssrCause, ssr_cause_log, reset_mask,
              k0, tmp, err>>
allVars == <<vars, testVars>>

DUMMY_CAUSE == "dummy"        \* 0x13
SET_CAUSE == "set"            \* 0x15
RESET_CAUSE == "reset"        \* 0

(* thread_func: test_start(0x2), test_start(0x6), test_start(0xe), that is   *)
(* thread 1, threads 1 and 2, threads 1 to 3.                                *)
TestMask(n) == {t \in Threads : 1 <= t /\ t <= n + 1}
NumTests == 3

StartInit ==
    /\ Init
    /\ handler = "default"
    /\ mode = [t \in Threads |-> "wrapper"]
    /\ phase = [t \in Threads |-> "idle"]
    /\ testNo = [t \in Threads |-> 0]
    /\ mainNext = 0
    /\ ssrCause = [t \in Threads |-> RESET_CAUSE]
    /\ ssr_cause_log = [t \in Threads |-> RESET_CAUSE]
    /\ reset_mask = {}
    /\ k0 = NoThread
    /\ tmp = [t \in Threads |-> {}]
    /\ err = FALSE

-----------------------------------------------------------------------------
(* test_start on thread me: main itself, or a worker inside its function.    *)

InThreadFunc(me) ==
    \/ me = Main /\ mainNext = 0 /\ pc[me] = "client"
    \/ me # Main /\ mode[me] = "wrapper" /\ pc[me] = "func"

(* Up to the call of start_waiting_threads.  The start instruction resets    *)
(* the threads of the mask except the one that executes it; they come out of *)
(* reset in the installed handler.                                           *)
test_start(me) ==
    /\ InThreadFunc(me) /\ phase[me] = "idle" /\ testNo[me] < NumTests
    /\ LET m == TestMask(testNo[me]) IN
          /\ thread_semaphore' =
                [t \in Threads |-> IF t \in m THEN THREAD_SEMAPHORE_OFF ELSE thread_semaphore[t]]
          /\ pc' = [t \in Threads |-> IF t = me THEN "waitLoop"
                                      ELSE IF t \in m THEN "enter" ELSE pc[t]]
          /\ mode' = [t \in Threads |-> IF t \in m \ {me} THEN "reset" ELSE mode[t]]
          /\ ssrCause' = [t \in Threads |-> IF t = me THEN SET_CAUSE
                                            ELSE IF t \in m THEN RESET_CAUSE ELSE ssrCause[t]]
          /\ CallStart(me, m, "client")
    /\ reset_mask' = {}
    /\ ssr_cause_log' = [t \in Threads |-> DUMMY_CAUSE]
    /\ handler' = "my_reset_handler"
    /\ phase' = [phase EXCEPT ![me] = "started"]
    /\ UNCHANGED <<work, created, ran, testNo, mainNext, k0, tmp, err>>

(* thread_join(remove_myself(mask)) once start_waiting_threads has returned. *)
JoinStarted(me) ==
    /\ pc[me] = "client" /\ phase[me] = "started"
    /\ CallJoin(me, remove_myself(me, mask[me]))
    /\ phase' = [phase EXCEPT ![me] = "joining"]
    /\ UNCHANGED <<handler, mode, testNo, mainNext, ssrCause, ssr_cause_log, reset_mask,
                   k0, tmp, err>>

(* The check32 calls at the end of test_start; mask[me] no longer has me.    *)
ChecksPass(me) ==
    /\ ssrCause[me] = SET_CAUSE
    /\ reset_mask = mask[me]
    /\ \A t \in Threads \ {me} :
          ssr_cause_log[t] = IF t \in mask[me] THEN RESET_CAUSE ELSE DUMMY_CAUSE

(* Wrong variant: crt0's handler is not put back.                            *)
FinishLeavesHandler(me) ==
    /\ pc[me] = "client" /\ phase[me] = "joining"
    /\ err' = (err \/ ~ChecksPass(me))
    /\ phase' = [phase EXCEPT ![me] = "idle"]
    /\ testNo' = [testNo EXCEPT ![me] = @ + 1]
    /\ pc' = [pc EXCEPT ![me] = IF me = Main THEN "client" ELSE "func"]
    /\ UNCHANGED <<thread_semaphore, libVars, work, created, ran, mode, mainNext, handler,
                   ssrCause, ssr_cause_log, reset_mask, k0, tmp>>

FinishTestStart(me) ==
    /\ pc[me] = "client" /\ phase[me] = "joining"
    /\ handler' = "default"
    /\ err' = (err \/ ~ChecksPass(me))
    /\ phase' = [phase EXCEPT ![me] = "idle"]
    /\ testNo' = [testNo EXCEPT ![me] = @ + 1]
    /\ pc' = [pc EXCEPT ![me] = IF me = Main THEN "client" ELSE "func"]
    /\ UNCHANGED <<thread_semaphore, libVars, work, created, ran, mode, mainNext,
                   ssrCause, ssr_cause_log, reset_mask, k0, tmp>>

-----------------------------------------------------------------------------
(* main: thread_func on thread 0, then thread_run_blocked on each thread.    *)

MainNext ==
    /\ pc[Main] = "client" /\ phase[Main] = "idle"
    /\ mainNext = 0 /\ testNo[Main] = NumTests
    /\ mainNext' = 1
    /\ UNCHANGED <<vars, handler, mode, phase, testNo, ssrCause, ssr_cause_log, reset_mask,
                   k0, tmp, err>>

(* A thread launched by thread_create comes out of reset in the handler that *)
(* is installed then.                                                        *)
MainRuns ==
    /\ mainNext \in Workers
    /\ thread_run_blocked(Main, mainNext)
    /\ mode' = [mode EXCEPT ![mainNext] = IF handler = "default" THEN "wrapper" ELSE "reset"]
    /\ mainNext' = mainNext + 1
    /\ UNCHANGED <<handler, phase, testNo, ssrCause, ssr_cause_log, reset_mask, k0, tmp, err>>

WorkerReturns(t) ==
    /\ mode[t] = "wrapper" /\ phase[t] = "idle" /\ testNo[t] = NumTests
    /\ thread_wrapper(t)
    /\ UNCHANGED testVars

-----------------------------------------------------------------------------
(* my_reset_handler after wait_on_semaphore.                                 *)

LogCause(t) ==
    /\ mode[t] = "reset" /\ pc[t] = "func"
    /\ ssr_cause_log' = [ssr_cause_log EXCEPT ![t] = ssrCause[t]]
    /\ pc' = [pc EXCEPT ![t] = "k0lock"]
    /\ UNCHANGED <<thread_semaphore, libVars, work, created, ran, handler, mode, phase, testNo,
                   mainNext, ssrCause, reset_mask, k0, tmp, err>>

(* Wrong variant: the handler does not take the lock.                        *)
LoadMaskUnlocked(t) ==
    /\ pc[t] = "k0lock"
    /\ UNCHANGED k0
    /\ tmp' = [tmp EXCEPT ![t] = reset_mask]
    /\ pc' = [pc EXCEPT ![t] = "store"]
    /\ UNCHANGED <<thread_semaphore, libVars, work, created, ran, handler, mode, phase, testNo,
                   mainNext, ssrCause, ssr_cause_log, reset_mask, err>>

(* k0lock, and the load half of reset_mask |= 1 << htid.                     *)
LoadMask(t) ==
    /\ pc[t] = "k0lock"
    /\ k0 = NoThread
    /\ k0' = t
    /\ tmp' = [tmp EXCEPT ![t] = reset_mask]
    /\ pc' = [pc EXCEPT ![t] = "store"]
    /\ UNCHANGED <<thread_semaphore, libVars, work, created, ran, handler, mode, phase, testNo,
                   mainNext, ssrCause, ssr_cause_log, reset_mask, err>>

StoreMask(t) ==
    /\ pc[t] = "store"
    /\ reset_mask' = tmp[t] \cup {t}
    /\ pc' = [pc EXCEPT ![t] = "k0unlock"]
    /\ UNCHANGED <<thread_semaphore, libVars, work, created, ran, handler, mode, phase, testNo,
                   mainNext, ssrCause, ssr_cause_log, k0, tmp, err>>

(* k0unlock and stop.                                                        *)
UnlockAndStop(t) ==
    /\ pc[t] = "k0unlock"
    /\ k0' = IF k0 = t THEN NoThread ELSE k0
    /\ pc' = [pc EXCEPT ![t] = "stopped"]
    /\ UNCHANGED <<thread_semaphore, libVars, work, created, ran, handler, mode, phase, testNo,
                   mainNext, ssrCause, ssr_cause_log, reset_mask, tmp, err>>

my_reset_handler(t) == LogCause(t) \/ LoadMask(t) \/ StoreMask(t) \/ UnlockAndStop(t)

-----------------------------------------------------------------------------
Done ==
    /\ mainNext = Cardinality(Threads)
    /\ pc[Main] = "client"

Thread(t) ==
    \/ (wait_on_semaphore(t) \/ SeeGo(t) \/ Library(t)) /\ UNCHANGED testVars
    \/ test_start(t)
    \/ JoinStarted(t)
    \/ FinishTestStart(t)
    \/ WorkerReturns(t)
    \/ my_reset_handler(t)
    \/ t = Main /\ (MainNext \/ MainRuns)

Exit == Done /\ UNCHANGED allVars

StartNext == (\E t \in Threads : Thread(t)) \/ Exit

StartSpec == StartInit /\ [][StartNext]_allVars /\ \A t \in Threads : WF_allVars(Thread(t))

-----------------------------------------------------------------------------
(* The test's own checks hold in every interleaving of the started threads:  *)
(* reset_mask ends with exactly the started threads, although each adds its  *)
(* bit with a load and a store, and each one's SSR.CAUSE was reset.          *)
NoTestFailure == ~err

(* Every thread ran thread_func: crt0's reset handler is back each time main *)
(* creates a thread.  With the other handler installed the thread would stop *)
(* without having run anything, and the program would still print PASS.      *)
AllThreadsTested == Done => \A t \in Threads : testNo[t] = NumTests

(* The program ends: neither start_waiting_threads with the caller in its    *)
(* own mask nor its join hangs.                                              *)
ProgramEnds == <>Done
=============================================================================
