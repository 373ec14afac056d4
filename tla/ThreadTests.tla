------------------------------ MODULE ThreadTests ------------------------------
(* The small multi-threaded tests of standalone_systests: swi, swi2, bestwait,*)
(* pend_wake_wait, k0lock, tlblock, k0locklock, tlblocklock, k0lock-syscfg,   *)
(* test-thread, thread_scheduling, nmi_cross_thread and ciad-siad.            *)
(*                                                                            *)
(* A test is a table: for every hardware thread the sequence of its           *)
(* operations on state other threads can see.  One machine executes them, an  *)
(* operation a step, with interrupts arriving between any two.  Spinning on   *)
(* a condition is waiting for it.                                             *)
EXTENDS Naturals, Sequences, FiniteSets

CONSTANTS
    WORKERS,        \* the threads main() creates: 1 .. WORKERS
    MAX_INT_NUM,    \* interrupts swi2.c and pend_wake_wait.c raise
    ROUNDS,         \* iterations of a test's loops
    INTS_PER_ITER   \* of swi2.c; also the rounds of pend_wake_wait.c

ASSUME ThreadTestsAssumption == WORKERS \in Nat /\ WORKERS >= 2 /\ MAX_INT_NUM \in Nat \ {0}
                                 /\ ROUNDS \in Nat \ {0} /\ INTS_PER_ITER \in Nat \ {0}

Threads == 0 .. WORKERS
Workers == 1 .. WORKERS
AllInts == 0 .. MAX_INT_NUM - 1
TestInts == Threads \cup AllInts \cup {4}
Nobody == WORKERS + 1

-----------------------------------------------------------------------------
(* Operations: a kind and its arguments.  A shared variable is a name and an *)
(* index.                                                                    *)
Var(x) == <<x, 0>>
Create(S) == <<"create", S>>
Join(S) == <<"join", S>>
Until(x, n) == <<"until", x, n>>            \* while (x < n);
Jeq(x, n, l) == <<"jeq", x, n, l>>          \* if (x == n) goto l
Jump(l) == <<"jump", l>>
Set(x, n) == <<"set", x, n>>
AtomicInc(x) == <<"inc", x>>
Load(x) == <<"load", x>>                    \* x++: a load
Store(x) == <<"store", x>>                  \* and a store of one more
Check(x, n) == <<"check", x, n>>
Swi(S) == <<"swi", S>>
Imask(t, S) == <<"imask", t, S>>            \* S: the interrupts t refuses
Stop == <<"stop">>
Times(n, s) == [k \in 1 .. n * Len(s) |-> s[1 + ((k - 1) % Len(s))]]

(* k0lock.c and tlblock.c                                                    *)
LockThread == Times(ROUNDS, << <<"lock">>, <<"unlock">>, <<"unlock">> >>) \o <<Stop>>
LockMain ==
    Times(ROUNDS, << <<"lock">>, Create(Workers), <<"unlock">>, Join(Workers) >>) \o <<Stop>>

(* k0locklock.c and tlblocklock.c: the second lock must not be granted.      *)
LockLockMain == << <<"lock">>, <<"lock">>, <<"fail">>, Stop>>

(* k0lock-syscfg.c                                                           *)
mod_syscfg == << <<"getsyscfg">> >> \o Times(ROUNDS, << <<"putsyscfg">>, <<"getsyscfg">> >>)
              \o <<Stop>>
mod_k0 == Times(ROUNDS, << <<"lock">>, <<"unlock">> >>) \o <<Stop>>
SyscfgMain == <<Create({1, 2}), Join({1}), Join({2}), Stop>>

(* test-thread.c: THCNT threads are created though the ids go to THCNT - 1;  *)
(* trylockMutex is tried until it succeeds.                                  *)
THCNT == WORKERS
(* The wrong variant goes on when trylockMutex has failed.                   *)
MutexThreadOneTry(t) ==
    IF t < THCNT THEN <<Jump(2), Load(Var("thcnt")), Store(Var("thcnt")),
                        Set(<<"thid", t>>, t), <<"unlock">>, Stop>>
                 ELSE << <<"fail">> >>
MutexThread(t) ==
    IF t < THCNT THEN << <<"lock">>, Load(Var("thcnt")), Store(Var("thcnt")),
                         Set(<<"thid", t>>, t), <<"unlock">>, Stop>>
                 ELSE << <<"fail">> >>      \* the assert ends the program
(* The wrong variant does not join the threads before it looks at thid.      *)
MutexMainNoJoin ==
    << <<"lock">>, Create(1 .. THCNT), <<"unlock">>, Until(Var("thcnt"), THCNT - 1) >>
    \o [i \in 1 .. THCNT - 1 |-> Check(<<"thid", i>>, i)] \o <<Stop>>
MutexMain ==
    << <<"lock">>, Create(1 .. THCNT), <<"unlock">>, Until(Var("thcnt"), THCNT - 1),
       Join(1 .. THCNT) >>
    \o [i \in 1 .. THCNT - 1 |-> Check(<<"thid", i>>, i)] \o <<Stop>>

(* thread_scheduling.c, with running counted down from 1 as stopped up to 1. *)
SchedulingThread == <<Until(Var("stopped"), 1), Stop>>
SchedulingMain == <<Create({1}), Set(Var("stopped"), 1), Join({1}), Stop>>

(* nmi_cross_thread.c: an endless loop an NMI ends in nmi_handler.           *)
thread1_fn == <<Set(Var("thread1_running"), 1), Jump(2), Stop>>
NmiMain == <<Create({1}), Until(Var("thread1_running"), 1), <<"nmi", {1}>>, Join({1}), Stop>>

(* ciad-siad.c                                                               *)
CiadMain == << <<"siad", {2}>>, <<"checkiad", {2}>>, <<"ciad", {2}>>, <<"checkiad", {}>>, Stop>>

(* swi.c: every thread raises its successor's interrupt.                     *)
my_thread_function(t) ==
    << <<"wait">>, Swi({IF t = WORKERS THEN 1 ELSE t + 1}), Until(<<"count", t>>, 1), Stop>>
SwiMain ==
    <<Create(Workers), <<"waiting", Workers>>, Imask(0, TestInts)>>
    \o [t \in Workers |-> Imask(t, TestInts \ {t})]
    \o << <<"resume", Workers>>, Join(Workers), Stop>>

(* swi2.c                                                                    *)
interrupt_cycles(t) ==
    <<Jeq(Var("tasks_disabled"), 1, 11)>>
    \o Times(2, << <<"inten", FALSE>>, <<"inten", TRUE>>, Imask(t, {}), Imask(t, TestInts)>>)
    \o <<Jump(1), Stop>>
task_thread == <<Until(Var("tasks_disabled"), 1), Stop>>
(* A turn of run_test's loop: swi, and a wait for every interrupt.  The wrong *)
(* variant waits for interrupt 0 only.                                       *)
RunTestFirst ==
    << <<"zero">> >> \o [k \in 1 .. INTS_PER_ITER * 2 |->
        IF k % 2 = 1 THEN Swi(AllInts) ELSE Until(<<"count", 0>>, k \div 2)]
run_test ==
    << <<"zero">> >> \o [k \in 1 .. INTS_PER_ITER * (MAX_INT_NUM + 1) |->
        LET n == ((k - 1) \div (MAX_INT_NUM + 1)) + 1
            i == (k - 1) % (MAX_INT_NUM + 1)
        IN IF i = 0 THEN Swi(AllInts) ELSE Until(<<"count", i - 1>>, n)]
Swi2Main ==
    <<Create({1, 2})>> \o run_test \o run_test
    \o <<Set(Var("tasks_disabled"), 1), Join({1}), Join({2}), Stop>>

(* bestwait.c: thread 1 waits at a priority that a write of BESTWAIT         *)
(* undercuts, which raises interrupt 4.                                      *)
thread1 == <<Load(Var("thcnt")), Store(Var("thcnt")), <<"wait">>, Jeq(Var("thcnt"), 4, 6), Stop,
             Set(Var("thcnt"), 5), Stop>>
BestwaitMain ==
    <<Set(Var("thcnt"), 1), Imask(0, TestInts), Create({1}), Until(Var("thcnt"), 2),
      Jeq(Var("thcnt"), 5, 10), Swi({4}), Join({1}), Check(Var("thcnt"), 5), Stop, <<"fail">> >>

(* pend_wake_wait.c: ints_expected is one more than ints_handled was at the  *)
(* start of a round, so only the first j of a round raises its interrupt.    *)
thread_func(t) ==
    <<Imask(t, {}), AtomicInc(Var("threads_started")), Jeq(Var("thread_exit_flag"), 1, 7),
      <<"lock">>, <<"unlock">>, Jump(3), Imask(t, TestInts), Stop>>
BitsOf(n) == {i \in AllInts : (n \div 2^i) % 2 = 1}
PendRound == <<Load(Var("count")), <<"retry", Var("count")>>, Swi({0}), <<"again">> >>
PendMain ==
    <<Imask(0, TestInts), Create({1, 2}), Until(Var("threads_started"), 2)>>
    \o Times(INTS_PER_ITER, PendRound) \o <<AtomicInc(Var("thread_exit_flag"))>>
    \o [k \in 1 .. MAX_INT_NUM * 2 |->      \* swi(j); swi(MAX_INT_NUM - j);
            LET j == (k - 1) \div 2
            IN Swi(BitsOf(IF k % 2 = 1 THEN j ELSE MAX_INT_NUM - j))]
    \o <<Join({1, 2}), Stop>>

(* The handlers, called by the dispatcher, which ends with ciad and rte.     *)
HandlerCode(p, i) ==
    CASE p \in {"swi", "swi2"} -> <<Load(<<"count", i>>), Store(<<"count", i>>), <<"return">> >>
      [] p = "bestwait" -> <<Set(Var("thcnt"), 4), <<"return">> >>
      [] p = "pend" -> << <<"lock">>, <<"unlock">>, AtomicInc(Var("count")), <<"return">> >>
      [] OTHER -> << <<"return">> >>

Programs == {"lock", "locklock", "syscfg", "mutex", "scheduling", "nmi", "ciad", "swi", "swi2",
             "bestwait", "pend"}

Code(p, t) ==
    CASE p = "lock" -> IF t = 0 THEN LockMain ELSE LockThread
      [] p = "locklock" -> LockLockMain
      [] p = "syscfg" -> IF t = 0 THEN SyscfgMain ELSE IF t = 1 THEN mod_syscfg ELSE mod_k0
      [] p = "mutex" -> IF t = 0 THEN MutexMain ELSE MutexThread(t)
      [] p = "scheduling" -> IF t = 0 THEN SchedulingMain ELSE SchedulingThread
      [] p = "nmi" -> IF t = 0 THEN NmiMain ELSE thread1_fn
      [] p = "ciad" -> CiadMain
      [] p = "swi" -> IF t = 0 THEN SwiMain ELSE my_thread_function(t)
      [] p = "swi2" -> IF t = 0 THEN Swi2Main ELSE IF t = 1 THEN interrupt_cycles(t) ELSE task_thread
      [] p = "bestwait" -> IF t = 0 THEN BestwaitMain ELSE thread1
      [] p = "pend" -> IF t = 0 THEN PendMain ELSE thread_func(t)

CodeTable == [p \in Programs |-> [t \in Threads |-> Code(p, t)]]
HandlerTable == [p \in Programs |-> [i \in TestInts |-> HandlerCode(p, i)]]

-----------------------------------------------------------------------------
VARIABLES
    ttProg,     \* the test
    ttHw,       \* the hardware threads the machine has
    ttPc,       \* next operation of a thread; 0: stopped
    ttIsr,      \* next operation of its handler; 0: not in a handler
    ttCur,      \* the interrupt the handler serves
    ttReg,      \* a register, or a SYSCFG value read
    tt          \* everything shared

ttVars == <<ttProg, ttHw, ttPc, ttIsr, ttCur, ttReg, tt>>

Cells == {<<x, 0>> : x \in {"thcnt", "stopped", "thread1_running", "tasks_disabled",
                           "threads_started", "thread_exit_flag"}}
         \cup ({"count", "thid"} \X (Threads \cup TestInts))

TtInit ==
    /\ ttProg \in Programs
    /\ ttHw \in {Threads, 0 .. WORKERS - 1}
    /\ ttProg # "mutex" => ttHw = Threads
    /\ ttPc = [t \in Threads |-> IF t = 0 THEN 1 ELSE 0]
    /\ ttIsr = [t \in Threads |-> 0]
    /\ ttCur = [t \in Threads |-> 0]
    /\ ttReg = [t \in Threads |-> 0]
    /\ tt = [mem |-> [c \in Cells |-> 0],
             lock |-> Nobody,               \* SYSCFG.K0LOCK or TLBLOCK and its owner
             waiting |-> {},                \* MODECTL wait bits
             imask |-> [t \in Threads |-> {}],
             inten |-> TRUE,                \* SYSCFG.GIE
             ipend |-> {}, iad |-> {},
             raised |-> [i \in TestInts |-> 0], \* swis of an interrupt since memset
             fail |-> FALSE]

TtText(t) == CodeTable[ttProg][t]
TtHandler(t) == HandlerTable[ttProg][ttCur[t]]
TtOp(t) == IF ttIsr[t] > 0 THEN TtHandler(t)[ttIsr[t]] ELSE TtText(t)[ttPc[t]]
Running(t) == ttPc[t] > 0 /\ t \notin tt.waiting
At(t, kind) == Running(t) /\ TtOp(t)[1] = kind
Arg(t) == TtOp(t)[2]
Arg2(t) == TtOp(t)[3]

(* The operation is done; the thread goes on at l.                           *)
GotoOp(t, l) ==
    IF ttIsr[t] > 0 THEN ttIsr' = [ttIsr EXCEPT ![t] = l] /\ UNCHANGED ttPc
                    ELSE ttPc' = [ttPc EXCEPT ![t] = l] /\ UNCHANGED ttIsr
NextOp(t) ==
    /\ GotoOp(t, (IF ttIsr[t] > 0 THEN ttIsr[t] ELSE ttPc[t]) + 1)
    /\ UNCHANGED <<ttProg, ttHw, ttCur>>
TtFixed == <<ttProg, ttHw, ttCur, ttReg>>

(* thread_create starts a thread; there is no thread to start beyond ttHw.   *)
OpCreate(t) ==
    /\ At(t, "create")
    /\ ttPc' = [u \in Threads |-> IF u = t THEN ttPc[t] + 1
                                  ELSE IF u \in Arg(t) \cap ttHw THEN 1 ELSE ttPc[u]]
    /\ UNCHANGED <<TtFixed, ttIsr, tt>>

OpJoin(t) ==
    /\ At(t, "join") /\ \A u \in Arg(t) : ttPc[u] = 0
    /\ NextOp(t) /\ UNCHANGED <<ttReg, tt>>

OpStop(t) ==
    /\ At(t, "stop")
    /\ ttPc' = [ttPc EXCEPT ![t] = 0]
    /\ UNCHANGED <<TtFixed, ttIsr, tt>>

(* k0lock and tlblock: granted when nobody holds the lock; unlock by a       *)
(* thread that does not hold it does nothing.                                *)
OpLock(t) ==
    /\ At(t, "lock") /\ tt.lock = Nobody
    /\ tt' = [tt EXCEPT !.lock = t]
    /\ NextOp(t) /\ UNCHANGED ttReg

OpUnlock(t) ==
    /\ At(t, "unlock")
    /\ tt' = [tt EXCEPT !.lock = IF @ = t THEN Nobody ELSE @]
    /\ NextOp(t) /\ UNCHANGED ttReg

(* SYSCFG holds the lock bit and GIE.  A write puts back the GIE that was    *)
(* read, and on a machine that lets a program write the lock bit that bit    *)
(* too: nobody, or the writer, then has the lock.                            *)
SyscfgValue == (IF tt.lock = Nobody THEN 0 ELSE 1) + (IF tt.inten THEN 2 ELSE 0)
LockWritten(t) == IF ttReg[t] % 2 = 0 THEN Nobody ELSE IF tt.lock = Nobody THEN t ELSE tt.lock

OpGetSyscfg(t) ==
    /\ At(t, "getsyscfg")
    /\ ttReg' = [ttReg EXCEPT ![t] = SyscfgValue]
    /\ NextOp(t) /\ UNCHANGED tt

OpPutSyscfg(t) ==
    /\ At(t, "putsyscfg")
    /\ \E lock \in {tt.lock, LockWritten(t)} :
           tt' = [tt EXCEPT !.lock = lock, !.inten = (ttReg[t] >= 2)]
    /\ NextOp(t) /\ UNCHANGED ttReg

(* Shared variables.                                                         *)
OpUntil(t) ==
    /\ At(t, "until") /\ tt.mem[Arg(t)] >= Arg2(t)
    /\ NextOp(t) /\ UNCHANGED <<ttReg, tt>>

OpJump(t) ==
    /\ \/ At(t, "jump") /\ GotoOp(t, Arg(t))
       \/ /\ At(t, "jeq")
          /\ GotoOp(t, IF tt.mem[Arg(t)] = Arg2(t) THEN TtOp(t)[4] ELSE ttPc[t] + 1)
       \/ /\ At(t, "retry")                 \* while (ints_handled < ints_expected)
          /\ GotoOp(t, ttPc[t] + IF tt.mem[Arg(t)] < ttReg[t] + 1 THEN 1 ELSE 3)
       \/ At(t, "again") /\ GotoOp(t, ttPc[t] - 2)
    /\ UNCHANGED <<TtFixed, tt>>

OpLoad(t) ==
    /\ At(t, "load")
    /\ ttReg' = [ttReg EXCEPT ![t] = tt.mem[Arg(t)]]
    /\ NextOp(t) /\ UNCHANGED tt

OpStore(t) ==
    /\ \/ At(t, "store") /\ tt' = [tt EXCEPT !.mem[Arg(t)] = ttReg[t] + 1]
       \/ At(t, "set") /\ tt' = [tt EXCEPT !.mem[Arg(t)] = Arg2(t)]
       \/ At(t, "inc") /\ tt' = [tt EXCEPT !.mem[Arg(t)] = @ + 1]
       \/ /\ At(t, "zero")                  \* memset of ints_by_irq
          /\ tt' = [tt EXCEPT !.mem = [c \in Cells |-> IF c[1] = "count" THEN 0 ELSE @[c]],
                              !.raised = [i \in TestInts |-> 0]]
    /\ NextOp(t) /\ UNCHANGED ttReg

(* A check of the test.                                                      *)
OpCheck(t) ==
    /\ \/ At(t, "check") /\ tt' = [tt EXCEPT !.fail = @ \/ tt.mem[Arg(t)] # Arg2(t)]
       \/ At(t, "checkiad") /\ tt' = [tt EXCEPT !.fail = @ \/ tt.iad # Arg(t)]
    /\ NextOp(t) /\ UNCHANGED ttReg

(* A failed assert, or a return 1: the program ends.                         *)
OpFail(t) ==
    /\ At(t, "fail")
    /\ tt' = [tt EXCEPT !.fail = TRUE]
    /\ ttPc' = [u \in Threads |-> 0]
    /\ UNCHANGED <<TtFixed, ttIsr>>

(* Waiting, interrupts, NMIs.                                                *)
OpWait(t) ==
    /\ At(t, "wait")
    /\ tt' = [tt EXCEPT !.waiting = @ \cup {t}]
    /\ NextOp(t) /\ UNCHANGED ttReg

(* wait_for_threads: MODECTL shows every thread waiting.  The wrong variant  *)
(* is content with one.                                                      *)
OneWaiting(t) ==
    /\ At(t, "waiting") /\ Arg(t) \cap tt.waiting # {}
    /\ NextOp(t) /\ UNCHANGED <<ttReg, tt>>

wait_for_threads(t) ==
    /\ At(t, "waiting") /\ Arg(t) \subseteq tt.waiting
    /\ NextOp(t) /\ UNCHANGED <<ttReg, tt>>

OpResume(t) ==
    /\ At(t, "resume")
    /\ tt' = [tt EXCEPT !.waiting = @ \ Arg(t)]
    /\ NextOp(t) /\ UNCHANGED ttReg

(* swi; pend_wake_wait.c raises one interrupt any number of times.           *)
Counted(t) == IF ttProg = "pend" THEN {} ELSE Arg(t)
OpSwi(t) ==
    /\ At(t, "swi")
    /\ tt' = [tt EXCEPT !.ipend = @ \cup Arg(t),
                        !.raised = [i \in TestInts |-> IF i \in Counted(t) THEN @[i] + 1 ELSE @[i]]]
    /\ NextOp(t) /\ UNCHANGED ttReg

OpImask(t) ==
    /\ \/ At(t, "imask") /\ tt' = [tt EXCEPT !.imask[Arg(t)] = Arg2(t)]
       \/ At(t, "inten") /\ tt' = [tt EXCEPT !.inten = Arg(t)]
       \/ At(t, "siad") /\ tt' = [tt EXCEPT !.iad = @ \cup Arg(t)]
       \/ At(t, "ciad") /\ tt' = [tt EXCEPT !.iad = @ \ Arg(t)]
    /\ NextOp(t) /\ UNCHANGED ttReg

(* nmi: the threads go to nmi_handler, which is thread_stop.                 *)
OpNmi(t) ==
    /\ At(t, "nmi")
    /\ ttPc' = [u \in Threads |-> IF u \in Arg(t) THEN Len(TtText(u))
                                  ELSE IF u = t THEN ttPc[t] + 1 ELSE ttPc[u]]
    /\ UNCHANGED <<TtFixed, ttIsr, tt>>

(* A thread takes a pending interrupt between two operations, also out of    *)
(* wait, but not in a handler (SSR.EX) nor stalled for a lock.               *)
Stalled(t) == At(t, "lock") /\ tt.lock # Nobody
Takes(t, i) ==
    /\ ttPc[t] > 0 /\ ttIsr[t] = 0 /\ ~Stalled(t)
    /\ tt.inten /\ i \in tt.ipend \ (tt.iad \cup tt.imask[t])
TakeInterrupt(t) == \E i \in TestInts :
    /\ Takes(t, i)
    /\ tt' = [tt EXCEPT !.ipend = @ \ {i}, !.iad = @ \cup {i}, !.waiting = @ \ {t}]
    /\ ttCur' = [ttCur EXCEPT ![t] = i]
    /\ ttIsr' = [ttIsr EXCEPT ![t] = 1]
    /\ UNCHANGED <<ttProg, ttHw, ttPc, ttReg>>

(* The dispatcher's ciad and rte.                                            *)
ReturnFromInterrupt(t) ==
    /\ At(t, "return")
    /\ tt' = [tt EXCEPT !.iad = @ \ {ttCur[t]}]
    /\ ttIsr' = [ttIsr EXCEPT ![t] = 0]
    /\ UNCHANGED <<TtFixed, ttPc>>

TtStep(t) ==
    \/ OpCreate(t) \/ OpJoin(t) \/ OpStop(t) \/ OpUnlock(t) \/ OpGetSyscfg(t) \/ OpPutSyscfg(t)
    \/ OpUntil(t) \/ OpJump(t) \/ OpLoad(t) \/ OpStore(t) \/ OpCheck(t) \/ OpFail(t) \/ OpWait(t)
    \/ wait_for_threads(t) \/ OpResume(t) \/ OpSwi(t) \/ OpImask(t) \/ OpNmi(t)
    \/ ReturnFromInterrupt(t)
TtNext == \E t \in Threads : TtStep(t) \/ OpLock(t) \/ TakeInterrupt(t)

(* main() has returned, or an assert has ended the program.                  *)
TtEnded == ttPc[0] = 0
(* test-thread.c: thread t has incremented thcnt.                            *)
ThroughMutex(t) == ttPc[t] \in 4 .. 6 \/ (ttPc[t] = 0 /\ ttPc[0] \notin 1 .. 2)
(* A thread wants the lock it holds: what k0locklock.c is about, and what    *)
(* pend_wake_wait.c's handler does when it interrupts the lock's holder.     *)
SelfLocked == tt.lock # Nobody /\ At(tt.lock, "lock")
(* k0lock-syscfg.c: mod_syscfg, which never locks, has the lock because it   *)
(* wrote back the lock bit it had read while mod_k0 held the lock.           *)
LockLeftSet == ttProg = "syscfg" /\ tt.lock = 1
(* bestwait.c: the interrupt meant to end the wait came before it.           *)
WaitAfterWakeup == ttProg = "bestwait" /\ 1 \in tt.waiting /\ tt.mem[Var("thcnt")] = 4
=============================================================================
