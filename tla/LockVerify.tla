------------------------------- MODULE LockVerify -------------------------------
(* lock_verify.c: the hardware locks k0lock and tlblock under contention, and *)
(* software interrupts aimed at the threads that hold or wait for them.  Main *)
(* runs the multi-thread tests of main() one after the other; each starts     *)
(* threads 1 .. COMPUTE_THREADS through the barrier of ThreadSemaphore and    *)
(* joins them.                                                                *)
(*                                                                            *)
(* Time is abstract except where the test leans on it, as its comments say:   *)
(*   - delay(1024) with a lock held outlasts the delivery of a pending        *)
(*     interrupt this thread can take, and the workers' loops outlast Main's  *)
(*     swi loop (LongDelay);                                                  *)
(*   - delay(200) outlasts the one instruction between a waiter's signal and  *)
(*     its lock instruction (Main's StartFiring).                             *)
EXTENDS Naturals, FiniteSets, Sequences

CONSTANTS
    Main, Holder, Waiters,    \* thread 0; threads 1, 2 and 3
    ITERATIONS,               \* of each counting thread, and of the swi loop
    STALL_SWIS,
    NoThread

Workers == {Holder} \cup Waiters
Threads == {Main} \cup Workers
COMPUTE_THREADS == Cardinality(Workers)

ASSUME ThreadAssumption ==
    /\ IsFiniteSet(Waiters) /\ Waiters # {}
    /\ Main \notin Workers /\ Holder \notin Waiters /\ NoThread \notin Threads
ASSUME BoundAssumption == ITERATIONS \in Nat \ {0} /\ STALL_SWIS \in Nat \ {0}

(* The calls in main(), after the single-thread register checks.             *)
Plan == << [test |-> "mutex", lock |-> "k0"], [test |-> "mutex", lock |-> "tlb"],
           [test |-> "intr",  lock |-> "k0"], [test |-> "intr",  lock |-> "tlb"],
           [test |-> "stall", lock |-> "k0"], [test |-> "stall", lock |-> "tlb"] >>

VARIABLES
    step, mpc, swis,          \* the test Main is in, where, swis issued in it
    owner,                    \* who holds each hardware lock (SYSCFG.KL, TL)
    pc, iter, temp,           \* workers: where, loop count, the local temp
    shared_counter,
    pend, iad, masked,        \* interrupt 0: IPEND, IAD; threads masking it
    isr, reg, syscfg,         \* handler progress of a thread, its registers
    isr_count,                \* the handler's count, and how often it found the
    isr_set_count,            \* lock under test set (isr_kl_, isr_tl_set_count)
    taken, takenByOwner,      \* deliveries in this test; those to the lock's owner
    holder_ready, waiters_ready, stall_phase, swis_complete,
    isr_while_pended, stall_isr_htid

testVars == <<holder_ready, waiters_ready, stall_phase, swis_complete>>
counts == <<isr_count, isr_set_count, taken, takenByOwner>>
isrVars == <<isr, reg, syscfg, counts, isr_while_pended, stall_isr_htid>>
intVars == <<pend, iad, masked>>
mainVars == <<step, mpc, swis>>
workVars == <<pc, iter, temp>>
vars == <<mainVars, owner, workVars, shared_counter, intVars, isrVars, testVars>>

Test == Plan[step].test
Lock == Plan[step].lock
Done == step = Len(Plan) + 1

Init ==
    /\ step = 1 /\ mpc = "setup" /\ swis = 0
    /\ owner = [l \in {"k0", "tlb"} |-> NoThread]
    /\ pc = [w \in Workers |-> "stopped"]
    /\ iter = [w \in Workers |-> 0]
    /\ temp = [w \in Workers |-> 0]
    /\ shared_counter = 0
    /\ pend = FALSE /\ iad = FALSE /\ masked = {}
    /\ isr = [w \in Workers |-> "no"]
    /\ reg = [w \in Workers |-> 0]
    /\ syscfg = [w \in Workers |-> FALSE]
    /\ isr_count = 0 /\ isr_set_count = 0 /\ taken = 0 /\ takenByOwner = 0
    /\ holder_ready = FALSE /\ waiters_ready = 0
    /\ stall_phase = FALSE /\ swis_complete = FALSE
    /\ isr_while_pended = 0
    /\ stall_isr_htid = [w \in Workers |-> 0]

-----------------------------------------------------------------------------
(* Main.                                                                     *)

(* Threads ws come out of event_handle_reset (imask = 0) and run from l.     *)
StartThreads(ws, l) ==
    /\ pc' = [w \in Workers |-> IF w \in ws THEN l ELSE pc[w]]
    /\ iter' = [w \in Workers |-> IF w \in ws THEN 0 ELSE iter[w]]
    /\ temp' = [w \in Workers |-> IF w \in ws THEN 0 ELSE temp[w]]

(* k0_shared_counter = 0.                                                    *)
ResetCounter == shared_counter' = 0

(* test_*_mutual_exclusion; test_*_with_interrupts, which also masks Main.   *)
StartCounting ==
    /\ ~Done /\ mpc = "setup" /\ Test \in {"mutex", "intr"}
    /\ ResetCounter
    /\ \/ Test = "intr" /\ isr_count' = 0 /\ isr_set_count' = 0
       \/ Test # "intr" /\ UNCHANGED <<isr_count, isr_set_count>>
    /\ StartThreads(Workers, "lock")
    /\ masked' = IF Test = "intr" THEN {Main} ELSE masked \ Workers
    /\ mpc' = IF Test = "intr" THEN "fire" ELSE "join"
    /\ UNCHANGED <<step, swis, owner, pend, iad, isr, reg, syscfg, taken, takenByOwner,
                   isr_while_pended, stall_isr_htid, testVars>>

(* The swi loop of test_*_with_interrupts.                                   *)
Fire ==
    /\ mpc = "fire" /\ swis < ITERATIONS
    /\ pend' = TRUE
    /\ swis' = swis + 1
    /\ mpc' = IF swis' = ITERATIONS THEN "join" ELSE mpc
    /\ UNCHANGED <<step, owner, workVars, shared_counter, iad, masked, isrVars, testVars>>

(* stall_test_setup and the start of the holder.                             *)
stall_test_setup ==
    /\ ~Done /\ mpc = "setup" /\ Test = "stall"
    /\ holder_ready' = FALSE /\ waiters_ready' = 0
    /\ stall_phase' = FALSE /\ swis_complete' = FALSE
    /\ isr_while_pended' = 0
    /\ stall_isr_htid' = [w \in Workers |-> 0]
    /\ masked' = {Main}
    /\ StartThreads({Holder}, "mask")
    /\ mpc' = "holder"
    /\ UNCHANGED <<step, swis, owner, shared_counter, pend, iad, isr, reg, syscfg, counts>>

(* while (!holder_ready); start the waiters.                                 *)
StartWaiters ==
    /\ mpc = "holder" /\ holder_ready
    /\ StartThreads(Waiters, "signal")
    /\ masked' = masked \ Waiters
    /\ mpc' = "waiters"
    /\ UNCHANGED <<step, swis, owner, shared_counter, pend, iad, isrVars, testVars>>

(* while (waiters_ready < 2); delay(200); stall_phase = 1.                   *)
StartFiring ==
    /\ mpc = "waiters" /\ waiters_ready = Cardinality(Waiters)
    /\ \A w \in Waiters : pc[w] = "lock" /\ isr[w] = "no"
    /\ stall_phase' = TRUE
    /\ mpc' = "stallFire"
    /\ UNCHANGED <<step, swis, owner, workVars, shared_counter, intVars, isrVars,
                   holder_ready, waiters_ready, swis_complete>>

StallFire ==
    /\ mpc = "stallFire" /\ swis < STALL_SWIS
    /\ pend' = TRUE
    /\ swis' = swis + 1
    /\ mpc' = IF swis' = STALL_SWIS THEN "endPhase" ELSE mpc
    /\ UNCHANGED <<step, owner, workVars, shared_counter, iad, masked, isrVars, testVars>>

(* The wrong variant of the two assignments below: in the other order.       *)
CompleteFirst ==
    /\ \/ mpc = "endPhase" /\ mpc' = "complete" /\ swis_complete' = TRUE
          /\ UNCHANGED stall_phase
       \/ mpc = "complete" /\ mpc' = "join" /\ stall_phase' = FALSE
          /\ UNCHANGED swis_complete
    /\ UNCHANGED <<step, swis, owner, workVars, shared_counter, intVars, isrVars,
                   holder_ready, waiters_ready>>

(* stall_phase = 0; swis_complete = 1.                                       *)
EndFiring ==
    /\ \/ mpc = "endPhase" /\ mpc' = "complete" /\ stall_phase' = FALSE
          /\ UNCHANGED swis_complete
       \/ mpc = "complete" /\ mpc' = "join" /\ swis_complete' = TRUE
          /\ UNCHANGED stall_phase
    /\ UNCHANGED <<step, swis, owner, workVars, shared_counter, intVars, isrVars,
                   holder_ready, waiters_ready>>

(* thread_join, the checks of the test, and on to the next.                  *)
Join ==
    /\ ~Done /\ mpc = "join"
    /\ \A w \in Workers : pc[w] = "stopped"
    /\ step' = step + 1
    /\ mpc' = "setup"
    /\ swis' = 0
    /\ taken' = 0 /\ takenByOwner' = 0
    /\ UNCHANGED <<owner, workVars, shared_counter, intVars, isr, reg, syscfg, isr_count,
                   isr_set_count, isr_while_pended, stall_isr_htid, testVars>>

-----------------------------------------------------------------------------
(* Workers.  A worker runs when it is not in an interrupt handler.           *)

Runs(w, l) == pc[w] = l /\ isr[w] = "no"
Goto(w, l) == pc' = [pc EXCEPT ![w] = l]

(* do_k0lock, do_tlblock: the instruction stalls while another thread, or    *)
(* this one, has the lock.  The wrong variant is a section without it.       *)
NoLock(w) == UNCHANGED owner
AcquiredBy(w) ==
    /\ owner[Lock] = NoThread
    /\ owner' = [owner EXCEPT ![Lock] = w]

(* The lock at the top of a critical section.                                *)
Acquire(w) ==
    /\ Runs(w, "lock")
    /\ AcquiredBy(w)
    /\ Goto(w, CASE Test = "stall" /\ w = Holder -> "ready"
                 [] Test = "stall" /\ w # Holder -> "delay"
                 [] OTHER -> "load")
    /\ UNCHANGED <<mainVars, iter, temp, shared_counter, intVars, isrVars, testVars>>

(* temp = shared_counter                                                     *)
Load(w) ==
    /\ Runs(w, "load")
    /\ temp' = [temp EXCEPT ![w] = shared_counter]
    /\ Goto(w, "store")
    /\ UNCHANGED <<mainVars, owner, iter, shared_counter, intVars, isrVars, testVars>>

(* A long delay is over for a thread: no interrupt it could take is left, and *)
(* Main's swi loop has ended.                                                *)
LongDelay(w) ==
    Test \in {"intr", "stall"} => mpc = "join" /\ ~(pend /\ ~iad)

(* delay; shared_counter = temp + 1                                          *)
Store(w) ==
    /\ Runs(w, "store")
    /\ iter[w] + 1 = ITERATIONS => LongDelay(w)
    /\ shared_counter' = temp[w] + 1
    /\ iter' = [iter EXCEPT ![w] = @ + 1]
    /\ Goto(w, "unlock")
    /\ UNCHANGED <<mainVars, owner, temp, intVars, isrVars, testVars>>

(* do_k0unlock / do_tlbunlock; the next iteration, or the thread stops.      *)
Release(w) ==
    /\ Runs(w, "unlock")
    /\ owner' = [owner EXCEPT ![Lock] = NoThread]
    /\ Goto(w, IF Test # "stall" /\ iter[w] < ITERATIONS THEN "lock" ELSE "stopped")
    /\ UNCHANGED <<mainVars, iter, temp, shared_counter, intVars, isrVars, testVars>>

(* k0lock_holder / tlblock_holder: mask, lock, signal, hold, unlock.         *)
HolderMasks(w) ==
    /\ Runs(w, "mask")
    /\ masked' = masked \cup {w}
    /\ Goto(w, "lock")
    /\ UNCHANGED <<mainVars, owner, iter, temp, shared_counter, pend, iad, isrVars, testVars>>

HolderReady(w) ==
    /\ Runs(w, "ready")
    /\ holder_ready' = TRUE
    /\ Goto(w, "hold")
    /\ UNCHANGED <<mainVars, owner, iter, temp, shared_counter, intVars, isrVars,
                   waiters_ready, stall_phase, swis_complete>>

HolderDone(w) ==
    /\ Runs(w, "hold") /\ swis_complete
    /\ Goto(w, "unlock")
    /\ UNCHANGED <<mainVars, owner, iter, temp, shared_counter, intVars, isrVars, testVars>>

(* k0lock_waiter / tlblock_waiter: signal, lock, delay(1024), unlock.        *)
WaiterSignals(w) ==
    /\ Runs(w, "signal")
    /\ waiters_ready' = waiters_ready + 1
    /\ Goto(w, "lock")
    /\ UNCHANGED <<mainVars, owner, iter, temp, shared_counter, intVars, isrVars,
                   holder_ready, stall_phase, swis_complete>>

WaiterDelays(w) ==
    /\ Runs(w, "delay") /\ LongDelay(w)
    /\ Goto(w, "unlock")
    /\ UNCHANGED <<mainVars, owner, iter, temp, shared_counter, intVars, isrVars, testVars>>

Worker(w) ==
    \/ Acquire(w) \/ Load(w) \/ Store(w) \/ Release(w)
    \/ HolderMasks(w) \/ HolderReady(w) \/ HolderDone(w)
    \/ WaiterSignals(w) \/ WaiterDelays(w)

-----------------------------------------------------------------------------
(* Interrupt 0.                                                              *)

(* A thread in a stall condition does not service interrupts.                *)
Stalled(w) == pc[w] = "lock" /\ owner[Lock] # NoThread

Deliver(w) ==
    /\ ~Done
    /\ pend /\ ~iad
    /\ pc[w] # "stopped" /\ w \notin masked /\ isr[w] = "no" /\ ~Stalled(w)
    /\ pend' = FALSE
    /\ iad' = TRUE
    /\ isr' = [isr EXCEPT ![w] = "enter"]
    /\ taken' = taken + 1
    /\ takenByOwner' = takenByOwner + (IF owner[Lock] = w THEN 1 ELSE 0)
    /\ UNCHANGED <<mainVars, owner, workVars, shared_counter, masked, reg, syscfg, isr_count,
                   isr_set_count, isr_while_pended, stall_isr_htid, testVars>>

(* Wrong variants of the handler: it takes the lock under test (and gives it *)
(* back in the same step when it gets it); it re-enables its own interrupt,  *)
(* as bestwait.c's handler does, before it has counted.                      *)
LockingHandler(w) ==
    /\ isr[w] = "enter"
    /\ owner[Lock] = NoThread
    /\ reg' = [reg EXCEPT ![w] = isr_count]
    /\ syscfg' = [syscfg EXCEPT ![w] = owner[Lock] # NoThread]
    /\ isr' = [isr EXCEPT ![w] = "write"]
    /\ UNCHANGED <<mainVars, owner, workVars, shared_counter, intVars, counts,
                   isr_while_pended, stall_isr_htid, testVars>>

EarlyCiad(w) ==
    /\ isr[w] = "enter"
    /\ reg' = [reg EXCEPT ![w] = isr_count]
    /\ syscfg' = [syscfg EXCEPT ![w] = owner[Lock] # NoThread]
    /\ isr' = [isr EXCEPT ![w] = "write"]
    /\ iad' = FALSE
    /\ UNCHANGED <<mainVars, owner, workVars, shared_counter, pend, masked, counts,
                   isr_while_pended, stall_isr_htid, testVars>>

(* lock_interrupt_handler reads SYSCFG and loads isr_count.  The two set     *)
(* counts are updated with it: one of them stays 0, as nobody takes the      *)
(* other lock.                                                               *)
HandlerReads(w) ==
    /\ isr[w] = "enter"
    /\ reg' = [reg EXCEPT ![w] = isr_count]
    /\ syscfg' = [syscfg EXCEPT ![w] = owner[Lock] # NoThread]
    /\ isr' = [isr EXCEPT ![w] = "write"]
    /\ UNCHANGED <<mainVars, owner, workVars, shared_counter, intVars, counts,
                   isr_while_pended, stall_isr_htid, testVars>>

(* ... and stores it incremented; or stall_isr counts by thread and tests    *)
(* stall_phase.  Then the dispatcher's ciad and the restored registers.      *)
HandlerWrites(w) ==
    /\ isr[w] = "write"
    /\ IF Test = "stall"
         THEN /\ stall_isr_htid' = [stall_isr_htid EXCEPT ![w] = @ + 1]
              /\ isr_while_pended' = isr_while_pended + (IF stall_phase THEN 1 ELSE 0)
              /\ UNCHANGED <<isr_count, isr_set_count>>
         ELSE /\ isr_count' = reg[w] + 1
              /\ isr_set_count' = isr_set_count + (IF syscfg[w] THEN 1 ELSE 0)
              /\ UNCHANGED <<stall_isr_htid, isr_while_pended>>
    /\ isr' = [isr EXCEPT ![w] = "no"]
    /\ reg' = [reg EXCEPT ![w] = 0]
    /\ syscfg' = [syscfg EXCEPT ![w] = FALSE]
    /\ iad' = FALSE
    /\ UNCHANGED <<mainVars, owner, workVars, shared_counter, pend, masked, taken, takenByOwner,
                   testVars>>

Handler(w) == HandlerReads(w) \/ HandlerWrites(w)

-----------------------------------------------------------------------------
MainNext ==
    \/ StartCounting \/ Fire \/ stall_test_setup \/ StartWaiters \/ StartFiring
    \/ StallFire \/ EndFiring \/ Join

Finished == Done /\ UNCHANGED vars

Next == MainNext \/ Finished \/ \E w \in Workers : Worker(w) \/ Deliver(w) \/ Handler(w)

Spec == Init /\ [][Next]_vars

(* Threads run on; a lock that is free again and again is granted to every   *)
(* waiting thread in the end; a deliverable interrupt is delivered.          *)
FairSpec ==
    /\ Spec
    /\ WF_vars(MainNext)
    /\ \A w \in Workers :
         /\ WF_vars(Worker(w)) /\ WF_vars(Handler(w)) /\ WF_vars(Deliver(w))
         /\ SF_vars(Acquire(w))

-----------------------------------------------------------------------------
Joined == mpc = "join" /\ \A w \in Workers : pc[w] = "stopped"

(* k0lock and tlblock make the read-delay-write sections exclusive, with and *)
(* without interrupts in between: check32(shared_counter, COMPUTE_THREADS *  *)
(* ITERATIONS) after the join.                                               *)
CounterExact ==
    ~Done /\ Joined /\ Test # "stall" => shared_counter = COMPUTE_THREADS * ITERATIONS

(* The handler's isr_count++ is not atomic and any worker may run it, yet no *)
(* count is lost: the interrupt stays disabled until the handler is done.    *)
(* And the SWIs did interrupt the workers, and "the lock bit in SYSCFG       *)
(* remains set throughout the ISR" of the thread that has the lock: each such *)
(* interrupt is in the set count.                                            *)
InterruptsCounted ==
    ~Done /\ Joined /\ Test = "intr" =>
        /\ isr_count = taken /\ isr_count # 0
        /\ takenByOwner <= isr_set_count /\ isr_set_count <= isr_count

(* stall_test_verify: no handler ran in the stall phase, none on the holder; *)
(* after it, some waiter served the pended SWIs.                             *)
StalledNotInterrupted ==
    ~Done /\ Test = "stall" /\ mpc \in {"stallFire", "endPhase", "complete", "join"} =>
        /\ isr_while_pended = 0
        /\ stall_isr_htid[Holder] = 0
        /\ Joined => \E w \in Waiters : stall_isr_htid[w] # 0

(* Every test ends: nobody waits for a lock for ever, and no interrupt holds *)
(* up the owner of the lock another one waits for.                           *)
TestsEnd == <>Done
=============================================================================
