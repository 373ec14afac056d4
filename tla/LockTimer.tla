------------------------------- MODULE LockTimer -------------------------------
(* lock_timer_test.c: workers take a hardware lock, read the timer before and *)
(* after a long delay, and record the two readings; Main raises all           *)
(* interrupts again and again while they do.  run_lock_test runs for k0lock   *)
(* and then for tlblock, on the threads it launches through the barrier of    *)
(* ThreadSemaphore.                                                           *)
(*                                                                            *)
(* The clock ticks once per delay, whoever delays.  One assumption about time *)
(* is the test's own: delay(DELAY_ITERS) outlasts Main's way from its test of *)
(* global_round_counter to swi, and the delivery of what is pending.  The     *)
(* checks of how interrupts spread over threads are left out: they depend on  *)
(* the machine's choice of a thread.                                          *)
EXTENDS Naturals, FiniteSets, Totals

CONSTANTS
    Workers,      \* threads 1 .. N_THREADS
    Ints,         \* 0 .. MAX_INT_NUM - 1
    TARGET,       \* N_THREADS * ROUNDS_PER_THREAD
    MaxSwi,       \* bound on the SWIs of a test: Main then waits for the rounds
    NoThread, NoInt, NoRecord

ASSUME WorkersAssumption == IsFiniteSet(Workers) /\ Workers # {} /\ NoThread \notin Workers
ASSUME IntsAssumption == IsFiniteSet(Ints) /\ Ints # {} /\ NoInt \notin Ints
ASSUME TargetAssumption == TARGET \in Nat \ {0} /\ MaxSwi \in Nat

Rounds == 0 .. TARGET - 1

Records == [start_time : Nat, end_time : Nat, thread_id : Workers, round : Rounds]
ASSUME RecordAssumption == NoRecord \notin Records

VARIABLES
    test, mpc,                  \* calls of run_lock_test so far; Main
    swi_issued_count, global_round_counter, test_complete,
    owner,                      \* holder of the lock under test
    clock,
    pc, round, start, end,      \* a worker and its locals
    lock_records,
    ipend, iad, isr, step,      \* interrupt a worker's handler serves, and where
    ints_by_irq, ints_by_tid

mainVars == <<test, mpc, swi_issued_count, test_complete>>
workVars == <<pc, round, start, end>>
intVars == <<ipend, iad, isr, step, ints_by_irq, ints_by_tid>>
vars == <<mainVars, global_round_counter, owner, clock, workVars, lock_records, intVars>>

NumTests == 2
Done == test = NumTests

Init ==
    /\ test = 0 /\ mpc = "setup" /\ swi_issued_count = 0
    /\ global_round_counter = 0 /\ test_complete = FALSE
    /\ owner = NoThread
    /\ clock = 0
    /\ pc = [w \in Workers |-> "stopped"]
    /\ round = [w \in Workers |-> 0]
    /\ start = [w \in Workers |-> 0]
    /\ end = [w \in Workers |-> 0]
    /\ lock_records = [r \in Rounds |-> NoRecord]
    /\ ipend = {} /\ iad = {}
    /\ isr = [w \in Workers |-> NoInt]
    /\ step = [w \in Workers |-> "irq"]
    /\ ints_by_irq = [i \in Ints |-> 0]
    /\ ints_by_tid = [w \in Workers |-> 0]

-----------------------------------------------------------------------------
(* Main.                                                                     *)

(* The counters of reset_test_state; the wrong variant forgets ints_by_tid.  *)
KeepTidCounts ==
    /\ ints_by_irq' = [i \in Ints |-> 0]
    /\ UNCHANGED ints_by_tid
ResetCounts ==
    /\ ints_by_irq' = [i \in Ints |-> 0]
    /\ ints_by_tid' = [w \in Workers |-> 0]

(* Its round counter.                                                        *)
ResetRounds == global_round_counter' = 0

(* reset_test_state; register, mask, launch, iassignw.                       *)
reset_test_state ==
    /\ ~Done /\ mpc = "setup"
    /\ swi_issued_count' = 0 /\ test_complete' = FALSE
    /\ ResetRounds
    /\ ResetCounts
    /\ lock_records' = [r \in Rounds |-> NoRecord]
    /\ pc' = [w \in Workers |-> "loop"]
    /\ mpc' = "check"
    /\ UNCHANGED <<test, owner, clock, round, start, end, ipend, iad, isr, step>>

(* The loop that issues SWIs ends when the rounds are used up.  The wrong    *)
(* variant is one round late.                                                *)
MoreAfterTarget == global_round_counter <= TARGET
RoundsLeft == global_round_counter < TARGET

CheckRounds ==
    /\ mpc = "check"
    /\ swi_issued_count < MaxSwi \/ ~RoundsLeft
    /\ mpc' = IF RoundsLeft THEN "swi" ELSE "complete"
    /\ UNCHANGED <<test, swi_issued_count, test_complete, global_round_counter, owner, clock,
                   workVars, lock_records, intVars>>

(* swi(ALL_INTERRUPTS_MASK); swi_issued_count++                              *)
IssueSwi ==
    /\ mpc = "swi"
    /\ ipend' = Ints
    /\ swi_issued_count' = swi_issued_count + 1
    /\ mpc' = "wait"
    /\ UNCHANGED <<test, test_complete, global_round_counter, owner, clock, workVars,
                   lock_records, iad, isr, step, ints_by_irq, ints_by_tid>>

total_int_count == Total(ints_by_tid)

wait_for_int_count ==
    /\ mpc = "wait"
    /\ total_int_count >= swi_issued_count * Cardinality(Ints)
    /\ mpc' = "check"
    /\ UNCHANGED <<test, swi_issued_count, test_complete, global_round_counter, owner, clock,
                   workVars, lock_records, intVars>>

Complete ==
    /\ mpc = "complete"
    /\ test_complete' = TRUE
    /\ mpc' = "join"
    /\ UNCHANGED <<test, swi_issued_count, global_round_counter, owner, clock, workVars,
                   lock_records, intVars>>

Join ==
    /\ mpc = "join"
    /\ \A w \in Workers : pc[w] = "stopped"
    /\ mpc' = "verify"
    /\ UNCHANGED <<test, swi_issued_count, test_complete, global_round_counter, owner, clock,
                   workVars, lock_records, intVars>>

(* The checks read only; a result of false does not keep main() from the     *)
(* other test.                                                               *)
Verify ==
    /\ mpc = "verify"
    /\ test' = test + 1
    /\ mpc' = "setup"
    /\ UNCHANGED <<swi_issued_count, test_complete, global_round_counter, owner, clock,
                   workVars, lock_records, intVars>>

run_lock_test ==
    \/ reset_test_state \/ CheckRounds \/ IssueSwi \/ wait_for_int_count \/ Complete
    \/ Join \/ Verify

-----------------------------------------------------------------------------
(* thread_func, on a thread that is not in the handler.                      *)

Step(w, l, m) == pc[w] = l /\ isr[w] = NoInt /\ pc' = [pc EXCEPT ![w] = m]

LoopTest(w) ==
    /\ Step(w, "loop", IF test_complete THEN "stopped" ELSE "lock")
    /\ UNCHANGED <<mainVars, global_round_counter, owner, clock, round, start, end,
                   lock_records, intVars>>

lock_func(w) ==
    /\ Step(w, "lock", "fetch")
    /\ owner = NoThread
    /\ owner' = w
    /\ UNCHANGED <<mainVars, global_round_counter, clock, round, start, end, lock_records,
                   intVars>>

(* round = __sync_fetch_and_add(&global_round_counter, 1)                    *)
FetchRound(w) ==
    /\ Step(w, "fetch", IF global_round_counter >= TARGET THEN "break" ELSE "start")
    /\ round' = [round EXCEPT ![w] = global_round_counter]
    /\ global_round_counter' = global_round_counter + 1
    /\ UNCHANGED <<mainVars, owner, clock, start, end, lock_records, intVars>>

(* The wrong variant of ReadStart: the lock is given back before the delay.  *)
UnlockEarly(w) ==
    /\ Step(w, "start", "delay")
    /\ start' = [start EXCEPT ![w] = clock]
    /\ owner' = NoThread
    /\ UNCHANGED <<mainVars, global_round_counter, clock, round, end, lock_records, intVars>>

ReadStart(w) ==
    /\ Step(w, "start", "delay")
    /\ start' = [start EXCEPT ![w] = clock]
    /\ UNCHANGED <<mainVars, global_round_counter, owner, clock, round, end, lock_records,
                   intVars>>

(* delay(DELAY_ITERS); end_time = timer_read_pair()                          *)
DelayAndReadEnd(w) ==
    /\ Step(w, "delay", "unlock")
    /\ mpc # "swi" /\ ipend = {}
    /\ clock' = clock + 1
    /\ end' = [end EXCEPT ![w] = clock']
    /\ UNCHANGED <<mainVars, global_round_counter, owner, round, start, lock_records, intVars>>

unlock_func(w) ==
    /\ Step(w, "unlock", "record")
    /\ owner' = NoThread
    /\ UNCHANGED <<mainVars, global_round_counter, clock, round, start, end, lock_records,
                   intVars>>

UnlockAndBreak(w) ==
    /\ Step(w, "break", "stopped")
    /\ owner' = NoThread
    /\ round' = [round EXCEPT ![w] = 0]
    /\ UNCHANGED <<mainVars, global_round_counter, clock, start, end, lock_records, intVars>>

(* lock_records[round] = ..., without the lock; the locals go out of scope.  *)
WriteRecord(w) ==
    /\ Step(w, "record", "loop")
    /\ lock_records' = [lock_records EXCEPT ![round[w]] =
          [start_time |-> start[w], end_time |-> end[w], thread_id |-> w, round |-> round[w]]]
    /\ round' = [round EXCEPT ![w] = 0]
    /\ start' = [start EXCEPT ![w] = 0]
    /\ end' = [end EXCEPT ![w] = 0]
    /\ UNCHANGED <<mainVars, global_round_counter, owner, clock, intVars>>

thread_func(w) ==
    \/ LoopTest(w) \/ lock_func(w) \/ FetchRound(w) \/ ReadStart(w) \/ DelayAndReadEnd(w)
    \/ unlock_func(w) \/ UnlockAndBreak(w) \/ WriteRecord(w)

-----------------------------------------------------------------------------
(* Interrupts, as in LockVerify: not in a stalled thread, once until ciad.   *)

Deliver(w, i) ==
    /\ pc[w] # "stopped" /\ isr[w] = NoInt
    /\ ~(pc[w] = "lock" /\ owner # NoThread)
    /\ i \in ipend \ iad
    /\ ipend' = ipend \ {i} /\ iad' = iad \cup {i}
    /\ isr' = [isr EXCEPT ![w] = i]
    /\ step' = [step EXCEPT ![w] = "irq"]
    /\ UNCHANGED <<mainVars, global_round_counter, owner, clock, workVars, lock_records,
                   ints_by_irq, ints_by_tid>>

(* Two atomic_fetch_adds; then the dispatcher's ciad and rte.                *)
interrupt_handler(w) ==
    /\ isr[w] # NoInt
    /\ \/ /\ step[w] = "irq" /\ step' = [step EXCEPT ![w] = "tid"]
          /\ ints_by_irq' = [ints_by_irq EXCEPT ![isr[w]] = @ + 1]
          /\ UNCHANGED <<ints_by_tid, iad, isr>>
       \/ /\ step[w] = "tid" /\ step' = [step EXCEPT ![w] = "ciad"]
          /\ ints_by_tid' = [ints_by_tid EXCEPT ![w] = @ + 1]
          /\ UNCHANGED <<ints_by_irq, iad, isr>>
       \/ /\ step[w] = "ciad" /\ step' = [step EXCEPT ![w] = "irq"]
          /\ iad' = iad \ {isr[w]}
          /\ isr' = [isr EXCEPT ![w] = NoInt]
          /\ UNCHANGED <<ints_by_irq, ints_by_tid>>
    /\ UNCHANGED <<mainVars, global_round_counter, owner, clock, workVars, lock_records, ipend>>

-----------------------------------------------------------------------------
Finished == Done /\ UNCHANGED vars

Next ==
    \/ run_lock_test
    \/ \E w \in Workers :
          thread_func(w) \/ interrupt_handler(w) \/ \E i \in Ints : Deliver(w, i)
    \/ Finished

Spec == Init /\ [][Next]_vars

(* Every thread runs on, the lock is granted to each waiting thread in the   *)
(* end, and a deliverable interrupt is delivered.                            *)
FairSpec ==
    /\ Spec
    /\ WF_vars(run_lock_test)
    /\ \A w \in Workers :
         /\ WF_vars(thread_func(w)) /\ SF_vars(lock_func(w))
         /\ WF_vars(interrupt_handler(w)) /\ WF_vars(\E i \in Ints : Deliver(w, i))

-----------------------------------------------------------------------------
(* assert(total_ints_by_tid == total_expected_interrupts), and the by-irq    *)
(* total agrees: Main never raises an interrupt that is still pending, so no *)
(* two SWIs merge, and both tests start from zero.                           *)
AccountsAgree ==
    mpc = "verify" =>
        /\ total_int_count = swi_issued_count * Cardinality(Ints)
        /\ Total(ints_by_irq) = total_int_count

(* verify_no_overlaps, over complete records: after the join every round has *)
(* its own record, although global_round_counter overshoots and records are  *)
(* written after the unlock, and no two of them overlap in time.             *)
RecordsExact ==
    mpc = "verify" =>
        /\ \A r \in Rounds : lock_records[r] # NoRecord /\ lock_records[r].round = r
        /\ \A r, s \in Rounds :
              \/ r = s
              \/ lock_records[r].end_time <= lock_records[s].start_time
              \/ lock_records[s].end_time <= lock_records[r].start_time

(* Both tests end: Main does not raise an interrupt after the last worker    *)
(* that could take it has left.                                              *)
TestsEnd == <>Done
=============================================================================
