-------------------------------- MODULE SwiWait --------------------------------
(* swi_wait.c: threads sit in the wait instruction; Main raises software      *)
(* interrupts at them in three rounds (plainly, with interrupts disabled in   *)
(* SYSCFG, and with them masked for every thread by iassignw) and waits until *)
(* they have been handled.  Main masks all interrupts for itself.             *)
(*                                                                            *)
(* Interrupt delivery and the dispatcher's ciad are those of IntDispatch, a   *)
(* step each here.                                                            *)
EXTENDS Naturals, FiniteSets, FiniteSetsExt, Totals

CONSTANTS
    Waiters,        \* threads 1 .. WAIT_THREAD_COUNT
    Ints,           \* 0 .. MAX_INT_NUM - 1; interrupt 0 also ends the test
    MaxTeardown,    \* bound on the interrupts handled in wait_for_wait
    NoThread

ASSUME WaitersAssumption == IsFiniteSet(Waiters) /\ Waiters # {} /\ NoThread \notin Waiters
ASSUME IntsAssumption == IsFiniteSet(Ints) /\ Ints \subseteq Nat /\ 0 \in Ints
ASSUME BoundAssumption == MaxTeardown \in Nat

MAX_ROUND == 3

VARIABLES
    mpc, round, sum,          \* Main: where, the round, times_woken_sum
    intEn,                    \* SYSCFG.INT_EN
    assigned,                 \* interrupts iassignw lets the waiters take
    ipend, iad,
    pc, resume,               \* a waiter; where an interrupt returns to
    cur,                      \* the interrupt its handler serves
    k0,                       \* holder of k0lock
    ints_by_irq, ints_by_tid,
    tasks_enabled, times_woken

mainVars == <<mpc, round, sum>>
intVars == <<intEn, assigned, ipend, iad>>
isrVars == <<resume, cur, k0, ints_by_irq, ints_by_tid>>
vars == <<mainVars, intVars, pc, isrVars, tasks_enabled, times_woken>>

Handling == {"k0lock", "irq", "tid", "k0unlock", "return"}

(* The waiters have been started; handlers are registered, Main is masked.   *)
Init ==
    /\ mpc = "ready" /\ round = 1 /\ sum = 0
    /\ intEn = TRUE
    /\ assigned = Ints
    /\ ipend = {} /\ iad = {}
    /\ pc = [w \in Waiters |-> "enter"]
    /\ resume = [w \in Waiters |-> "enter"]
    /\ cur = [w \in Waiters |-> 0]
    /\ k0 = NoThread
    /\ ints_by_irq = [i \in Ints |-> 0]
    /\ ints_by_tid = [w \in Waiters |-> 0]
    /\ tasks_enabled = TRUE
    /\ times_woken = [w \in Waiters |-> 0]

-----------------------------------------------------------------------------
(* Main.                                                                     *)

(* wait_for_thread of every waiter (MODECTL), then the round's first step.   *)
wait_for_thread ==
    /\ mpc = "ready"
    /\ \A w \in Waiters : pc[w] = "wait"
    /\ \/ /\ round = 1
          /\ ipend' = Ints
          /\ mpc' = "poll"
          /\ UNCHANGED <<intEn, assigned>>
       \/ /\ round = 2              \* global_int_disable
          /\ intEn' = FALSE
          /\ mpc' = "disabled"
          /\ UNCHANGED <<assigned, ipend>>
       \/ /\ round = 3              \* iassignw(i, 0x1f) for every i
          /\ assigned' = {}
          /\ mpc' = "masked"
          /\ UNCHANGED <<intEn, ipend>>
    /\ UNCHANGED <<round, sum, iad, pc, isrVars, tasks_enabled, times_woken>>

(* swi(INT_MASK)                                                             *)
RaiseAll ==
    /\ mpc \in {"disabled", "masked"}
    /\ ipend' = Ints
    /\ mpc' = IF mpc = "disabled" THEN "raised" ELSE "unmask"
    /\ UNCHANGED <<round, sum, intEn, assigned, iad, pc, isrVars, tasks_enabled, times_woken>>

global_int_enable ==
    /\ mpc = "raised"
    /\ intEn' = TRUE
    /\ mpc' = "poll"
    /\ UNCHANGED <<round, sum, assigned, ipend, iad, pc, isrVars, tasks_enabled, times_woken>>

(* The wrong variant: the unmask loop stops one interrupt short.             *)
UnmaskShort ==
    /\ mpc = "unmask"
    /\ assigned' = {i \in Ints : i = 0}
    /\ mpc' = "poll"
    /\ UNCHANGED <<round, sum, intEn, ipend, iad, pc, isrVars, tasks_enabled, times_woken>>

(* The loop of iassignw, one interrupt at a time from 0.                     *)
Unmask ==
    /\ mpc = "unmask"
    /\ assigned' = assigned \cup {Min(Ints \ assigned)}
    /\ mpc' = IF assigned' = Ints THEN "poll" ELSE mpc
    /\ UNCHANGED <<round, sum, intEn, ipend, iad, pc, isrVars, tasks_enabled, times_woken>>

all_ints_delivered(n) == \A i \in Ints : ints_by_irq[i] = n

(* The first loop of wait_for_ints_delivered.  The wrong variant raises the  *)
(* interrupts again while it polls.                                          *)
PollRetrying ==
    /\ mpc = "poll"
    /\ IF all_ints_delivered(round)
         THEN mpc' = "sum" /\ UNCHANGED ipend
         ELSE ipend' = Ints /\ UNCHANGED mpc
    /\ UNCHANGED <<round, sum, intEn, assigned, iad, pc, isrVars, tasks_enabled, times_woken>>

Poll ==
    /\ mpc = "poll"
    /\ all_ints_delivered(round)
    /\ mpc' = "sum"
    /\ UNCHANGED <<round, sum, intVars, pc, isrVars, tasks_enabled, times_woken>>

(* times_woken_sum, computed once.  The entries only grow, so adding them    *)
(* one after the other yields a sum they had at some moment in between.      *)
SumWoken ==
    /\ mpc = "sum"
    /\ sum' = Total(times_woken)
    /\ mpc' = "spin"
    /\ UNCHANGED <<round, intVars, pc, isrVars, tasks_enabled, times_woken>>

(* The rounds main() has left.                                               *)
MoreRounds == round < MAX_ROUND

(* The second loop ends when the local times_woken_sum reaches round: main() *)
(* goes on with the next round or the asserts.                               *)
SpinEnds ==
    /\ mpc = "spin"
    /\ sum >= round
    /\ IF MoreRounds
         THEN round' = round + 1 /\ mpc' = "ready"
         ELSE mpc' = "asserts" /\ UNCHANGED round
    /\ sum' = 0
    /\ UNCHANGED <<intVars, pc, isrVars, tasks_enabled, times_woken>>

(* assert(total_ints_tid == MAX_INT_NUM * 3), and each ints_by_irq[i] == 3.  *)
AssertsHold ==
    /\ all_ints_delivered(MAX_ROUND)
    /\ Total(ints_by_tid) = MAX_ROUND * Cardinality(Ints)

(* The asserts pass, or the program aborts; tasks_enabled = false.           *)
Teardown ==
    /\ mpc = "asserts"
    /\ \/ AssertsHold /\ tasks_enabled' = FALSE /\ mpc' = "teardown"
       \/ ~AssertsHold /\ mpc' = "abort" /\ UNCHANGED tasks_enabled
    /\ UNCHANGED <<round, sum, intVars, pc, isrVars, times_woken>>

(* One turn of wait_for_wait: read MODECTL, swi(0x1), again if one waited.   *)
wait_for_wait ==
    /\ mpc = "teardown"
    /\ ints_by_irq[0] < MAX_ROUND + MaxTeardown
    /\ ipend' = ipend \cup {0}
    /\ mpc' = IF \E w \in Waiters : pc[w] = "wait" THEN mpc ELSE "join"
    /\ UNCHANGED <<round, sum, intEn, assigned, iad, pc, isrVars, tasks_enabled, times_woken>>

thread_join ==
    /\ mpc = "join"
    /\ \A w \in Waiters : pc[w] = "stopped"
    /\ mpc' = "PASS"
    /\ UNCHANGED <<round, sum, intVars, pc, isrVars, tasks_enabled, times_woken>>

MainNext ==
    \/ wait_for_thread \/ RaiseAll \/ global_int_enable \/ Unmask \/ Poll \/ SumWoken \/ SpinEnds
    \/ Teardown \/ wait_for_wait \/ thread_join

-----------------------------------------------------------------------------
(* wait_thread.                                                              *)

Goto(w, l) == pc' = [pc EXCEPT ![w] = l]

(* while (tasks_enabled)                                                     *)
EnterWait(w) ==
    /\ pc[w] = "enter"
    /\ Goto(w, IF tasks_enabled THEN "towait" ELSE "stopped")
    /\ UNCHANGED <<mainVars, intVars, isrVars, tasks_enabled, times_woken>>

(* The wait instruction: from here on MODECTL shows the thread waiting.      *)
wait_for_interrupts(w) ==
    /\ pc[w] = "towait"
    /\ Goto(w, "wait")
    /\ UNCHANGED <<mainVars, intVars, isrVars, tasks_enabled, times_woken>>

(* times_woken[thread_id]++, after the priority change.                      *)
CountWakeup(w) ==
    /\ pc[w] = "woken"
    /\ times_woken' = [times_woken EXCEPT ![w] = @ + 1]
    /\ Goto(w, "enter")
    /\ UNCHANGED <<mainVars, intVars, isrVars, tasks_enabled>>

-----------------------------------------------------------------------------
(* Interrupts.  A waiting thread is woken to serve one and goes on after the *)
(* wait instruction.                                                         *)
Deliver(w, i) ==
    /\ pc[w] \in {"enter", "towait", "wait", "woken"}
    /\ intEn
    /\ i \in (ipend \ iad) \cap assigned
    /\ ipend' = ipend \ {i}
    /\ iad' = iad \cup {i}
    /\ cur' = [cur EXCEPT ![w] = i]
    /\ resume' = [resume EXCEPT ![w] = IF pc[w] \in {"enter", "towait"} THEN pc[w] ELSE "woken"]
    /\ Goto(w, "k0lock")
    /\ UNCHANGED <<mainVars, intEn, assigned, k0, ints_by_irq, ints_by_tid, tasks_enabled,
                   times_woken>>

(* interrupt_handler: k0lock; ints_by_irq++; ints_by_tid++; k0unlock.  The   *)
(* wrong variant does without the lock.                                      *)
HandlerNoLock(w) ==
    /\ pc[w] = "k0lock"
    /\ Goto(w, "irq")
    /\ UNCHANGED <<mainVars, intVars, isrVars, tasks_enabled, times_woken>>

HandlerLock(w) ==
    /\ pc[w] = "k0lock" /\ k0 = NoThread
    /\ k0' = w
    /\ Goto(w, "irq")
    /\ UNCHANGED <<mainVars, intVars, resume, cur, ints_by_irq, ints_by_tid, tasks_enabled,
                   times_woken>>

CountIrq(w) ==
    /\ pc[w] = "irq"
    /\ ints_by_irq' = [ints_by_irq EXCEPT ![cur[w]] = @ + 1]
    /\ Goto(w, "tid")
    /\ UNCHANGED <<mainVars, intVars, resume, cur, k0, ints_by_tid, tasks_enabled, times_woken>>

CountTid(w) ==
    /\ pc[w] = "tid"
    /\ ints_by_tid' = [ints_by_tid EXCEPT ![w] = @ + 1]
    /\ Goto(w, "k0unlock")
    /\ UNCHANGED <<mainVars, intVars, resume, cur, k0, ints_by_irq, tasks_enabled, times_woken>>

HandlerUnlock(w) ==
    /\ pc[w] = "k0unlock"
    /\ k0' = NoThread
    /\ Goto(w, "return")
    /\ UNCHANGED <<mainVars, intVars, resume, cur, ints_by_irq, ints_by_tid, tasks_enabled,
                   times_woken>>

(* ciad and rte of the dispatcher.                                           *)
Return(w) ==
    /\ pc[w] = "return"
    /\ iad' = iad \ {cur[w]}
    /\ Goto(w, resume[w])
    /\ UNCHANGED <<mainVars, intEn, assigned, ipend, isrVars, tasks_enabled, times_woken>>

Handler(w) == HandlerLock(w) \/ CountIrq(w) \/ CountTid(w) \/ HandlerUnlock(w) \/ Return(w)

Next == MainNext \/ \E w \in Waiters :
            \/ EnterWait(w) \/ wait_for_interrupts(w) \/ CountWakeup(w) \/ Handler(w)
            \/ \E i \in Ints : Deliver(w, i)

Spec == Init /\ [][Next]_vars

(* Every hardware thread runs on, a free lock is granted to each stalled     *)
(* thread in the end, and a deliverable interrupt is delivered.              *)
FairSpec ==
    /\ Spec
    /\ WF_vars(MainNext)
    /\ \A w \in Waiters :
         /\ WF_vars(EnterWait(w) \/ wait_for_interrupts(w) \/ CountWakeup(w))
         /\ WF_vars(Handler(w))
         /\ SF_vars(HandlerLock(w))
         /\ WF_vars(\E i \in Ints : Deliver(w, i))

-----------------------------------------------------------------------------
(* A round's interrupts are handled at most once, however delivery,          *)
(* disabling and masking interleave: no count runs ahead of the round        *)
(* before the test is torn down.                                             *)
HandledOnce ==
    mpc \notin {"teardown", "join", "PASS"} => \A i \in Ints : ints_by_irq[i] <= round

(* The two counters are never apart by more than the handler that has        *)
(* counted one and not yet the other, and k0lock lets only one be there: the *)
(* assert on total_ints_tid, which main() evaluates as soon as ints_by_irq   *)
(* is complete, can be short of one count and never of two.                  *)
CountersAgree ==
    LET between == {w \in Waiters : pc[w] = "tid"}
    IN /\ Total(ints_by_irq) = Total(ints_by_tid) + Cardinality(between)
       /\ Cardinality(between) <= 1

(* Every interrupt raised is handled, also those raised while disabled or    *)
(* masked: the first loop of wait_for_ints_delivered ends.                   *)
AllDelivered == mpc = "poll" ~> mpc = "sum"

(* The second loop of wait_for_ints_delivered ends too: it waits until the   *)
(* waiters have been woken ("more than one interrupt may have been processed *)
(* in the same wake window").                                                *)
WakeupsSeen == mpc = "spin" ~> mpc # "spin"
=============================================================================
