---------------------------- MODULE ThreadTestProofs ----------------------------
(* Multi-threaded tests: swi_wait.c (SwiWait), in which every interrupt of a  *)
(* round is handled exactly once; the thirteen thread tests of ThreadSuite,   *)
(* whose checks pass, whose interrupts are all counted and whose mutex loses  *)
(* no increment; and sys_atomics.c, which loses none either. For any number   *)
(* of threads, interrupts and rounds.                                         *)
EXTENDS SwiWait, ThreadSuite, FiniteSetTheorems, SequenceTheorems, TLAPS

Before == {"ready", "disabled", "masked"}       \* the round is not raised yet
During == {"raised", "unmask", "poll"}
After == {"sum", "spin", "asserts", "abort"}    \* all_ints_delivered was seen

Types ==
    /\ mpc \in Before \cup During \cup After \cup {"teardown", "join", "PASS"}
    /\ round \in 1 .. MAX_ROUND
    /\ ipend \subseteq Ints
    /\ pc \in [Waiters -> {"enter", "towait", "wait", "woken", "stopped"} \cup Handling]
    /\ resume \in [Waiters -> {"enter", "towait", "woken"}]
    /\ cur \in [Waiters -> Ints]
    /\ ints_by_irq \in [Ints -> Nat]

(* A handler's interrupt is auto-disabled, so no other handler has it.       *)
Serving ==
    /\ \A w \in Waiters : pc[w] \in Handling => cur[w] \in iad
    /\ \A v, w \in Waiters : v # w /\ pc[v] \in Handling /\ pc[w] \in Handling => cur[v] # cur[w]

(* An interrupt taken and not yet counted.                                   *)
InFlight(i) == \E w \in Waiters : pc[w] \in {"k0lock", "irq"} /\ cur[w] = i

(* What has become of the round's interrupt i: still to be raised or handled *)
(* before, pending or in flight or handled during, handled after it.         *)
Account(i) ==
    /\ mpc \in Before => ints_by_irq[i] = round - 1 /\ i \notin ipend /\ ~ InFlight(i)
    /\ mpc \in During =>
         \/ ints_by_irq[i] = round - 1 /\ i \in ipend /\ ~ InFlight(i)
         \/ ints_by_irq[i] = round - 1 /\ i \notin ipend /\ InFlight(i)
         \/ ints_by_irq[i] = round /\ i \notin ipend /\ ~ InFlight(i)
    /\ mpc \in After => ints_by_irq[i] = round /\ i \notin ipend /\ ~ InFlight(i)
Accounts == \A i \in Ints : Account(i)

RoundInv == Types /\ Serving /\ Accounts

LEMMA InitRound == Init => RoundInv
BY IntsAssumption DEF Init, RoundInv, Types, Serving, Accounts, Account, InFlight, Before, During,
      After, Handling, MAX_ROUND

(* Steps of Main touch neither the handlers nor their interrupts.            *)
LEMMA MainStep == ASSUME RoundInv, MainNext PROVE RoundInv'
<1> USE DEF RoundInv, Types, Before, During, After, MAX_ROUND
<1>1. UNCHANGED <<pc, resume, cur, ints_by_irq, iad>>
  BY DEF MainNext, wait_for_thread, RaiseAll, global_int_enable, Unmask, Poll, SumWoken, SpinEnds, Teardown,
         wait_for_wait, thread_join, isrVars, intVars
<1>2. Serving' /\ \A i \in Ints : InFlight(i)' = InFlight(i)
  BY <1>1 DEF Serving, InFlight
<1> USE <1>1, <1>2 DEF Accounts, Account
<1>3. CASE wait_for_thread
  BY <1>3 DEF wait_for_thread
<1>4. CASE RaiseAll
  BY <1>4 DEF RaiseAll
<1>5. CASE global_int_enable
  BY <1>5 DEF global_int_enable
<1>6. CASE Unmask
  BY <1>6 DEF Unmask
<1>7. CASE Poll
  BY <1>7 DEF Poll, all_ints_delivered, intVars
<1>8. CASE SumWoken
  BY <1>8 DEF SumWoken, intVars
<1>9. CASE SpinEnds
  BY <1>9 DEF SpinEnds, MoreRounds, intVars
<1>10. CASE Teardown
  BY <1>10 DEF Teardown, intVars
<1>11. CASE wait_for_wait
  BY <1>11, IntsAssumption DEF wait_for_wait
<1>12. CASE thread_join
  BY <1>12 DEF thread_join, intVars
<1> QED
  BY <1>3, <1>4, <1>5, <1>6, <1>7, <1>8, <1>9, <1>10, <1>11, <1>12 DEF MainNext

(* A waiter outside the handler.                                             *)
LEMMA WaiterStep ==
  ASSUME RoundInv, NEW w \in Waiters,
         EnterWait(w) \/ wait_for_interrupts(w) \/ CountWakeup(w)
  PROVE  RoundInv'
<1> USE DEF RoundInv, Types, Handling
<1>1. /\ pc[w] \in {"enter", "towait", "woken"}
      /\ pc' = [pc EXCEPT ![w] = pc'[w]] /\ pc'[w] \in {"enter", "towait", "wait", "stopped"}
      /\ UNCHANGED <<mpc, round, ipend, iad, resume, cur, ints_by_irq>>
  BY DEF EnterWait, wait_for_interrupts, CountWakeup, Goto, mainVars, intVars, isrVars
<1>2. Types' /\ Serving'
  BY <1>1 DEF Serving
<1>3. \A i \in Ints : InFlight(i)' <=> InFlight(i)
  BY <1>1 DEF InFlight
<1> QED
  BY <1>1, <1>2, <1>3 DEF Accounts, Account

LEMMA DeliverStep ==
  ASSUME RoundInv, NEW w \in Waiters, NEW i \in Ints, Deliver(w, i)
  PROVE  RoundInv'
<1> USE DEF RoundInv, Types, Handling
<1>1. /\ pc[w] \in {"enter", "towait", "wait", "woken"} /\ pc' = [pc EXCEPT ![w] = "k0lock"]
      /\ i \in ipend /\ i \notin iad
      /\ ipend' = ipend \ {i} /\ iad' = iad \cup {i}
      /\ cur' = [cur EXCEPT ![w] = i]
      /\ resume' = [resume EXCEPT ![w] = IF pc[w] \in {"enter", "towait"} THEN pc[w] ELSE "woken"]
      /\ UNCHANGED <<mpc, round, ints_by_irq>>
  BY DEF Deliver, Goto, mainVars
<1>2. Types'
  BY <1>1
<1>3. Serving'
  BY <1>1 DEF Serving
<1>4. InFlight(i)'
  BY <1>1 DEF InFlight
<1>5. \A j \in Ints \ {i} : InFlight(j)' <=> InFlight(j)
  BY <1>1 DEF InFlight
<1> QED
  BY <1>1, <1>2, <1>3, <1>4, <1>5 DEF Accounts, Account, Before, During, After

LEMMA HandlerStep ==
  ASSUME RoundInv, NEW w \in Waiters, Handler(w)
  PROVE  RoundInv'
<1> USE DEF RoundInv, Types, Handling
<1>1. CASE HandlerLock(w) \/ CountTid(w) \/ HandlerUnlock(w)
  <2>1. /\ pc' = [pc EXCEPT ![w] = pc'[w]] /\ pc[w] \in Handling /\ pc'[w] \in Handling
        /\ pc[w] \in {"k0lock", "irq"} <=> pc'[w] \in {"k0lock", "irq"}
        /\ UNCHANGED <<mpc, round, ipend, iad, resume, cur, ints_by_irq>>
    BY <1>1 DEF HandlerLock, CountTid, HandlerUnlock, Goto, mainVars, intVars
  <2>2. Types' /\ Serving'
    BY <2>1 DEF Serving
  <2>3. \A i \in Ints : InFlight(i)' <=> InFlight(i)
    BY <2>1 DEF InFlight
  <2> QED
    BY <2>1, <2>2, <2>3 DEF Accounts, Account
<1>2. CASE CountIrq(w)
  <2>0. PICK j \in Ints : j = cur[w]
    OBVIOUS
  <2>1. /\ pc[w] = "irq" /\ pc' = [pc EXCEPT ![w] = "tid"]
        /\ ints_by_irq' = [ints_by_irq EXCEPT ![j] = @ + 1]
        /\ UNCHANGED <<mpc, round, ipend, iad, resume, cur>>
    BY <1>2, <2>0 DEF CountIrq, Goto, mainVars, intVars
  <2>2. Types' /\ Serving'
    BY <2>1 DEF Serving
  <2>3. InFlight(j) /\ ~ InFlight(j)'
    BY <2>0, <2>1 DEF InFlight, Serving
  <2>4. \A i \in Ints \ {j} : InFlight(i)' <=> InFlight(i)
    BY <2>0, <2>1 DEF InFlight
  <2>5. Account(j)'
    BY <2>1, <2>3 DEF Accounts, Account, Before, During, After
  <2>6. \A i \in Ints \ {j} : Account(i)'
    BY <2>1, <2>4 DEF Accounts, Account
  <2>7. \A i \in Ints : Account(i)'
    BY <2>5, <2>6
  <2> QED
    BY <2>2, <2>7 DEF Accounts
<1>3. CASE Return(w)
  <2>1. /\ pc[w] = "return" /\ pc' = [pc EXCEPT ![w] = resume[w]]
        /\ iad' = iad \ {cur[w]}
        /\ UNCHANGED <<mpc, round, ipend, resume, cur, ints_by_irq>>
    BY <1>3 DEF Return, Goto, mainVars, isrVars
  <2>2. Types' /\ Serving'
    BY <2>1 DEF Serving
  <2>3. \A i \in Ints : InFlight(i)' <=> InFlight(i)
    BY <2>1 DEF InFlight
  <2> QED
    BY <2>1, <2>2, <2>3 DEF Accounts, Account
<1> QED
  BY <1>1, <1>2, <1>3 DEF Handler

(* The accounts of every round hold throughout.                              *)
THEOREM RoundAccounts == Spec => []RoundInv
<1>1. RoundInv /\ [Next]_vars => RoundInv'
  <2> SUFFICES ASSUME RoundInv, [Next]_vars PROVE RoundInv'
    OBVIOUS
  <2>1. CASE UNCHANGED vars
    BY <2>1 DEF vars, mainVars, intVars, isrVars, RoundInv, Types, Serving, Accounts, Account, InFlight
  <2> QED
    BY <2>1, MainStep, WaiterStep, DeliverStep, HandlerStep DEF Next
<1> QED
  BY InitRound, <1>1, PTL DEF Spec

(* No interrupt of a round is handled twice before the teardown, however     *)
(* delivery, disabling and masking interleave.                               *)
THEOREM HandledAtMostOnce == Spec => []HandledOnce
<1>1. RoundInv => HandledOnce
  BY DEF RoundInv, Types, Accounts, Account, HandledOnce, Before, During, After, MAX_ROUND
<1> QED
  BY RoundAccounts, <1>1, PTL

-----------------------------------------------------------------------------
(* Sums of counters.                                                         *)

LEMMA UnitsFinite ==
  ASSUME NEW S, IsFiniteSet(S), NEW f \in [S -> Nat]
  PROVE  IsFiniteSet(Units(f)) /\ Total(f) \in Nat
<1> DEFINE col == [x \in S |-> {x} \X (1 .. f[x])]
           Cols == {col[x] : x \in S}
<1>1. IsFiniteSet(Cols)
  <2>1. col \in Surjection(S, Cols)
    BY DEF Surjection
  <2> QED
    BY <2>1, FS_Surjection
<1>2. ASSUME NEW x \in S PROVE IsFiniteSet(col[x])
  <2>1. f[x] \in Nat /\ IsFiniteSet(1 .. f[x])
    BY FS_Interval
  <2>2. IsFiniteSet({x}) /\ IsFiniteSet({x} \X (1 .. f[x]))
    BY <2>1, FS_Singleton, FS_Product
  <2> QED
    BY <2>2
<1>3. IsFiniteSet(UNION Cols)
  <2>1. \A T \in Cols : IsFiniteSet(T)
    BY <1>2
  <2> HIDE DEF Cols
  <2> QED
    BY <1>1, <2>1, FS_UNION
<1>4. Units(f) = UNION Cols
  BY DEF Units
<1> QED
  BY <1>3, <1>4, FS_CardinalityType DEF Total

(* One more count: the total grows by one.                                   *)
LEMMA OneMore ==
  ASSUME NEW S, IsFiniteSet(S), NEW f \in [S -> Nat], NEW x \in S
  PROVE  Total([f EXCEPT ![x] = @ + 1]) = Total(f) + 1
<1> DEFINE g == [f EXCEPT ![x] = @ + 1]
<1>1. g[x] = f[x] + 1 /\ \A y \in S \ {x} : g[y] = f[y]
  OBVIOUS
<1>2. 1 .. (f[x] + 1) = (1 .. f[x]) \cup {f[x] + 1}
  OBVIOUS
<1>3. Units(g) = Units(f) \cup {<<x, f[x] + 1>>}
  BY <1>1, <1>2 DEF Units
<1>4. <<x, f[x] + 1>> \notin Units(f)
  BY DEF Units
<1> QED
  BY <1>3, <1>4, UnitsFinite, FS_AddElement DEF Total

LEMMA NothingCounted ==
  ASSUME NEW S
  PROVE  Total([x \in S |-> 0]) = 0
<1>1. Units([x \in S |-> 0]) = {}
  BY DEF Units
<1> QED
  BY <1>1, FS_EmptySet DEF Total

(* k0lock lets one handler at a time into the section with the two counts.   *)
Locked ==
    /\ ints_by_tid \in [Waiters -> Nat]
    /\ \A w \in Waiters : pc[w] \in {"irq", "tid", "k0unlock"} => k0 = w

Between == {w \in Waiters : pc[w] = "tid"}

(* The by-irq total is ahead by the handler between its two counts.          *)
TotalsInv == Locked /\ Total(ints_by_irq) = Total(ints_by_tid) + Cardinality(Between)

LEMMA InitTotals == Init => TotalsInv
<1> SUFFICES ASSUME Init PROVE TotalsInv
  OBVIOUS
<1>1. Locked /\ Between = {}
  BY DEF Init, Locked, Between
<1>2. Total(ints_by_irq) = 0 /\ Total(ints_by_tid) = 0
  BY NothingCounted DEF Init
<1> QED
  BY <1>1, <1>2, FS_EmptySet DEF TotalsInv

LEMMA TotalsStep == RoundInv /\ TotalsInv /\ [Next]_vars => TotalsInv'
<1> SUFFICES ASSUME RoundInv, TotalsInv, [Next]_vars PROVE TotalsInv'
  OBVIOUS
<1> USE DEF RoundInv, Types, Locked, TotalsInv
<1>1. ASSUME UNCHANGED <<ints_by_irq, ints_by_tid, k0>>, Between' = Between, Locked'
      PROVE  TotalsInv'
  BY <1>1
<1>2. CASE MainNext \/ UNCHANGED vars
  <2>1. UNCHANGED <<pc, k0, ints_by_irq, ints_by_tid>>
    BY <1>2 DEF MainNext, wait_for_thread, RaiseAll, global_int_enable, Unmask, Poll, SumWoken,
         SpinEnds, Teardown, wait_for_wait, thread_join, isrVars, vars
  <2> QED
    BY <1>1, <2>1 DEF Between
<1>3. ASSUME NEW w \in Waiters,
             \/ EnterWait(w) \/ wait_for_interrupts(w) \/ CountWakeup(w)
             \/ \E i \in Ints : Deliver(w, i)
      PROVE  TotalsInv'
  <2>1. /\ pc[w] \notin {"irq", "tid", "k0unlock"} /\ pc' = [pc EXCEPT ![w] = pc'[w]]
        /\ pc'[w] \notin {"irq", "tid", "k0unlock"}
        /\ UNCHANGED <<k0, ints_by_irq, ints_by_tid>>
    BY <1>3 DEF EnterWait, wait_for_interrupts, CountWakeup, Deliver, Goto, isrVars
  <2>2. Between' = Between
    BY <2>1 DEF Between
  <2> QED
    BY <1>1, <2>1, <2>2
<1>4. ASSUME NEW w \in Waiters, HandlerLock(w) \/ HandlerUnlock(w) \/ Return(w)
      PROVE  TotalsInv'
  <2>1. /\ pc[w] # "tid" /\ pc' = [pc EXCEPT ![w] = pc'[w]] /\ pc'[w] # "tid"
        /\ UNCHANGED <<ints_by_irq, ints_by_tid>>
    BY <1>4 DEF HandlerLock, HandlerUnlock, Return, Goto, isrVars
  <2>2. Between' = Between
    BY <2>1 DEF Between
  <2>3. Locked'
    BY <1>4, WaitersAssumption DEF HandlerLock, HandlerUnlock, Return, Goto, isrVars
  <2> QED
    BY <2>1, <2>2, <2>3
<1>5. ASSUME NEW w \in Waiters, CountIrq(w) PROVE TotalsInv'
  <2>1. /\ pc[w] = "irq" /\ pc' = [pc EXCEPT ![w] = "tid"] /\ UNCHANGED <<k0, ints_by_tid>>
        /\ ints_by_irq' = [ints_by_irq EXCEPT ![cur[w]] = @ + 1]
    BY <1>5 DEF CountIrq, Goto
  <2>2. Between = {} /\ Between' = {w}
    BY <2>1 DEF Between
  <2>3. Cardinality(Between) = 0 /\ Cardinality(Between') = 1
    BY <2>2, FS_EmptySet, FS_Singleton
  <2>4. Locked'
    BY <2>1
  <2>5. Total(ints_by_irq') = Total(ints_by_irq) + 1
    <3>1. cur[w] \in Ints /\ ints_by_irq \in [Ints -> Nat]
      OBVIOUS
    <3> QED
      BY ONLY <2>1, <3>1, OneMore, IntsAssumption
  <2>6. Total(ints_by_tid) \in Nat
    BY UnitsFinite, WaitersAssumption
  <2> QED
    BY <2>1, <2>3, <2>4, <2>5, <2>6
<1>6. ASSUME NEW w \in Waiters, CountTid(w) PROVE TotalsInv'
  <2>1. /\ pc[w] = "tid" /\ pc' = [pc EXCEPT ![w] = "k0unlock"] /\ UNCHANGED <<k0, ints_by_irq>>
        /\ ints_by_tid' = [ints_by_tid EXCEPT ![w] = @ + 1]
    BY <1>6 DEF CountTid, Goto
  <2>2. Between = {w} /\ Between' = {}
    BY <2>1 DEF Between
  <2>3. Cardinality(Between) = 1 /\ Cardinality(Between') = 0
    BY <2>2, FS_EmptySet, FS_Singleton
  <2>4. Locked'
    BY <2>1
  <2>5. Total(ints_by_tid') = Total(ints_by_tid) + 1
    <3>1. ints_by_tid \in [Waiters -> Nat]
      OBVIOUS
    <3> QED
      BY ONLY <2>1, <3>1, OneMore, WaitersAssumption
  <2>6. Total(ints_by_tid) \in Nat
    BY UnitsFinite, WaitersAssumption
  <2> QED
    BY <2>1, <2>3, <2>4, <2>5, <2>6
<1> QED
  BY <1>2, <1>3, <1>4, <1>5, <1>6 DEF Next, Handler

(* The sums main() compares are never apart by more than one count, the one  *)
(* of a handler that is between ints_by_irq++ and ints_by_tid++.             *)
THEOREM CountersNeverApart == Spec => []CountersAgree
<1>1. RoundInv /\ TotalsInv => CountersAgree
  <2> SUFFICES ASSUME RoundInv, TotalsInv PROVE CountersAgree
    OBVIOUS
  <2>1. Between = {} \/ \E w \in Waiters : Between = {w}
    BY DEF RoundInv, TotalsInv, Locked, Between
  <2>2. Cardinality(Between) \in {0, 1}
    BY <2>1, FS_EmptySet, FS_Singleton
  <2> QED
    BY <2>2 DEF TotalsInv, CountersAgree, Between
<1>2. Spec => []TotalsInv
  BY InitTotals, TotalsStep, RoundAccounts, PTL DEF Spec
<1> QED
  BY RoundAccounts, <1>1, <1>2, PTL

-----------------------------------------------------------------------------
(* The tests of ThreadSuite.                                                 *)

(* The shared state keeps its fields.                                        *)
Shape ==
    tt = [mem |-> tt.mem, lock |-> tt.lock, waiting |-> tt.waiting,
          imask |-> tt.imask, inten |-> tt.inten, ipend |-> tt.ipend, iad |-> tt.iad,
          raised |-> tt.raised, fail |-> tt.fail]

LEMMA InitShape == TtInit => Shape
BY DEF TtInit, Shape

LEMMA ShapeStep ==
  ASSUME Shape, NEW t \in Threads, TtStep(t) \/ OpLock(t) \/ TakeInterrupt(t)
  PROVE  Shape'
<1> USE DEF Shape
<1>0. CASE OpLock(t) \/ OpUnlock(t) \/ OpPutSyscfg(t)
  <2>1. \E l, e : tt' = [tt EXCEPT !.lock = l] \/ tt' = [tt EXCEPT !.lock = l, !.inten = e]
    BY <1>0 DEF OpLock, OpUnlock, OpPutSyscfg
  <2> QED
    BY <2>1
<1>1. CASE OpCreate(t) \/ OpJoin(t) \/ OpStop(t) \/ OpGetSyscfg(t) \/ OpUntil(t)
           \/ OpJump(t) \/ OpLoad(t) \/ wait_for_threads(t) \/ OpNmi(t)
  <2>1. tt' = tt
    BY <1>1 DEF OpCreate, OpJoin, OpStop, OpGetSyscfg, OpUntil, OpJump, OpLoad,
                wait_for_threads, OpNmi
  <2> QED
    BY <2>1
<1>2. CASE OpStore(t)
  <2>1. \/ \E m : tt' = [tt EXCEPT !.mem = m]
        \/ \E m, r : tt' = [tt EXCEPT !.mem = m, !.raised = r]
    BY <1>2 DEF OpStore
  <2> QED
    BY <2>1
<1>3. CASE OpCheck(t) \/ OpFail(t)
  <2>1. \E f : tt' = [tt EXCEPT !.fail = f]
    BY <1>3 DEF OpCheck, OpFail
  <2> QED
    BY <2>1
<1>4. CASE OpWait(t) \/ OpResume(t)
  <2>1. \E w : tt' = [tt EXCEPT !.waiting = w]
    BY <1>4 DEF OpWait, OpResume
  <2> QED
    BY <2>1
<1>5. CASE OpSwi(t)
  <2>1. \E p, r : tt' = [tt EXCEPT !.ipend = p, !.raised = r]
    BY <1>5 DEF OpSwi
  <2> QED
    BY <2>1
<1>6. CASE OpImask(t)
  <2>1. \/ \E m : tt' = [tt EXCEPT !.imask = m]
        \/ \E e : tt' = [tt EXCEPT !.inten = e]
        \/ \E a : tt' = [tt EXCEPT !.iad = a]
    BY <1>6 DEF OpImask
  <2> QED
    BY <2>1
<1>7. CASE ReturnFromInterrupt(t)
  <2>1. \E a : tt' = [tt EXCEPT !.iad = a]
    BY <1>7 DEF ReturnFromInterrupt
  <2> QED
    BY <2>1
<1>8. CASE TakeInterrupt(t)
  <2>0. PICK i \in TestInts :
          tt' = [tt EXCEPT !.ipend = @ \ {i}, !.iad = @ \cup {i}, !.waiting = @ \ {t}]
    BY <1>8 DEF TakeInterrupt
  <2>1. \E p, a, w : tt' = [tt EXCEPT !.ipend = p, !.iad = a, !.waiting = w]
    BY <2>0
  <2> QED
    BY <2>1
<1> QED
  BY <1>0, <1>1, <1>2, <1>3, <1>4, <1>5, <1>6, <1>7, <1>8 DEF TtStep

-----------------------------------------------------------------------------
(* The increments of sys_atomics.c.                                          *)

SaTypes ==
    /\ saTry \in 1 .. NUM_RETRIES /\ saPc \in {"create", "poll", "PASS", "FAIL"}
    /\ prev_tick \in [Sizes -> Nat] /\ tick \in [Sizes -> Nat]
    /\ done \in [Ids -> BOOLEAN]
    /\ saI \in [Ids -> 0 .. LOOP_CNT] /\ saK \in [Ids -> 1 .. 4]
    /\ saAt \in [Ids -> {"load", "store", "done", "stopped"}]
    /\ old \in [Ids -> Nat]

(* A thread in the loop has an i left, and stores only at an increment; one  *)
(* that is done has used up its iterations.                                  *)
Looping ==
    \A t \in Ids :
        /\ saAt[t] \in {"load", "store"} => saI[t] < LOOP_CNT
        /\ saAt[t] = "store" => saK[t] \in {1, 2}
        /\ saAt[t] = "done" \/ done[t] => saI[t] = LOOP_CNT

(* The ticks do not fall.                                                    *)
Rising == \A s \in Sizes : prev_tick[s] <= tick[s]

SaInv == SaTypes /\ Looping /\ Rising /\ TicksExact /\ SaPasses

LEMMA AmountNat == \A x \in Increments : Amount(x) \in Nat
<1> SUFFICES ASSUME NEW t \in Ids, NEW i \in 0 .. LOOP_CNT - 1 PROVE t * (i % 5) \in Nat
  BY DEF Increments, Amount
<1>1. t \in Nat /\ i \in Nat
  BY SysAtomicsAssumption DEF Ids
<1>2. i % 5 \in Nat
  BY <1>1
<1> HIDE DEF Ids
<1> QED
  BY <1>1, <1>2

LEMMA IncrementsFinite == IsFiniteSet(Increments)
<1>1. IsFiniteSet(Ids) /\ IsFiniteSet(0 .. LOOP_CNT - 1)
  BY SysAtomicsAssumption, FS_Interval DEF Ids
<1> QED
  BY <1>1, FS_Product DEF Increments

LEMMA AddedNat == \A s \in Sizes : AddedSoFar(s) \in [Increments -> Nat]
BY AmountNat DEF AddedSoFar

(* A counter that goes from 0 to n adds n to the total.                      *)
LEMMA OneAmount ==
  ASSUME NEW S, IsFiniteSet(S), NEW f \in [S -> Nat], NEW x \in S, f[x] = 0, NEW n \in Nat
  PROVE  Total([f EXCEPT ![x] = n]) = Total(f) + n
<1> DEFINE g == [f EXCEPT ![x] = n]
           new == {x} \X (1 .. n)
<1>1. g[x] = n /\ \A y \in S \ {x} : g[y] = f[y]
  OBVIOUS
<1>2. {x} \X (1 .. f[x]) = {}
  OBVIOUS
<1>3. Units(g) = Units(f) \cup new
  BY <1>1, <1>2 DEF Units
<1>4. Units(f) \cap new = {}
  BY <1>2 DEF Units
<1>5. IsFiniteSet(1 .. n) /\ Cardinality(1 .. n) = n
  <2>1. 1 \in Int /\ n \in Int
    OBVIOUS
  <2>2. IsFiniteSet(1 .. n) /\ Cardinality(1 .. n) = IF 1 > n THEN 0 ELSE n - 1 + 1
    BY <2>1, FS_Interval, Zenon
  <2> QED
    BY <2>2
<1>6. IsFiniteSet(new) /\ Cardinality(new) = n
  <2>1. IsFiniteSet({x}) /\ Cardinality({x}) = 1
    BY FS_Singleton
  <2>2. IsFiniteSet(new) /\ Cardinality(new) = Cardinality({x}) * Cardinality(1 .. n)
    BY <1>5, <2>1, FS_Product, Zenon
  <2> QED
    BY <1>5, <2>1, <2>2
<1>7. IsFiniteSet(Units(f)) /\ Total(f) \in Nat
  BY UnitsFinite
<1>8. Cardinality(Units(f) \cup new) = Cardinality(Units(f)) + Cardinality(new)
                                      - Cardinality(Units(f) \cap new)
  BY <1>6, <1>7, FS_Union
<1>9. Cardinality(Units(f) \cap new) = 0
  BY <1>4, FS_EmptySet
<1>10. Total(g) = Cardinality(Units(f) \cup new) /\ Total(f) = Cardinality(Units(f))
  BY <1>3 DEF Total
<1> HIDE DEF new, g
<1>11. Total(g) = Total(f) + n
  BY <1>6, <1>7, <1>8, <1>9, <1>10
<1> QED
  BY <1>11 DEF g

LEMMA InitAtomics == SaInit => SaInv
BY SysAtomicsAssumption DEF SaInit, SaInv, SaTypes, Looping, Rising, TicksExact, SaPasses, Sizes, RETRY

LEMMA RunStep == ASSUME SaInv, RunTest PROVE SaInv'
<1> USE DEF SaInv
<1>1. (SaTypes /\ Looping /\ Rising /\ SaPasses)'
  BY SysAtomicsAssumption DEF RunTest, SaTypes, Looping, Rising, SaPasses, Sizes
<1>2. ASSUME NEW s \in Sizes PROVE tick'[s] = 1 + Total(AddedSoFar(s)')
  <2>1. \A x \in Increments : x[1] \in Ids /\ x[2] \in Nat
    BY SysAtomicsAssumption DEF Increments
  <2>2. \A x \in Increments : ~ Added(x, s)'
    BY <2>1, <1>2 DEF RunTest, Added, Sizes
  <2>3. AddedSoFar(s)' = [x \in Increments |-> 0]
    BY <2>2 DEF AddedSoFar
  <2> QED
    BY <2>3, NothingCounted DEF RunTest
<1> QED
  BY <1>1, <1>2 DEF TicksExact

LEMMA PollStep == ASSUME SaInv, PollTicks PROVE SaInv'
<1> USE DEF SaInv
<1>1. UNCHANGED <<saPc, saErr, saTry, tick, saI, saK, saAt, old, done>> /\ prev_tick' = tick
  BY DEF PollTicks, saThread
<1>2. ~ saFailed'
  BY DEF PollTicks, Rising, SaTypes, SaPasses
<1>3. (SaTypes /\ Looping /\ Rising /\ SaPasses)'
  BY <1>1, <1>2 DEF SaTypes, Looping, Rising, SaPasses, Sizes
<1>4. TicksExact'
  BY <1>1 DEF TicksExact, AddedSoFar, Added
<1> QED
  BY <1>3, <1>4

LEMMA FinishStep == ASSUME SaInv, FinishRun PROVE SaInv'
<1> USE DEF SaInv
<1>1. \A x \in Increments : x[1] \in Ids /\ x[2] < LOOP_CNT
  BY SysAtomicsAssumption DEF Increments
<1>2. ASSUME NEW s \in Sizes PROVE tick[s] = Expected
  <2>1. \A x \in Increments : Added(x, s)
    BY <1>1 DEF FinishRun, Looping, Added
  <2>2. AddedSoFar(s) = [x \in Increments |-> Amount(x)]
    BY <2>1 DEF AddedSoFar
  <2> QED
    BY <2>2 DEF FinishRun, TicksExact, Expected
<1>3. Verdict \in {RETRY, "ok"}
  BY <1>2 DEF Verdict
<1>4. UNCHANGED <<tick, prev_tick, saI, saK, saAt, old, done, saFailed>> /\ saErr' = Verdict
  BY DEF FinishRun, saThread
<1>5. (SaTypes /\ Looping /\ Rising)' /\ saPc' # "poll"
  BY <1>4, SysAtomicsAssumption DEF FinishRun, SaTypes, Looping, Rising
<1>6. SaPasses'
  BY <1>3, <1>4, SysAtomicsAssumption DEF FinishRun, SaPasses, RETRY, SaTypes
<1> QED
  BY <1>5, <1>6 DEF TicksExact

(* What a thread's step does to its place in the loop.                       *)
LEMMA AdvanceStep ==
  ASSUME SaInv, NEW t \in Ids, saAt[t] \in {"load", "store"}, Advance(t), UNCHANGED done
  PROVE  /\ saI' \in [Ids -> 0 .. LOOP_CNT] /\ saK' \in [Ids -> 1 .. 4]
         /\ saAt' \in [Ids -> {"load", "store", "done", "stopped"}]
         /\ Looping'
<1>1. saI[t] \in 0 .. LOOP_CNT /\ saI[t] < LOOP_CNT /\ saK[t] \in 1 .. 4 /\ LOOP_CNT \in Nat
  BY SysAtomicsAssumption DEF SaInv, SaTypes, Looping
<1>2. Len(Body) = 4
  BY DEF Body
<1>3. CASE saK[t] < 4
  BY <1>1, <1>2, <1>3 DEF Advance, SaInv, SaTypes, Looping
<1>4. CASE saK[t] = 4
  BY <1>1, <1>2, <1>4 DEF Advance, SaInv, SaTypes, Looping
<1> QED
  BY <1>1, <1>3, <1>4

LEMMA Places ==
  ASSUME SaInv, NEW x \in Increments
  PROVE  /\ x[1] \in Ids /\ x[2] \in Nat /\ x[2] < LOOP_CNT /\ x = <<x[1], x[2]>>
         /\ saI[x[1]] \in Nat /\ saK[x[1]] \in 1 .. 4
BY SysAtomicsAssumption DEF Increments, SaInv, SaTypes

LEMMA LoadStep == ASSUME SaInv, NEW t \in Ids, LoadLocked(t) PROVE SaInv'
<1> USE DEF SaInv
<1>1. saK[t] \in {1, 2}
  BY DEF LoadLocked, Op, Body, SaTypes
<1>2. SizeOf(t) \in Sizes
  BY <1>1 DEF SizeOf, Op, Body, Sizes
<1>3. (SaTypes /\ Looping)'
  BY <1>1, <1>2 DEF LoadLocked, SaTypes, Looping
<1>4. (Rising /\ SaPasses)'
  BY DEF LoadLocked, Rising, SaPasses
<1>5. TicksExact'
  BY DEF LoadLocked, TicksExact, AddedSoFar, Added
<1> QED
  BY <1>3, <1>4, <1>5

LEMMA MismatchStep == ASSUME SaInv, NEW t \in Ids, atomic_inc_mismatch(t) PROVE SaInv'
<1> USE DEF SaInv
<1>1. saK[t] \in {3, 4}
  BY DEF atomic_inc_mismatch, Op, Body, SaTypes
<1>2. UNCHANGED <<saTry, saPc, saErr, prev_tick, tick, done, old, saFailed>> /\ Advance(t)
      /\ saAt[t] \in {"load", "store"}
  BY DEF atomic_inc_mismatch
<1>3. (SaTypes /\ Looping)'
  BY <1>2, AdvanceStep DEF SaTypes
<1>4. (Rising /\ SaPasses)'
  BY <1>2 DEF Rising, SaPasses
<1>5. ASSUME NEW s \in Sizes, NEW x \in Increments PROVE Added(x, s)' <=> Added(x, s)
  <2>1. CASE x[1] # t
    BY <2>1, <1>2, Places DEF Advance, Added, SaTypes
  <2>2. CASE x[1] = t /\ saK[t] = 3
    <3>1. saI'[t] = saI[t] /\ saK'[t] = 4
      BY <1>2, <2>2 DEF Advance, Body, SaTypes
    <3> QED
      BY <2>2, <3>1, Places DEF Added, Sizes
  <2>3. CASE x[1] = t /\ saK[t] = 4
    <3>1. saI'[t] = saI[t] + 1 /\ saK'[t] = 1
      BY <1>2, <2>3 DEF Advance, Body, SaTypes
    <3> QED
      BY <2>3, <3>1, Places DEF Added, Sizes
  <2> QED
    BY <1>1, <2>1, <2>2, <2>3
<1>6. \A s \in Sizes : AddedSoFar(s)' = AddedSoFar(s)
  BY <1>5 DEF AddedSoFar
<1>7. TicksExact'
  BY <1>2, <1>6 DEF TicksExact
<1> QED
  BY <1>3, <1>4, <1>7

LEMMA DoneStep == ASSUME SaInv, NEW t \in Ids, MyThreadDone(t) PROVE SaInv'
<1> USE DEF SaInv
<1>1. (SaTypes /\ Looping)'
  BY DEF MyThreadDone, SaTypes, Looping
<1>2. (Rising /\ SaPasses)'
  BY DEF MyThreadDone, Rising, SaPasses
<1>3. TicksExact'
  BY DEF MyThreadDone, TicksExact, AddedSoFar, Added
<1> QED
  BY <1>1, <1>2, <1>3

(* A store-conditional that succeeds: the value it was computed from is      *)
(* still there, so that the tick grows by this increment and nothing else.   *)
LEMMA StoreSucceeds ==
  ASSUME SaInv, NEW t \in Ids, saAt[t] = "store", Op(t)[1] = "inc", Advance(t),
         tick[SizeOf(t)] = old[t], tick' = [tick EXCEPT ![SizeOf(t)] = old[t] + inc(t)],
         UNCHANGED <<saTry, saPc, saErr, prev_tick, done, old, saFailed>>
  PROVE  SaInv'
<1> USE DEF SaInv
<1> DEFINE x0 == <<t, saI[t]>>
<1>1. saK[t] \in {1, 2} /\ saI[t] \in Nat /\ saI[t] < LOOP_CNT /\ LOOP_CNT \in Nat
  BY SysAtomicsAssumption DEF SaTypes, Looping
<1>2. SizeOf(t) = (IF saK[t] = 1 THEN 32 ELSE 64) /\ SizeOf(t) \in Sizes
  BY <1>1 DEF SizeOf, Op, Body, Sizes
<1>3. x0 \in Increments /\ inc(t) = Amount(x0) /\ Amount(x0) \in Nat
  <2>1. x0 \in Increments
    BY <1>1 DEF Increments
  <2> QED
    BY <2>1, AmountNat DEF inc
<1>4. saI' = saI /\ saK' = [saK EXCEPT ![t] = @ + 1]
  BY <1>1 DEF Advance, Body
<1>5. \A s \in Sizes : tick'[s] = tick[s] + (IF s = SizeOf(t) THEN Amount(x0) ELSE 0)
  BY <1>2, <1>3 DEF SaTypes
<1>6. tick' \in [Sizes -> Nat] /\ Rising'
  <2>1. \A s \in Sizes : tick[s] \in Nat /\ prev_tick[s] \in Nat
    BY DEF SaTypes
  <2>2. \A s \in Sizes : tick'[s] \in Nat /\ tick[s] <= tick'[s]
    BY <1>3, <1>5, <2>1
  <2>3. \A s \in Sizes : prev_tick'[s] <= tick'[s]
    BY <2>1, <2>2 DEF Rising
  <2>4. tick' = [s \in Sizes |-> tick'[s]]
    BY DEF SaTypes
  <2>5. tick' \in [Sizes -> Nat]
    BY <2>2, <2>4
  <2> QED
    BY <2>3, <2>5 DEF Rising
<1>7. (SaTypes /\ Looping)'
  BY <1>6, AdvanceStep DEF SaTypes
<1>8. SaPasses'
  BY DEF SaPasses
<1>9. ASSUME NEW s \in Sizes, NEW x \in Increments
      PROVE  Added(x, s)' <=> (Added(x, s) \/ (s = SizeOf(t) /\ x = x0))
  <2>1. CASE x[1] # t
    BY <2>1, <1>4, Places DEF Added, SaTypes
  <2>2. CASE x[1] = t
    <3>1. saK'[t] = saK[t] + 1 /\ saI'[t] = saI[t]
      BY <1>4 DEF SaTypes
    <3>2. x = x0 <=> x[2] = saI[t]
      BY <2>2, Places
    <3> HIDE DEF x0
    <3> QED
      BY <1>1, <1>2, <2>2, <3>1, <3>2, Places DEF Added, Sizes
  <2> QED
    BY <2>1, <2>2
<1>10. ~ Added(x0, SizeOf(t))
  BY <1>1, <1>2 DEF Added, Sizes
<1>11. ASSUME NEW s \in Sizes, saPc' = "poll" PROVE tick'[s] = 1 + Total(AddedSoFar(s)')
  <2>0. tick[s] = 1 + Total(AddedSoFar(s)) /\ AddedSoFar(s) \in [Increments -> Nat]
        /\ Total(AddedSoFar(s)) \in Nat
    BY <1>11, AddedNat, UnitsFinite, IncrementsFinite DEF TicksExact
  <2>1. CASE s # SizeOf(t)
    <3>1. AddedSoFar(s)' = AddedSoFar(s)
      BY <1>9, <2>1 DEF AddedSoFar
    <3> QED
      BY <1>5, <2>0, <2>1, <3>1 DEF SaTypes
  <2>2. CASE s = SizeOf(t)
    <3>1. AddedSoFar(s)' = [AddedSoFar(s) EXCEPT ![x0] = Amount(x0)] /\ AddedSoFar(s)[x0] = 0
      BY <1>3, <1>9, <1>10, <2>2 DEF AddedSoFar
    <3>2. Total(AddedSoFar(s)') = Total(AddedSoFar(s)) + Amount(x0)
      <4> DEFINE f == AddedSoFar(s)
                 n == Amount(x0)
      <4>1. f \in [Increments -> Nat] /\ f[x0] = 0 /\ n \in Nat /\ x0 \in Increments
        BY <1>3, <2>0, <3>1
      <4> HIDE DEF f, n, x0
      <4>2. Total([f EXCEPT ![x0] = n]) = Total(f) + n
        BY <4>1, OneAmount, IncrementsFinite
      <4> QED
        BY <3>1, <4>2 DEF f, n
    <3> QED
      BY <1>3, <1>5, <2>0, <2>2, <3>2
  <2> QED
    BY <2>1, <2>2
<1> QED
  BY <1>6, <1>7, <1>8, <1>11 DEF TicksExact

LEMMA IncStep == ASSUME SaInv, NEW t \in Ids, atomic_inc(t) PROVE SaInv'
<1>1. CASE tick[SizeOf(t)] = old[t]
  BY <1>1, StoreSucceeds DEF atomic_inc
<1>2. CASE tick[SizeOf(t)] # old[t]
  <2> USE DEF SaInv
  <2>1. /\ UNCHANGED <<saTry, saPc, saErr, prev_tick, tick, done, saI, saK, old, saFailed>>
        /\ saAt[t] = "store" /\ saAt' = [saAt EXCEPT ![t] = "load"]
    BY <1>2 DEF atomic_inc
  <2>2. (SaTypes /\ Looping)'
    BY <2>1 DEF SaTypes, Looping
  <2>3. (Rising /\ SaPasses /\ TicksExact)'
    BY <2>1 DEF Rising, SaPasses, TicksExact, AddedSoFar, Added
  <2> QED
    BY <2>2, <2>3
<1> QED
  BY <1>1, <1>2

LEMMA KeepAtomics == SaInv /\ UNCHANGED saVars => SaInv'
BY DEF SaInv, SaTypes, Looping, Rising, TicksExact, AddedSoFar, Added, SaPasses, saVars, saThread

SuiteSaInv == suite = "atomics" => SaInv

LEMMA SuiteSaStep == SuiteSaInv /\ [SuiteNext]_suiteVars => SuiteSaInv'
<1> SUFFICES ASSUME SuiteSaInv, [SuiteNext]_suiteVars, suite' = "atomics"
             PROVE  SaInv'
  BY DEF SuiteSaInv
<1>1. CASE InThreads(TtNext)
  BY <1>1 DEF InThreads
<1>2. CASE InAtomics(SaNext)
  <2>1. SaInv /\ SaNext
    BY <1>2 DEF InAtomics, SuiteSaInv
  <2> QED
    BY <2>1, RunStep, PollStep, FinishStep, LoadStep, IncStep, MismatchStep, DoneStep
    DEF SaNext, SaMain, SaThread
<1>3. CASE UNCHANGED suiteVars
  BY <1>3, KeepAtomics DEF suiteVars, SuiteSaInv
<1> QED
  BY <1>1, <1>2, <1>3 DEF SuiteNext

(* sys_atomics.c: for any number of threads and increments, the ticks are    *)
(* always the sum of the increments made so far, main's polls never see them *)
(* fall, and run_test never reports a wrong sum.                             *)
THEOREM AtomicsNeverLose == SuiteSpec => []AtomicsExact
<1>1. SuiteInit => SuiteSaInv
  BY InitAtomics DEF SuiteInit, SuiteSaInv
<1>2. SuiteSaInv => AtomicsExact
  BY DEF SuiteSaInv, SaInv, AtomicsExact
<1> QED
  BY <1>1, <1>2, SuiteSaStep, PTL DEF SuiteSpec

-----------------------------------------------------------------------------
(* A sequence of n elements.                                                 *)
Long(s, n) == n \in Nat /\ s = [k \in 1 .. n |-> s[k]]

LEMMA LongLen == ASSUME NEW s, NEW n, Long(s, n) PROVE Len(s) = n
<1>1. DOMAIN s = 1 .. n /\ n \in Nat
  BY DEF Long
<1>2. s \in Seq({s[k] : k \in 1 .. n})
  <2>1. s \in [1 .. n -> {s[k] : k \in 1 .. n}]
    BY DEF Long
  <2> QED
    BY <2>1, <1>1
<1> QED
  BY <1>1, <1>2

(* Concatenation, named: the provers read s \o u in a lemma their own way.   *)
Cat(s, u) == s \o u

LEMMA CatProperties ==
  ASSUME NEW s, NEW u, NEW m \in Nat, NEW n \in Nat, Long(s, m), Long(u, n)
  PROVE  /\ Long(Cat(s, u), m + n)
         /\ \A k \in 1 .. m : Cat(s, u)[k] = s[k]
         /\ \A j \in 1 .. n : Cat(s, u)[m + j] = u[j]
<1> DEFINE S == {s[k] : k \in 1 .. m} \cup {u[k] : k \in 1 .. n}
           w == Cat(s, u)
<1>1. Len(s) = m /\ Len(u) = n
  BY LongLen
<1>2. s \in [1 .. m -> S] /\ u \in [1 .. n -> S]
  BY DEF Long
<1> HIDE DEF S
<1>3. s \in Seq(S) /\ u \in Seq(S)
  BY <1>1, <1>2
<1>4. /\ w \in Seq(S)
      /\ Len(w) = m + n
      /\ \A i \in 1 .. m + n : w[i] = IF i <= m THEN s[i] ELSE u[i - m]
  BY <1>1, <1>3, ConcatProperties DEF Cat
<1>5. w \in [1 .. m + n -> S]
  BY <1>4, LenProperties
<1> HIDE DEF w
<1>6. Long(w, m + n)
  BY <1>5 DEF Long
<1>7. \A k \in 1 .. m : w[k] = s[k]
  BY <1>4
<1>8. ASSUME NEW j \in 1 .. n PROVE w[m + j] = u[j]
  <2>1. m + j \in 1 .. m + n /\ ~(m + j <= m) /\ (m + j) - m = j
    OBVIOUS
  <2> QED
    BY <2>1, <1>4
<1> QED
  BY <1>6, <1>7, <1>8 DEF w

LEMMA CatLong ==
  ASSUME NEW s, NEW u, NEW m \in Nat, NEW n \in Nat, Long(s, m), Long(u, n)
  PROVE  Long(Cat(s, u), m + n)
BY CatProperties

LEMMA CatLeft ==
  ASSUME NEW s, NEW u, NEW m \in Nat, NEW n \in Nat, Long(s, m), Long(u, n), NEW k \in 1 .. m
  PROVE  Cat(s, u)[k] = s[k]
BY CatProperties

LEMMA CatRight ==
  ASSUME NEW s, NEW u, NEW m \in Nat, NEW n \in Nat, Long(s, m), Long(u, n), NEW j \in 1 .. n
  PROVE  Cat(s, u)[m + j] = u[j]
BY CatProperties

LEMMA DivMod ==
  ASSUME NEW n \in Nat \ {0}, NEW q \in Nat, NEW r \in 0 .. n - 1
  PROVE  (q * n + r) \div n = q /\ (q * n + r) % n = r
<1> DEFINE a == q * n + r
           d == a \div n
           e == a % n
<1>1. a \in Nat
  OBVIOUS
<1>2. d \in Nat /\ e \in 0 .. n - 1 /\ a = n * d + e
  BY <1>1
<1>3. ~(d < q)
  <2> SUFFICES ASSUME d < q PROVE FALSE
    OBVIOUS
  <2>1. PICK j \in Nat : q = d + 1 + j
    <3>1. q - d - 1 \in Nat /\ q = d + 1 + (q - d - 1)
      BY <1>2
    <3> QED
      BY <3>1
  <2>2. q * n = d * n + n + j * n /\ j * n >= 0
    BY <1>2, <2>1
  <2> QED
    BY <1>2, <2>2
<1>4. ~(q < d)
  <2> SUFFICES ASSUME q < d PROVE FALSE
    OBVIOUS
  <2>1. PICK j \in Nat : d = q + 1 + j
    <3>1. d - q - 1 \in Nat /\ d = q + 1 + (d - q - 1)
      BY <1>2
    <3> QED
      BY <3>1
  <2>2. n * d = q * n + n + j * n /\ j * n >= 0
    BY <1>2, <2>1
  <2> QED
    BY <1>2, <2>2
<1>5. d = q
  BY <1>2, <1>3, <1>4
<1> QED
  BY <1>2, <1>5

Sound(s, n) ==
  /\ Long(s, n) /\ n > 0
  /\ \A k \in 1 .. n :
       /\ s[k][1] \notin {"stop", "jump", "fail"} => k < n
       /\ s[k][1] = "jump" => s[k][2] \in 1 .. n
       /\ s[k][1] = "jeq" => s[k][4] \in 1 .. n
       /\ s[k][1] = "retry" => k + 3 \in 1 .. n
       /\ s[k][1] = "again" => k - 2 \in 1 .. n

Quiet(s, n) == \A k \in 1 .. n : s[k][1] \notin {"check", "checkiad", "fail"}


Calm(s, n) == Sound(s, n) /\ Quiet(s, n)

(* A text repeated: the k-th operation of a round.                           *)
LEMMA TimesText ==
  ASSUME NEW n \in Nat, NEW s, NEW m \in Nat \ {0}, Long(s, m)
  PROVE  /\ Long(Times(n, s), n * m)
         /\ \A k \in 1 .. n * m : \E r \in 1 .. m : Times(n, s)[k] = s[r]
<1>1. Len(s) = m
  BY LongLen
<1>2. n * m \in Nat
  OBVIOUS
<1>3. Times(n, s) = [k \in 1 .. n * m |-> s[1 + ((k - 1) % m)]]
  BY <1>1 DEF Times
<1>4. ASSUME NEW k \in 1 .. n * m PROVE 1 + ((k - 1) % m) \in 1 .. m
  <2>1. k - 1 \in Nat
    BY <1>2
  <2>2. (k - 1) % m \in 0 .. m - 1
    BY <2>1
  <2> QED
    BY <2>2
<1> QED
  BY <1>2, <1>3, <1>4 DEF Long

(* Operations that do not jump, stop or check, then more of the text.        *)
Plain(s, n) ==
    /\ Long(s, n)
    /\ \A k \in 1 .. n : s[k][1] \notin {"stop", "jump", "fail", "jeq", "retry", "again", "check",
                                         "checkiad"}

LEMMA PlainTimes ==
  ASSUME NEW n \in Nat, NEW s, NEW m \in Nat \ {0}, Plain(s, m)
  PROVE  Plain(Times(n, s), n * m)
<1>1. Long(s, m)
  BY DEF Plain
<1>2. /\ Long(Times(n, s), n * m)
      /\ \A k \in 1 .. n * m : \E r \in 1 .. m : Times(n, s)[k] = s[r]
  <2> HIDE DEF Times
  <2>1. Long(Times(n, s), n * m)
    BY <1>1, TimesText
  <2>2. \A k \in 1 .. n * m : \E r \in 1 .. m : Times(n, s)[k] = s[r]
    BY <1>1, TimesText
  <2> QED
    BY <2>1, <2>2
<1> HIDE DEF Times
<1> QED
  BY <1>2 DEF Plain

(* A piece of a text: it may also jump within itself or to its end.          *)
Piece(s, n) ==
    /\ Long(s, n)
    /\ \A k \in 1 .. n :
         /\ s[k][1] \notin {"stop", "jump", "fail", "jeq", "check", "checkiad"}
         /\ s[k][1] = "retry" => k + 2 <= n
         /\ s[k][1] = "again" => k >= 3

Closing(u, n) == Calm(u, n) /\ \A k \in 1 .. n : u[k][1] \notin {"jump", "jeq", "retry", "again"}

LEMMA PlainPiece == ASSUME NEW s, NEW n, Plain(s, n) PROVE Piece(s, n)
BY DEF Plain, Piece

LEMMA CatPlace ==
  ASSUME NEW s, NEW u, NEW m \in Nat, NEW n \in Nat, Long(s, m), Long(u, n), NEW k \in 1 .. m + n
  PROVE  \/ k \in 1 .. m /\ Cat(s, u)[k] = s[k]
         \/ \E j \in 1 .. n : k = m + j /\ Cat(s, u)[k] = u[j]
<1>1. k > m => k - m \in 1 .. n /\ k = m + (k - m)
  OBVIOUS
<1>2. k \in 1 .. m \/ \E j \in 1 .. n : k = m + j
  BY <1>1
<1> QED
  BY <1>2, CatLeft, CatRight

LEMMA PieceCat ==
  ASSUME NEW s, NEW u, NEW m \in Nat, NEW n \in Nat, Piece(s, m), Piece(u, n)
  PROVE  Piece(Cat(s, u), m + n)
<1>1. Long(s, m) /\ Long(u, n)
  BY DEF Piece
<1> DEFINE w == Cat(s, u)
<1>2. Long(w, m + n)
  BY <1>1, CatLong
<1>3. ASSUME NEW k \in 1 .. m + n
      PROVE  (k \in 1 .. m /\ w[k] = s[k]) \/ \E j \in 1 .. n : k = m + j /\ w[k] = u[j]
  BY <1>1, CatPlace
<1> HIDE DEF w
<1>4. ASSUME NEW k \in 1 .. m + n
      PROVE  /\ w[k][1] \notin {"stop", "jump", "fail", "jeq", "check", "checkiad"}
             /\ w[k][1] = "retry" => k + 2 <= m + n
             /\ w[k][1] = "again" => k >= 3
  <2>1. CASE k \in 1 .. m /\ w[k] = s[k]
    BY <2>1 DEF Piece
  <2>2. ASSUME NEW j \in 1 .. n, k = m + j, w[k] = u[j]
        PROVE  /\ w[k][1] \notin {"stop", "jump", "fail", "jeq", "check", "checkiad"}
               /\ w[k][1] = "retry" => k + 2 <= m + n
               /\ w[k][1] = "again" => k >= 3
    BY <2>2 DEF Piece
  <2> QED
    BY <1>3, <2>1, <2>2
<1>5. Piece(w, m + n)
  BY <1>2, <1>4 DEF Piece
<1> QED
  BY <1>5 DEF w

LEMMA PieceThen ==
  ASSUME NEW s, NEW u, NEW m \in Nat, NEW n \in Nat, Piece(s, m), Closing(u, n)
  PROVE  Calm(Cat(s, u), m + n)
<1>1. Long(s, m) /\ Long(u, n) /\ n > 0
  BY DEF Piece, Closing, Calm, Sound
<1> DEFINE w == Cat(s, u)
<1>2. Long(w, m + n)
  BY <1>1, CatLong
<1>3. ASSUME NEW k \in 1 .. m + n
      PROVE  (k \in 1 .. m /\ w[k] = s[k]) \/ \E j \in 1 .. n : k = m + j /\ w[k] = u[j]
  BY <1>1, CatPlace
<1> HIDE DEF w
<1> DEFINE Fine(k) ==
      /\ w[k][1] \notin {"stop", "jump", "fail"} => k < m + n
      /\ w[k][1] \notin {"jump", "jeq", "check", "checkiad", "fail"}
      /\ w[k][1] = "retry" => k + 3 \in 1 .. m + n
      /\ w[k][1] = "again" => k - 2 \in 1 .. m + n
<1>4. ASSUME NEW k \in 1 .. m + n PROVE Fine(k)
  <2>1. CASE k \in 1 .. m /\ w[k] = s[k]
    BY <1>1, <2>1 DEF Piece
  <2>2. ASSUME NEW j \in 1 .. n, k = m + j, w[k] = u[j] PROVE Fine(k)
    BY <2>2 DEF Closing, Calm, Sound, Quiet
  <2> QED
    BY <1>3, <2>1, <2>2
<1>5. Sound(w, m + n)
  BY <1>1, <1>2, <1>4 DEF Sound
<1>6. Quiet(w, m + n)
  BY <1>4 DEF Quiet
<1> QED
  BY <1>5, <1>6 DEF w, Calm

LEMMA StopCloses == Closing(<<Stop>>, 1)
BY DEF Closing, Calm, Sound, Quiet, Long, Stop

LEMMA LockTexts ==
  /\ Calm(LockMain, ROUNDS * 4 + 1)
  /\ Calm(LockThread, ROUNDS * 3 + 1)
  /\ Calm(mod_k0, ROUNDS * 2 + 1)
  /\ Calm(mod_syscfg, 1 + ROUNDS * 2 + 1)
<1> USE ThreadTestsAssumption
<1>1. Calm(LockMain, ROUNDS * 4 + 1)
  <2> DEFINE s == << <<"lock">>, Create(Workers), <<"unlock">>, Join(Workers) >>
  <2>1. Plain(s, 4)
    BY DEF Plain, Long, Create, Join
  <2> HIDE DEF s
  <2>2. Piece(Times(ROUNDS, s), ROUNDS * 4)
    BY <2>1, PlainTimes, PlainPiece
  <2>3. Calm(Cat(Times(ROUNDS, s), <<Stop>>), ROUNDS * 4 + 1)
    BY <2>2, PieceThen, StopCloses
  <2> QED
    BY <2>3 DEF LockMain, s, Cat
<1>2. Calm(LockThread, ROUNDS * 3 + 1)
  <2> DEFINE s == << <<"lock">>, <<"unlock">>, <<"unlock">> >>
  <2>1. Plain(s, 3)
    BY DEF Plain, Long
  <2> HIDE DEF s
  <2>2. Piece(Times(ROUNDS, s), ROUNDS * 3)
    BY <2>1, PlainTimes, PlainPiece
  <2>3. Calm(Cat(Times(ROUNDS, s), <<Stop>>), ROUNDS * 3 + 1)
    BY <2>2, PieceThen, StopCloses
  <2> QED
    BY <2>3 DEF LockThread, s, Cat
<1>3. Calm(mod_k0, ROUNDS * 2 + 1)
  <2> DEFINE s == << <<"lock">>, <<"unlock">> >>
  <2>1. Plain(s, 2)
    BY DEF Plain, Long
  <2> HIDE DEF s
  <2>2. Piece(Times(ROUNDS, s), ROUNDS * 2)
    BY <2>1, PlainTimes, PlainPiece
  <2>3. Calm(Cat(Times(ROUNDS, s), <<Stop>>), ROUNDS * 2 + 1)
    BY <2>2, PieceThen, StopCloses
  <2> QED
    BY <2>3 DEF mod_k0, s, Cat
<1>4. Calm(mod_syscfg, 1 + ROUNDS * 2 + 1)
  <2> DEFINE s == << <<"putsyscfg">>, <<"getsyscfg">> >>
             g == << <<"getsyscfg">> >>
  <2>1. Plain(s, 2) /\ Plain(g, 1)
    BY DEF Plain, Long
  <2> HIDE DEF s, g
  <2>2. Piece(Times(ROUNDS, s), ROUNDS * 2) /\ Piece(g, 1)
    BY <2>1, PlainTimes, PlainPiece
  <2>3. Piece(Cat(g, Times(ROUNDS, s)), 1 + ROUNDS * 2)
    BY <2>2, PieceCat
  <2>4. Calm(Cat(Cat(g, Times(ROUNDS, s)), <<Stop>>), 1 + ROUNDS * 2 + 1)
    BY <2>3, PieceThen, StopCloses
  <2> QED
    BY <2>4 DEF mod_syscfg, s, g, Cat
<1> QED
  BY <1>1, <1>2, <1>3, <1>4

LEMMA ShortTexts ==
  /\ Calm(SyscfgMain, 4) /\ Calm(SchedulingMain, 4) /\ Calm(SchedulingThread, 2)
  /\ Calm(thread1_fn, 3) /\ Calm(NmiMain, 5) /\ Calm(task_thread, 2)
  /\ \A t \in Threads : Calm(thread_func(t), 8) /\ Calm(my_thread_function(t), 4)
  /\ Sound(CiadMain, 5) /\ Sound(LockLockMain, 4) /\ Sound(BestwaitMain, 10)
<1> USE DEF Calm, Sound, Quiet, Long, Create, Join, Stop, Set, Until, Var, Jump
<1>1. Calm(SyscfgMain, 4) /\ Calm(SchedulingMain, 4) /\ Calm(SchedulingThread, 2)
  BY DEF SyscfgMain, SchedulingMain, SchedulingThread
<1>2. Calm(thread1_fn, 3) /\ Calm(NmiMain, 5) /\ Calm(task_thread, 2)
  BY DEF thread1_fn, NmiMain, task_thread
<1>3. ASSUME NEW t \in Threads PROVE Calm(thread_func(t), 8) /\ Calm(my_thread_function(t), 4)
  BY DEF thread_func, my_thread_function, Imask, AtomicInc, Jeq, Swi
<1>4. Sound(CiadMain, 5) /\ Sound(LockLockMain, 4)
  BY DEF CiadMain, LockLockMain
<1>5. Sound(BestwaitMain, 10)
  BY DEF BestwaitMain, Imask, Jeq, Swi, Check
<1> QED
  BY <1>1, <1>2, <1>3, <1>4, <1>5

(* test-thread.c                                                             *)
LEMMA MutexThreadText ==
  ASSUME NEW t \in Threads
  PROVE  \E n \in {1, 6} : Sound(MutexThread(t), n)
BY DEF Sound, Long, MutexThread, Load, Store, Var, Set, Stop
LEMMA BestwaitText == Sound(thread1, 7)
BY DEF Sound, Long, thread1, Load, Store, Var, Set, Stop, Jeq

HandlerSound(s, n) ==
    /\ Long(s, n) /\ n > 0
    /\ \A k \in 1 .. n : /\ s[k][1] \in {"load", "store", "set", "lock", "unlock", "inc", "return"}
                         /\ s[k][1] # "return" => k < n

LEMMA HandlerTexts ==
  ASSUME NEW p \in Programs, NEW i
  PROVE  \E n \in 1 .. 4 : HandlerSound(HandlerCode(p, i), n)
<1> USE DEF HandlerSound, HandlerCode, Long
<1>1. CASE p \in {"swi", "swi2"}
  BY <1>1 DEF Load, Store
<1>2. CASE p = "bestwait"
  BY <1>2 DEF Set
<1>3. CASE p = "pend"
  BY <1>3 DEF AtomicInc
<1>4. CASE p \notin {"swi", "swi2", "bestwait", "pend"}
  BY <1>4
<1> QED
  BY <1>1, <1>2, <1>3, <1>4

LEMMA PendText == Calm(PendMain, ((3 + INTS_PER_ITER * 4) + 1 + MAX_INT_NUM * 2) + 2)
<1> USE ThreadTestsAssumption
<1> DEFINE h == <<Imask(0, TestInts), Create({1, 2}), Until(Var("threads_started"), 2)>>
           rounds == Times(INTS_PER_ITER, PendRound)
           e == <<AtomicInc(Var("thread_exit_flag"))>>
           f == [k \in 1 .. MAX_INT_NUM * 2 |->
                   LET j == (k - 1) \div 2
                   IN Swi(BitsOf(IF k % 2 = 1 THEN j ELSE MAX_INT_NUM - j))]
           z == <<Join({1, 2}), Stop>>
<1>1. Piece(h, 3)
  BY DEF Piece, Long, Imask, Create, Until, Var
<1>2. Piece(e, 1)
  BY DEF Piece, Long, AtomicInc, Var
<1>3. Piece(f, MAX_INT_NUM * 2)
  BY DEF Piece, Long, Swi
<1>4. Closing(z, 2)
  BY DEF Closing, Calm, Sound, Quiet, Long, Join, Stop
<1>5. Piece(rounds, INTS_PER_ITER * 4)
  <2>1. Long(PendRound, 4)
    BY DEF Long, PendRound, Load, Swi, Var
  <2>2. Len(PendRound) = 4
    BY <2>1, LongLen
  <2>3. /\ PendRound[1][1] = "load" /\ PendRound[2][1] = "retry"
        /\ PendRound[3][1] = "swi" /\ PendRound[4][1] = "again"
    BY DEF PendRound, Load, Swi, Var
  <2>4. rounds = [k \in 1 .. INTS_PER_ITER * 4 |-> PendRound[1 + ((k - 1) % 4)]]
    BY <2>2 DEF Times
  <2>5. ASSUME NEW k \in 1 .. INTS_PER_ITER * 4
        PROVE  /\ 1 + ((k - 1) % 4) \in 1 .. 4
               /\ 1 + ((k - 1) % 4) = 2 => k + 2 <= INTS_PER_ITER * 4
               /\ 1 + ((k - 1) % 4) = 4 => k >= 3
    OBVIOUS
  <2>6. ASSUME NEW k \in 1 .. INTS_PER_ITER * 4
        PROVE  /\ rounds[k][1] \notin {"stop", "jump", "fail", "jeq", "check", "checkiad"}
               /\ rounds[k][1] = "retry" => k + 2 <= INTS_PER_ITER * 4
               /\ rounds[k][1] = "again" => k >= 3
    <3>1. PICK r \in 1 .. 4 : r = 1 + ((k - 1) % 4) /\ rounds[k] = PendRound[r]
      BY <2>4, <2>5
    <3> HIDE DEF rounds
    <3>2. CASE r = 1
      BY <3>1, <3>2, <2>3
    <3>3. CASE r = 2
      BY <3>1, <3>3, <2>3, <2>5
    <3>4. CASE r = 3
      BY <3>1, <3>4, <2>3
    <3>5. CASE r = 4
      BY <3>1, <3>5, <2>3, <2>5
    <3> QED
      BY <3>2, <3>3, <3>4, <3>5
  <2>7. Long(rounds, INTS_PER_ITER * 4)
    BY <2>4 DEF Long
  <2> HIDE DEF rounds
  <2> QED
    BY <2>6, <2>7 DEF Piece
<1> HIDE DEF h, rounds, e, f, z
<1>6. Piece(Cat(h, rounds), 3 + INTS_PER_ITER * 4)
  BY <1>1, <1>5, PieceCat
<1>7. Piece(Cat(Cat(h, rounds), e), (3 + INTS_PER_ITER * 4) + 1)
  BY <1>2, <1>6, PieceCat
<1>8. Piece(Cat(Cat(Cat(h, rounds), e), f), (3 + INTS_PER_ITER * 4) + 1 + MAX_INT_NUM * 2)
  BY <1>3, <1>7, PieceCat
<1>9. Calm(Cat(Cat(Cat(Cat(h, rounds), e), f), z), ((3 + INTS_PER_ITER * 4) + 1 + MAX_INT_NUM * 2) + 2)
  BY <1>4, <1>8, PieceThen
<1> QED
  BY <1>9 DEF PendMain, Cat, h, rounds, e, f, z

LEMMA CyclesText ==
  ASSUME NEW t \in Threads
  PROVE  /\ Calm(interrupt_cycles(t), 11)
         /\ \A k \in 1 .. 11 : interrupt_cycles(t)[k][1] \in {"jeq", "inten", "imask", "jump", "stop"}
<1> DEFINE h == <<Jeq(Var("tasks_disabled"), 1, 11)>>
           b == << <<"inten", FALSE>>, <<"inten", TRUE>>, Imask(t, {}), Imask(t, TestInts)>>
           z == <<Jump(1), Stop>>
           w == Cat(Cat(h, Times(2, b)), z)
<1>1. Long(h, 1) /\ Long(b, 4) /\ Long(z, 2)
  BY DEF Long
<1>2. /\ h[1][1] = "jeq" /\ h[1][4] = 11
      /\ \A k \in 1 .. 4 : b[k][1] \in {"inten", "imask"}
      /\ z[1][1] = "jump" /\ z[1][2] = 1 /\ z[2][1] = "stop"
  BY DEF Jeq, Imask, Jump, Stop, Var
<1> HIDE DEF h, b, z
<1>3. Long(Times(2, b), 8)
  <2>1. Long(Times(2, b), 2 * 4)
    BY <1>1, TimesText
  <2> QED
    BY <2>1
<1>4. \A k \in 1 .. 8 : Times(2, b)[k][1] \in {"inten", "imask"}
  <2>1. ASSUME NEW k \in 1 .. 8 PROVE \E r \in 1 .. 4 : Times(2, b)[k] = b[r]
    <3>1. Len(b) = 4
      BY <1>1, LongLen
    <3>2. Times(2, b)[k] = b[1 + ((k - 1) % 4)] /\ 1 + ((k - 1) % 4) \in 1 .. 4
      BY <3>1 DEF Times
    <3> QED
      BY <3>2
  <2> QED
    BY <2>1, <1>2
<1>5. /\ Long(Cat(h, Times(2, b)), 9) /\ Cat(h, Times(2, b))[1] = h[1]
      /\ \A k \in 1 .. 8 : Cat(h, Times(2, b))[1 + k] = Times(2, b)[k]
  <2>1. Long(Cat(h, Times(2, b)), 1 + 8)
    BY <1>1, <1>3, CatLong
  <2> QED
    BY <2>1, <1>1, <1>3, CatLeft, CatRight
<1>6. /\ Long(w, 11) /\ \A k \in 1 .. 9 : w[k] = Cat(h, Times(2, b))[k]
      /\ w[9 + 1] = z[1] /\ w[9 + 2] = z[2]
  <2>1. Long(w, 9 + 2)
    BY <1>1, <1>5, CatLong
  <2> QED
    BY <2>1, <1>1, <1>5, CatLeft, CatRight
<1>7. ASSUME NEW k \in 2 .. 9 PROVE w[k][1] \in {"inten", "imask"}
  <2>1. k - 1 \in 1 .. 8 /\ 1 + (k - 1) = k /\ k \in 1 .. 9
    OBVIOUS
  <2>2. w[k] = Times(2, b)[k - 1]
    BY <2>1, <1>5, <1>6
  <2> QED
    BY <2>1, <2>2, <1>4
<1>8. w[1] = h[1] /\ w[10] = z[1] /\ w[11] = z[2]
  BY <1>5, <1>6
<1>9. w = interrupt_cycles(t)
  BY DEF w, Cat, h, b, z, interrupt_cycles
<1> HIDE DEF w
<1>10. \A k \in 1 .. 11 : k \in 2 .. 9 \/ k = 1 \/ k = 10 \/ k = 11
  OBVIOUS
<1>11. Sound(w, 11)
  BY <1>2, <1>6, <1>7, <1>8, <1>10 DEF Sound
<1>12. \A k \in 1 .. 11 : w[k][1] \in {"jeq", "inten", "imask", "jump", "stop"}
  BY <1>2, <1>7, <1>8, <1>10
<1>13. Quiet(w, 11)
  BY <1>12 DEF Quiet
<1> QED
  BY <1>9, <1>11, <1>12, <1>13 DEF Calm

LEMMA SwiText ==
  /\ Calm(SwiMain, WORKERS + 6)
  /\ SwiMain[1] = Create(Workers)
  /\ \A k \in 2 .. WORKERS + 6 : SwiMain[k][1] \in {"waiting", "imask", "resume", "join", "stop"}
<1> USE ThreadTestsAssumption
<1> DEFINE h == <<Create(Workers), <<"waiting", Workers>>, Imask(0, TestInts)>>
           c == [t \in Workers |-> Imask(t, TestInts \ {t})]
           z == << <<"resume", Workers>>, Join(Workers), Stop>>
           Rest == {"waiting", "imask", "resume", "join", "stop"}
           w == Cat(Cat(h, c), z)
<1>1. /\ Piece(h, 3) /\ h[1] = Create(Workers) /\ h[2][1] = "waiting" /\ h[3][1] = "imask"
  BY DEF Piece, Long, Create, Imask
<1>2. Piece(c, WORKERS) /\ \A k \in 1 .. WORKERS : c[k][1] = "imask"
  BY DEF Piece, Long, Imask, Workers
<1>3. Closing(z, 3) /\ \A k \in 1 .. 3 : z[k][1] \in Rest
  BY DEF Closing, Calm, Sound, Quiet, Long, Join, Stop
<1> HIDE DEF h, c, z
<1>4. Piece(Cat(h, c), 3 + WORKERS)
  BY <1>1, <1>2, PieceCat
<1>5. Calm(w, WORKERS + 6)
  <2>1. Calm(w, (3 + WORKERS) + 3)
    BY <1>3, <1>4, PieceThen
  <2> QED
    BY <2>1
<1>6. Long(h, 3) /\ Long(c, WORKERS) /\ Long(z, 3) /\ Long(Cat(h, c), 3 + WORKERS)
  BY <1>1, <1>2, <1>3, <1>4 DEF Piece, Closing, Calm, Sound
<1>7. w[1] = Create(Workers)
  <2>1. Cat(h, c)[1] = h[1]
    BY <1>6, CatLeft
  <2>2. w[1] = Cat(h, c)[1]
    BY <1>6, CatLeft
  <2> QED
    BY <1>1, <2>1, <2>2
<1>8. ASSUME NEW k \in 2 .. WORKERS + 6 PROVE w[k][1] \in Rest
  <2>1. k \in 1 .. (3 + WORKERS) + 3
    OBVIOUS
  <2>2. \/ k \in 1 .. 3 + WORKERS /\ w[k] = Cat(h, c)[k]
        \/ \E j \in 1 .. 3 : k = (3 + WORKERS) + j /\ w[k] = z[j]
    BY <2>1, <1>6, CatPlace
  <2>3. CASE k \in 1 .. 3 + WORKERS /\ w[k] = Cat(h, c)[k]
    <3>1. \/ k \in 1 .. 3 /\ Cat(h, c)[k] = h[k]
          \/ \E j \in 1 .. WORKERS : k = 3 + j /\ Cat(h, c)[k] = c[j]
      BY <2>3, <1>6, CatPlace
    <3> QED
      BY <3>1, <2>3, <1>1, <1>2
  <2>4. CASE \E j \in 1 .. 3 : k = (3 + WORKERS) + j /\ w[k] = z[j]
    BY <2>4, <1>3
  <2> QED
    BY <2>2, <2>3, <2>4
<1>9. w = SwiMain
  BY DEF w, Cat, h, c, z, SwiMain
<1> QED
  BY <1>5, <1>7, <1>8, <1>9

LEMMA MutexText ==
  /\ Sound(MutexMain, 5 + (WORKERS - 1) + 1)
  /\ MutexMain[1] = <<"lock">> /\ MutexMain[2] = Create(1 .. WORKERS) /\ MutexMain[3] = <<"unlock">>
  /\ MutexMain[4] = Until(Var("thcnt"), WORKERS - 1) /\ MutexMain[5] = Join(1 .. WORKERS)
  /\ \A i \in 1 .. WORKERS - 1 : MutexMain[5 + i] = Check(<<"thid", i>>, i)
  /\ MutexMain[5 + (WORKERS - 1) + 1] = Stop
<1> USE ThreadTestsAssumption
<1> DEFINE h == << <<"lock">>, Create(1 .. THCNT), <<"unlock">>, Until(Var("thcnt"), THCNT - 1),
                   Join(1 .. THCNT) >>
           c == [i \in 1 .. THCNT - 1 |-> Check(<<"thid", i>>, i)]
           z == <<Stop>>
           v == Cat(h, c)
           w == Cat(v, z)
           n == 5 + (WORKERS - 1) + 1
<1>0. WORKERS - 1 \in Nat /\ 5 + (WORKERS - 1) \in Nat
  OBVIOUS
<1>1. /\ Long(h, 5)
      /\ h[1] = <<"lock">> /\ h[2] = Create(1 .. WORKERS) /\ h[3] = <<"unlock">>
      /\ h[4] = Until(Var("thcnt"), WORKERS - 1) /\ h[5] = Join(1 .. WORKERS)
  BY DEF Long, THCNT
<1>2. Long(c, WORKERS - 1) /\ \A i \in 1 .. WORKERS - 1 : c[i] = Check(<<"thid", i>>, i)
  BY DEF Long, THCNT
<1>3. Long(z, 1) /\ z[1] = Stop
  BY DEF Long
<1>w. w = MutexMain
  BY DEF w, v, Cat, h, c, z, MutexMain
<1> HIDE DEF h, c, z
<1>4. /\ Long(v, 5 + (WORKERS - 1))
      /\ \A k \in 1 .. 5 : v[k] = h[k]
      /\ \A i \in 1 .. WORKERS - 1 : v[5 + i] = c[i]
  BY <1>0, <1>1, <1>2, CatLong, CatLeft, CatRight
<1> HIDE DEF v
<1>5. /\ Long(w, n)
      /\ \A k \in 1 .. 5 + (WORKERS - 1) : w[k] = v[k]
      /\ w[n] = z[1]
  BY <1>0, <1>3, <1>4, CatLong, CatLeft, CatRight
<1> HIDE DEF w
<1>6. \A k \in 1 .. 5 : w[k] = h[k]
  BY <1>0, <1>4, <1>5
<1>7. ASSUME NEW i \in 1 .. WORKERS - 1 PROVE w[5 + i] = Check(<<"thid", i>>, i)
  <2>1. 5 + i \in 1 .. 5 + (WORKERS - 1)
    OBVIOUS
  <2> QED
    BY <2>1, <1>2, <1>4, <1>5
<1>8. ASSUME NEW k \in 1 .. n
      PROVE  \/ k = n /\ w[k][1] = "stop"
             \/ k < n /\ w[k][1] \in {"lock", "create", "unlock", "until", "join", "check"}
  <2>1. CASE k \in 1 .. 5
    <3>1. k = 1 \/ k = 2 \/ k = 3 \/ k = 4 \/ k = 5
      BY <2>1
    <3>2. w[k] = h[k] /\ k < n
      BY <2>1, <1>6
    <3> QED
      BY <3>1, <3>2, <1>1 DEF Create, Until, Join
  <2>2. CASE k \in 6 .. 5 + (WORKERS - 1)
    <3>1. k - 5 \in 1 .. WORKERS - 1 /\ 5 + (k - 5) = k /\ k < n
      BY <2>2
    <3>2. w[k] = Check(<<"thid", k - 5>>, k - 5)
      BY <3>1, <1>7
    <3> QED
      BY <3>1, <3>2 DEF Check
  <2>3. CASE k = n
    <3>1. w[k] = <<"stop">>
      BY <2>3, <1>3, <1>5 DEF Stop
    <3>2. w[k][1] = "stop"
      BY <3>1
    <3> HIDE DEF n
    <3> QED
      BY <2>3, <3>2
  <2> QED
    BY <2>1, <2>2, <2>3
<1>9. Sound(w, n)
  BY <1>5, <1>8 DEF Sound
<1> QED
  BY <1>w, <1>1, <1>3, <1>5, <1>6, <1>7, <1>9

-----------------------------------------------------------------------------
(* run_test                                                                  *)
TurnLen == MAX_INT_NUM + 1
TestLen == 1 + INTS_PER_ITER * TurnLen

LEMMA TestText ==
  /\ Piece(run_test, TestLen)
  /\ run_test[1] = <<"zero">>
  /\ \A q \in 0 .. INTS_PER_ITER - 1, r \in 0 .. MAX_INT_NUM :
       run_test[1 + (q * TurnLen + r + 1)] =
         IF r = 0 THEN Swi(AllInts) ELSE Until(<<"count", r - 1>>, q + 1)
<1> USE ThreadTestsAssumption
<1> DEFINE h == << <<"zero">> >>
           c == [k \in 1 .. INTS_PER_ITER * (MAX_INT_NUM + 1) |->
                   LET n == ((k - 1) \div (MAX_INT_NUM + 1)) + 1
                       i == (k - 1) % (MAX_INT_NUM + 1)
                   IN IF i = 0 THEN Swi(AllInts) ELSE Until(<<"count", i - 1>>, n)]
           N == INTS_PER_ITER * TurnLen
           w == Cat(h, c)
<1>0. TurnLen \in Nat \ {0} /\ N \in Nat
  BY DEF TurnLen
<1>1. Long(h, 1) /\ h[1] = <<"zero">>
  BY DEF Long
<1>2. Long(c, N) /\ \A k \in 1 .. N : c[k][1] \in {"swi", "until"}
  BY <1>0 DEF Long, TurnLen, Swi, Until
<1>3. ASSUME NEW q \in 0 .. INTS_PER_ITER - 1, NEW r \in 0 .. MAX_INT_NUM
      PROVE  /\ q * TurnLen + r + 1 \in 1 .. N
             /\ c[q * TurnLen + r + 1] =
                  IF r = 0 THEN Swi(AllInts) ELSE Until(<<"count", r - 1>>, q + 1)
  <2> DEFINE k == q * TurnLen + r + 1
  <2>1. (q * TurnLen + r) \div TurnLen = q /\ (q * TurnLen + r) % TurnLen = r
    <3>1. q \in Nat /\ r \in 0 .. TurnLen - 1
      BY DEF TurnLen
    <3> QED
      BY <3>1, <1>0, DivMod
  <2>2. q * TurnLen \in Nat /\ k - 1 = q * TurnLen + r /\ k >= 1
    BY <1>0
  <2>3. k <= N
    <3>1. PICK j \in Nat : INTS_PER_ITER = q + 1 + j
      <4>1. INTS_PER_ITER - q - 1 \in Nat /\ INTS_PER_ITER = q + 1 + (INTS_PER_ITER - q - 1)
        OBVIOUS
      <4> QED
        BY <4>1
    <3>2. N = q * TurnLen + TurnLen + j * TurnLen /\ j * TurnLen >= 0
      BY <3>1, <1>0
    <3> QED
      BY <3>2, <2>2 DEF TurnLen
  <2>4. k \in 1 .. N
    BY <2>2, <2>3, <1>0
  <2> HIDE DEF k
  <2>5. c[k] = IF (k - 1) % TurnLen = 0 THEN Swi(AllInts)
               ELSE Until(<<"count", ((k - 1) % TurnLen) - 1>>, ((k - 1) \div TurnLen) + 1)
    BY <2>4 DEF TurnLen
  <2>6. c[k] = IF r = 0 THEN Swi(AllInts) ELSE Until(<<"count", r - 1>>, q + 1)
    BY <2>1, <2>2, <2>5
  <2> QED
    BY <2>4, <2>6 DEF k
<1>w. w = run_test
  BY DEF w, Cat, h, c, run_test
<1> HIDE DEF h, c
<1>4. /\ Long(w, TestLen) /\ w[1] = h[1]
      /\ \A k \in 1 .. N : w[1 + k] = c[k]
  BY <1>0, <1>1, <1>2, CatLong, CatLeft, CatRight DEF TestLen
<1> HIDE DEF w
<1>5. ASSUME NEW q \in 0 .. INTS_PER_ITER - 1, NEW r \in 0 .. MAX_INT_NUM
      PROVE  w[1 + (q * TurnLen + r + 1)] =
               IF r = 0 THEN Swi(AllInts) ELSE Until(<<"count", r - 1>>, q + 1)
  BY <1>3, <1>4
<1>6. Piece(w, TestLen)
  <2>1. Piece(h, 1) /\ Piece(c, N)
    <3>1. h[1][1] = "zero"
      BY <1>1
    <3> QED
      BY <3>1, <1>1, <1>2 DEF Piece
  <2>2. Piece(Cat(h, c), 1 + N)
    BY <2>1, <1>0, PieceCat
  <2> QED
    BY <2>2 DEF w, TestLen
<1> QED
  BY <1>w, <1>1, <1>4, <1>5, <1>6

Swi2Len == (1 + TestLen + TestLen) + 4

LEMMA Swi2Text ==
  /\ Calm(Swi2Main, Swi2Len) /\ TestLen \in Nat \ {0}
  /\ Swi2Main[1] = Create({1, 2})
  /\ \A k \in 1 .. TestLen : Swi2Main[1 + k] = run_test[k]
  /\ \A k \in 1 .. TestLen : Swi2Main[1 + TestLen + k] = run_test[k]
  /\ Swi2Main[1 + TestLen + TestLen + 1] = Set(Var("tasks_disabled"), 1)
  /\ Swi2Main[1 + TestLen + TestLen + 2] = Join({1})
  /\ Swi2Main[1 + TestLen + TestLen + 3] = Join({2})
  /\ Swi2Main[1 + TestLen + TestLen + 4] = Stop
<1> USE ThreadTestsAssumption
<1> DEFINE h == <<Create({1, 2})>>
           z == <<Set(Var("tasks_disabled"), 1), Join({1}), Join({2}), Stop>>
           v == Cat(h, run_test)
           x == Cat(v, run_test)
           w == Cat(x, z)
<1>0. TestLen \in Nat \ {0}
  BY DEF TestLen, TurnLen
<1>1. Long(run_test, TestLen) /\ Piece(run_test, TestLen)
  BY TestText DEF Piece
<1>2. Long(h, 1) /\ h[1] = Create({1, 2})
  BY DEF Long
<1>3. /\ Long(z, 4) /\ z[1] = Set(Var("tasks_disabled"), 1) /\ z[2] = Join({1}) /\ z[3] = Join({2})
      /\ z[4] = Stop
      /\ Closing(z, 4)
  BY DEF Long, Closing, Calm, Sound, Quiet, Set, Join, Stop, Var
<1>w. w = Swi2Main
  BY DEF w, v, x, Cat, h, z, Swi2Main
<1> HIDE DEF h, z
<1>4. Long(v, 1 + TestLen) /\ v[1] = h[1] /\ \A k \in 1 .. TestLen : v[1 + k] = run_test[k]
  BY <1>0, <1>1, <1>2, CatLong, CatLeft, CatRight
<1> HIDE DEF v
<1>5. /\ Long(x, (1 + TestLen) + TestLen)
      /\ \A k \in 1 .. 1 + TestLen : x[k] = v[k]
      /\ \A k \in 1 .. TestLen : x[(1 + TestLen) + k] = run_test[k]
  BY <1>0, <1>1, <1>4, CatLong, CatLeft, CatRight
<1> HIDE DEF x
<1>6. /\ Long(w, ((1 + TestLen) + TestLen) + 4)
      /\ \A k \in 1 .. (1 + TestLen) + TestLen : w[k] = x[k]
      /\ \A k \in 1 .. 4 : w[((1 + TestLen) + TestLen) + k] = z[k]
  BY <1>0, <1>3, <1>5, CatLong, CatLeft, CatRight
<1> HIDE DEF w
<1>7. w[1] = Create({1, 2})
  BY <1>0, <1>2, <1>4, <1>5, <1>6
<1>8. ASSUME NEW k \in 1 .. TestLen
      PROVE  w[1 + k] = run_test[k] /\ w[1 + TestLen + k] = run_test[k]
  <2>1. 1 + k \in 1 .. 1 + TestLen /\ 1 + k \in 1 .. (1 + TestLen) + TestLen
        /\ (1 + TestLen) + k \in 1 .. (1 + TestLen) + TestLen
    BY <1>0
  <2> QED
    BY <2>1, <1>4, <1>5, <1>6
<1>9. Calm(w, Swi2Len)
  <2>1. Piece(h, 1)
    <3>1. h[1][1] = "create"
      BY <1>2 DEF Create
    <3> QED
      BY <1>2, <3>1 DEF Piece
  <2>2. Piece(v, 1 + TestLen)
    BY <2>1, <1>0, <1>1, PieceCat DEF v
  <2>3. Piece(x, (1 + TestLen) + TestLen)
    BY <2>2, <1>0, <1>1, PieceCat DEF x
  <2> QED
    BY <2>3, <1>0, <1>3, PieceThen DEF w, Swi2Len
<1> QED
  BY <1>0, <1>w, <1>3, <1>6, <1>7, <1>8, <1>9 DEF Swi2Len

-----------------------------------------------------------------------------
(* Every text.                                                               *)
LEMMA AllTexts ==
  ASSUME NEW p \in Programs, NEW t \in Threads
  PROVE  \E n \in Nat : /\ Sound(Code(p, t), n)
                        /\ p \notin {"locklock", "mutex", "ciad", "bestwait"} => Quiet(Code(p, t), n)
<1> USE ThreadTestsAssumption
<1>1. CASE p = "lock"
  <2>1. ROUNDS * 4 + 1 \in Nat /\ ROUNDS * 3 + 1 \in Nat
    OBVIOUS
  <2> QED
    BY <1>1, <2>1, LockTexts DEF Code, Calm
<1>2. CASE p = "syscfg"
  <2>1. 1 + ROUNDS * 2 + 1 \in Nat /\ ROUNDS * 2 + 1 \in Nat
    OBVIOUS
  <2> QED
    BY <1>2, <2>1, LockTexts, ShortTexts DEF Code, Calm
<1>3. CASE p \in {"locklock", "ciad"}
  BY <1>3, ShortTexts DEF Code
<1>4. CASE p = "mutex"
  <2>1. 5 + (WORKERS - 1) + 1 \in Nat
    OBVIOUS
  <2> QED
    BY <1>4, <2>1, MutexText, MutexThreadText DEF Code
<1>5. CASE p \in {"scheduling", "nmi"}
  BY <1>5, ShortTexts DEF Code, Calm
<1>6. CASE p = "swi"
  <2>1. WORKERS + 6 \in Nat
    OBVIOUS
  <2> QED
    BY <1>6, <2>1, SwiText, ShortTexts DEF Code, Calm
<1>7. CASE p = "swi2"
  <2>1. Swi2Len \in Nat
    BY Swi2Text DEF Swi2Len
  <2> QED
    BY <1>7, <2>1, Swi2Text, CyclesText, ShortTexts DEF Code, Calm
<1>8. CASE p = "bestwait"
  BY <1>8, ShortTexts, BestwaitText DEF Code
<1>9. CASE p = "pend"
  <2>1. ((3 + INTS_PER_ITER * 4) + 1 + MAX_INT_NUM * 2) + 2 \in Nat
    OBVIOUS
  <2> QED
    BY <1>9, <2>1, PendText, ShortTexts DEF Code, Calm
<1> QED
  BY <1>1, <1>2, <1>3, <1>4, <1>5, <1>6, <1>7, <1>8, <1>9 DEF Programs

Checking == {"locklock", "mutex", "ciad", "bestwait"}

(* Every thread is at an operation of its text, every handler at one of its. *)
InText ==
    /\ ttProg \in Programs
    /\ ttPc \in [Threads -> Nat] /\ ttIsr \in [Threads -> Nat] /\ ttCur \in [Threads -> TestInts]
    /\ \A t \in Threads : ttPc[t] <= Len(TtText(t)) /\ ttIsr[t] <= Len(TtHandler(t))

LEMMA TextOf == ASSUME InText, NEW t \in Threads PROVE TtText(t) = Code(ttProg, t)
BY DEF InText, TtText, CodeTable

LEMMA HandlerOf == ASSUME InText, NEW t \in Threads PROVE TtHandler(t) = HandlerCode(ttProg, ttCur[t])
BY DEF InText, TtHandler, HandlerTable

(* What can follow the operation of a thread that is in no handler.          *)
LEMMA TextPlace ==
  ASSUME InText, NEW t \in Threads
  PROVE  /\ Len(TtText(t)) \in Nat \ {0}
         /\ ttIsr[t] = 0 /\ ttPc[t] > 0 =>
              /\ TtOp(t) = Code(ttProg, t)[ttPc[t]]
              /\ TtOp(t)[1] \notin {"stop", "jump", "fail"} => ttPc[t] < Len(TtText(t))
              /\ TtOp(t)[1] = "jump" => TtOp(t)[2] \in 1 .. Len(TtText(t))
              /\ TtOp(t)[1] = "jeq" => TtOp(t)[4] \in 1 .. Len(TtText(t))
              /\ TtOp(t)[1] = "retry" => ttPc[t] + 3 \in 1 .. Len(TtText(t))
              /\ TtOp(t)[1] = "again" => ttPc[t] - 2 \in 1 .. Len(TtText(t))
              /\ ttProg \notin Checking => TtOp(t)[1] \notin {"check", "checkiad", "fail"}
<1> DEFINE s == TtText(t)
<1>1. PICK n \in Nat : Sound(s, n) /\ (ttProg \notin Checking => Quiet(s, n))
  BY AllTexts, TextOf DEF Checking, InText
<1>2. Len(s) = n /\ n > 0
  BY <1>1, LongLen DEF Sound
<1>3. ASSUME ttIsr[t] = 0, ttPc[t] > 0
      PROVE  TtOp(t) = s[ttPc[t]] /\ ttPc[t] \in 1 .. n
  BY <1>2, <1>3 DEF InText, TtOp
<1>4. s = Code(ttProg, t)
  BY TextOf
<1> HIDE DEF s
<1> QED
  BY <1>1, <1>2, <1>3, <1>4 DEF s, Sound, Quiet

LEMMA HandlerPlace ==
  ASSUME InText, NEW t \in Threads
  PROVE  ttIsr[t] > 0 =>
           /\ TtOp(t) = HandlerCode(ttProg, ttCur[t])[ttIsr[t]]
           /\ TtOp(t)[1] \in {"load", "store", "set", "lock", "unlock", "inc", "return"}
           /\ TtOp(t)[1] # "return" => ttIsr[t] < Len(TtHandler(t))
<1> DEFINE s == TtHandler(t)
<1>1. PICK n \in 1 .. 4 : HandlerSound(s, n)
  BY HandlerTexts, HandlerOf DEF InText
<1>2. Len(s) = n
  BY <1>1, LongLen DEF HandlerSound
<1>3. ASSUME ttIsr[t] > 0
      PROVE  TtOp(t) = s[ttIsr[t]] /\ ttIsr[t] \in 1 .. n
  BY <1>2, <1>3 DEF InText, TtOp
<1>4. s = HandlerCode(ttProg, ttCur[t])
  BY HandlerOf
<1> HIDE DEF s
<1> QED
  BY <1>1, <1>2, <1>3, <1>4 DEF s, HandlerSound

LEMMA HandlerStarts ==
  ASSUME NEW p \in Programs, NEW i \in TestInts PROVE 1 <= Len(HandlerTable[p][i])
<1>1. PICK n \in 1 .. 4 : HandlerSound(HandlerCode(p, i), n)
  BY HandlerTexts
<1>2. Len(HandlerCode(p, i)) = n
  BY <1>1, LongLen DEF HandlerSound
<1> QED
  BY <1>2 DEF HandlerTable

(* Which operation is executed.                                              *)
LEMMA StepKind ==
  ASSUME NEW t, TtStep(t) \/ OpLock(t)
  PROVE  /\ ttPc[t] > 0 /\ t \notin tt.waiting
         /\ OpCreate(t) => TtOp(t)[1] = "create"
         /\ OpJoin(t) => TtOp(t)[1] = "join"
         /\ OpStop(t) => TtOp(t)[1] = "stop"
         /\ OpUnlock(t) => TtOp(t)[1] = "unlock"
         /\ OpLock(t) => TtOp(t)[1] = "lock"
         /\ OpGetSyscfg(t) => TtOp(t)[1] = "getsyscfg"
         /\ OpPutSyscfg(t) => TtOp(t)[1] = "putsyscfg"
         /\ OpUntil(t) => TtOp(t)[1] = "until"
         /\ OpJump(t) => TtOp(t)[1] \in {"jump", "jeq", "retry", "again"}
         /\ OpLoad(t) => TtOp(t)[1] = "load"
         /\ OpStore(t) => TtOp(t)[1] \in {"store", "set", "inc", "zero"}
         /\ OpCheck(t) => TtOp(t)[1] \in {"check", "checkiad"}
         /\ OpFail(t) => TtOp(t)[1] = "fail"
         /\ OpWait(t) => TtOp(t)[1] = "wait"
         /\ wait_for_threads(t) => TtOp(t)[1] = "waiting"
         /\ OpResume(t) => TtOp(t)[1] = "resume"
         /\ OpSwi(t) => TtOp(t)[1] = "swi"
         /\ OpImask(t) => TtOp(t)[1] \in {"imask", "inten", "siad", "ciad"}
         /\ OpNmi(t) => TtOp(t)[1] = "nmi"
         /\ ReturnFromInterrupt(t) => TtOp(t)[1] = "return"
BY DEF TtStep, OpCreate, OpJoin, OpStop, OpUnlock, OpGetSyscfg, OpPutSyscfg, OpUntil, OpJump, OpLoad,
       OpStore, OpCheck, OpFail, OpWait, wait_for_threads, OpResume, OpSwi, OpImask, OpNmi,
       ReturnFromInterrupt, OpLock, At, Running

(* The operations after which the next one comes.                            *)
Onwards(t) ==
    \/ OpJoin(t) \/ OpUnlock(t) \/ OpGetSyscfg(t) \/ OpPutSyscfg(t) \/ OpUntil(t) \/ OpLoad(t)
    \/ OpStore(t) \/ OpCheck(t) \/ OpWait(t) \/ wait_for_threads(t) \/ OpResume(t) \/ OpSwi(t)
    \/ OpImask(t) \/ OpLock(t)

LEMMA OnwardsGoes ==
  ASSUME NEW t, Onwards(t)
  PROVE  NextOp(t) /\ TtOp(t)[1] \notin {"stop", "jump", "fail", "return"} /\ ttPc[t] > 0
<1>1. NextOp(t)
  BY DEF Onwards, OpJoin, OpUnlock, OpGetSyscfg, OpPutSyscfg, OpUntil, OpLoad, OpStore,
         OpCheck, OpWait, wait_for_threads, OpResume, OpSwi, OpImask, OpLock
<1>2. TtStep(t) \/ OpLock(t)
  BY DEF Onwards, TtStep
<1> QED
  BY <1>1, <1>2, StepKind DEF Onwards

LEMMA OnwardsKeeps == ASSUME InText, NEW t \in Threads, Onwards(t) PROVE InText'
<1>1. NextOp(t) /\ TtOp(t)[1] \notin {"stop", "jump", "fail", "return"} /\ ttPc[t] > 0
  BY OnwardsGoes
<1>2. ttProg' = ttProg /\ ttCur' = ttCur
  BY <1>1 DEF NextOp
<1>3. \A u \in Threads : TtText(u)' = TtText(u) /\ TtHandler(u)' = TtHandler(u)
  BY <1>2 DEF TtText, TtHandler
<1>4. CASE ttIsr[t] > 0
  <2>1. ttIsr' = [ttIsr EXCEPT ![t] = ttIsr[t] + 1] /\ ttPc' = ttPc
    BY <1>1, <1>4 DEF NextOp, GotoOp
  <2>2. ttIsr[t] < Len(TtHandler(t))
    BY <1>1, <1>4, HandlerPlace
  <2>3. ttIsr[t] + 1 <= Len(TtHandler(t))
    <3>1. Len(TtHandler(t)) \in Nat
      <4>1. PICK n \in 1 .. 4 : HandlerSound(TtHandler(t), n)
        BY HandlerTexts, HandlerOf DEF InText
      <4> QED
        BY <4>1, LongLen DEF HandlerSound
    <3> QED
      BY <2>2, <3>1 DEF InText
  <2> QED
    BY <1>2, <1>3, <2>1, <2>3 DEF InText
<1>5. CASE ttIsr[t] = 0
  <2>1. ttPc' = [ttPc EXCEPT ![t] = ttPc[t] + 1] /\ ttIsr' = ttIsr
    BY <1>1, <1>5 DEF NextOp, GotoOp
  <2>2. ttPc[t] < Len(TtText(t)) /\ Len(TtText(t)) \in Nat
    BY <1>1, <1>5, TextPlace
  <2> QED
    BY <1>2, <1>3, <2>1, <2>2 DEF InText
<1> QED
  BY <1>4, <1>5 DEF InText

LEMMA InTextStep ==
  ASSUME InText, NEW t \in Threads, TtStep(t) \/ OpLock(t) \/ TakeInterrupt(t)
  PROVE  InText'
<1> DEFINE Texts == \A u \in Threads : TtText(u)' = TtText(u) /\ TtHandler(u)' = TtHandler(u)
<1>1. CASE Onwards(t)
  BY <1>1, OnwardsKeeps
<1>2. CASE OpCreate(t)
  <2>1. TtOp(t)[1] = "create" /\ ttPc[t] > 0
    BY <1>2, StepKind DEF TtStep
  <2>2. ttIsr[t] = 0
    BY <2>1, HandlerPlace DEF InText
  <2>3. ttPc[t] < Len(TtText(t))
    BY <2>1, <2>2, TextPlace
  <2>4. /\ ttPc' = [u \in Threads |-> IF u = t THEN ttPc[t] + 1
                                      ELSE IF u \in Arg(t) \cap ttHw THEN 1 ELSE ttPc[u]]
        /\ ttProg' = ttProg /\ ttCur' = ttCur /\ ttIsr' = ttIsr
    BY <1>2 DEF OpCreate, TtFixed
  <2>5. Texts
    BY <2>4 DEF TtText, TtHandler
  <2>6. \A u \in Threads : Len(TtText(u)) \in Nat \ {0}
    BY TextPlace
  <2>7. \A u \in Threads : ttPc'[u] \in Nat /\ ttPc'[u] <= Len(TtText(u))
    BY <2>3, <2>4, <2>6 DEF InText
  <2> QED
    BY <2>4, <2>5, <2>7 DEF InText
<1>3. CASE OpStop(t)
  <2>4. ttPc' = [ttPc EXCEPT ![t] = 0] /\ ttProg' = ttProg /\ ttCur' = ttCur /\ ttIsr' = ttIsr
    BY <1>3 DEF OpStop, TtFixed
  <2>5. Texts
    BY <2>4 DEF TtText, TtHandler
  <2>6. \A u \in Threads : Len(TtText(u)) \in Nat \ {0}
    BY TextPlace
  <2> QED
    BY <2>4, <2>5, <2>6 DEF InText
<1>4. CASE OpFail(t)
  <2>4. ttPc' = [u \in Threads |-> 0] /\ ttProg' = ttProg /\ ttCur' = ttCur /\ ttIsr' = ttIsr
    BY <1>4 DEF OpFail, TtFixed
  <2>5. Texts
    BY <2>4 DEF TtText, TtHandler
  <2>6. \A u \in Threads : Len(TtText(u)) \in Nat \ {0}
    BY TextPlace
  <2> QED
    BY <2>4, <2>5, <2>6 DEF InText
<1>5. CASE OpNmi(t)
  <2>1. TtOp(t)[1] = "nmi" /\ ttPc[t] > 0
    BY <1>5, StepKind DEF TtStep
  <2>2. ttIsr[t] = 0
    BY <2>1, HandlerPlace DEF InText
  <2>3. ttPc[t] < Len(TtText(t))
    BY <2>1, <2>2, TextPlace
  <2>4. /\ ttPc' = [u \in Threads |-> IF u \in Arg(t) THEN Len(TtText(u))
                                      ELSE IF u = t THEN ttPc[t] + 1 ELSE ttPc[u]]
        /\ ttProg' = ttProg /\ ttCur' = ttCur /\ ttIsr' = ttIsr
    BY <1>5 DEF OpNmi, TtFixed
  <2>5. Texts
    BY <2>4 DEF TtText, TtHandler
  <2>6. \A u \in Threads : Len(TtText(u)) \in Nat \ {0}
    BY TextPlace
  <2>7. \A u \in Threads : ttPc'[u] \in Nat /\ ttPc'[u] <= Len(TtText(u))
    BY <2>3, <2>4, <2>6 DEF InText
  <2> QED
    BY <2>4, <2>5, <2>7 DEF InText
<1>6. CASE OpJump(t)
  <2>1. TtOp(t)[1] \in {"jump", "jeq", "retry", "again"} /\ ttPc[t] > 0
    BY <1>6, StepKind DEF TtStep
  <2>2. ttIsr[t] = 0
    BY <2>1, HandlerPlace DEF InText
  <2>3. ttProg' = ttProg /\ ttCur' = ttCur /\ ttIsr' = ttIsr
    BY <1>6, <2>2 DEF OpJump, TtFixed, GotoOp
  <2>4. Len(TtText(t)) \in Nat /\ (TtOp(t)[1] # "jump" => ttPc[t] < Len(TtText(t)))
    BY <2>1, <2>2, TextPlace
  <2>5. PICK l \in 1 .. Len(TtText(t)) : ttPc' = [ttPc EXCEPT ![t] = l]
    <3>1. CASE At(t, "jump") /\ GotoOp(t, Arg(t))
      BY <3>1, <2>1, <2>2, TextPlace DEF At, Arg, GotoOp
    <3>2. CASE /\ At(t, "jeq")
               /\ GotoOp(t, IF tt.mem[Arg(t)] = Arg2(t) THEN TtOp(t)[4] ELSE ttPc[t] + 1)
      <4>1. TtOp(t)[4] \in 1 .. Len(TtText(t)) /\ ttPc[t] + 1 \in 1 .. Len(TtText(t))
        BY <3>2, <2>1, <2>2, <2>4, TextPlace DEF At, InText
      <4> QED
        BY <3>2, <4>1, <2>2 DEF GotoOp
    <3>3. CASE /\ At(t, "retry")
               /\ GotoOp(t, ttPc[t] + IF tt.mem[Arg(t)] < ttReg[t] + 1 THEN 1 ELSE 3)
      <4>1. ttPc[t] + 3 \in 1 .. Len(TtText(t)) /\ ttPc[t] + 1 \in 1 .. Len(TtText(t))
        BY <3>3, <2>1, <2>2, <2>4, TextPlace DEF At, InText
      <4> QED
        BY <3>3, <4>1, <2>2 DEF GotoOp
    <3>4. CASE At(t, "again") /\ GotoOp(t, ttPc[t] - 2)
      BY <3>4, <2>1, <2>2, TextPlace DEF At, GotoOp
    <3> QED
      BY <1>6, <3>1, <3>2, <3>3, <3>4 DEF OpJump
  <2>6. Texts
    BY <2>3 DEF TtText, TtHandler
  <2> QED
    BY <2>3, <2>4, <2>5, <2>6 DEF InText
<1>7. CASE ReturnFromInterrupt(t)
  <2>1. ttIsr' = [ttIsr EXCEPT ![t] = 0] /\ ttProg' = ttProg /\ ttCur' = ttCur /\ ttPc' = ttPc
    BY <1>7 DEF ReturnFromInterrupt, TtFixed
  <2>2. Texts
    BY <2>1 DEF TtText, TtHandler
  <2>3. Len(TtHandler(t)) \in Nat
    <3>1. PICK n \in 1 .. 4 : HandlerSound(TtHandler(t), n)
      BY HandlerTexts, HandlerOf DEF InText
    <3> QED
      BY <3>1, LongLen DEF HandlerSound
  <2> QED
    BY <2>1, <2>2, <2>3 DEF InText
<1>8. CASE TakeInterrupt(t)
  <2>1. PICK i \in TestInts :
          /\ ttCur' = [ttCur EXCEPT ![t] = i] /\ ttIsr' = [ttIsr EXCEPT ![t] = 1]
          /\ ttProg' = ttProg /\ ttPc' = ttPc
    BY <1>8 DEF TakeInterrupt
  <2>2. \A u \in Threads : TtText(u)' = TtText(u)
    BY <2>1 DEF TtText
  <2>3. \A u \in Threads \ {t} : TtHandler(u)' = TtHandler(u)
    BY <2>1 DEF TtHandler, InText
  <2>4. 1 <= Len(TtHandler(t)')
    BY <2>1, HandlerStarts DEF TtHandler, InText
  <2> QED
    BY <2>1, <2>2, <2>3, <2>4 DEF InText
<1> QED
  BY <1>1, <1>2, <1>3, <1>4, <1>5, <1>6, <1>7, <1>8 DEF TtStep, Onwards

LEMMA InTextInit == TtInit => InText
<1> SUFFICES ASSUME TtInit PROVE InText
  OBVIOUS
<1>1. /\ ttProg \in Programs /\ ttPc = [t \in Threads |-> IF t = 0 THEN 1 ELSE 0]
      /\ ttIsr = [t \in Threads |-> 0] /\ ttCur = [t \in Threads |-> 0]
  BY DEF TtInit
<1>2. ASSUME NEW t \in Threads PROVE Len(TtText(t)) \in Nat \ {0}
  <2>1. PICK n \in Nat : Sound(Code(ttProg, t), n)
    BY <1>1, AllTexts
  <2>2. Len(Code(ttProg, t)) = n /\ n > 0
    BY <2>1, LongLen DEF Sound
  <2> QED
    BY <1>1, <2>2 DEF TtText, CodeTable
<1>3. 0 \in TestInts
  BY ThreadTestsAssumption DEF TestInts, Threads
<1>4. ASSUME NEW t \in Threads PROVE ttIsr[t] <= Len(TtHandler(t))
  <2>1. PICK n \in 1 .. 4 : HandlerSound(HandlerCode(ttProg, 0), n)
    BY <1>1, HandlerTexts
  <2>2. Len(HandlerCode(ttProg, 0)) = n
    BY <2>1, LongLen DEF HandlerSound
  <2> QED
    BY <1>1, <1>3, <2>2 DEF TtHandler, HandlerTable
<1> QED
  BY <1>1, <1>2, <1>3, <1>4 DEF InText

(* What no step but a check changes.                                         *)
LEMMA FailKept ==
  ASSUME Shape, NEW t, TtStep(t) \/ OpLock(t) \/ TakeInterrupt(t), ~OpCheck(t), ~OpFail(t)
  PROVE  tt'.fail = tt.fail
<1> USE DEF Shape
<1>1. CASE OpCreate(t) \/ OpJoin(t) \/ OpStop(t) \/ OpGetSyscfg(t) \/ OpUntil(t)
           \/ OpJump(t) \/ OpLoad(t) \/ wait_for_threads(t) \/ OpNmi(t)
  BY <1>1 DEF OpCreate, OpJoin, OpStop, OpGetSyscfg, OpUntil, OpJump, OpLoad,
              wait_for_threads, OpNmi
<1>2. CASE OpLock(t) \/ OpUnlock(t) \/ OpPutSyscfg(t)
  <2>1. \E l, e : tt' = [tt EXCEPT !.lock = l] \/ tt' = [tt EXCEPT !.lock = l, !.inten = e]
    BY <1>2 DEF OpLock, OpUnlock, OpPutSyscfg
  <2> QED
    BY <2>1
<1>3. CASE OpStore(t)
  <2>1. \/ \E m : tt' = [tt EXCEPT !.mem = m]
        \/ \E m, r : tt' = [tt EXCEPT !.mem = m, !.raised = r]
    BY <1>3 DEF OpStore
  <2> QED
    BY <2>1
<1>4. CASE OpWait(t) \/ OpResume(t) \/ ReturnFromInterrupt(t)
  BY <1>4 DEF OpWait, OpResume, ReturnFromInterrupt
<1>5. CASE OpSwi(t)
  <2>1. \E p, r : tt' = [tt EXCEPT !.ipend = p, !.raised = r]
    BY <1>5 DEF OpSwi
  <2> QED
    BY <2>1
<1>6. CASE OpImask(t)
  <2>1. \/ \E m : tt' = [tt EXCEPT !.imask = m]
        \/ \E e : tt' = [tt EXCEPT !.inten = e]
        \/ \E a : tt' = [tt EXCEPT !.iad = a]
    BY <1>6 DEF OpImask
  <2> QED
    BY <2>1
<1>7. CASE TakeInterrupt(t)
  <2>1. PICK i \in TestInts :
          tt' = [tt EXCEPT !.ipend = @ \ {i}, !.iad = @ \cup {i}, !.waiting = @ \ {t}]
    BY <1>7 DEF TakeInterrupt
  <2> QED
    BY <2>1
<1> QED
  BY <1>1, <1>2, <1>3, <1>4, <1>5, <1>6, <1>7 DEF TtStep

LEMMA CalmStep ==
  ASSUME InText, Shape, ttProg \notin Checking, NEW t \in Threads,
         TtStep(t) \/ OpLock(t) \/ TakeInterrupt(t)
  PROVE  tt'.fail = tt.fail
<1>1. ASSUME OpCheck(t) \/ OpFail(t) PROVE FALSE
  <2>1. TtOp(t)[1] \in {"check", "checkiad", "fail"} /\ ttPc[t] > 0
    BY <1>1, StepKind DEF TtStep
  <2>2. ttIsr[t] = 0
    BY <2>1, HandlerPlace DEF InText
  <2> QED
    BY <2>1, <2>2, TextPlace
<1> QED
  BY <1>1, FailKept

-----------------------------------------------------------------------------
(* Only main runs, and no interrupt comes.                                   *)
NoInterrupts == tt.ipend = {} /\ \A t \in Threads : ttIsr[t] = 0
MainAlone == NoInterrupts /\ \A t \in Threads \ {0} : ttPc[t] = 0

LEMMA NoneTaken == ASSUME NoInterrupts, NEW t, TakeInterrupt(t) PROVE FALSE
BY DEF NoInterrupts, TakeInterrupt, Takes

LEMMA ZeroIsThread == 0 \in Threads /\ 1 \in Threads /\ Nobody \notin Threads
BY ThreadTestsAssumption DEF Threads, Nobody

(* A thread without handler goes on.                                         *)
LEMMA OnwardsText ==
  ASSUME NEW t, Onwards(t), ttIsr[t] = 0
  PROVE  /\ ttPc' = [ttPc EXCEPT ![t] = ttPc[t] + 1]
         /\ ttIsr' = ttIsr /\ ttProg' = ttProg /\ ttHw' = ttHw /\ ttCur' = ttCur
BY OnwardsGoes DEF NextOp, GotoOp

(* k0locklock.c, tlblocklock.c                                               *)
LockLockInv ==
    /\ MainAlone /\ ttPc[0] \in {1, 2}
    /\ ttPc[0] = 2 => tt.lock = 0
    /\ tt.fail = FALSE

LEMMA LockLockStep ==
  ASSUME InText, Shape, ttProg = "locklock", LockLockInv, NEW t \in Threads,
         TtStep(t) \/ OpLock(t) \/ TakeInterrupt(t)
  PROVE  LockLockInv'
<1>1. ~TakeInterrupt(t)
  BY NoneTaken DEF LockLockInv, MainAlone
<1>2. t = 0 /\ ttPc[0] > 0 /\ ttIsr[0] = 0
  BY <1>1, StepKind, ZeroIsThread DEF LockLockInv, MainAlone, NoInterrupts
<1>3. TtOp(0) = LockLockMain[ttPc[0]]
  BY <1>2, TextPlace, ZeroIsThread DEF Code
<1>4. TtOp(0)[1] = "lock"
  BY <1>3 DEF LockLockInv, LockLockMain
<1>5. OpLock(0)
  BY <1>1, <1>2, <1>4, StepKind DEF TtStep
<1>6. tt.lock = Nobody /\ tt' = [tt EXCEPT !.lock = 0]
  BY <1>5 DEF OpLock
<1>7. tt'.lock = 0 /\ tt'.fail = tt.fail /\ tt'.ipend = tt.ipend
  BY <1>6 DEF Shape
<1>8. ttPc[0] = 1
  BY <1>6, ZeroIsThread DEF LockLockInv
<1>9. ttPc' = [ttPc EXCEPT ![0] = ttPc[0] + 1] /\ ttIsr' = ttIsr
  BY <1>2, <1>5, OnwardsText DEF Onwards
<1> QED
  BY <1>7, <1>8, <1>9, ZeroIsThread DEF LockLockInv, MainAlone, NoInterrupts, InText

(* ciad-siad.c                                                               *)
CiadInv ==
    /\ MainAlone /\ ttPc[0] \in 0 .. 5
    /\ ttPc[0] \in {1, 4} => tt.iad = {}
    /\ ttPc[0] \in {2, 3} => tt.iad = {2}
    /\ tt.fail = FALSE

LEMMA CiadStep ==
  ASSUME InText, Shape, ttProg = "ciad", CiadInv, NEW t \in Threads,
         TtStep(t) \/ OpLock(t) \/ TakeInterrupt(t)
  PROVE  CiadInv'
<1>1. ~TakeInterrupt(t)
  BY NoneTaken DEF CiadInv, MainAlone
<1>2. t = 0 /\ ttPc[0] > 0 /\ ttIsr[0] = 0
  BY <1>1, StepKind, ZeroIsThread DEF CiadInv, MainAlone, NoInterrupts
<1>3. TtOp(0) = CiadMain[ttPc[0]]
  BY <1>2, TextPlace, ZeroIsThread DEF Code
<1>a. TtStep(0) \/ OpLock(0)
  BY <1>1, <1>2
<1> USE DEF Shape
<1>4. CASE ttPc[0] = 1
  <2>1. TtOp(0)[1] = "siad" /\ TtOp(0)[2] = {2}
    BY <1>3, <1>4 DEF CiadMain
  <2>2. OpImask(0)
    BY <1>a, <2>1, StepKind DEF TtStep
  <2>3. tt' = [tt EXCEPT !.iad = @ \cup {2}]
    BY <2>1, <2>2 DEF OpImask, At, Arg
  <2>4. tt'.iad = {2} /\ tt'.fail = tt.fail /\ tt'.ipend = tt.ipend
    BY <1>4, <2>3 DEF CiadInv
  <2>5. ttPc' = [ttPc EXCEPT ![0] = 2] /\ ttIsr' = ttIsr
    BY <1>2, <1>4, <2>2, OnwardsText DEF Onwards
  <2> QED
    BY <2>4, <2>5, ZeroIsThread DEF CiadInv, MainAlone, NoInterrupts, InText
<1>5. CASE ttPc[0] = 2
  <2>1. TtOp(0)[1] = "checkiad" /\ TtOp(0)[2] = {2}
    BY <1>3, <1>5 DEF CiadMain
  <2>2. OpCheck(0)
    BY <1>a, <2>1, StepKind DEF TtStep
  <2>3. tt' = [tt EXCEPT !.fail = @ \/ tt.iad # {2}]
    BY <2>1, <2>2 DEF OpCheck, At, Arg
  <2>4. tt'.iad = tt.iad /\ tt'.fail = FALSE /\ tt'.ipend = tt.ipend
    BY <1>5, <2>3 DEF CiadInv
  <2>5. ttPc' = [ttPc EXCEPT ![0] = 3] /\ ttIsr' = ttIsr
    BY <1>2, <1>5, <2>2, OnwardsText DEF Onwards
  <2> QED
    BY <1>5, <2>4, <2>5, ZeroIsThread DEF CiadInv, MainAlone, NoInterrupts, InText
<1>6. CASE ttPc[0] = 3
  <2>1. TtOp(0)[1] = "ciad" /\ TtOp(0)[2] = {2}
    BY <1>3, <1>6 DEF CiadMain
  <2>2. OpImask(0)
    BY <1>a, <2>1, StepKind DEF TtStep
  <2>3. tt' = [tt EXCEPT !.iad = @ \ {2}]
    BY <2>1, <2>2 DEF OpImask, At, Arg
  <2>4. tt'.iad = {} /\ tt'.fail = tt.fail /\ tt'.ipend = tt.ipend
    BY <1>6, <2>3 DEF CiadInv
  <2>5. ttPc' = [ttPc EXCEPT ![0] = 4] /\ ttIsr' = ttIsr
    BY <1>2, <1>6, <2>2, OnwardsText DEF Onwards
  <2> QED
    BY <2>4, <2>5, ZeroIsThread DEF CiadInv, MainAlone, NoInterrupts, InText
<1>7. CASE ttPc[0] = 4
  <2>1. TtOp(0)[1] = "checkiad" /\ TtOp(0)[2] = {}
    BY <1>3, <1>7 DEF CiadMain
  <2>2. OpCheck(0)
    BY <1>a, <2>1, StepKind DEF TtStep
  <2>3. tt' = [tt EXCEPT !.fail = @ \/ tt.iad # {}]
    BY <2>1, <2>2 DEF OpCheck, At, Arg
  <2>4. tt'.iad = tt.iad /\ tt'.fail = FALSE /\ tt'.ipend = tt.ipend
    BY <1>7, <2>3 DEF CiadInv
  <2>5. ttPc' = [ttPc EXCEPT ![0] = 5] /\ ttIsr' = ttIsr
    BY <1>2, <1>7, <2>2, OnwardsText DEF Onwards
  <2> QED
    BY <1>7, <2>4, <2>5, ZeroIsThread DEF CiadInv, MainAlone, NoInterrupts, InText
<1>8. CASE ttPc[0] = 5
  <2>1. TtOp(0)[1] = "stop"
    BY <1>3, <1>8 DEF CiadMain, Stop
  <2>2. OpStop(0)
    BY <1>a, <2>1, StepKind DEF TtStep
  <2>3. ttPc' = [ttPc EXCEPT ![0] = 0] /\ ttIsr' = ttIsr /\ tt' = tt
    BY <2>2 DEF OpStop
  <2> QED
    BY <2>3, ZeroIsThread DEF CiadInv, MainAlone, NoInterrupts, InText
<1>9. ttPc[0] \in 1 .. 5
  BY <1>2 DEF CiadInv
<1> QED
  BY <1>4, <1>5, <1>6, <1>7, <1>8, <1>9

-----------------------------------------------------------------------------
(* test-thread.c on a machine with too few hardware threads for the last one *)
(* it creates.  A thread that has stopped, or is about to, has its thid.     *)
Created == 1 .. WORKERS - 1
MutexInv ==
    /\ NoInterrupts
    /\ ttHw = 0 .. WORKERS - 1
    /\ ttPc[WORKERS] = 0
    /\ DOMAIN tt.mem = Cells
    /\ ttPc[0] \notin 3 .. 5 => \A t \in Created : ttPc[t] = 0
    /\ ttPc[0] >= 3 => \A t \in Created : ttPc[t] \in {0, 5, 6} => tt.mem[<<"thid", t>>] = t
    /\ tt.fail = FALSE

LEMMA CreatedThreads ==
  /\ Created \subseteq Threads /\ 0 \notin Created /\ WORKERS \in Threads
  /\ \A t \in Threads : t = 0 \/ t \in Created \/ t = WORKERS
  /\ WORKERS \notin Created /\ WORKERS # 0
  /\ \A t \in Created : t < WORKERS /\ t \in Nat /\ <<"thid", t>> \in Cells
  /\ Created = (1 .. WORKERS) \cap (0 .. WORKERS - 1)
<1>1. \A t \in Created : <<"thid", t>> \in Cells
  BY ThreadTestsAssumption DEF Created, Threads, Cells
<1> QED
  BY <1>1, ThreadTestsAssumption DEF Created, Threads

LEMMA MutexMainStep ==
  ASSUME InText, Shape, ttProg = "mutex", MutexInv, TtStep(0) \/ OpLock(0)
  PROVE  MutexInv'
<1> USE ZeroIsThread, CreatedThreads
<1> DEFINE W == WORKERS
<1>1. ttPc[0] \in Nat /\ ttPc[0] > 0 /\ ttIsr[0] = 0 /\ ttPc[0] <= Len(TtText(0))
  BY StepKind DEF MutexInv, NoInterrupts, InText
<1>2. TtOp(0) = MutexMain[ttPc[0]]
  BY <1>1, TextPlace DEF Code
<1>3. Len(TtText(0)) = 5 + (WORKERS - 1) + 1
  BY TextOf, MutexText, LongLen DEF Code, Sound
<1>4. CASE ttPc[0] \in {1, 3}
  <2>1. TtOp(0)[1] \in {"lock", "unlock"}
    BY <1>2, <1>4, MutexText
  <2>2. OpLock(0) \/ OpUnlock(0)
    BY <2>1, StepKind DEF TtStep
  <2>3. ttPc' = [ttPc EXCEPT ![0] = ttPc[0] + 1] /\ ttIsr' = ttIsr /\ ttHw' = ttHw
    BY <1>1, <2>2, OnwardsText DEF Onwards
  <2>4. tt'.mem = tt.mem /\ tt'.ipend = tt.ipend /\ tt'.fail = tt.fail
    BY <2>2 DEF OpLock, OpUnlock, Shape
  <2>5. ttPc \in [Threads -> Nat]
    BY DEF InText
  <2>6. ttPc'[0] = ttPc[0] + 1 /\ \A u \in Threads \ {0} : ttPc'[u] = ttPc[u]
    BY <2>3, <2>5
  <2>7. ttPc'[0] \in {2, 4} /\ (ttPc'[0] >= 3 => ttPc[0] = 3)
    BY <1>4, <2>6
  <2>8. ttPc'[0] \notin 3 .. 5 => ttPc[0] = 1
    BY <1>4, <2>6
  <2> QED
    BY <1>4, <2>3, <2>4, <2>6, <2>7, <2>8 DEF MutexInv, NoInterrupts
<1>5. CASE ttPc[0] = 2
  <2>1. TtOp(0)[1] = "create" /\ TtOp(0)[2] = 1 .. WORKERS
    BY <1>2, <1>5, MutexText DEF Create
  <2>2. OpCreate(0)
    BY <2>1, StepKind DEF TtStep
  <2>3. /\ ttPc' = [u \in Threads |-> IF u = 0 THEN ttPc[0] + 1
                                      ELSE IF u \in (1 .. WORKERS) \cap ttHw THEN 1 ELSE ttPc[u]]
        /\ ttIsr' = ttIsr /\ ttHw' = ttHw /\ tt' = tt
    BY <2>1, <2>2 DEF OpCreate, Arg, TtFixed
  <2>4. /\ ttPc'[0] = 3 /\ ttPc'[WORKERS] = 0
        /\ \A u \in Created : ttPc'[u] = 1
    BY <1>5, <2>3 DEF MutexInv
  <2> QED
    BY <2>3, <2>4 DEF MutexInv, NoInterrupts
<1>6. CASE ttPc[0] \in {4, 5}
  <2>1. TtOp(0)[1] \in {"until", "join"} /\ (ttPc[0] = 5 => TtOp(0) = Join(1 .. WORKERS))
    <3>1. MutexMain[4][1] = "until" /\ MutexMain[5][1] = "join"
      BY MutexText DEF Until, Join
    <3> QED
      BY <1>2, <1>6, <3>1, MutexText
  <2>2. OpUntil(0) \/ OpJoin(0)
    BY <2>1, StepKind DEF TtStep
  <2>3. ttPc' = [ttPc EXCEPT ![0] = ttPc[0] + 1] /\ ttIsr' = ttIsr /\ ttHw' = ttHw
    BY <1>1, <2>2, OnwardsText DEF Onwards
  <2>4. tt' = tt
    BY <2>2 DEF OpUntil, OpJoin
  <2>5. ASSUME ttPc[0] = 5 PROVE \A u \in Created : ttPc[u] = 0
    <3>1. TtOp(0)[1] = "join" /\ TtOp(0)[2] = 1 .. WORKERS
      BY <2>1, <2>5 DEF Join
    <3>2. OpJoin(0)
      BY <2>2, <3>1, StepKind DEF TtStep
    <3> QED
      BY <3>1, <3>2 DEF OpJoin, Arg
  <2> QED
    <3>1. ttPc'[0] = ttPc[0] + 1 /\ \A u \in Threads \ {0} : ttPc'[u] = ttPc[u]
      BY <2>3 DEF InText
    <3>2. ttPc'[0] \in {5, 6} /\ ttPc[0] >= 3 /\ ttPc'[0] >= 3
      BY <1>6, <3>1
    <3>3. ttPc'[0] \notin 3 .. 5 => ttPc[0] = 5
      BY <1>6, <3>1
    <3> QED
      BY <3>1, <3>2, <3>3, <2>3, <2>4, <2>5 DEF MutexInv, NoInterrupts
<1>7. CASE ttPc[0] \in 6 .. 5 + (WORKERS - 1)
  <2> DEFINE i == ttPc[0] - 5
  <2>1. i \in Created /\ 5 + i = ttPc[0]
    BY <1>7, ThreadTestsAssumption DEF Created
  <2>2. TtOp(0) = Check(<<"thid", i>>, i)
    BY <1>2, <2>1, MutexText DEF Created
  <2> HIDE DEF i
  <2>3. TtOp(0)[1] = "check" /\ TtOp(0)[2] = <<"thid", i>> /\ TtOp(0)[3] = i
    BY <2>2 DEF Check
  <2>4. OpCheck(0)
    BY <2>3, StepKind DEF TtStep
  <2>5. tt' = [tt EXCEPT !.fail = @ \/ tt.mem[<<"thid", i>>] # i]
    BY <2>3, <2>4 DEF OpCheck, At, Arg, Arg2
  <2>6. tt.mem[<<"thid", i>>] = i
    BY <1>7, <2>1 DEF MutexInv
  <2>7. tt'.mem = tt.mem /\ tt'.ipend = tt.ipend /\ tt'.fail = FALSE
    BY <2>5, <2>6 DEF Shape, MutexInv
  <2>8. ttPc' = [ttPc EXCEPT ![0] = ttPc[0] + 1] /\ ttIsr' = ttIsr /\ ttHw' = ttHw
    BY <1>1, <2>4, OnwardsText DEF Onwards
  <2> QED
    <3>1. ttPc'[0] = ttPc[0] + 1 /\ \A u \in Threads \ {0} : ttPc'[u] = ttPc[u]
      BY <2>8 DEF InText
    <3>2. ttPc[0] \notin 3 .. 5 /\ ttPc[0] >= 3
      BY <1>7
    <3> QED
      BY <3>1, <3>2, <2>7, <2>8 DEF MutexInv, NoInterrupts
<1>8. CASE ttPc[0] = 5 + (WORKERS - 1) + 1
  <2>1. TtOp(0)[1] = "stop"
    BY <1>2, <1>8, MutexText DEF Stop
  <2>2. OpStop(0)
    BY <2>1, StepKind DEF TtStep
  <2>3. ttPc' = [ttPc EXCEPT ![0] = 0] /\ ttIsr' = ttIsr /\ ttHw' = ttHw /\ tt' = tt
    BY <2>2 DEF OpStop, TtFixed
  <2>4. \A u \in Created : ttPc[u] = 0
    BY <1>8, ThreadTestsAssumption DEF MutexInv
  <2> QED
    BY <2>3, <2>4 DEF MutexInv, NoInterrupts, InText
<1>9. \/ ttPc[0] \in {1, 3} \/ ttPc[0] = 2 \/ ttPc[0] \in {4, 5} \/ ttPc[0] \in 6 .. 5 + (WORKERS - 1)
      \/ ttPc[0] = 5 + (WORKERS - 1) + 1
  BY <1>1, <1>3, ThreadTestsAssumption
<1> QED
  BY <1>4, <1>5, <1>6, <1>7, <1>8, <1>9

LEMMA MutexThreadStep ==
  ASSUME InText, Shape, ttProg = "mutex", MutexInv, NEW t \in Created, TtStep(t) \/ OpLock(t)
  PROVE  MutexInv'
<1> USE ZeroIsThread, CreatedThreads
<1> DEFINE s == << <<"lock">>, Load(Var("thcnt")), Store(Var("thcnt")),
                   Set(<<"thid", t>>, t), <<"unlock">>, Stop>>
<1>0. MutexThread(t) = s /\ Long(s, 6)
  BY DEF MutexThread, THCNT, Long
<1>1. ttPc[t] \in Nat /\ ttPc[t] > 0 /\ ttIsr[t] = 0 /\ ttPc[t] <= Len(TtText(t))
  BY StepKind DEF MutexInv, NoInterrupts, InText
<1>2. TtOp(t) = s[ttPc[t]]
  BY <1>0, <1>1, TextPlace DEF Code
<1>3. ttPc[t] \in 1 .. 6
  <2>1. Len(TtText(t)) = 6
    BY <1>0, TextOf, LongLen DEF Code
  <2> QED
    BY <2>1, <1>1
<1>4. ttPc[0] \in 3 .. 5
  <2>1. ~(ttPc[t] = 0)
    BY <1>1
  <2> QED
    BY <2>1 DEF MutexInv
<1>p. ttPc \in [Threads -> Nat] /\ ttPc[0] >= 3
  <2>1. ttPc \in [Threads -> Nat]
    BY DEF InText
  <2> QED
    BY <1>4, <2>1
<1>5. CASE ttPc[t] \in {1, 5}
  <2>1. TtOp(t)[1] \in {"lock", "unlock"}
    BY <1>2, <1>5
  <2>2. OpLock(t) \/ OpUnlock(t)
    BY <2>1, StepKind DEF TtStep
  <2>3. ttPc' = [ttPc EXCEPT ![t] = ttPc[t] + 1] /\ ttIsr' = ttIsr /\ ttHw' = ttHw
    BY <1>1, <2>2, OnwardsText DEF Onwards
  <2>4. tt'.mem = tt.mem /\ tt'.ipend = tt.ipend /\ tt'.fail = tt.fail
    BY <2>2 DEF OpLock, OpUnlock, Shape
  <2> QED
    BY <1>4, <1>5, <2>3, <2>4 DEF MutexInv, NoInterrupts, InText
<1>6. CASE ttPc[t] = 2
  <2>1. TtOp(t)[1] = "load"
    BY <1>2, <1>6 DEF Load
  <2>2. OpLoad(t)
    BY <2>1, StepKind DEF TtStep
  <2>3. ttPc' = [ttPc EXCEPT ![t] = ttPc[t] + 1] /\ ttIsr' = ttIsr /\ ttHw' = ttHw
    BY <1>1, <2>2, OnwardsText DEF Onwards
  <2>4. tt' = tt
    BY <2>2 DEF OpLoad
  <2> QED
    <3>1. ttPc'[t] = ttPc[t] + 1 /\ \A u \in Threads \ {t} : ttPc'[u] = ttPc[u]
      BY <1>p, <2>3
    <3>2. ttPc'[0] = ttPc[0] /\ ttPc'[WORKERS] = 0
      BY <3>1 DEF MutexInv
    <3>3. ttPc'[t] \in {0, 5, 6} => ttPc[t] = 4
      BY <3>1, <1>6
    <3> QED
      BY <1>4, <1>p, <1>6, <3>1, <3>2, <3>3, <2>3, <2>4 DEF MutexInv, NoInterrupts
<1>7. CASE ttPc[t] = 3
  <2>1. TtOp(t)[1] = "store" /\ TtOp(t)[2] = <<"thcnt", 0>>
    BY <1>2, <1>7 DEF Store, Var
  <2>2. OpStore(t)
    BY <2>1, StepKind DEF TtStep
  <2>3. ttPc' = [ttPc EXCEPT ![t] = ttPc[t] + 1] /\ ttIsr' = ttIsr /\ ttHw' = ttHw
    BY <1>1, <2>2, OnwardsText DEF Onwards
  <2>4. tt' = [tt EXCEPT !.mem[<<"thcnt", 0>>] = ttReg[t] + 1]
    BY <2>1, <2>2 DEF OpStore, At, Arg
  <2>5. /\ tt'.mem = [tt.mem EXCEPT ![<<"thcnt", 0>>] = ttReg[t] + 1]
        /\ tt'.ipend = tt.ipend /\ tt'.fail = tt.fail
    BY <2>4 DEF Shape
  <2>6. \A u \in Created : tt'.mem[<<"thid", u>>] = tt.mem[<<"thid", u>>]
    BY <2>5 DEF MutexInv
  <2> QED
    <3>1. ttPc'[t] = ttPc[t] + 1 /\ \A u \in Threads \ {t} : ttPc'[u] = ttPc[u]
      BY <1>p, <2>3
    <3>2. ttPc'[0] = ttPc[0] /\ ttPc'[WORKERS] = 0
      BY <3>1 DEF MutexInv
    <3>3. ttPc'[t] \in {0, 5, 6} => ttPc[t] = 4
      BY <3>1, <1>7
    <3> QED
      BY <1>4, <1>p, <1>7, <3>1, <3>2, <3>3, <2>3, <2>5, <2>6 DEF MutexInv, NoInterrupts
<1>8. CASE ttPc[t] = 4
  <2>1. TtOp(t)[1] = "set" /\ TtOp(t)[2] = <<"thid", t>> /\ TtOp(t)[3] = t
    BY <1>2, <1>8 DEF Set
  <2>2. OpStore(t)
    BY <2>1, StepKind DEF TtStep
  <2>3. ttPc' = [ttPc EXCEPT ![t] = ttPc[t] + 1] /\ ttIsr' = ttIsr /\ ttHw' = ttHw
    BY <1>1, <2>2, OnwardsText DEF Onwards
  <2>4. tt' = [tt EXCEPT !.mem[<<"thid", t>>] = t]
    BY <2>1, <2>2 DEF OpStore, At, Arg, Arg2
  <2>5. /\ tt'.mem = [tt.mem EXCEPT ![<<"thid", t>>] = t]
        /\ tt'.ipend = tt.ipend /\ tt'.fail = tt.fail
    BY <2>4 DEF Shape
  <2>6. /\ \A u \in Created \ {t} : tt'.mem[<<"thid", u>>] = tt.mem[<<"thid", u>>]
        /\ tt'.mem[<<"thid", t>>] = t
    BY <2>5 DEF MutexInv
  <2> QED
    <3>1. ttPc'[t] = ttPc[t] + 1 /\ \A u \in Threads \ {t} : ttPc'[u] = ttPc[u]
      BY <1>p, <2>3
    <3>2. ttPc'[0] = ttPc[0] /\ ttPc'[WORKERS] = 0
      BY <3>1 DEF MutexInv
    <3>3. ttPc'[t] \in {0, 5, 6} => ttPc[t] = 4
      BY <3>1, <1>8
    <3> QED
      BY <1>4, <1>p, <1>8, <3>1, <3>2, <3>3, <2>3, <2>5, <2>6 DEF MutexInv, NoInterrupts
<1>9. CASE ttPc[t] = 6
  <2>1. TtOp(t)[1] = "stop"
    BY <1>2, <1>9 DEF Stop
  <2>2. OpStop(t)
    BY <2>1, StepKind DEF TtStep
  <2>3. ttPc' = [ttPc EXCEPT ![t] = 0] /\ ttIsr' = ttIsr /\ ttHw' = ttHw /\ tt' = tt
    BY <2>2 DEF OpStop, TtFixed
  <2> QED
    BY <1>4, <1>9, <2>3 DEF MutexInv, NoInterrupts, InText
<1> QED
  BY <1>3, <1>5, <1>6, <1>7, <1>8, <1>9

LEMMA MutexStep ==
  ASSUME InText, Shape, ttProg = "mutex", MutexInv, NEW t \in Threads,
         TtStep(t) \/ OpLock(t) \/ TakeInterrupt(t)
  PROVE  MutexInv'
<1>1. ~TakeInterrupt(t)
  BY NoneTaken DEF MutexInv
<1>2. t # WORKERS
  BY <1>1, StepKind DEF MutexInv
<1> QED
  BY <1>1, <1>2, CreatedThreads, MutexMainStep, MutexThreadStep

-----------------------------------------------------------------------------
(* test-thread.c on either machine, until an assertion ends it: the thread   *)
(* between trylockMutex and unlockMutex has the lock, so what it loaded of   *)
(* thcnt is still thcnt when it stores.                                      *)
Thcnt == tt.mem[Var("thcnt")]
Passed == {t \in Created : ThroughMutex(t)}
CountedInv ==
    /\ NoInterrupts
    /\ Created \subseteq ttHw
    /\ DOMAIN tt.mem = Cells /\ DOMAIN ttReg = Threads
    /\ ttPc[0] \in 1 .. 2 => \A t \in Created : ttPc[t] = 0
    /\ \A t \in Created : ttPc[t] \in 2 .. 5 => tt.lock = t
    /\ \A t \in Created : ttPc[t] = 3 => ttReg[t] = Thcnt
    /\ Thcnt = Cardinality(Passed)

LEMMA ThcntCell == Var("thcnt") \in Cells
BY DEF Var, Cells

LEMMA PassedFinite == IsFiniteSet(Passed) /\ Cardinality(Passed) \in Nat
<1>1. IsFiniteSet(Created)
  BY FS_Interval, ThreadTestsAssumption DEF Created
<1>2. Passed \subseteq Created
  BY DEF Passed
<1> QED
  BY <1>1, <1>2, FS_Subset, FS_CardinalityType

(* A step that leaves the created threads, thcnt and the lock they hold.     *)
LEMMA CountedKept ==
  ASSUME CountedInv, UNCHANGED <<ttHw, ttIsr, ttReg>>,
         tt'.ipend = tt.ipend, tt'.mem = tt.mem,
         \A t \in Created : ttPc'[t] = ttPc[t],
         \A t \in Created : tt.lock = t => tt'.lock = t,
         ttPc'[0] \in 1 .. 2 <=> ttPc[0] \in 1 .. 2
  PROVE  CountedInv'
<1>1. Thcnt' = Thcnt
  BY DEF Thcnt
<1>2. Passed' = Passed
  BY DEF Passed, ThroughMutex
<1> QED
  BY <1>1, <1>2 DEF CountedInv, NoInterrupts

LEMMA CountedMainStep ==
  ASSUME InText, Shape, ttProg = "mutex", CountedInv, TtStep(0) \/ OpLock(0)
  PROVE  CountedInv'
<1> USE ZeroIsThread, CreatedThreads
<1>1. ttPc[0] \in Nat /\ ttPc[0] > 0 /\ ttIsr[0] = 0 /\ ttPc[0] <= Len(TtText(0))
  BY StepKind DEF CountedInv, NoInterrupts, InText
<1>2. TtOp(0) = MutexMain[ttPc[0]]
  BY <1>1, TextPlace DEF Code
<1>3. Len(TtText(0)) = 5 + (WORKERS - 1) + 1
  BY TextOf, MutexText, LongLen DEF Code, Sound
<1>4. ttPc \in [Threads -> Nat]
  BY DEF InText
<1>5. ASSUME Onwards(0), ttPc[0] # 2, ttReg' = ttReg, tt'.ipend = tt.ipend, tt'.mem = tt.mem,
             \A t \in Created : tt.lock = t => tt'.lock = t
      PROVE  CountedInv'
  <2>1. ttPc' = [ttPc EXCEPT ![0] = ttPc[0] + 1] /\ ttIsr' = ttIsr /\ ttHw' = ttHw
    BY <1>1, <1>5, OnwardsText
  <2>2. ttPc'[0] = ttPc[0] + 1 /\ \A t \in Created : ttPc'[t] = ttPc[t]
    BY <1>4, <2>1
  <2>3. ttPc'[0] \in 1 .. 2 <=> ttPc[0] \in 1 .. 2
    BY <1>1, <1>5, <2>2
  <2> QED
    BY <1>5, <2>1, <2>2, <2>3, CountedKept
<1>6. CASE ttPc[0] \in {1, 3}
  <2>1. TtOp(0)[1] \in {"lock", "unlock"}
    BY <1>2, <1>6, MutexText
  <2>2. OpLock(0) \/ OpUnlock(0)
    BY <2>1, StepKind DEF TtStep
  <2>3. tt'.mem = tt.mem /\ tt'.ipend = tt.ipend /\ ttReg' = ttReg
    BY <2>2 DEF OpLock, OpUnlock, Shape
  <2>4. \A t \in Created : tt.lock = t => tt'.lock = t
    BY <2>2 DEF OpLock, OpUnlock, Shape
  <2> QED
    BY <1>5, <1>6, <2>2, <2>3, <2>4 DEF Onwards
<1>7. CASE ttPc[0] = 2
  <2>1. TtOp(0)[1] = "create" /\ TtOp(0)[2] = 1 .. WORKERS
    BY <1>2, <1>7, MutexText DEF Create
  <2>2. OpCreate(0)
    BY <2>1, StepKind DEF TtStep
  <2>3. /\ ttPc' = [u \in Threads |-> IF u = 0 THEN ttPc[0] + 1
                                      ELSE IF u \in (1 .. WORKERS) \cap ttHw THEN 1 ELSE ttPc[u]]
        /\ ttIsr' = ttIsr /\ ttHw' = ttHw /\ tt' = tt /\ ttReg' = ttReg
    BY <2>1, <2>2 DEF OpCreate, Arg, TtFixed
  <2>4. ttPc'[0] = 3 /\ \A t \in Created : ttPc'[t] = 1
    BY <1>7, <2>3 DEF CountedInv
  <2>5. Passed = {} /\ Passed' = {}
    BY <1>7, <2>4 DEF CountedInv, Passed, ThroughMutex
  <2>6. Thcnt' = Cardinality(Passed')
    BY <2>3, <2>5 DEF CountedInv, Thcnt
  <2> QED
    BY <2>3, <2>4, <2>6 DEF CountedInv, NoInterrupts
<1>8. CASE ttPc[0] \in {4, 5}
  <2>1. MutexMain[4][1] = "until" /\ MutexMain[5][1] = "join"
    BY MutexText DEF Until, Join
  <2>2. OpUntil(0) \/ OpJoin(0)
    BY <1>2, <1>8, <2>1, StepKind DEF TtStep
  <2>3. tt' = tt /\ ttReg' = ttReg
    BY <2>2 DEF OpUntil, OpJoin
  <2> QED
    BY <1>5, <1>8, <2>2, <2>3 DEF Onwards
<1>9. CASE ttPc[0] \in 6 .. 5 + (WORKERS - 1)
  <2> DEFINE i == ttPc[0] - 5
  <2>1. i \in Created /\ 5 + i = ttPc[0]
    BY <1>9, ThreadTestsAssumption DEF Created
  <2>2. TtOp(0) = Check(<<"thid", i>>, i)
    BY <1>2, <2>1, MutexText DEF Created
  <2> HIDE DEF i
  <2>3. OpCheck(0)
    BY <2>2, StepKind DEF TtStep, Check
  <2>4. \E f : tt' = [tt EXCEPT !.fail = f]
    BY <2>3 DEF OpCheck
  <2>5. tt'.mem = tt.mem /\ tt'.ipend = tt.ipend /\ tt'.lock = tt.lock
    BY <2>4 DEF Shape
  <2>6. ttReg' = ttReg
    BY <2>3 DEF OpCheck
  <2> QED
    BY <1>5, <1>9, <2>3, <2>5, <2>6 DEF Onwards
<1>10. CASE ttPc[0] = 5 + (WORKERS - 1) + 1
  <2>1. TtOp(0)[1] = "stop"
    BY <1>2, <1>10, MutexText DEF Stop
  <2>2. OpStop(0)
    BY <2>1, StepKind DEF TtStep
  <2>3. /\ ttPc' = [ttPc EXCEPT ![0] = 0]
        /\ UNCHANGED <<ttIsr, ttHw, ttReg, tt>>
    BY <2>2 DEF OpStop, TtFixed
  <2>4. ttPc'[0] = 0 /\ \A t \in Created : ttPc'[t] = ttPc[t]
    BY <1>4, <2>3
  <2>5. ttPc'[0] \in 1 .. 2 <=> ttPc[0] \in 1 .. 2
    BY <1>10, <2>4, ThreadTestsAssumption
  <2> QED
    BY <2>3, <2>4, <2>5, CountedKept
<1>11. \/ ttPc[0] \in {1, 3} \/ ttPc[0] = 2 \/ ttPc[0] \in {4, 5}
       \/ ttPc[0] \in 6 .. 5 + (WORKERS - 1) \/ ttPc[0] = 5 + (WORKERS - 1) + 1
  BY <1>1, <1>3, ThreadTestsAssumption
<1> QED
  BY <1>6, <1>7, <1>8, <1>9, <1>10, <1>11

LEMMA CountedThreadStep ==
  ASSUME InText, Shape, ttProg = "mutex", CountedInv, NEW t \in Created, TtStep(t) \/ OpLock(t)
  PROVE  CountedInv'
<1> USE ZeroIsThread, CreatedThreads
<1> DEFINE s == << <<"lock">>, Load(Var("thcnt")), Store(Var("thcnt")),
                   Set(<<"thid", t>>, t), <<"unlock">>, Stop>>
<1>0. MutexThread(t) = s /\ Long(s, 6)
  BY DEF MutexThread, THCNT, Long
<1>1. ttPc[t] \in Nat /\ ttPc[t] > 0 /\ ttIsr[t] = 0 /\ ttPc[t] <= Len(TtText(t))
  BY StepKind DEF CountedInv, NoInterrupts, InText
<1>2. TtOp(t) = s[ttPc[t]]
  BY <1>0, <1>1, TextPlace DEF Code
<1>3. ttPc[t] \in 1 .. 6
  <2>1. Len(TtText(t)) = 6
    BY <1>0, TextOf, LongLen DEF Code
  <2> QED
    BY <2>1, <1>1
<1>4. ttPc \in [Threads -> Nat] /\ ttPc[0] \notin 1 .. 2
  <2>1. ~(ttPc[t] = 0)
    BY <1>1
  <2>2. ttPc \in [Threads -> Nat]
    BY DEF InText
  <2> QED
    BY <2>1, <2>2 DEF CountedInv
(* Only the step from 3 makes a thread one that has come through.            *)
<1>5. ASSUME ttPc'[0] = ttPc[0], \A u \in Created \ {t} : ttPc'[u] = ttPc[u],
             (ttPc[t] \in 4 .. 6 /\ ttPc'[t] \in {0, 5, 6}) \/ (ttPc[t] \in 1 .. 2 /\ ttPc'[t] \in 2 .. 3)
      PROVE  Passed' = Passed
  <2>1. \A u \in Created \ {t} : ThroughMutex(u)' <=> ThroughMutex(u)
    BY <1>5 DEF ThroughMutex
  <2>2. ThroughMutex(t)' <=> ThroughMutex(t)
    BY <1>4, <1>5 DEF ThroughMutex
  <2> QED
    BY <2>1, <2>2 DEF Passed
<1>6. CASE ttPc[t] = 1
  <2>1. OpLock(t)
    BY <1>2, <1>6, StepKind DEF TtStep
  <2>2. /\ ttPc' = [ttPc EXCEPT ![t] = 2] /\ ttIsr' = ttIsr /\ ttHw' = ttHw
    BY <1>1, <1>6, <2>1, OnwardsText DEF Onwards
  <2>3. /\ tt'.mem = tt.mem /\ tt'.ipend = tt.ipend /\ tt'.lock = t /\ tt.lock = Nobody
        /\ ttReg' = ttReg
    BY <2>1 DEF OpLock, Shape
  <2>4. \A u \in Created : ttPc[u] \notin 2 .. 5
    BY <2>3 DEF CountedInv
  <2>5. /\ ttPc'[0] = ttPc[0] /\ ttPc'[t] = 2 /\ \A u \in Created \ {t} : ttPc'[u] = ttPc[u]
        /\ Passed' = Passed
    <3>1. ttPc'[0] = ttPc[0] /\ ttPc'[t] = 2 /\ \A u \in Created \ {t} : ttPc'[u] = ttPc[u]
      BY <1>4, <2>2
    <3> QED
      BY <1>5, <1>6, <3>1
  <2>6. Thcnt' = Thcnt
    BY <2>3 DEF Thcnt
  <2>7. \A u \in Created : ttPc'[u] \in 2 .. 5 => u = t
    BY <2>4, <2>5
  <2> QED
    BY <1>4, <2>2, <2>3, <2>4, <2>5, <2>6, <2>7 DEF CountedInv, NoInterrupts
<1>7. CASE ttPc[t] = 2
  <2>1. TtOp(t)[1] = "load" /\ TtOp(t)[2] = Var("thcnt")
    BY <1>2, <1>7 DEF Load
  <2>2. OpLoad(t)
    BY <2>1, StepKind DEF TtStep
  <2>3. ttPc' = [ttPc EXCEPT ![t] = 3] /\ ttIsr' = ttIsr /\ ttHw' = ttHw
    BY <1>1, <1>7, <2>2, OnwardsText DEF Onwards
  <2>4. tt' = tt /\ ttReg' = [ttReg EXCEPT ![t] = Thcnt]
    BY <2>1, <2>2 DEF OpLoad, Arg, Thcnt
  <2>5. ttReg'[t] = Thcnt /\ DOMAIN ttReg' = Threads /\ \A u \in Created \ {t} : ttReg'[u] = ttReg[u]
    BY <2>4 DEF CountedInv
  <2>6. /\ ttPc'[0] = ttPc[0] /\ ttPc'[t] = 3 /\ \A u \in Created \ {t} : ttPc'[u] = ttPc[u]
        /\ Passed' = Passed
    <3>1. ttPc'[0] = ttPc[0] /\ ttPc'[t] = 3 /\ \A u \in Created \ {t} : ttPc'[u] = ttPc[u]
      BY <1>4, <2>3
    <3> QED
      BY <1>5, <1>7, <3>1
  <2>7. Thcnt' = Thcnt
    BY <2>4 DEF Thcnt
  <2> QED
    BY <1>4, <1>7, <2>3, <2>4, <2>5, <2>6, <2>7 DEF CountedInv, NoInterrupts
<1>8. CASE ttPc[t] = 3
  <2>1. TtOp(t)[1] = "store" /\ TtOp(t)[2] = Var("thcnt")
    BY <1>2, <1>8 DEF Store
  <2>2. OpStore(t)
    BY <2>1, StepKind DEF TtStep
  <2>3. ttPc' = [ttPc EXCEPT ![t] = 4] /\ ttIsr' = ttIsr /\ ttHw' = ttHw
    BY <1>1, <1>8, <2>2, OnwardsText DEF Onwards
  <2>4. tt' = [tt EXCEPT !.mem[Var("thcnt")] = ttReg[t] + 1] /\ ttReg' = ttReg
    BY <2>1, <2>2 DEF OpStore, At, Arg
  <2>5. /\ tt'.mem = [tt.mem EXCEPT ![Var("thcnt")] = ttReg[t] + 1]
        /\ tt'.ipend = tt.ipend /\ tt'.lock = tt.lock
    BY <2>4 DEF Shape
  <2>6. DOMAIN tt'.mem = Cells /\ Thcnt' = Thcnt + 1
    BY <1>8, <2>5, ThcntCell DEF CountedInv, Thcnt
  <2>7. ttPc'[0] = ttPc[0] /\ ttPc'[t] = 4 /\ \A u \in Created \ {t} : ttPc'[u] = ttPc[u]
    BY <1>4, <2>3
  <2>8. Passed' = Passed \cup {t} /\ t \notin Passed
    BY <1>4, <1>8, <2>7 DEF Passed, ThroughMutex
  <2>9. Cardinality(Passed') = Cardinality(Passed) + 1
    BY <2>8, PassedFinite, FS_AddElement
  <2>10. \A u \in Created : ttPc'[u] # 3
    BY <1>8, <2>7 DEF CountedInv
  <2> QED
    BY <1>4, <1>8, <2>3, <2>4, <2>5, <2>6, <2>7, <2>9, <2>10 DEF CountedInv, NoInterrupts
<1>9. CASE ttPc[t] = 4
  <2>1. TtOp(t)[1] = "set" /\ TtOp(t)[2] = <<"thid", t>> /\ TtOp(t)[3] = t
    BY <1>2, <1>9 DEF Set
  <2>2. OpStore(t)
    BY <2>1, StepKind DEF TtStep
  <2>3. ttPc' = [ttPc EXCEPT ![t] = 5] /\ ttIsr' = ttIsr /\ ttHw' = ttHw
    BY <1>1, <1>9, <2>2, OnwardsText DEF Onwards
  <2>4. tt' = [tt EXCEPT !.mem[<<"thid", t>>] = t] /\ ttReg' = ttReg
    BY <2>1, <2>2 DEF OpStore, At, Arg, Arg2
  <2>5. /\ tt'.mem = [tt.mem EXCEPT ![<<"thid", t>>] = t]
        /\ tt'.ipend = tt.ipend /\ tt'.lock = tt.lock
    BY <2>4 DEF Shape
  <2>6. DOMAIN tt'.mem = Cells /\ Thcnt' = Thcnt
    BY <2>5, ThcntCell DEF CountedInv, Thcnt, Var
  <2>7. /\ ttPc'[0] = ttPc[0] /\ ttPc'[t] = 5 /\ \A u \in Created \ {t} : ttPc'[u] = ttPc[u]
        /\ Passed' = Passed
    <3>1. ttPc'[0] = ttPc[0] /\ ttPc'[t] = 5 /\ \A u \in Created \ {t} : ttPc'[u] = ttPc[u]
      BY <1>4, <2>3
    <3> QED
      BY <1>5, <1>9, <3>1
  <2> QED
    BY <1>4, <1>9, <2>3, <2>4, <2>5, <2>6, <2>7 DEF CountedInv, NoInterrupts
<1>10. CASE ttPc[t] = 5
  <2>1. OpUnlock(t)
    BY <1>2, <1>10, StepKind DEF TtStep
  <2>2. ttPc' = [ttPc EXCEPT ![t] = 6] /\ ttIsr' = ttIsr /\ ttHw' = ttHw
    BY <1>1, <1>10, <2>1, OnwardsText DEF Onwards
  <2>3. /\ tt'.mem = tt.mem /\ tt'.ipend = tt.ipend /\ ttReg' = ttReg
    BY <2>1 DEF OpUnlock, Shape
  <2>4. tt.lock = t /\ \A u \in Created \ {t} : ttPc[u] \notin 2 .. 5
    BY <1>10 DEF CountedInv
  <2>5. /\ ttPc'[0] = ttPc[0] /\ ttPc'[t] = 6 /\ \A u \in Created \ {t} : ttPc'[u] = ttPc[u]
        /\ Passed' = Passed
    <3>1. ttPc'[0] = ttPc[0] /\ ttPc'[t] = 6 /\ \A u \in Created \ {t} : ttPc'[u] = ttPc[u]
      BY <1>4, <2>2
    <3> QED
      BY <1>5, <1>10, <3>1
  <2>6. Thcnt' = Thcnt
    BY <2>3 DEF Thcnt
  <2>7. \A u \in Created : ttPc'[u] \notin 2 .. 5
    BY <2>4, <2>5
  <2> QED
    BY <1>4, <2>2, <2>3, <2>5, <2>6, <2>7 DEF CountedInv, NoInterrupts
<1>11. CASE ttPc[t] = 6
  <2>1. OpStop(t)
    BY <1>2, <1>11, StepKind DEF TtStep, Stop
  <2>2. ttPc' = [ttPc EXCEPT ![t] = 0] /\ UNCHANGED <<ttIsr, ttHw, ttReg, tt>>
    BY <2>1 DEF OpStop, TtFixed
  <2>3. /\ ttPc'[0] = ttPc[0] /\ ttPc'[t] = 0 /\ \A u \in Created \ {t} : ttPc'[u] = ttPc[u]
        /\ Passed' = Passed
    <3>1. ttPc'[0] = ttPc[0] /\ ttPc'[t] = 0 /\ \A u \in Created \ {t} : ttPc'[u] = ttPc[u]
      BY <1>4, <2>2
    <3> QED
      BY <1>5, <1>11, <3>1
  <2>4. Thcnt' = Thcnt
    BY <2>2 DEF Thcnt
  <2> QED
    BY <1>4, <2>2, <2>3, <2>4 DEF CountedInv, NoInterrupts
<1> QED
  BY <1>3, <1>6, <1>7, <1>8, <1>9, <1>10, <1>11

(* Once an assertion has failed the program is over.                         *)
LEMMA FailStays ==
  ASSUME Shape, NEW t, TtStep(t) \/ OpLock(t) \/ TakeInterrupt(t), ~ tt'.fail
  PROVE  ~ tt.fail /\ ~ OpFail(t)
<1>1. ~ OpFail(t)
  BY DEF OpFail, Shape
<1>2. CASE OpCheck(t)
  <2>1. \E f : tt' = [tt EXCEPT !.fail = tt.fail \/ f]
    BY <1>2, Zenon DEF OpCheck
  <2>2. \E f : tt'.fail = (tt.fail \/ f)
    BY <2>1 DEF Shape
  <2> QED
    BY <1>1, <2>2, Zenon
<1>3. CASE ~ OpCheck(t)
  BY <1>1, <1>3, FailKept
<1> QED
  BY <1>1, <1>2, <1>3

LEMMA CountedStep ==
  ASSUME InText, Shape, ttProg = "mutex", ~ tt.fail => CountedInv, NEW t \in Threads,
         TtStep(t) \/ OpLock(t) \/ TakeInterrupt(t)
  PROVE  ~ tt'.fail => CountedInv'
<1> SUFFICES ASSUME ~ tt'.fail PROVE CountedInv'
  OBVIOUS
<1>1. CountedInv /\ ~ OpFail(t)
  BY FailStays
<1>2. ~ TakeInterrupt(t)
  BY <1>1, NoneTaken DEF CountedInv
<1>3. t # WORKERS
  <2> SUFFICES ASSUME t = WORKERS PROVE FALSE
    OBVIOUS
  <2>1. MutexThread(t) = << <<"fail">> >> /\ Len(MutexThread(t)) = 1
    BY ThreadTestsAssumption DEF MutexThread, THCNT
  <2>2. ttPc[t] = 1 /\ ttIsr[t] = 0
    <3>1. Len(TtText(t)) = 1
      BY <2>1, TextOf, CreatedThreads DEF Code
    <3>2. ttPc[t] \in Nat /\ ttPc[t] <= 1 /\ ttIsr[t] = 0
      BY <1>1, <3>1 DEF CountedInv, NoInterrupts, InText
    <3>3. ttPc[t] > 0
      BY <1>2, StepKind
    <3> QED
      BY <3>2, <3>3
  <2>3. TtOp(t)[1] = "fail"
    BY <2>1, <2>2, TextPlace, CreatedThreads DEF Code
  <2> QED
    BY <1>1, <1>2, <2>3, StepKind DEF TtStep
<1> QED
  BY <1>1, <1>2, <1>3, CreatedThreads, CountedMainStep, CountedThreadStep

-----------------------------------------------------------------------------
(* bestwait.c: thcnt, thread 1 and the one interrupt at every place of main. *)

(* Main has not raised the interrupt.                                        *)
NotRaised ==
    /\ tt.ipend = {} /\ ttIsr[1] = 0
    /\ ttPc[0] \in 1 .. 3 => ttPc[1] = 0
    /\ ttPc[0] \in 2 .. 3 => Thcnt = 1
    /\ ttPc[0] \in 4 .. 6 => \/ ttPc[1] = 1 /\ Thcnt = 1
                             \/ ttPc[1] = 2 /\ Thcnt = 1 /\ ttReg[1] = 1
                             \/ ttPc[1] = 3 /\ Thcnt = 2
                             \/ ttPc[1] = 4 /\ Thcnt = 2 /\ 1 \in tt.waiting
    /\ ttPc[0] \in 5 .. 6 => ttPc[1] \in {3, 4}

(* It has: the interrupt is pending, in the handler or handled, and only     *)
(* then does thread 1 leave the wait.                                        *)
WasRaised ==
    \/ tt.ipend = {4} /\ ttIsr[1] = 0 /\ ttPc[1] \in {3, 4}
       /\ (ttPc[1] = 4 => 1 \in tt.waiting)
    \/ tt.ipend = {} /\ ttIsr[1] \in {1, 2} /\ (ttIsr[1] = 2 => Thcnt = 4) /\ ttPc[1] \in {3, 4}
    \/ tt.ipend = {} /\ ttIsr[1] = 0 /\ Thcnt = 4 /\ ttPc[1] \in {3, 4, 6}
    \/ tt.ipend = {} /\ ttIsr[1] = 0 /\ Thcnt = 5 /\ ttPc[1] \in {7, 0}

BestwaitInv ==
    /\ ttHw = Threads /\ DOMAIN tt.mem = Cells /\ DOMAIN tt.imask = Threads
    /\ DOMAIN ttReg = Threads
    /\ \A t \in Threads \ {0, 1} : ttPc[t] = 0
    /\ \A t \in Threads \ {1} : ttIsr[t] = 0
    /\ ttPc[0] \in 0 .. 9
    /\ ttPc[0] \in {0} \cup 3 .. 9 => tt.imask[0] = TestInts
    /\ ttPc[0] \in 1 .. 6 => NotRaised
    /\ ttPc[0] \in {0} \cup 7 .. 9 => WasRaised
    /\ ttPc[0] \in {0} \cup 8 .. 9 => ttPc[1] = 0
    /\ tt.fail = FALSE

LEMMA BestwaitMainStep ==
  ASSUME InText, Shape, ttProg = "bestwait", BestwaitInv, TtStep(0) \/ OpLock(0)
  PROVE  BestwaitInv'
<1> USE ZeroIsThread, ThcntCell
<1>1. ttPc[0] \in 1 .. 9 /\ ttPc[0] > 0 /\ ttIsr[0] = 0
  <2>1. ttPc[0] > 0
    BY StepKind
  <2> QED
    BY <2>1 DEF BestwaitInv
<1>2. TtOp(0) = BestwaitMain[ttPc[0]]
  BY <1>1, TextPlace DEF Code
<1>p. ttPc \in [Threads -> Nat]
  BY DEF InText
<1>3. CASE ttPc[0] = 1
  <2>1. TtOp(0)[1] = "set" /\ TtOp(0)[2] = Var("thcnt") /\ TtOp(0)[3] = 1
    BY <1>2, <1>3 DEF BestwaitMain, Set
  <2>2. OpStore(0)
    BY <2>1, StepKind DEF TtStep
  <2>3. tt' = [tt EXCEPT !.mem[Var("thcnt")] = 1]
    BY <2>1, <2>2 DEF OpStore, At, Arg, Arg2
  <2>4. /\ tt'.mem = [tt.mem EXCEPT ![Var("thcnt")] = 1] /\ tt'.ipend = tt.ipend /\ tt'.fail = tt.fail
        /\ tt'.imask = tt.imask /\ tt'.waiting = tt.waiting
    BY <2>3 DEF Shape
  <2>5. /\ ttPc' = [ttPc EXCEPT ![0] = 2] /\ ttIsr' = ttIsr /\ ttHw' = ttHw /\ ttReg' = ttReg
    <3>1. ttReg' = ttReg
      BY <2>2 DEF OpStore
    <3> QED
      BY <3>1, <1>1, <1>3, <2>2, OnwardsText DEF Onwards
  <2>6. Thcnt' = 1 /\ DOMAIN tt'.mem = Cells
    BY <2>4 DEF Thcnt, BestwaitInv
  <2>7. ttPc'[0] = 2 /\ \A u \in Threads \ {0} : ttPc'[u] = ttPc[u]
    BY <1>p, <2>5
  <2>8. NotRaised'
    BY <1>3, <2>4, <2>5, <2>6, <2>7 DEF NotRaised, BestwaitInv
  <2> QED
    BY <1>3, <2>4, <2>5, <2>6, <2>7, <2>8 DEF BestwaitInv
<1>4. CASE ttPc[0] = 2
  <2>1. TtOp(0)[1] = "imask" /\ TtOp(0)[2] = 0 /\ TtOp(0)[3] = TestInts
    BY <1>2, <1>4 DEF BestwaitMain, Imask
  <2>2. OpImask(0)
    BY <2>1, StepKind DEF TtStep
  <2>3. tt' = [tt EXCEPT !.imask[0] = TestInts]
    BY <2>1, <2>2 DEF OpImask, At, Arg, Arg2
  <2>4. /\ tt'.mem = tt.mem /\ tt'.ipend = tt.ipend /\ tt'.fail = tt.fail
        /\ tt'.imask = [tt.imask EXCEPT ![0] = TestInts] /\ tt'.waiting = tt.waiting
    BY <2>3 DEF Shape
  <2>5. /\ ttPc' = [ttPc EXCEPT ![0] = 3] /\ ttIsr' = ttIsr /\ ttHw' = ttHw /\ ttReg' = ttReg
    <3>1. ttReg' = ttReg
      BY <2>2 DEF OpImask
    <3> QED
      BY <3>1, <1>1, <1>4, <2>2, OnwardsText DEF Onwards
  <2>6. Thcnt' = Thcnt /\ tt'.imask[0] = TestInts /\ DOMAIN tt'.imask = Threads
    BY <2>4 DEF Thcnt, BestwaitInv
  <2>7. ttPc'[0] = 3 /\ \A u \in Threads \ {0} : ttPc'[u] = ttPc[u]
    BY <1>p, <2>5
  <2>8. NotRaised'
    BY <1>4, <2>4, <2>5, <2>6, <2>7 DEF NotRaised, BestwaitInv
  <2> QED
    BY <1>4, <2>4, <2>5, <2>6, <2>7, <2>8 DEF BestwaitInv
<1>5. CASE ttPc[0] = 3
  <2>1. TtOp(0)[1] = "create" /\ TtOp(0)[2] = {1}
    BY <1>2, <1>5 DEF BestwaitMain, Create
  <2>2. OpCreate(0)
    BY <2>1, StepKind DEF TtStep
  <2>3. /\ ttPc' = [u \in Threads |-> IF u = 0 THEN ttPc[0] + 1
                                      ELSE IF u \in {1} \cap ttHw THEN 1 ELSE ttPc[u]]
        /\ ttIsr' = ttIsr /\ ttHw' = ttHw /\ tt' = tt /\ ttReg' = ttReg
    BY <2>1, <2>2 DEF OpCreate, Arg, TtFixed
  <2>4. ttPc'[0] = 4 /\ ttPc'[1] = 1 /\ \A u \in Threads \ {0, 1} : ttPc'[u] = ttPc[u]
    BY <1>5, <2>3 DEF BestwaitInv
  <2>5. Thcnt' = Thcnt
    BY <2>3 DEF Thcnt
  <2>8. NotRaised'
    BY <1>5, <2>3, <2>4, <2>5 DEF NotRaised, BestwaitInv
  <2> QED
    BY <1>5, <2>3, <2>4, <2>5, <2>8 DEF BestwaitInv
<1>6. CASE ttPc[0] = 4
  <2>1. TtOp(0)[1] = "until" /\ TtOp(0)[2] = Var("thcnt") /\ TtOp(0)[3] = 2
    BY <1>2, <1>6 DEF BestwaitMain, Until
  <2>2. OpUntil(0)
    BY <2>1, StepKind DEF TtStep
  <2>3. Thcnt >= 2 /\ tt' = tt /\ ttReg' = ttReg
    BY <2>1, <2>2 DEF OpUntil, Arg, Arg2, Thcnt
  <2>5. /\ ttPc' = [ttPc EXCEPT ![0] = 5] /\ ttIsr' = ttIsr /\ ttHw' = ttHw
    BY <1>1, <1>6, <2>2, OnwardsText DEF Onwards
  <2>6. Thcnt' = Thcnt
    BY <2>3 DEF Thcnt
  <2>7. ttPc'[0] = 5 /\ \A u \in Threads \ {0} : ttPc'[u] = ttPc[u]
    BY <1>p, <2>5
  <2>9. NotRaised
    BY <1>6 DEF BestwaitInv
  <2>8. NotRaised'
    BY <1>6, <2>9, <2>3, <2>5, <2>6, <2>7 DEF NotRaised
  <2> QED
    BY <1>6, <2>3, <2>5, <2>6, <2>7, <2>8 DEF BestwaitInv
<1>7. CASE ttPc[0] = 5
  <2>1. TtOp(0)[1] = "jeq" /\ TtOp(0)[2] = Var("thcnt") /\ TtOp(0)[3] = 5
    BY <1>2, <1>7 DEF BestwaitMain, Jeq
  <2>2. OpJump(0)
    BY <2>1, StepKind DEF TtStep
  <2>9. NotRaised /\ Thcnt = 2
    BY <1>7 DEF BestwaitInv, NotRaised
  <2>3. GotoOp(0, 6)
    BY <1>7, <2>1, <2>2, <2>9 DEF OpJump, At, Arg, Arg2, Thcnt
  <2>4. tt' = tt /\ ttReg' = ttReg /\ ttHw' = ttHw
    BY <2>2 DEF OpJump, TtFixed
  <2>5. ttPc' = [ttPc EXCEPT ![0] = 6] /\ ttIsr' = ttIsr
    BY <1>1, <2>3 DEF GotoOp
  <2>6. Thcnt' = Thcnt
    BY <2>4 DEF Thcnt
  <2>7. ttPc'[0] = 6 /\ \A u \in Threads \ {0} : ttPc'[u] = ttPc[u]
    BY <1>p, <2>5
  <2>8. NotRaised'
    BY <1>7, <2>9, <2>4, <2>5, <2>6, <2>7 DEF NotRaised
  <2> QED
    BY <1>7, <2>4, <2>5, <2>6, <2>7, <2>8 DEF BestwaitInv
<1>8. CASE ttPc[0] = 6
  <2>1. TtOp(0)[1] = "swi" /\ TtOp(0)[2] = {4}
    BY <1>2, <1>8 DEF BestwaitMain, Swi
  <2>2. OpSwi(0)
    BY <2>1, StepKind DEF TtStep
  <2>3. PICK rs : tt' = [tt EXCEPT !.ipend = @ \cup {4}, !.raised = rs]
    BY <2>1, <2>2 DEF OpSwi, Arg
  <2>9. NotRaised /\ Thcnt = 2
    BY <1>8 DEF BestwaitInv, NotRaised
  <2>4. /\ tt'.mem = tt.mem /\ tt'.ipend = {4} /\ tt'.fail = tt.fail
        /\ tt'.imask = tt.imask /\ tt'.waiting = tt.waiting
    BY <2>3, <2>9 DEF Shape, NotRaised
  <2>5. /\ ttPc' = [ttPc EXCEPT ![0] = 7] /\ ttIsr' = ttIsr /\ ttHw' = ttHw /\ ttReg' = ttReg
    <3>1. ttReg' = ttReg
      BY <2>2 DEF OpSwi
    <3> QED
      BY <3>1, <1>1, <1>8, <2>2, OnwardsText DEF Onwards
  <2>7. ttPc'[0] = 7 /\ \A u \in Threads \ {0} : ttPc'[u] = ttPc[u]
    BY <1>p, <2>5
  <2>8. WasRaised'
    BY <1>8, <2>9, <2>4, <2>5, <2>7 DEF NotRaised, WasRaised
  <2> QED
    BY <1>8, <2>4, <2>5, <2>7, <2>8 DEF BestwaitInv
<1>9. CASE ttPc[0] = 7
  <2>1. TtOp(0)[1] = "join" /\ TtOp(0)[2] = {1}
    BY <1>2, <1>9 DEF BestwaitMain, Join
  <2>2. OpJoin(0)
    BY <2>1, StepKind DEF TtStep
  <2>3. ttPc[1] = 0 /\ tt' = tt /\ ttReg' = ttReg
    BY <2>1, <2>2 DEF OpJoin, Arg
  <2>5. /\ ttPc' = [ttPc EXCEPT ![0] = 8] /\ ttIsr' = ttIsr /\ ttHw' = ttHw
    BY <1>1, <1>9, <2>2, OnwardsText DEF Onwards
  <2>7. ttPc'[0] = 8 /\ \A u \in Threads \ {0} : ttPc'[u] = ttPc[u]
    BY <1>p, <2>5
  <2>8. WasRaised'
    BY <1>9, <2>3, <2>5, <2>7 DEF BestwaitInv, WasRaised, Thcnt
  <2> QED
    BY <1>9, <2>3, <2>5, <2>7, <2>8 DEF BestwaitInv
<1>10. CASE ttPc[0] = 8
  <2>1. TtOp(0)[1] = "check" /\ TtOp(0)[2] = Var("thcnt") /\ TtOp(0)[3] = 5
    BY <1>2, <1>10 DEF BestwaitMain, Check
  <2>2. OpCheck(0)
    BY <2>1, StepKind DEF TtStep
  <2>3. tt' = [tt EXCEPT !.fail = @ \/ Thcnt # 5]
    BY <2>1, <2>2 DEF OpCheck, At, Arg, Arg2, Thcnt
  <2>9. WasRaised /\ ttPc[1] = 0 /\ Thcnt = 5
    BY <1>10 DEF BestwaitInv, WasRaised
  <2>4. /\ tt'.mem = tt.mem /\ tt'.ipend = tt.ipend /\ tt'.fail = FALSE
        /\ tt'.imask = tt.imask /\ tt'.waiting = tt.waiting
    BY <2>3, <2>9 DEF Shape, BestwaitInv
  <2>5. /\ ttPc' = [ttPc EXCEPT ![0] = 9] /\ ttIsr' = ttIsr /\ ttHw' = ttHw /\ ttReg' = ttReg
    <3>1. ttReg' = ttReg
      BY <2>2 DEF OpCheck
    <3> QED
      BY <3>1, <1>1, <1>10, <2>2, OnwardsText DEF Onwards
  <2>7. ttPc'[0] = 9 /\ \A u \in Threads \ {0} : ttPc'[u] = ttPc[u]
    BY <1>p, <2>5
  <2>8. WasRaised'
    BY <2>9, <2>4, <2>5, <2>7 DEF WasRaised, Thcnt
  <2> QED
    BY <1>10, <2>4, <2>5, <2>7, <2>8, <2>9 DEF BestwaitInv
<1>11. CASE ttPc[0] = 9
  <2>1. TtOp(0)[1] = "stop"
    BY <1>2, <1>11 DEF BestwaitMain, Stop
  <2>2. OpStop(0)
    BY <2>1, StepKind DEF TtStep
  <2>3. /\ ttPc' = [ttPc EXCEPT ![0] = 0] /\ ttIsr' = ttIsr /\ ttHw' = ttHw /\ tt' = tt
        /\ ttReg' = ttReg
    BY <2>2 DEF OpStop, TtFixed
  <2>7. ttPc'[0] = 0 /\ \A u \in Threads \ {0} : ttPc'[u] = ttPc[u]
    BY <1>p, <2>3
  <2>8. WasRaised'
    BY <1>11, <2>3, <2>7 DEF BestwaitInv, WasRaised, Thcnt
  <2> QED
    BY <1>11, <2>3, <2>7, <2>8 DEF BestwaitInv
<1> QED
  BY <1>1, <1>3, <1>4, <1>5, <1>6, <1>7, <1>8, <1>9, <1>10, <1>11

LEMMA BestwaitThreadStep ==
  ASSUME InText, Shape, ttProg = "bestwait", BestwaitInv, TtStep(1) \/ OpLock(1), ttIsr[1] = 0
  PROVE  BestwaitInv'
<1> USE ZeroIsThread, ThcntCell
<1>1. ttPc[1] > 0 /\ 1 \notin tt.waiting
  BY StepKind
<1>2. TtOp(1) = thread1[ttPc[1]]
  BY <1>1, TextPlace DEF Code
<1>p. ttPc \in [Threads -> Nat]
  BY DEF InText
<1>q. ttPc[0] \in 4 .. 6 \/ ttPc[0] = 7
  BY <1>1 DEF BestwaitInv, NotRaised
<1>r. /\ ttPc[0] \in 4 .. 6 => NotRaised
      /\ ttPc[0] = 7 => WasRaised
  BY DEF BestwaitInv
<1>s. ttPc[1] \in {1, 2, 3, 4, 6, 7}
  BY <1>1, <1>q, <1>r DEF NotRaised, WasRaised
<1>3. CASE ttPc[1] = 1
  <2>1. TtOp(1)[1] = "load" /\ TtOp(1)[2] = Var("thcnt")
    BY <1>2, <1>3 DEF thread1, Load
  <2>2. OpLoad(1)
    BY <2>1, StepKind DEF TtStep
  <2>3. ttReg' = [ttReg EXCEPT ![1] = Thcnt] /\ tt' = tt
    BY <2>1, <2>2 DEF OpLoad, Arg, Thcnt
  <2>4. ttPc' = [ttPc EXCEPT ![1] = 2] /\ ttIsr' = ttIsr /\ ttHw' = ttHw
    BY <1>3, <2>2, OnwardsText DEF Onwards
  <2>5. ttPc'[1] = 2 /\ \A u \in Threads \ {1} : ttPc'[u] = ttPc[u]
    BY <1>p, <2>4
  <2>6. ttPc[0] = 4 /\ Thcnt = 1
    BY <1>3, <1>q, <1>r DEF NotRaised, WasRaised
  <2>7. ttReg'[1] = 1 /\ DOMAIN ttReg' = Threads
    BY <2>3, <2>6 DEF BestwaitInv
  <2>8. NotRaised'
    BY <1>r, <2>3, <2>4, <2>5, <2>6, <2>7 DEF NotRaised, Thcnt
  <2> QED
    BY <2>3, <2>4, <2>5, <2>6, <2>7, <2>8 DEF BestwaitInv
<1>4. CASE ttPc[1] = 2
  <2>1. TtOp(1)[1] = "store" /\ TtOp(1)[2] = Var("thcnt")
    BY <1>2, <1>4 DEF thread1, Store
  <2>2. OpStore(1)
    BY <2>1, StepKind DEF TtStep
  <2>3. tt' = [tt EXCEPT !.mem[Var("thcnt")] = ttReg[1] + 1] /\ ttReg' = ttReg
    BY <2>1, <2>2 DEF OpStore, At, Arg
  <2>4. ttPc' = [ttPc EXCEPT ![1] = 3] /\ ttIsr' = ttIsr /\ ttHw' = ttHw
    BY <1>4, <2>2, OnwardsText DEF Onwards
  <2>5. ttPc'[1] = 3 /\ \A u \in Threads \ {1} : ttPc'[u] = ttPc[u]
    BY <1>p, <2>4
  <2>6. ttPc[0] = 4 /\ ttReg[1] = 1
    BY <1>4, <1>q, <1>r DEF NotRaised, WasRaised
  <2>7. /\ tt'.mem = [tt.mem EXCEPT ![Var("thcnt")] = 2] /\ tt'.ipend = tt.ipend /\ tt'.fail = tt.fail
        /\ tt'.imask = tt.imask /\ tt'.waiting = tt.waiting
    BY <2>3, <2>6 DEF Shape
  <2>8. Thcnt' = 2 /\ DOMAIN tt'.mem = Cells
    BY <2>7 DEF Thcnt, BestwaitInv
  <2>9. NotRaised'
    BY <1>r, <2>4, <2>5, <2>6, <2>7, <2>8 DEF NotRaised
  <2> QED
    BY <2>3, <2>4, <2>5, <2>6, <2>7, <2>8, <2>9 DEF BestwaitInv
<1>5. CASE ttPc[1] = 3
  <2>1. TtOp(1)[1] = "wait"
    BY <1>2, <1>5 DEF thread1
  <2>2. OpWait(1)
    BY <2>1, StepKind DEF TtStep
  <2>3. tt' = [tt EXCEPT !.waiting = @ \cup {1}] /\ ttReg' = ttReg
    BY <2>2 DEF OpWait
  <2>4. ttPc' = [ttPc EXCEPT ![1] = 4] /\ ttIsr' = ttIsr /\ ttHw' = ttHw
    BY <1>5, <2>2, OnwardsText DEF Onwards
  <2>5. ttPc'[1] = 4 /\ \A u \in Threads \ {1} : ttPc'[u] = ttPc[u]
    BY <1>p, <2>4
  <2>6. /\ tt'.mem = tt.mem /\ tt'.ipend = tt.ipend /\ tt'.fail = tt.fail
        /\ tt'.imask = tt.imask /\ 1 \in tt'.waiting
    BY <2>3 DEF Shape
  <2>7. Thcnt' = Thcnt
    BY <2>6 DEF Thcnt
  <2>8. ttPc[0] \in 4 .. 6 => NotRaised'
    BY <1>5, <1>r, <2>4, <2>5, <2>6, <2>7 DEF NotRaised
  <2>9. ttPc[0] = 7 => WasRaised'
    BY <1>5, <1>r, <2>4, <2>5, <2>6, <2>7 DEF WasRaised
  <2> QED
    BY <1>q, <2>3, <2>4, <2>5, <2>6, <2>7, <2>8, <2>9 DEF BestwaitInv
<1>6. CASE ttPc[1] = 4
  <2>0. ttPc[0] = 7 /\ Thcnt = 4 /\ tt.ipend = {}
    BY <1>1, <1>6, <1>q, <1>r DEF NotRaised, WasRaised
  <2>1. TtOp(1)[1] = "jeq" /\ TtOp(1)[2] = Var("thcnt") /\ TtOp(1)[3] = 4 /\ TtOp(1)[4] = 6
    BY <1>2, <1>6 DEF thread1, Jeq
  <2>2. OpJump(1)
    BY <2>1, StepKind DEF TtStep
  <2>3. GotoOp(1, 6)
    BY <2>0, <2>1, <2>2 DEF OpJump, At, Arg, Arg2, Thcnt
  <2>4. tt' = tt /\ ttReg' = ttReg /\ ttHw' = ttHw
    BY <2>2 DEF OpJump, TtFixed
  <2>5. ttPc' = [ttPc EXCEPT ![1] = 6] /\ ttIsr' = ttIsr
    BY <2>3 DEF GotoOp
  <2>6. ttPc'[1] = 6 /\ \A u \in Threads \ {1} : ttPc'[u] = ttPc[u]
    BY <1>p, <2>5
  <2>7. WasRaised'
    BY <2>0, <2>4, <2>5, <2>6 DEF WasRaised, Thcnt
  <2> QED
    BY <2>0, <2>4, <2>5, <2>6, <2>7 DEF BestwaitInv
<1>7. CASE ttPc[1] = 6
  <2>0. ttPc[0] = 7 /\ tt.ipend = {}
    BY <1>7, <1>q, <1>r DEF NotRaised, WasRaised
  <2>1. TtOp(1)[1] = "set" /\ TtOp(1)[2] = Var("thcnt") /\ TtOp(1)[3] = 5
    BY <1>2, <1>7 DEF thread1, Set
  <2>2. OpStore(1)
    BY <2>1, StepKind DEF TtStep
  <2>3. tt' = [tt EXCEPT !.mem[Var("thcnt")] = 5] /\ ttReg' = ttReg
    BY <2>1, <2>2 DEF OpStore, At, Arg, Arg2
  <2>4. ttPc' = [ttPc EXCEPT ![1] = 7] /\ ttIsr' = ttIsr /\ ttHw' = ttHw
    BY <1>7, <2>2, OnwardsText DEF Onwards
  <2>5. ttPc'[1] = 7 /\ \A u \in Threads \ {1} : ttPc'[u] = ttPc[u]
    BY <1>p, <2>4
  <2>6. /\ tt'.mem = [tt.mem EXCEPT ![Var("thcnt")] = 5] /\ tt'.ipend = tt.ipend /\ tt'.fail = tt.fail
        /\ tt'.imask = tt.imask /\ tt'.waiting = tt.waiting
    BY <2>3 DEF Shape
  <2>7. Thcnt' = 5 /\ DOMAIN tt'.mem = Cells
    BY <2>6 DEF Thcnt, BestwaitInv
  <2>8. WasRaised'
    BY <2>0, <2>4, <2>5, <2>6, <2>7 DEF WasRaised
  <2> QED
    BY <2>0, <2>3, <2>4, <2>5, <2>6, <2>7, <2>8 DEF BestwaitInv
<1>8. CASE ttPc[1] = 7
  <2>0. ttPc[0] = 7 /\ tt.ipend = {} /\ Thcnt = 5
    BY <1>8, <1>q, <1>r DEF NotRaised, WasRaised
  <2>1. TtOp(1)[1] = "stop"
    BY <1>2, <1>8 DEF thread1, Stop
  <2>2. OpStop(1)
    BY <2>1, StepKind DEF TtStep
  <2>3. /\ ttPc' = [ttPc EXCEPT ![1] = 0] /\ ttIsr' = ttIsr /\ ttHw' = ttHw /\ tt' = tt
        /\ ttReg' = ttReg
    BY <2>2 DEF OpStop, TtFixed
  <2>5. ttPc'[1] = 0 /\ \A u \in Threads \ {1} : ttPc'[u] = ttPc[u]
    BY <1>p, <2>3
  <2>8. WasRaised'
    BY <2>0, <2>3, <2>5 DEF WasRaised, Thcnt
  <2> QED
    BY <2>0, <2>3, <2>5, <2>8 DEF BestwaitInv
<1> QED
  BY <1>s, <1>3, <1>4, <1>5, <1>6, <1>7, <1>8

LEMMA BestwaitHandlerStep ==
  ASSUME InText, Shape, ttProg = "bestwait", BestwaitInv, TtStep(1) \/ OpLock(1), ttIsr[1] > 0
  PROVE  BestwaitInv'
<1> USE ZeroIsThread, ThcntCell
<1>1. /\ ttPc[0] \in {0} \cup 7 .. 9 /\ WasRaised
      /\ tt.ipend = {} /\ ttIsr[1] \in {1, 2} /\ (ttIsr[1] = 2 => Thcnt = 4) /\ ttPc[1] \in {3, 4}
  BY DEF BestwaitInv, NotRaised, WasRaised
<1>2. TtOp(1) = <<Set(Var("thcnt"), 4), <<"return">> >>[ttIsr[1]]
  BY <1>1, HandlerPlace DEF HandlerCode
<1>p. ttIsr \in [Threads -> Nat]
  BY DEF InText
<1>3. CASE ttIsr[1] = 1
  <2>1. TtOp(1)[1] = "set" /\ TtOp(1)[2] = Var("thcnt") /\ TtOp(1)[3] = 4
    BY <1>2, <1>3 DEF Set
  <2>2. OpStore(1)
    BY <2>1, StepKind DEF TtStep
  <2>3. tt' = [tt EXCEPT !.mem[Var("thcnt")] = 4] /\ ttReg' = ttReg /\ NextOp(1)
    BY <2>1, <2>2 DEF OpStore, At, Arg, Arg2
  <2>4. ttIsr' = [ttIsr EXCEPT ![1] = 2] /\ ttPc' = ttPc /\ ttHw' = ttHw
    BY <1>3, <2>3 DEF NextOp, GotoOp
  <2>5. ttIsr'[1] = 2 /\ \A u \in Threads \ {1} : ttIsr'[u] = ttIsr[u]
    BY <1>p, <2>4
  <2>6. /\ tt'.mem = [tt.mem EXCEPT ![Var("thcnt")] = 4] /\ tt'.ipend = tt.ipend /\ tt'.fail = tt.fail
        /\ tt'.imask = tt.imask /\ tt'.waiting = tt.waiting
    BY <2>3 DEF Shape
  <2>7. Thcnt' = 4 /\ DOMAIN tt'.mem = Cells
    BY <2>6 DEF Thcnt, BestwaitInv
  <2>8. WasRaised'
    BY <1>1, <2>4, <2>5, <2>6, <2>7 DEF WasRaised
  <2> QED
    BY <1>1, <2>3, <2>4, <2>5, <2>6, <2>7, <2>8 DEF BestwaitInv
<1>4. CASE ttIsr[1] = 2
  <2>1. TtOp(1)[1] = "return"
    BY <1>2, <1>4
  <2>2. ReturnFromInterrupt(1)
    BY <2>1, StepKind DEF TtStep
  <2>3. /\ tt' = [tt EXCEPT !.iad = @ \ {ttCur[1]}] /\ ttReg' = ttReg /\ ttHw' = ttHw
        /\ ttIsr' = [ttIsr EXCEPT ![1] = 0] /\ ttPc' = ttPc
    BY <2>2 DEF ReturnFromInterrupt, TtFixed
  <2>5. ttIsr'[1] = 0 /\ \A u \in Threads \ {1} : ttIsr'[u] = ttIsr[u]
    BY <1>p, <2>3
  <2>6. /\ tt'.mem = tt.mem /\ tt'.ipend = tt.ipend /\ tt'.fail = tt.fail
        /\ tt'.imask = tt.imask /\ tt'.waiting = tt.waiting
    BY <2>3 DEF Shape
  <2>8. WasRaised'
    BY <1>1, <1>4, <2>3, <2>5, <2>6 DEF WasRaised, Thcnt
  <2> QED
    BY <1>1, <2>3, <2>5, <2>6, <2>8 DEF BestwaitInv
<1> QED
  BY <1>1, <1>3, <1>4

LEMMA BestwaitStep ==
  ASSUME InText, Shape, ttProg = "bestwait", BestwaitInv, NEW t \in Threads,
         TtStep(t) \/ OpLock(t) \/ TakeInterrupt(t)
  PROVE  BestwaitInv'
<1> USE ZeroIsThread, ThcntCell
<1>p. ttPc \in [Threads -> Nat] /\ ttIsr \in [Threads -> Nat]
  BY DEF InText
<1>1. CASE TtStep(t) \/ OpLock(t)
  <2>1. ttPc[t] > 0
    BY <1>1, StepKind
  <2>2. t \in {0, 1}
    BY <2>1 DEF BestwaitInv
  <2>3. ttIsr[1] = 0 \/ ttIsr[1] > 0
    BY <1>p
  <2> QED
    BY <1>1, <2>2, <2>3, BestwaitMainStep, BestwaitThreadStep, BestwaitHandlerStep
<1>2. CASE TakeInterrupt(t)
  <2>1. PICK i \in TestInts :
          /\ Takes(t, i)
          /\ tt' = [tt EXCEPT !.ipend = @ \ {i}, !.iad = @ \cup {i}, !.waiting = @ \ {t}]
          /\ ttIsr' = [ttIsr EXCEPT ![t] = 1]
          /\ ttHw' = ttHw /\ ttPc' = ttPc /\ ttReg' = ttReg
    BY <1>2 DEF TakeInterrupt
  <2>2. ttPc[t] > 0 /\ ttIsr[t] = 0 /\ i \in tt.ipend /\ i \notin tt.imask[t]
    BY <2>1 DEF Takes
  <2>3. ttPc[0] \in {0} \cup 7 .. 9 /\ WasRaised
    BY <2>2 DEF BestwaitInv, NotRaised
  <2>4. t = 1
    <3>1. t \in {0, 1}
      BY <2>2 DEF BestwaitInv
    <3>2. tt.imask[0] = TestInts
      BY <2>3 DEF BestwaitInv
    <3> QED
      BY <2>2, <3>1, <3>2
  <2>5. tt.ipend = {4} /\ ttPc[1] \in {3, 4} /\ i = 4
    BY <2>2, <2>3 DEF WasRaised
  <2>6. /\ tt'.mem = tt.mem /\ tt'.ipend = {} /\ tt'.fail = tt.fail
        /\ tt'.imask = tt.imask
    BY <2>1, <2>5 DEF Shape
  <2>7. ttIsr'[1] = 1 /\ \A u \in Threads \ {1} : ttIsr'[u] = ttIsr[u]
    BY <1>p, <2>1, <2>4
  <2>8. WasRaised'
    BY <2>1, <2>5, <2>6, <2>7 DEF WasRaised
  <2> QED
    BY <2>1, <2>3, <2>6, <2>7, <2>8 DEF BestwaitInv
<1> QED
  BY <1>1, <1>2

(* swi.c, swi2.c: the accounts of an interrupt.                              *)
Count(i) == tt.mem[<<"count", i>>]
Servers(i) == {t \in Threads : ttIsr[t] \in 1 .. 2 /\ ttCur[t] = i}

(* Nothing is outstanding, or one interrupt is: pending, or in one handler,  *)
(* whose loaded count is the present one.                                    *)
Idle(i) == i \notin tt.ipend /\ Servers(i) = {} /\ tt.raised[i] = Count(i)
Pending(i) == i \in tt.ipend /\ Servers(i) = {} /\ tt.raised[i] = Count(i) + 1
Served(i) ==
    /\ i \notin tt.ipend /\ tt.raised[i] = Count(i) + 1
    /\ \E t \in Threads : Servers(i) = {t} /\ (ttIsr[t] = 2 => ttReg[t] = Count(i))

CountInv ==
    /\ DOMAIN tt.mem = Cells /\ DOMAIN tt.raised = TestInts /\ DOMAIN ttReg = Threads
    /\ \A i \in TestInts : Count(i) \in Nat /\ (Idle(i) \/ Pending(i) \/ Served(i))

LEMMA CountCells == \A i \in TestInts : <<"count", i>> \in Cells
BY DEF Cells

(* Every raise is counted, pending or being served.                          *)
LEMMA CountSums ==
  ASSUME CountInv, NEW i \in TestInts
  PROVE  tt.raised[i] = Count(i) + (IF i \in tt.ipend THEN 1 ELSE 0) + Cardinality(Servers(i))
<1>1. Count(i) \in Nat
  BY DEF CountInv
<1>2. CASE Idle(i)
  BY <1>1, <1>2, FS_EmptySet DEF Idle
<1>3. CASE Pending(i)
  BY <1>1, <1>3, FS_EmptySet DEF Pending
<1>4. CASE Served(i)
  <2>1. Cardinality(Servers(i)) = 1
    BY <1>4, FS_Singleton DEF Served
  <2> QED
    BY <1>1, <1>4, <2>1 DEF Served
<1> QED
  BY <1>2, <1>3, <1>4 DEF CountInv

(* Steps that touch neither interrupts nor counts.                           *)
LEMMA CountKept ==
  ASSUME CountInv, ttIsr' = ttIsr, ttCur' = ttCur, ttReg' = ttReg, tt'.ipend = tt.ipend,
         tt'.raised = tt.raised, DOMAIN tt'.mem = Cells,
         \A i \in TestInts : Count(i)' = Count(i)
  PROVE  CountInv'
<1>1. \A i : Servers(i)' = Servers(i)
  BY DEF Servers
<1>2. ASSUME NEW i \in TestInts
      PROVE  Count(i)' \in Nat /\ (Idle(i)' \/ Pending(i)' \/ Served(i)')
  <2>1. Count(i)' = Count(i) /\ Count(i) \in Nat /\ (Idle(i) \/ Pending(i) \/ Served(i))
    BY DEF CountInv
  <2>2. Idle(i) => Idle(i)'
    BY <1>1, <2>1 DEF Idle
  <2>3. Pending(i) => Pending(i)'
    BY <1>1, <2>1 DEF Pending
  <2>4. Served(i) => Served(i)'
    BY <1>1, <2>1 DEF Served
  <2> QED
    BY <2>1, <2>2, <2>3, <2>4
<1> QED
  BY <1>2 DEF CountInv

(* What a step of a handler, or into one, leaves alone.                      *)
HandlerEffect ==
    /\ CountInv' /\ ttPc' = ttPc /\ tt'.raised = tt.raised
    /\ \A i \in TestInts : tt.raised[i] = Count(i) => Count(i)' = Count(i)

LEMMA TakeEffect ==
  ASSUME InText, Shape, CountInv, NEW t \in Threads, TakeInterrupt(t)
  PROVE  HandlerEffect
<1>1. PICK i \in TestInts :
        /\ Takes(t, i)
        /\ tt' = [tt EXCEPT !.ipend = @ \ {i}, !.iad = @ \cup {i}, !.waiting = @ \ {t}]
        /\ ttIsr' = [ttIsr EXCEPT ![t] = 1] /\ ttCur' = [ttCur EXCEPT ![t] = i]
        /\ ttPc' = ttPc /\ ttReg' = ttReg
  BY DEF TakeInterrupt
<1>2. ttIsr[t] = 0 /\ i \in tt.ipend
  BY <1>1 DEF Takes
<1>3. tt'.mem = tt.mem /\ tt'.raised = tt.raised /\ tt'.ipend = tt.ipend \ {i}
  BY <1>1 DEF Shape
<1>4. \A j : Count(j)' = Count(j)
  BY <1>3 DEF Count
<1>5. Pending(i)
  BY <1>2 DEF CountInv, Idle, Served
<1>6. /\ ttIsr'[t] = 1 /\ ttCur'[t] = i
      /\ \A u \in Threads \ {t} : ttIsr'[u] = ttIsr[u] /\ ttCur'[u] = ttCur[u]
  BY <1>1 DEF InText
<1>7. Servers(i)' = {t}
  BY <1>5, <1>6 DEF Servers, Pending
<1>8. ASSUME NEW j \in TestInts \ {i} PROVE Servers(j)' = Servers(j)
  BY <1>2, <1>6 DEF Servers
<1>9. Served(i)'
  BY <1>3, <1>4, <1>5, <1>6, <1>7 DEF Served, Pending
<1>10. ASSUME NEW j \in TestInts \ {i} PROVE Idle(j)' \/ Pending(j)' \/ Served(j)'
  <2>1. Idle(j) => Idle(j)'
    BY <1>3, <1>4, <1>8 DEF Idle
  <2>2. Pending(j) => Pending(j)'
    BY <1>3, <1>4, <1>8 DEF Pending
  <2>3. Served(j) => Served(j)'
    <3> SUFFICES ASSUME Served(j) PROVE Served(j)'
      OBVIOUS
    <3>1. PICK u \in Threads : Servers(j) = {u} /\ (ttIsr[u] = 2 => ttReg[u] = Count(j))
      BY DEF Served
    <3>2. u # t
      BY <3>1, <1>2 DEF Servers
    <3>3. ttIsr'[u] = ttIsr[u]
      BY <3>2, <1>6
    <3>4. Servers(j)' = {u} /\ (ttIsr'[u] = 2 => ttReg'[u] = Count(j)')
      BY <3>1, <3>3, <1>1, <1>4, <1>8
    <3> QED
      BY <3>4, <1>3, <1>4 DEF Served
  <2> QED
    BY <2>1, <2>2, <2>3 DEF CountInv
<1>11. CountInv'
  BY <1>1, <1>3, <1>4, <1>9, <1>10 DEF CountInv
<1> QED
  BY <1>1, <1>3, <1>4, <1>11 DEF HandlerEffect

Raising == {"swi", "swi2"}

LEMMA HandlerStepEffect ==
  ASSUME InText, Shape, CountInv, ttProg \in Raising, NEW t \in Threads, ttIsr[t] > 0,
         TtStep(t) \/ OpLock(t)
  PROVE  HandlerEffect
<1> DEFINE i == ttCur[t]
           s == <<Load(<<"count", i>>), Store(<<"count", i>>), <<"return">> >>
<1>0. i \in TestInts
  BY DEF InText
<1>1. TtOp(t) = s[ttIsr[t]]
  BY HandlerPlace DEF HandlerCode, Raising
<1>2. ttIsr[t] \in 1 .. 3
  <2>1. TtHandler(t) = s
    BY HandlerOf DEF HandlerCode, Raising
  <2>2. Long(s, 3)
    BY DEF Long
  <2>3. Len(TtHandler(t)) = 3
    BY <2>1, <2>2, LongLen
  <2>4. ttIsr[t] \in Nat /\ ttIsr[t] <= Len(TtHandler(t))
    BY DEF InText
  <2> QED
    BY <2>3, <2>4
<1>p. ttIsr \in [Threads -> Nat] /\ ttCur \in [Threads -> TestInts]
  BY DEF InText
<1>3. CASE ttIsr[t] = 1
  <2>1. TtOp(t)[1] = "load" /\ TtOp(t)[2] = <<"count", i>>
    BY <1>1, <1>3 DEF Load
  <2>2. OpLoad(t)
    BY <2>1, StepKind DEF TtStep
  <2>3. ttReg' = [ttReg EXCEPT ![t] = Count(i)] /\ tt' = tt /\ NextOp(t)
    BY <2>1, <2>2 DEF OpLoad, Arg, Count
  <2>4. ttIsr' = [ttIsr EXCEPT ![t] = 2] /\ ttPc' = ttPc /\ ttCur' = ttCur
    BY <1>3, <2>3 DEF NextOp, GotoOp
  <2>5. \A j : Count(j)' = Count(j)
    BY <2>3 DEF Count
  <2>6. /\ ttIsr'[t] = 2 /\ ttReg'[t] = Count(i)
        /\ \A u \in Threads \ {t} : ttIsr'[u] = ttIsr[u] /\ ttReg'[u] = ttReg[u]
    BY <1>p, <2>3, <2>4 DEF CountInv
  <2>7. \A j : Servers(j)' = Servers(j)
    BY <1>3, <2>4, <2>6 DEF Servers
  <2>8. t \in Servers(i)
    BY <1>3 DEF Servers
  <2>9. ASSUME NEW j \in TestInts PROVE Idle(j)' \/ Pending(j)' \/ Served(j)'
    <3>1. Idle(j) => Idle(j)'
      BY <2>3, <2>5, <2>7 DEF Idle
    <3>2. Pending(j) => Pending(j)'
      BY <2>3, <2>5, <2>7 DEF Pending
    <3>3. Served(j) => Served(j)'
      <4> SUFFICES ASSUME Served(j) PROVE Served(j)'
        OBVIOUS
      <4>1. PICK u \in Threads : Servers(j) = {u} /\ (ttIsr[u] = 2 => ttReg[u] = Count(j))
        BY DEF Served
      <4>2. CASE u = t
        <5>1. j = i
          BY <4>1, <4>2 DEF Servers
        <5> QED
          BY <5>1, <4>1, <4>2, <2>3, <2>5, <2>6, <2>7 DEF Served
      <4>3. CASE u # t
        BY <4>1, <4>3, <2>3, <2>5, <2>6, <2>7 DEF Served
      <4> QED
        BY <4>2, <4>3
    <3> QED
      BY <3>1, <3>2, <3>3 DEF CountInv
  <2>10. CountInv'
    BY <2>3, <2>5, <2>9 DEF CountInv
  <2> QED
    BY <2>3, <2>4, <2>5, <2>10 DEF HandlerEffect
<1>4. CASE ttIsr[t] = 2
  <2>1. TtOp(t)[1] = "store" /\ TtOp(t)[2] = <<"count", i>>
    BY <1>1, <1>4 DEF Store
  <2>2. OpStore(t)
    BY <2>1, StepKind DEF TtStep
  <2>3. tt' = [tt EXCEPT !.mem[<<"count", i>>] = ttReg[t] + 1] /\ ttReg' = ttReg /\ NextOp(t)
    BY <2>1, <2>2 DEF OpStore, At, Arg
  <2>4. ttIsr' = [ttIsr EXCEPT ![t] = 3] /\ ttPc' = ttPc /\ ttCur' = ttCur
    BY <1>4, <2>3 DEF NextOp, GotoOp
  <2>5. t \in Servers(i)
    BY <1>4 DEF Servers
  <2>6. Served(i) /\ Servers(i) = {t} /\ ttReg[t] = Count(i)
    <3>1. Served(i)
      BY <1>0, <2>5 DEF CountInv, Idle, Pending
    <3> QED
      BY <3>1, <2>5, <1>4 DEF Served
  <2>7. /\ tt'.mem = [tt.mem EXCEPT ![<<"count", i>>] = Count(i) + 1]
        /\ tt'.raised = tt.raised /\ tt'.ipend = tt.ipend
    BY <2>3, <2>6 DEF Shape
  <2>8. /\ Count(i)' = Count(i) + 1
        /\ \A j \in TestInts \ {i} : Count(j)' = Count(j)
        /\ DOMAIN tt'.mem = Cells
    <3> HIDE DEF i
    <3>1. \A j \in TestInts \ {i} : <<"count", j>> # <<"count", i>>
      OBVIOUS
    <3>2. DOMAIN tt.mem = Cells /\ <<"count", i>> \in Cells
      BY <1>0, CountCells DEF CountInv
    <3>3. tt'.mem[<<"count", i>>] = Count(i) + 1
      BY <2>7, <3>2
    <3>4. \A j \in TestInts \ {i} : tt'.mem[<<"count", j>>] = tt.mem[<<"count", j>>]
      BY <2>7, <3>1, <3>2, CountCells
    <3>5. ttCur' = ttCur
      BY <2>4
    <3>6. Count(i)' = tt'.mem[<<"count", i>>]
      BY <3>5 DEF Count, i
    <3> QED
      BY <2>7, <3>2, <3>3, <3>4, <3>6 DEF Count
  <2>9. ttIsr'[t] = 3 /\ \A u \in Threads \ {t} : ttIsr'[u] = ttIsr[u]
    BY <1>p, <2>4
  <2>10. Servers(i)' = {}
    <3>1. \A u \in Threads : ~(ttIsr'[u] \in 1 .. 2 /\ ttCur'[u] = i)
      BY <2>4, <2>6, <2>9 DEF Servers
    <3>2. ttCur'[t] = i
      BY <2>4
    <3> QED
      BY <3>1, <3>2 DEF Servers
  <2>11. ASSUME NEW j \in TestInts \ {i} PROVE Servers(j)' = Servers(j)
    BY <2>4, <2>9 DEF Servers
  <2>12. Count(i)' \in Nat /\ tt'.raised[i] = Count(i)' /\ i \notin tt'.ipend
    BY <1>0, <2>6, <2>7, <2>8 DEF CountInv, Served
  <2>13. ASSUME NEW j \in TestInts
         PROVE  Count(j)' \in Nat /\ (Idle(j)' \/ Pending(j)' \/ Served(j)')
    <3>1. CASE j = i
      <4>1. Count(j)' = Count(i)' /\ Servers(j)' = Servers(i)'
        BY <3>1, <2>4
      <4> QED
        BY <3>1, <4>1, <2>10, <2>12 DEF Idle
    <3>2. CASE j # i
      <4>1. j \in TestInts \ {i}
        BY <3>2
      <4>2. Count(j)' = Count(j) /\ Servers(j)' = Servers(j) /\ Count(j) \in Nat
        BY <4>1, <2>8, <2>11 DEF CountInv
      <4>3. Idle(j) => Idle(j)'
        BY <4>2, <2>7 DEF Idle
      <4>4. Pending(j) => Pending(j)'
        BY <4>2, <2>7 DEF Pending
      <4>5. Served(j) => Served(j)'
        <5> SUFFICES ASSUME Served(j) PROVE Served(j)'
          OBVIOUS
        <5>1. PICK u \in Threads : Servers(j) = {u} /\ (ttIsr[u] = 2 => ttReg[u] = Count(j))
          BY DEF Served
        <5>2. u # t
          BY <5>1, <3>2 DEF Servers
        <5>3. ttIsr'[u] = ttIsr[u]
          BY <5>2, <2>9
        <5> QED
          BY <5>1, <5>3, <4>2, <2>3, <2>7 DEF Served
      <4> QED
        BY <4>2, <4>3, <4>4, <4>5 DEF CountInv
    <3> QED
      BY <3>1, <3>2
  <2>14. CountInv'
    BY <2>3, <2>7, <2>8, <2>13 DEF CountInv
  <2>15. ASSUME NEW j \in TestInts, tt.raised[j] = Count(j) PROVE Count(j)' = Count(j)
    <3>1. j # i
      BY <2>15, <2>6, <1>0 DEF Served, CountInv
    <3> QED
      BY <3>1, <2>8
  <2> QED
    BY <2>4, <2>7, <2>14, <2>15 DEF HandlerEffect
<1>5. CASE ttIsr[t] = 3
  <2>1. TtOp(t)[1] = "return"
    BY <1>1, <1>5
  <2>2. ReturnFromInterrupt(t)
    BY <2>1, StepKind DEF TtStep
  <2>3. /\ tt' = [tt EXCEPT !.iad = @ \ {ttCur[t]}] /\ ttReg' = ttReg /\ ttCur' = ttCur
        /\ ttIsr' = [ttIsr EXCEPT ![t] = 0] /\ ttPc' = ttPc
    BY <2>2 DEF ReturnFromInterrupt, TtFixed
  <2>4. tt'.mem = tt.mem /\ tt'.raised = tt.raised /\ tt'.ipend = tt.ipend
    BY <2>3 DEF Shape
  <2>5. \A j : Count(j)' = Count(j)
    BY <2>4 DEF Count
  <2>6. ttIsr'[t] = 0 /\ \A u \in Threads \ {t} : ttIsr'[u] = ttIsr[u]
    BY <1>p, <2>3
  <2>7. \A j : Servers(j)' = Servers(j)
    BY <1>5, <2>3, <2>6 DEF Servers
  <2>8. ASSUME NEW j \in TestInts PROVE Idle(j)' \/ Pending(j)' \/ Served(j)'
    <3>1. Idle(j) => Idle(j)'
      BY <2>4, <2>5, <2>7 DEF Idle
    <3>2. Pending(j) => Pending(j)'
      BY <2>4, <2>5, <2>7 DEF Pending
    <3>3. Served(j) => Served(j)'
      <4> SUFFICES ASSUME Served(j) PROVE Served(j)'
        OBVIOUS
      <4>1. PICK u \in Threads : Servers(j) = {u} /\ (ttIsr[u] = 2 => ttReg[u] = Count(j))
        BY DEF Served
      <4>2. u # t
        BY <4>1, <1>5 DEF Servers
      <4>3. ttIsr'[u] = ttIsr[u]
        BY <4>2, <2>6
      <4> QED
        BY <4>1, <4>3, <2>3, <2>4, <2>5, <2>7 DEF Served
    <3> QED
      BY <3>1, <3>2, <3>3 DEF CountInv
  <2>9. CountInv'
    BY <2>3, <2>4, <2>5, <2>8 DEF CountInv
  <2> QED
    BY <2>3, <2>4, <2>5, <2>9 DEF HandlerEffect
<1> QED
  BY <1>2, <1>3, <1>4, <1>5

(* Operations that touch neither interrupts nor counts.                      *)
Harmless == {"create", "join", "stop", "until", "jump", "jeq", "imask", "inten", "wait", "waiting",
             "resume"}
AllDone == \A i \in TestInts : tt.raised[i] = Count(i)

LEMMA HarmlessStep ==
  ASSUME Shape, CountInv, NEW t, ttIsr[t] = 0, TtStep(t) \/ OpLock(t), TtOp(t)[1] \in Harmless
  PROVE  /\ CountInv' /\ tt'.raised = tt.raised /\ ttIsr' = ttIsr
         /\ \A i \in TestInts : Count(i)' = Count(i)
<1>1. \/ OpCreate(t) \/ OpJoin(t) \/ OpStop(t) \/ OpUntil(t) \/ OpJump(t) \/ OpImask(t) \/ OpWait(t)
      \/ wait_for_threads(t) \/ OpResume(t)
  BY StepKind DEF TtStep, Harmless
<1>2. ttReg' = ttReg
  BY <1>1 DEF OpCreate, OpJoin, OpStop, OpUntil, OpJump, OpImask, OpWait, wait_for_threads, OpResume,
              TtFixed
<1>3. ttIsr' = ttIsr /\ ttCur' = ttCur
  <2>1. CASE OpCreate(t) \/ OpStop(t)
    BY <2>1 DEF OpCreate, OpStop, TtFixed
  <2>2. CASE OpJump(t)
    BY <2>2 DEF OpJump, TtFixed, GotoOp
  <2>3. CASE ~(OpCreate(t) \/ OpStop(t) \/ OpJump(t))
    BY <1>1, <2>3, OnwardsText DEF Onwards
  <2> QED
    BY <2>1, <2>2, <2>3
<1>4. tt'.mem = tt.mem /\ tt'.raised = tt.raised /\ tt'.ipend = tt.ipend
  <2>1. CASE OpWait(t) \/ OpResume(t)
    BY <2>1 DEF OpWait, OpResume, Shape
  <2>2. CASE OpImask(t)
    <3>1. \/ \E m : tt' = [tt EXCEPT !.imask = m]
          \/ \E e : tt' = [tt EXCEPT !.inten = e]
          \/ \E a : tt' = [tt EXCEPT !.iad = a]
      BY <2>2 DEF OpImask
    <3> QED
      BY <3>1 DEF Shape
  <2>3. CASE ~(OpWait(t) \/ OpResume(t) \/ OpImask(t))
    BY <1>1, <2>3 DEF OpCreate, OpJoin, OpStop, OpUntil, OpJump, wait_for_threads
  <2> QED
    BY <2>1, <2>2, <2>3
<1>5. \A i : Count(i)' = Count(i)
  BY <1>4 DEF Count
<1>6. DOMAIN tt'.mem = Cells
  BY <1>4 DEF CountInv
<1> QED
  BY <1>2, <1>3, <1>4, <1>5, <1>6, CountKept

(* Only a create, an assert and an nmi move another thread.                  *)
LEMMA OwnPc ==
  ASSUME NEW t, ttIsr[t] = 0, TtStep(t) \/ OpLock(t), TtOp(t)[1] \notin {"create", "fail", "nmi", "return"}
  PROVE  \E l : ttPc' = [ttPc EXCEPT ![t] = l]
<1>1. ~OpCreate(t) /\ ~OpFail(t) /\ ~OpNmi(t) /\ ~ReturnFromInterrupt(t)
  BY StepKind
<1>2. CASE OpStop(t)
  BY <1>2 DEF OpStop
<1>3. CASE OpJump(t)
  BY <1>3 DEF OpJump, GotoOp
<1>4. CASE Onwards(t)
  BY <1>4, OnwardsText
<1> QED
  BY <1>1, <1>2, <1>3, <1>4 DEF TtStep, Onwards

(* swi, of interrupts that are idle.                                         *)
LEMMA SwiEffect ==
  ASSUME Shape, CountInv, ttProg \in Raising, NEW t, ttIsr[t] = 0, OpSwi(t), NEW S, Arg(t) = S,
         S \subseteq TestInts, \A i \in S : tt.raised[i] = Count(i)
  PROVE  /\ CountInv' /\ \A i : Count(i)' = Count(i)
         /\ tt'.raised = [i \in TestInts |-> IF i \in S THEN tt.raised[i] + 1 ELSE tt.raised[i]]
<1>1. /\ tt' = [tt EXCEPT !.ipend = @ \cup S,
                          !.raised = [i \in TestInts |-> IF i \in S THEN @[i] + 1 ELSE @[i]]]
      /\ ttReg' = ttReg
  BY DEF OpSwi, Counted, Raising
<1>2. /\ tt'.mem = tt.mem /\ tt'.ipend = tt.ipend \cup S
      /\ tt'.raised = [i \in TestInts |-> IF i \in S THEN tt.raised[i] + 1 ELSE tt.raised[i]]
  BY <1>1 DEF Shape
<1>3. ttIsr' = ttIsr /\ ttCur' = ttCur
  BY OnwardsText DEF Onwards
<1>4. \A i : Count(i)' = Count(i) /\ Servers(i)' = Servers(i)
  BY <1>2, <1>3 DEF Count, Servers
<1>5. ASSUME NEW i \in TestInts PROVE Idle(i)' \/ Pending(i)' \/ Served(i)'
  <2>1. Count(i) \in Nat /\ (Idle(i) \/ Pending(i) \/ Served(i))
    BY DEF CountInv
  <2>2. CASE i \in S
    <3>1. Idle(i)
      BY <2>1, <2>2 DEF Pending, Served
    <3> QED
      BY <2>2, <3>1, <1>2, <1>4 DEF Idle, Pending
  <2>3. CASE i \notin S
    <3>1. tt'.raised[i] = tt.raised[i] /\ (i \in tt'.ipend <=> i \in tt.ipend)
      BY <2>3, <1>2
    <3>2. Idle(i) => Idle(i)'
      BY <3>1, <1>4 DEF Idle
    <3>3. Pending(i) => Pending(i)'
      BY <3>1, <1>4 DEF Pending
    <3>4. Served(i) => Served(i)'
      BY <3>1, <1>1, <1>3, <1>4 DEF Served
    <3> QED
      BY <2>1, <3>2, <3>3, <3>4
  <2> QED
    BY <2>2, <2>3
<1>6. CountInv'
  BY <1>1, <1>2, <1>4, <1>5 DEF CountInv
<1> QED
  BY <1>2, <1>4, <1>6

(* memset, when every interrupt is idle.                                     *)
LEMMA ZeroEffect ==
  ASSUME Shape, CountInv, NEW t, ttIsr[t] = 0, OpStore(t), TtOp(t)[1] = "zero", AllDone
  PROVE  CountInv' /\ \A i \in TestInts : tt'.raised[i] = 0 /\ Count(i)' = 0
<1>1. /\ tt' = [tt EXCEPT !.mem = [c \in Cells |-> IF c[1] = "count" THEN 0 ELSE @[c]],
                          !.raised = [i \in TestInts |-> 0]]
      /\ ttReg' = ttReg
  BY DEF OpStore, At
<1>2. /\ tt'.mem = [c \in Cells |-> IF c[1] = "count" THEN 0 ELSE tt.mem[c]]
      /\ tt'.ipend = tt.ipend /\ tt'.raised = [i \in TestInts |-> 0]
  BY <1>1 DEF Shape
<1>3. ttIsr' = ttIsr /\ ttCur' = ttCur
  BY OnwardsText DEF Onwards
<1>4. \A i \in TestInts : Count(i)' = 0 /\ tt'.raised[i] = 0
  BY <1>2, CountCells DEF Count
<1>5. \A i : Servers(i)' = Servers(i)
  BY <1>3 DEF Servers
<1>6. ASSUME NEW i \in TestInts PROVE Idle(i)'
  <2>1. Idle(i)
    BY DEF CountInv, AllDone, Pending, Served
  <2> QED
    BY <2>1, <1>2, <1>4, <1>5 DEF Idle
<1>7. CountInv'
  BY <1>1, <1>2, <1>4, <1>6 DEF CountInv
<1> QED
  BY <1>4, <1>7

-----------------------------------------------------------------------------
(* swi.c: a thread that has not raised its successor's interrupt finds it    *)
(* never raised.                                                             *)
Succ(t) == IF t = WORKERS THEN 1 ELSE t + 1
SwiInv ==
    /\ ttPc[0] = 1 => \A t \in Workers : ttPc[t] = 0
    /\ \A t \in Workers : ttPc[0] = 1 \/ ttPc[t] \in {1, 2} => tt.raised[Succ(t)] = 0

LEMMA Successors ==
  /\ \A t \in Workers : Succ(t) \in TestInts /\ t \in Threads /\ t # 0
  /\ \A t, u \in Workers : Succ(t) = Succ(u) => t = u
  /\ \A t \in Threads : t = 0 \/ t \in Workers
BY ThreadTestsAssumption DEF Workers, Threads, Succ, TestInts

LEMMA SwiMainStep ==
  ASSUME InText, Shape, ttProg = "swi", CountInv, SwiInv, ttIsr[0] = 0, TtStep(0) \/ OpLock(0)
  PROVE  CountInv' /\ SwiInv'
<1>1. ttPc[0] \in Nat /\ ttPc[0] > 0 /\ ttPc[0] <= Len(TtText(0)) /\ ttPc \in [Threads -> Nat]
  BY StepKind, ZeroIsThread DEF InText
<1>2. TtOp(0) = SwiMain[ttPc[0]]
  BY <1>1, TextPlace, ZeroIsThread DEF Code
<1>3. ttPc[0] \in 1 .. WORKERS + 6
  <2>1. Len(TtText(0)) = WORKERS + 6
    BY TextOf, SwiText, LongLen, ZeroIsThread DEF Code, Calm, Sound
  <2> QED
    BY <1>1, <2>1, ThreadTestsAssumption
<1>4. CASE ttPc[0] = 1
  <2>1. TtOp(0)[1] = "create"
    BY <1>2, <1>4, SwiText DEF Create
  <2>2. CountInv' /\ tt'.raised = tt.raised
    BY <2>1, HarmlessStep DEF Harmless
  <2>3. OpCreate(0)
    BY <2>1, StepKind DEF TtStep
  <2>4. ttPc'[0] = 2
    BY <1>4, <2>3, ZeroIsThread DEF OpCreate
  <2>5. \A t \in Workers : tt.raised[Succ(t)] = 0
    BY <1>4 DEF SwiInv
  <2> QED
    BY <2>2, <2>4, <2>5 DEF SwiInv
<1>5. CASE ttPc[0] # 1
  <2>0. ttPc[0] \in 2 .. WORKERS + 6
    BY <1>3, <1>5, ThreadTestsAssumption
  <2>1. TtOp(0)[1] \in {"waiting", "imask", "resume", "join", "stop"}
    BY <1>2, <2>0, SwiText
  <2>2. CountInv' /\ tt'.raised = tt.raised
    BY <2>1, HarmlessStep DEF Harmless
  <2>3. PICK l : ttPc' = [ttPc EXCEPT ![0] = l]
    BY <2>1, OwnPc
  <2>4. \A t \in Workers : ttPc'[t] = ttPc[t]
    BY <1>1, <2>3, Successors
  <2>5. ttPc'[0] # 1
    <3>1. CASE OpStop(0)
      BY <3>1, <1>1, ZeroIsThread DEF OpStop
    <3>2. CASE ~OpStop(0)
      <4>1. Onwards(0)
        BY <3>2, <2>1, StepKind DEF TtStep, Onwards
      <4> QED
        BY <4>1, <1>1, <2>0, OnwardsText, ZeroIsThread
    <3> QED
      BY <3>1, <3>2
  <2> QED
    BY <1>5, <2>2, <2>4, <2>5 DEF SwiInv
<1> QED
  BY <1>4, <1>5

LEMMA SwiThreadStep ==
  ASSUME InText, Shape, ttProg = "swi", CountInv, SwiInv, NEW t \in Workers, ttIsr[t] = 0,
         TtStep(t) \/ OpLock(t)
  PROVE  CountInv' /\ SwiInv'
<1> DEFINE s == << <<"wait">>, Swi({Succ(t)}), Until(<<"count", t>>, 1), Stop>>
<1>0. my_thread_function(t) = s /\ Long(s, 4) /\ t \in Threads /\ t # 0
  BY Successors DEF my_thread_function, Succ, Long
<1>1. ttPc[t] \in Nat /\ ttPc[t] > 0 /\ ttPc[t] <= Len(TtText(t)) /\ ttPc \in [Threads -> Nat]
  BY <1>0, StepKind DEF InText
<1>2. TtOp(t) = s[ttPc[t]]
  BY <1>0, <1>1, TextPlace DEF Code
<1>3. ttPc[t] \in 1 .. 4
  <2>1. Len(TtText(t)) = 4
    BY <1>0, TextOf, LongLen DEF Code
  <2> QED
    BY <2>1, <1>1
<1>4. ttPc[0] # 1
  BY <1>1 DEF SwiInv
<1>5. CASE ttPc[t] = 2
  <2>1. TtOp(t)[1] = "swi" /\ Arg(t) = {Succ(t)}
    BY <1>2, <1>5 DEF Swi, Arg
  <2>2. OpSwi(t)
    BY <2>1, StepKind DEF TtStep
  <2>3. Succ(t) \in TestInts /\ tt.raised[Succ(t)] = 0
    BY <1>5, Successors DEF SwiInv
  <2>4. tt.raised[Succ(t)] = Count(Succ(t))
    BY <2>3 DEF CountInv, Idle, Pending, Served
  <2>5. /\ CountInv'
        /\ tt'.raised = [i \in TestInts |-> IF i \in {Succ(t)} THEN tt.raised[i] + 1 ELSE tt.raised[i]]
    BY <2>1, <2>2, <2>3, <2>4, SwiEffect DEF Raising
  <2>6. ttPc' = [ttPc EXCEPT ![t] = 3]
    BY <1>5, <2>2, OnwardsText DEF Onwards
  <2>7. ttPc'[t] = 3 /\ ttPc'[0] = ttPc[0] /\ \A u \in Workers \ {t} : ttPc'[u] = ttPc[u]
    BY <1>0, <1>1, <2>6, Successors, ZeroIsThread
  <2>8. \A u \in Workers \ {t} : tt'.raised[Succ(u)] = tt.raised[Succ(u)]
    BY <2>5, Successors
  <2> QED
    BY <1>4, <2>5, <2>7, <2>8 DEF SwiInv
<1>6. CASE ttPc[t] # 2
  <2>1. TtOp(t)[1] \in {"wait", "until", "stop"}
    BY <1>2, <1>3, <1>6 DEF Until, Stop
  <2>2. CountInv' /\ tt'.raised = tt.raised
    BY <2>1, HarmlessStep DEF Harmless
  <2>3. PICK l : ttPc' = [ttPc EXCEPT ![t] = l]
    BY <2>1, OwnPc
  <2>4. ttPc'[0] = ttPc[0] /\ \A u \in Workers \ {t} : ttPc'[u] = ttPc[u]
    BY <1>0, <1>1, <2>3, Successors, ZeroIsThread
  <2>5. ttPc'[t] \in {1, 2} => ttPc[t] = 1
    <3>1. CASE OpStop(t)
      BY <3>1, <1>0, <1>1 DEF OpStop
    <3>2. CASE ~OpStop(t)
      <4>1. Onwards(t)
        BY <3>2, <2>1, StepKind DEF TtStep, Onwards
      <4> QED
        BY <4>1, <1>0, <1>1, OnwardsText
    <3> QED
      BY <3>1, <3>2
  <2> QED
    BY <1>4, <2>2, <2>4, <2>5 DEF SwiInv
<1> QED
  BY <1>5, <1>6

LEMMA SwiStep ==
  ASSUME InText, Shape, ttProg = "swi", CountInv, SwiInv, NEW t \in Threads,
         TtStep(t) \/ OpLock(t) \/ TakeInterrupt(t)
  PROVE  CountInv' /\ SwiInv'
<1>1. CASE HandlerEffect
  BY <1>1 DEF HandlerEffect, SwiInv
<1>2. CASE ~HandlerEffect
  <2>1. ~TakeInterrupt(t) /\ ttIsr[t] \in Nat
    BY <1>2, TakeEffect DEF InText
  <2>2. ttIsr[t] = 0
    BY <1>2, <2>1, HandlerStepEffect DEF Raising
  <2> QED
    BY <2>1, <2>2, Successors, SwiMainStep, SwiThreadStep
<1> QED
  BY <1>1, <1>2

(* swi2.c: main is in turn q of run_test's loop, with r of its operations    *)
(* done.  The swi has raised every interrupt once more, and the first r - 1  *)
(* of them have been waited for.                                             *)
InTurn(q, r) ==
    \A j \in TestInts :
        /\ tt.raised[j] = IF j \in AllInts THEN IF r = 0 THEN q ELSE q + 1 ELSE 0
        /\ r = 0 \/ j \notin AllInts \/ j < r - 1 => tt.raised[j] = Count(j)
TurnAt(b, q, r) == b + (1 + (q * TurnLen + r + 1))
Turns == 0 .. INTS_PER_ITER - 1
AtTest(b) ==
    \/ ttPc[0] = b + 1 /\ AllDone
    \/ \E q \in Turns, r \in 0 .. MAX_INT_NUM : ttPc[0] = TurnAt(b, q, r) /\ InTurn(q, r)
Ending == 1 + TestLen + TestLen
Swi2Inv ==
    \/ ttPc[0] = 1 /\ AllDone
    \/ AtTest(1) \/ AtTest(1 + TestLen)
    \/ ttPc[0] \in {0, Ending + 1, Ending + 2, Ending + 3, Ending + 4}

LEMMA TurnPlaces ==
  /\ TurnLen \in Nat \ {0} /\ TestLen \in Nat \ {0} /\ 0 \in Turns
  /\ \A q \in Turns : q \in Nat /\ q * TurnLen \in Nat
  /\ \A b \in Nat, q \in Turns, r \in Nat : TurnAt(b, q, r) + 1 = TurnAt(b, q, r + 1)
  /\ \A b \in Nat, q \in Turns : TurnAt(b, q, MAX_INT_NUM) + 1 = TurnAt(b, q + 1, 0)
  /\ \A b \in Nat : TurnAt(b, 0, 0) = b + 2
  /\ \A b \in Nat : TurnAt(b, INTS_PER_ITER, 0) = b + TestLen + 1
<1> USE ThreadTestsAssumption
<1>1. TurnLen \in Nat \ {0} /\ TurnLen = MAX_INT_NUM + 1
  BY DEF TurnLen
<1> DEFINE T == TurnLen
<1> HIDE DEF T
<1>2. T \in Nat /\ T = MAX_INT_NUM + 1
  BY <1>1 DEF T
<1>3. \A q \in Nat : q * T \in Nat /\ (q + 1) * T = q * T + T /\ 0 * T = 0
  BY <1>2
<1>4. INTS_PER_ITER * T \in Nat
  BY <1>3
<1>5. TestLen = 1 + INTS_PER_ITER * T
  BY DEF TestLen, T
<1>6. \A b, q, r : TurnAt(b, q, r) = b + (1 + (q * T + r + 1))
  BY DEF TurnAt, T
<1>7. \A q \in Turns : q \in Nat
  BY DEF Turns
<1>8. 0 \in Turns
  BY DEF Turns
<1>9. \A b \in Nat, q \in Turns, r \in Nat : TurnAt(b, q, r) + 1 = TurnAt(b, q, r + 1)
  BY <1>3, <1>6, <1>7
<1>10. \A b \in Nat, q \in Turns : TurnAt(b, q, MAX_INT_NUM) + 1 = TurnAt(b, q + 1, 0)
  BY <1>2, <1>3, <1>6, <1>7
<1>11. \A b \in Nat : TurnAt(b, 0, 0) = b + 2
  BY <1>3, <1>6
<1>12. \A b \in Nat : TurnAt(b, INTS_PER_ITER, 0) = b + TestLen + 1
  BY <1>4, <1>5, <1>6
<1> QED
  BY <1>1, <1>3, <1>4, <1>5, <1>7, <1>8, <1>9, <1>10, <1>11, <1>12 DEF T

LEMMA Behind ==
  ASSUME CountInv, NEW i \in TestInts
  PROVE  Count(i) \in Nat /\ (tt.raised[i] = Count(i) \/ tt.raised[i] = Count(i) + 1)
BY DEF CountInv, Idle, Pending, Served

(* An operation of run_test, which begins after operation b of main.         *)
LEMMA TestStep ==
  ASSUME InText, Shape, ttProg = "swi2", CountInv, ttIsr[0] = 0, TtStep(0) \/ OpLock(0),
         NEW b \in Nat, AtTest(b), \A k \in 1 .. TestLen : Swi2Main[b + k] = run_test[k]
  PROVE  CountInv' /\ (AtTest(b)' \/ (ttPc'[0] = b + TestLen + 1 /\ AllDone'))
<1>1. ttPc[0] \in Nat /\ ttPc[0] > 0 /\ ttPc \in [Threads -> Nat]
  BY StepKind, ZeroIsThread DEF InText
<1>2. TtOp(0) = Swi2Main[ttPc[0]]
  BY <1>1, TextPlace, ZeroIsThread DEF Code
<1>p. ASSUME Onwards(0) PROVE ttPc'[0] = ttPc[0] + 1
  BY <1>p, <1>1, OnwardsText, ZeroIsThread
<1>3. CASE ttPc[0] = b + 1 /\ AllDone
  <2>0. 1 \in 1 .. TestLen
    BY TurnPlaces
  <2>1. TtOp(0)[1] = "zero"
    BY <1>2, <1>3, <2>0, TestText
  <2>2. OpStore(0)
    BY <2>1, StepKind DEF TtStep
  <2>3. CountInv' /\ \A i \in TestInts : tt'.raised[i] = 0 /\ Count(i)' = 0
    BY <1>3, <2>1, <2>2, ZeroEffect
  <2>4. ttPc'[0] = TurnAt(b, 0, 0)
    <3>1. ttPc'[0] = ttPc[0] + 1
      BY <1>p, <2>2 DEF Onwards
    <3>2. TurnAt(b, 0, 0) = b + 2
      BY TurnPlaces
    <3> QED
      BY <1>3, <3>1, <3>2
  <2>5. InTurn(0, 0)'
    BY <2>3 DEF InTurn
  <2>6. 0 \in Turns /\ 0 \in 0 .. MAX_INT_NUM
    BY TurnPlaces, ThreadTestsAssumption
  <2> QED
    BY <2>3, <2>4, <2>5, <2>6 DEF AtTest
<1>4. ASSUME NEW q \in Turns, NEW r \in 0 .. MAX_INT_NUM, ttPc[0] = TurnAt(b, q, r), InTurn(q, r)
      PROVE  CountInv' /\ (AtTest(b)' \/ (ttPc'[0] = b + TestLen + 1 /\ AllDone'))
  <2>0. TtOp(0) = IF r = 0 THEN Swi(AllInts) ELSE Until(<<"count", r - 1>>, q + 1)
    <3> DEFINE k == 1 + (q * TurnLen + r + 1)
    <3>1. k \in 1 .. TestLen
      <4>1. q \in Nat /\ q <= INTS_PER_ITER - 1
        BY ThreadTestsAssumption DEF Turns
      <4>2. q * TurnLen \in Nat /\ INTS_PER_ITER * TurnLen \in Nat /\ TurnLen \in Nat
        BY TurnPlaces, ThreadTestsAssumption
      <4>3. q * TurnLen + TurnLen <= INTS_PER_ITER * TurnLen
        <5> DEFINE T == TurnLen
        <5>1. T \in Nat
          BY <4>2
        <5> HIDE DEF T
        <5>2. PICK d \in Nat : INTS_PER_ITER = q + 1 + d
          <6>1. INTS_PER_ITER - (q + 1) \in Nat
            BY <4>1, ThreadTestsAssumption
          <6> QED
            BY <6>1, <4>1, ThreadTestsAssumption
        <5>3. d * T \in Nat /\ (q + 1 + d) * T = q * T + T + d * T
          BY <4>1, <5>1, <5>2
        <5>4. q * T \in Nat
          BY <4>1, <5>1
        <5>5. q * T + T <= INTS_PER_ITER * T
          BY <5>1, <5>2, <5>3, <5>4
        <5> QED
          BY <5>5 DEF T
      <4>4. r <= TurnLen - 1 /\ r \in Nat
        BY ThreadTestsAssumption DEF TurnLen
      <4> HIDE DEF TurnLen
      <4> QED
        BY <4>2, <4>3, <4>4 DEF TestLen
    <3>2. ttPc[0] = b + k
      BY <1>4 DEF TurnAt
    <3>3. run_test[k] = IF r = 0 THEN Swi(AllInts) ELSE Until(<<"count", r - 1>>, q + 1)
      BY TestText DEF Turns
    <3> HIDE DEF k
    <3> QED
      BY <1>2, <3>1, <3>2, <3>3
  <2>q. q \in Nat /\ r \in Nat /\ AllInts \subseteq TestInts
    BY TurnPlaces DEF TestInts
  <2>1. CASE r = 0
    <3>1. TtOp(0)[1] = "swi" /\ Arg(0) = AllInts
      BY <2>0, <2>1 DEF Swi, Arg
    <3>2. OpSwi(0)
      BY <3>1, StepKind DEF TtStep
    <3>3. \A j \in AllInts : tt.raised[j] = Count(j)
      BY <1>4, <2>1, <2>q DEF InTurn
    <3>4. /\ CountInv' /\ \A i : Count(i)' = Count(i)
          /\ tt'.raised = [i \in TestInts |-> IF i \in AllInts THEN tt.raised[i] + 1 ELSE tt.raised[i]]
      BY <3>1, <3>2, <3>3, <2>q, SwiEffect DEF Raising
    <3>5. ttPc'[0] = TurnAt(b, q, 1)
      <4>1. ttPc'[0] = TurnAt(b, q, 0) + 1
        BY <1>4, <1>p, <2>1, <3>2 DEF Onwards
      <4>2. TurnAt(b, q, 0) + 1 = TurnAt(b, q, 0 + 1)
        BY TurnPlaces
      <4> QED
        BY <4>1, <4>2
    <3>6. InTurn(q, 1)'
      <4>1. ASSUME NEW j \in TestInts
            PROVE  /\ tt'.raised[j] = IF j \in AllInts THEN q + 1 ELSE 0
                   /\ j \notin AllInts => tt'.raised[j] = Count(j)'
        BY <1>4, <2>1, <3>4 DEF InTurn
      <4>2. \A j \in AllInts : ~(j < 1 - 1)
        BY DEF AllInts
      <4> QED
        BY <4>1, <4>2 DEF InTurn
    <3>7. 1 \in 0 .. MAX_INT_NUM
      BY ThreadTestsAssumption
    <3> QED
      BY <3>4, <3>5, <3>6, <3>7 DEF AtTest
  <2>2. CASE r # 0
    <3>0. r - 1 \in AllInts /\ r >= 1
      BY <2>2, ThreadTestsAssumption DEF AllInts
    <3>1. TtOp(0)[1] = "until" /\ Arg(0) = <<"count", r - 1>> /\ Arg2(0) = q + 1
      BY <2>0, <2>2 DEF Until, Arg, Arg2
    <3>2. OpUntil(0)
      BY <3>1, StepKind DEF TtStep
    <3>3. CountInv' /\ tt'.raised = tt.raised /\ \A i \in TestInts : Count(i)' = Count(i)
      BY <3>1, HarmlessStep DEF Harmless
    <3>4. Count(r - 1) >= q + 1
      BY <3>1, <3>2 DEF OpUntil, Count
    <3>5. tt.raised[r - 1] = Count(r - 1)
      <4>1. tt.raised[r - 1] = q + 1
        BY <1>4, <2>2, <2>q, <3>0 DEF InTurn
      <4> QED
        BY <4>1, <3>4, <3>0, <2>q, Behind
    <3>6. ttPc'[0] = TurnAt(b, q, r) + 1
      BY <1>4, <1>p, <3>2 DEF Onwards
    <3>7. ASSUME NEW j \in TestInts
          PROVE  /\ tt'.raised[j] = IF j \in AllInts THEN q + 1 ELSE 0
                 /\ j \notin AllInts \/ j < r => tt'.raised[j] = Count(j)'
      <4>1. tt.raised[j] = IF j \in AllInts THEN q + 1 ELSE 0
        BY <1>4, <2>2 DEF InTurn
      <4>2. j \notin AllInts \/ j < r - 1 => tt.raised[j] = Count(j)
        BY <1>4, <2>2 DEF InTurn
      <4>3. j \in AllInts /\ j < r => j < r - 1 \/ j = r - 1
        BY <2>q DEF AllInts
      <4>4. j \notin AllInts \/ j < r => tt.raised[j] = Count(j)
        BY <4>2, <4>3, <3>5
      <4> QED
        BY <4>1, <4>4, <3>3
    <3>8. CASE r < MAX_INT_NUM
      <4>1. r + 1 \in 0 .. MAX_INT_NUM /\ ttPc'[0] = TurnAt(b, q, r + 1)
        BY <3>6, <3>8, <2>q, TurnPlaces, ThreadTestsAssumption
      <4>2. (r + 1) - 1 = r /\ r + 1 # 0
        BY <2>q
      <4>3. InTurn(q, r + 1)'
        BY <3>7, <4>2 DEF InTurn
      <4> QED
        BY <3>3, <4>1, <4>3 DEF AtTest
    <3>9. CASE r = MAX_INT_NUM
      <4>1. ttPc'[0] = TurnAt(b, q + 1, 0)
        BY <3>6, <3>9, TurnPlaces
      <4>2. \A j \in AllInts : j < r
        BY <3>9, ThreadTestsAssumption DEF AllInts
      <4>3. \A j \in TestInts : tt'.raised[j] = Count(j)'
        BY <3>7, <4>2
      <4>4. InTurn(q + 1, 0)'
        BY <3>7, <4>3 DEF InTurn
      <4>5. CASE q + 1 \in Turns
        <5>1. 0 \in 0 .. MAX_INT_NUM
          BY ThreadTestsAssumption
        <5> QED
          BY <3>3, <4>1, <4>4, <4>5, <5>1 DEF AtTest
      <4>6. CASE q + 1 \notin Turns
        <5>1. q + 1 = INTS_PER_ITER
          BY <4>6, ThreadTestsAssumption DEF Turns
        <5>2. ttPc'[0] = b + TestLen + 1
          BY <5>1, <4>1, TurnPlaces
        <5> QED
          BY <3>3, <4>3, <5>2 DEF AllDone
      <4> QED
        BY <4>5, <4>6
    <3> QED
      BY <3>8, <3>9, ThreadTestsAssumption
  <2> QED
    BY <2>1, <2>2
<1> QED
  BY <1>3, <1>4 DEF AtTest

(* The steps of the other threads, and of the handlers.                      *)
LEMMA Swi2Still ==
  ASSUME Swi2Inv, ttPc'[0] = ttPc[0], tt'.raised = tt.raised,
         \A i \in TestInts : tt.raised[i] = Count(i) => Count(i)' = Count(i)
  PROVE  Swi2Inv'
<1>1. AllDone => AllDone'
  BY DEF AllDone
<1>2. \A q, r : InTurn(q, r) => InTurn(q, r)'
  BY DEF InTurn
<1>3. ASSUME NEW b, AtTest(b) PROVE AtTest(b)'
  BY <1>1, <1>2, <1>3 DEF AtTest
<1>4. AtTest(1) => AtTest(1)'
  BY <1>3
<1>5. AtTest(1 + TestLen) => AtTest(1 + TestLen)'
  BY <1>1, <1>2 DEF AtTest
<1> QED
  BY <1>1, <1>4, <1>5 DEF Swi2Inv

LEMMA Swi2MainStep ==
  ASSUME InText, Shape, ttProg = "swi2", CountInv, Swi2Inv, ttIsr[0] = 0, TtStep(0) \/ OpLock(0)
  PROVE  CountInv' /\ Swi2Inv'
<1>1. ttPc[0] \in Nat /\ ttPc[0] > 0 /\ ttPc \in [Threads -> Nat]
  BY StepKind, ZeroIsThread DEF InText
<1>2. TtOp(0) = Swi2Main[ttPc[0]]
  BY <1>1, TextPlace, ZeroIsThread DEF Code
<1>p. ASSUME Onwards(0) PROVE ttPc'[0] = ttPc[0] + 1
  BY <1>p, <1>1, OnwardsText, ZeroIsThread
<1>n. TestLen \in Nat
  BY TurnPlaces
<1>3. CASE ttPc[0] = 1 /\ AllDone
  <2>1. TtOp(0)[1] = "create"
    BY <1>2, <1>3, Swi2Text DEF Create
  <2>2. CountInv' /\ tt'.raised = tt.raised /\ \A i \in TestInts : Count(i)' = Count(i)
    BY <2>1, HarmlessStep DEF Harmless
  <2>3. OpCreate(0)
    BY <2>1, StepKind DEF TtStep
  <2>4. ttPc'[0] = 1 + 1
    BY <1>3, <2>3, ZeroIsThread DEF OpCreate
  <2>5. AllDone'
    BY <1>3, <2>2 DEF AllDone
  <2> QED
    BY <2>2, <2>4, <2>5 DEF Swi2Inv, AtTest
<1>4. CASE AtTest(1)
  <2>1. CountInv' /\ (AtTest(1)' \/ (ttPc'[0] = 1 + TestLen + 1 /\ AllDone'))
    BY <1>4, TestStep, Swi2Text
  <2>2. ttPc'[0] = 1 + TestLen + 1 /\ AllDone' => AtTest(1 + TestLen)'
    BY DEF AtTest
  <2> QED
    BY <2>1, <2>2 DEF Swi2Inv
<1>5. CASE AtTest(1 + TestLen)
  <2>0. 1 + TestLen \in Nat
    BY <1>n
  <2>1. CountInv' /\ (AtTest(1 + TestLen)' \/ (ttPc'[0] = (1 + TestLen) + TestLen + 1 /\ AllDone'))
    BY <1>5, <2>0, TestStep, Swi2Text
  <2> QED
    BY <2>1 DEF Swi2Inv, Ending
<1>6. CASE ttPc[0] = Ending + 1
  <2>1. TtOp(0)[1] = "set" /\ Arg(0) = <<"tasks_disabled", 0>> /\ Arg2(0) = 1
    BY <1>2, <1>6, Swi2Text DEF Set, Var, Ending, Arg, Arg2
  <2>2. OpStore(0)
    BY <2>1, StepKind DEF TtStep
  <2>3. tt' = [tt EXCEPT !.mem[<<"tasks_disabled", 0>>] = 1] /\ ttReg' = ttReg
    BY <2>1, <2>2 DEF OpStore, At
  <2>4. /\ tt'.mem = [tt.mem EXCEPT ![<<"tasks_disabled", 0>>] = 1]
        /\ tt'.raised = tt.raised /\ tt'.ipend = tt.ipend
    BY <2>3 DEF Shape
  <2>5. \A i \in TestInts : Count(i)' = Count(i)
    <3>1. DOMAIN tt.mem = Cells
      BY DEF CountInv
    <3>2. \A i \in TestInts : tt'.mem[<<"count", i>>] = tt.mem[<<"count", i>>]
      BY <3>1, <2>4, CountCells
    <3> QED
      BY <3>2 DEF Count
  <2>6. ttIsr' = ttIsr /\ ttCur' = ttCur
    BY <2>2, OnwardsText DEF Onwards
  <2>7. DOMAIN tt'.mem = Cells
    BY <2>4 DEF CountInv
  <2>8. CountInv'
    BY <2>3, <2>4, <2>5, <2>6, <2>7, CountKept
  <2>9. ttPc'[0] = Ending + 2
    BY <1>6, <1>p, <1>n, <2>2 DEF Onwards, Ending
  <2> QED
    BY <2>8, <2>9 DEF Swi2Inv
<1>7. CASE ttPc[0] \in {Ending + 2, Ending + 3, Ending + 4}
  <2>1. TtOp(0)[1] \in {"join", "stop"} /\ (ttPc[0] = Ending + 4 => TtOp(0)[1] = "stop")
    BY <1>2, <1>7, <1>n, Swi2Text DEF Join, Stop, Ending
  <2>2. CountInv'
    BY <2>1, HarmlessStep DEF Harmless
  <2>3. CASE OpStop(0)
    BY <2>2, <2>3, <1>1, ZeroIsThread DEF OpStop, Swi2Inv
  <2>4. CASE ~OpStop(0)
    <3>1. OpJoin(0) /\ TtOp(0)[1] = "join"
      BY <2>1, <2>4, StepKind DEF TtStep
    <3>2. ttPc[0] \in {Ending + 2, Ending + 3}
      BY <1>7, <2>1, <3>1
    <3>3. ttPc'[0] \in {Ending + 3, Ending + 4}
      BY <1>p, <1>n, <3>1, <3>2 DEF Onwards, Ending
    <3> QED
      BY <2>2, <3>3 DEF Swi2Inv
  <2> QED
    BY <2>3, <2>4
<1> QED
  BY <1>1, <1>3, <1>4, <1>5, <1>6, <1>7 DEF Swi2Inv

LEMMA Swi2ThreadStep ==
  ASSUME InText, Shape, ttProg = "swi2", CountInv, Swi2Inv, NEW t \in Workers, ttIsr[t] = 0,
         TtStep(t) \/ OpLock(t)
  PROVE  CountInv' /\ Swi2Inv'
<1>0. t \in Threads /\ t # 0
  BY Successors
<1>1. ttPc[t] \in Nat /\ ttPc[t] > 0 /\ ttPc[t] <= Len(TtText(t)) /\ ttPc \in [Threads -> Nat]
  BY <1>0, StepKind DEF InText
<1>2. TtOp(t)[1] \in {"jeq", "inten", "imask", "jump", "until", "stop"}
  <2>1. CASE t = 1
    <3>1. TtText(t) = interrupt_cycles(t)
      BY <1>0, <2>1, TextOf DEF Code
    <3>2. Len(TtText(t)) = 11
      BY <1>0, <3>1, CyclesText, LongLen DEF Calm, Sound
    <3>3. ttPc[t] \in 1 .. 11
      BY <1>1, <3>2
    <3>4. TtOp(t) = interrupt_cycles(t)[ttPc[t]]
      BY <1>0, <1>1, <2>1, TextPlace DEF Code
    <3> QED
      BY <1>0, <3>3, <3>4, CyclesText
  <2>2. CASE t # 1
    <3>1. TtText(t) = task_thread
      BY <1>0, <2>2, TextOf DEF Code
    <3>2. Len(TtText(t)) = 2
      BY <3>1, ShortTexts, LongLen DEF Calm, Sound
    <3>3. TtOp(t) = task_thread[ttPc[t]] /\ ttPc[t] \in 1 .. 2
      BY <1>0, <1>1, <2>2, <3>2, TextPlace DEF Code
    <3> QED
      BY <3>3 DEF task_thread, Until, Stop
  <2> QED
    BY <2>1, <2>2
<1>3. CountInv' /\ tt'.raised = tt.raised /\ \A i \in TestInts : Count(i)' = Count(i)
  BY <1>2, HarmlessStep DEF Harmless
<1>4. PICK l : ttPc' = [ttPc EXCEPT ![t] = l]
  BY <1>2, OwnPc
<1>5. ttPc'[0] = ttPc[0]
  BY <1>0, <1>1, <1>4, ZeroIsThread
<1> QED
  BY <1>3, <1>5, Swi2Still

LEMMA Swi2Step ==
  ASSUME InText, Shape, ttProg = "swi2", CountInv, Swi2Inv, NEW t \in Threads,
         TtStep(t) \/ OpLock(t) \/ TakeInterrupt(t)
  PROVE  CountInv' /\ Swi2Inv'
<1>1. CASE HandlerEffect
  BY <1>1, Swi2Still DEF HandlerEffect
<1>2. CASE ~HandlerEffect
  <2>1. ~TakeInterrupt(t) /\ ttIsr[t] \in Nat
    BY <1>2, TakeEffect DEF InText
  <2>2. ttIsr[t] = 0
    BY <1>2, <2>1, HandlerStepEffect DEF Raising
  <2> QED
    BY <2>1, <2>2, Successors, Swi2MainStep, Swi2ThreadStep
<1> QED
  BY <1>1, <1>2

-----------------------------------------------------------------------------
(* All the tests.  On a machine with a thread for every id test-thread.c     *)
(* fails its own assertion, and nothing is claimed of it.                    *)
ProgInv ==
    /\ ttProg \notin Checking => tt.fail = FALSE
    /\ ttProg = "locklock" => LockLockInv
    /\ ttProg = "ciad" => CiadInv
    /\ ttProg = "mutex" => (ttHw = Threads \/ MutexInv) /\ (~ tt.fail => CountedInv)
    /\ ttProg = "bestwait" => BestwaitInv
    /\ ttProg \in Raising => CountInv
    /\ ttProg = "swi" => SwiInv
    /\ ttProg = "swi2" => Swi2Inv
TestsInv == Shape /\ InText /\ ProgInv

LEMMA InitTests == TtInit => TestsInv
<1> SUFFICES ASSUME TtInit PROVE ProgInv
  BY InitShape, InTextInit DEF TestsInv
<1> USE ZeroIsThread
<1>1. /\ ttProg \in Programs /\ ttHw \in {Threads, 0 .. WORKERS - 1}
      /\ ttProg # "mutex" => ttHw = Threads
      /\ ttPc = [t \in Threads |-> IF t = 0 THEN 1 ELSE 0]
      /\ ttIsr = [t \in Threads |-> 0] /\ ttReg = [t \in Threads |-> 0]
      /\ tt.mem = [c \in Cells |-> 0] /\ tt.ipend = {} /\ tt.iad = {} /\ tt.fail = FALSE
      /\ tt.imask = [t \in Threads |-> {}] /\ tt.raised = [i \in TestInts |-> 0]
  BY DEF TtInit
<1>2. NoInterrupts /\ MainAlone /\ ttPc[0] = 1
  BY <1>1 DEF NoInterrupts, MainAlone
<1>3. LockLockInv /\ CiadInv
  BY <1>1, <1>2 DEF LockLockInv, CiadInv
<1>4. ttHw = Threads \/ MutexInv
  <2>1. ttPc[WORKERS] = 0 /\ \A t \in Created : ttPc[t] = 0
    BY <1>1, CreatedThreads
  <2> QED
    BY <1>1, <1>2, <2>1 DEF MutexInv
<1>5. ttHw = Threads => BestwaitInv
  <2>1. NotRaised
    BY <1>1, <1>2 DEF NotRaised
  <2> QED
    BY <1>1, <1>2, <2>1 DEF BestwaitInv
<1>6. ASSUME NEW i \in TestInts PROVE Count(i) = 0 /\ tt.raised[i] = 0 /\ Servers(i) = {}
  <2>1. Count(i) = 0 /\ tt.raised[i] = 0
    BY <1>1, CountCells DEF Count
  <2>2. \A t \in Threads : ttIsr[t] \notin 1 .. 2
    BY <1>1
  <2> QED
    BY <2>1, <2>2 DEF Servers
<1>7. CountInv /\ AllDone
  <2>1. \A i \in TestInts : Count(i) \in Nat /\ Idle(i)
    BY <1>1, <1>6 DEF Idle
  <2> QED
    BY <1>1, <1>6, <2>1 DEF CountInv, AllDone
<1>8. SwiInv /\ Swi2Inv
  BY <1>1, <1>2, <1>6, <1>7, Successors DEF SwiInv, Swi2Inv
<1>9. CountedInv
  <2>1. \A t \in Created : ttPc[t] = 0
    BY <1>1, CreatedThreads
  <2>2. Passed = {} /\ Thcnt = 0
    BY <1>1, <1>2, <2>1, ThcntCell DEF Passed, ThroughMutex, Thcnt
  <2>3. Created \subseteq ttHw
    BY <1>1, CreatedThreads
  <2> QED
    BY <1>1, <1>2, <2>1, <2>2, <2>3, FS_EmptySet DEF CountedInv
<1> QED
  BY <1>1, <1>3, <1>4, <1>5, <1>7, <1>8, <1>9 DEF ProgInv

LEMMA SameTest ==
  ASSUME NEW t, TtStep(t) \/ OpLock(t) \/ TakeInterrupt(t)
  PROVE  ttProg' = ttProg /\ ttHw' = ttHw
<1>1. CASE Onwards(t)
  BY <1>1, OnwardsGoes DEF NextOp
<1>2. CASE OpCreate(t) \/ OpStop(t) \/ OpFail(t) \/ OpNmi(t) \/ OpJump(t) \/ ReturnFromInterrupt(t)
  BY <1>2 DEF OpCreate, OpStop, OpFail, OpNmi, OpJump, ReturnFromInterrupt, TtFixed
<1>3. CASE TakeInterrupt(t)
  BY <1>3 DEF TakeInterrupt
<1> QED
  BY <1>1, <1>2, <1>3 DEF TtStep, Onwards

LEMMA TestsStep ==
  ASSUME TestsInv, NEW t \in Threads, TtStep(t) \/ OpLock(t) \/ TakeInterrupt(t)
  PROVE  TestsInv'
<1>1. InText /\ Shape
  BY DEF TestsInv
<1>2. Shape'
  BY <1>1, ShapeStep
<1>3. InText'
  BY <1>1, InTextStep
<1>4. ttProg' = ttProg /\ ttHw' = ttHw
  BY SameTest
<1>5. ASSUME ttProg \notin Checking PROVE tt'.fail = FALSE
  BY <1>1, <1>5, CalmStep DEF TestsInv, ProgInv
<1>6. ASSUME ttProg = "locklock" PROVE LockLockInv'
  BY <1>1, <1>6, LockLockStep DEF TestsInv, ProgInv
<1>7. ASSUME ttProg = "ciad" PROVE CiadInv'
  BY <1>1, <1>7, CiadStep DEF TestsInv, ProgInv
<1>8. ASSUME ttProg = "mutex", ttHw # Threads PROVE MutexInv'
  BY <1>1, <1>8, MutexStep DEF TestsInv, ProgInv
<1>9. ASSUME ttProg = "bestwait" PROVE BestwaitInv'
  BY <1>1, <1>9, BestwaitStep DEF TestsInv, ProgInv
<1>10. ASSUME ttProg = "swi" PROVE CountInv' /\ SwiInv'
  BY <1>1, <1>10, SwiStep DEF TestsInv, ProgInv, Raising
<1>11. ASSUME ttProg = "swi2" PROVE CountInv' /\ Swi2Inv'
  BY <1>1, <1>11, Swi2Step DEF TestsInv, ProgInv, Raising
<1>12. ASSUME ttProg = "mutex" PROVE ~ tt'.fail => CountedInv'
  BY <1>1, <1>12, CountedStep DEF TestsInv, ProgInv
<1>13. ProgInv'
  BY <1>4, <1>5, <1>6, <1>7, <1>8, <1>9, <1>10, <1>11, <1>12 DEF ProgInv, Raising
<1> QED
  BY <1>2, <1>3, <1>13 DEF TestsInv

LEMMA TestsKept == TestsInv /\ UNCHANGED ttVars => TestsInv'
<1> SUFFICES ASSUME TestsInv, UNCHANGED ttVars PROVE TestsInv'
  OBVIOUS
<1>1. UNCHANGED <<ttProg, ttHw, ttPc, ttIsr, ttCur, ttReg, tt>>
  BY DEF ttVars
<1>2. Shape' /\ InText'
  BY <1>1 DEF TestsInv, Shape, InText, TtText, TtHandler
<1>3. \A i : Count(i)' = Count(i) /\ Servers(i)' = Servers(i)
  BY <1>1 DEF Count, Servers
<1>4. CountInv => CountInv'
  BY <1>1, <1>3, CountKept DEF CountInv
<1>5. AllDone <=> AllDone'
  BY <1>1, <1>3 DEF AllDone
<1>6. Swi2Inv => Swi2Inv'
  BY <1>1, <1>3, Swi2Still
<1>7. LockLockInv => LockLockInv'
  BY <1>1 DEF LockLockInv, MainAlone, NoInterrupts
<1>8. CiadInv => CiadInv'
  BY <1>1 DEF CiadInv, MainAlone, NoInterrupts
<1>9. MutexInv => MutexInv'
  BY <1>1 DEF MutexInv, NoInterrupts
<1>10. BestwaitInv => BestwaitInv'
  BY <1>1 DEF BestwaitInv, NotRaised, WasRaised, Thcnt
<1>11. SwiInv => SwiInv'
  BY <1>1 DEF SwiInv
<1>12. CountedInv => CountedInv'
  BY <1>1, CountedKept
<1>13. ProgInv'
  BY <1>1, <1>4, <1>6, <1>7, <1>8, <1>9, <1>10, <1>11, <1>12 DEF TestsInv, ProgInv
<1> QED
  BY <1>2, <1>13 DEF TestsInv

SuiteTestsInv == suite = "threads" => TestsInv

LEMMA SuiteTestsStep == SuiteTestsInv /\ [SuiteNext]_suiteVars => SuiteTestsInv'
<1> SUFFICES ASSUME SuiteTestsInv, [SuiteNext]_suiteVars, suite' = "threads"
             PROVE  TestsInv'
  BY DEF SuiteTestsInv
<1>1. CASE InThreads(TtNext)
  <2>1. TestsInv /\ TtNext
    BY <1>1 DEF InThreads, SuiteTestsInv
  <2>2. PICK t \in Threads : TtStep(t) \/ OpLock(t) \/ TakeInterrupt(t)
    BY <2>1 DEF TtNext
  <2> QED
    BY <2>1, <2>2, TestsStep
<1>2. CASE InAtomics(SaNext)
  BY <1>2 DEF InAtomics
<1>3. CASE UNCHANGED suiteVars
  BY <1>3, TestsKept DEF suiteVars, SuiteTestsInv
<1> QED
  BY <1>1, <1>2, <1>3 DEF SuiteNext

(* Where every thread of every test is, and what each test's state then is:  *)
(* the inductive invariant of the suite, from which the next three follow.   *)
THEOREM SuiteTestsAlways == SuiteSpec => []SuiteTestsInv
<1>1. SuiteInit => SuiteTestsInv
  BY InitTests DEF SuiteInit, SuiteTestsInv
<1> QED
  BY <1>1, SuiteTestsStep, PTL DEF SuiteSpec

(* For any number of threads, interrupts and rounds, no check of a test      *)
(* fails: k0locklock.c and tlblocklock.c never get the second lock,          *)
(* ciad-siad.c reads the IAD it wrote, every thread of test-thread.c has     *)
(* stored its thid when main looks, bestwait.c ends with thcnt 5; but for    *)
(* test-thread.c on a machine that has a thread for the id THCNT.            *)
THEOREM ThreadTestsNeverFail == SuiteSpec => []ThreadChecksPass
<1>1. SuiteTestsInv => ThreadChecksPass
  <2> SUFFICES ASSUME suite = "threads", TestsInv, tt.fail PROVE ttProg = "mutex" /\ ttHw = Threads
    BY DEF SuiteTestsInv, ThreadChecksPass
  <2> QED
    BY DEF TestsInv, ProgInv, Checking, LockLockInv, CiadInv, MutexInv, BestwaitInv
<1> QED
  BY <1>1, SuiteTestsAlways, PTL

(* test-thread.c: for any number of threads, thcnt is at any time the number *)
(* of threads that have come through the mutex, on a machine with a thread   *)
(* for every id too until the assertion on the id ends the program.          *)
THEOREM ThcntNeverShort == SuiteSpec => []ThcntExact
<1>1. SuiteTestsInv => ThcntExact
  <2> SUFFICES ASSUME suite = "threads", TestsInv, ttProg = "mutex", ~ tt.fail
               PROVE  Thcnt = Cardinality(Passed)
    BY DEF SuiteTestsInv, ThcntExact, Thcnt, Passed, Created, THCNT
  <2> QED
    BY DEF TestsInv, ProgInv, CountedInv
<1> QED
  BY <1>1, SuiteTestsAlways, PTL

(* swi.c, swi2.c: for any number of threads, interrupts and turns, every swi *)
(* of an interrupt since the counts were cleared is counted, pending or in   *)
(* one handler that has not counted it yet.  No raise is merged with an      *)
(* earlier one and no handler's count++ overwrites another's.                *)
THEOREM InterruptsNeverLost == SuiteSpec => []NothingLost
<1>1. SuiteTestsInv => NothingLost
  <2> SUFFICES ASSUME suite = "threads", TestsInv, ttProg \in {"swi", "swi2"}, NEW i \in TestInts
               PROVE  tt.raised[i] = tt.mem[<<"count", i>>]
                        + (IF i \in tt.ipend THEN 1 ELSE 0)
                        + Cardinality({t \in Threads : ttIsr[t] \in 1 .. 2 /\ ttCur[t] = i})
    BY DEF SuiteTestsInv, NothingLost
  <2>1. CountInv
    BY DEF TestsInv, ProgInv, Raising
  <2> QED
    BY <2>1, CountSums DEF Count, Servers
<1> QED
  BY <1>1, SuiteTestsAlways, PTL
=============================================================================
