---------------------------- MODULE LockTimerProofs ----------------------------
(* lock_timer_test.c, for any number of workers, interrupts, rounds and SWIs. *)
EXTENDS LockTimer, FiniteSetTheorems, TLAPS

Inside == {"fetch", "start", "delay", "unlock", "break"}    \* with the lock
Busy == {"start", "delay", "unlock", "record"}              \* with a round to record
Timed == {"unlock", "record"}                               \* with both readings

Types ==
    /\ mpc \in {"setup", "check", "swi", "wait", "complete", "join", "verify"}
    /\ swi_issued_count \in Nat /\ global_round_counter \in Nat
    /\ clock \in Nat
    /\ pc \in [Workers -> {"stopped", "loop", "lock"} \cup Inside \cup Busy]
    /\ round \in [Workers -> Nat]
    /\ start \in [Workers -> Nat] /\ end \in [Workers -> Nat]
    /\ lock_records \in [Rounds -> Records \cup {NoRecord}]
    /\ ipend \subseteq Ints
    /\ isr \in [Workers -> Ints \cup {NoInt}]
    /\ step \in [Workers -> {"irq", "tid", "ciad"}]
    /\ ints_by_irq \in [Ints -> Nat] /\ ints_by_tid \in [Workers -> Nat]

(* The lock's owner is the one thread inside.                                *)
Locked == \A w \in Workers : pc[w] \in Inside => owner = w

(* No worker runs, and none is in the handler, outside launch and join; Main *)
(* leaves its loop with the rounds used up.                                  *)
Joined ==
    /\ mpc \in {"setup", "verify"} => \A w \in Workers : pc[w] = "stopped"
    /\ \A w \in Workers : pc[w] = "stopped" => isr[w] = NoInt
    /\ mpc \in {"complete", "join", "verify"} => global_round_counter >= TARGET

Recorded(r) == lock_records[r] # NoRecord

(* A round handed out is recorded or is a busy worker's, and not both.       *)
Handed ==
    /\ \A w \in Workers :
         pc[w] \in Busy => round[w] \in Rounds /\ round[w] < global_round_counter /\ ~ Recorded(round[w])
    /\ \A v, w \in Workers : v # w /\ pc[v] \in Busy /\ pc[w] \in Busy => round[v] # round[w]
    /\ \A r \in Rounds :
         Recorded(r) => r < global_round_counter /\ lock_records[r].round = r
    /\ \A r \in Rounds :
         r < global_round_counter => Recorded(r) \/ \E w \in Workers : pc[w] \in Busy /\ round[w] = r

Apart(s1, e1, s2, e2) == e1 <= s2 \/ e2 <= s1

(* The intervals of all rounds measured so far, in the table or still in a   *)
(* worker's locals, are in the past and apart; the one being measured began  *)
(* after all of them.                                                        *)
Past ==
    /\ \A r \in Rounds : Recorded(r) => lock_records[r].end_time <= clock
    /\ \A w \in Workers : pc[w] \in Timed => end[w] <= clock
Disjoint ==
    /\ \A r, s \in Rounds : r # s /\ Recorded(r) /\ Recorded(s) =>
         Apart(lock_records[r].start_time, lock_records[r].end_time,
               lock_records[s].start_time, lock_records[s].end_time)
    /\ \A w \in Workers, r \in Rounds : pc[w] \in Timed /\ Recorded(r) =>
         Apart(start[w], end[w], lock_records[r].start_time, lock_records[r].end_time)
    /\ \A v, w \in Workers : v # w /\ pc[v] \in Timed /\ pc[w] \in Timed =>
         Apart(start[v], end[v], start[w], end[w])
Latest ==
    \A w \in Workers : pc[w] = "delay" =>
        /\ \A r \in Rounds : Recorded(r) => lock_records[r].end_time <= start[w]
        /\ \A v \in Workers : pc[v] \in Timed => end[v] <= start[w]

RecordsInv == Types /\ Locked /\ Joined /\ Handed /\ Past /\ Disjoint /\ Latest

(* Handlers that have not counted by thread, and those between their counts. *)
Uncounted == {w \in Workers : isr[w] # NoInt /\ step[w] \in {"irq", "tid"}}
Half == {w \in Workers : isr[w] # NoInt /\ step[w] = "tid"}

(* Every interrupt raised is pending, in a handler or counted.  Main raises  *)
(* the next ones when none is pending or in a handler before its count.      *)
Accounts ==
    /\ Total(ints_by_tid) + Cardinality(ipend) + Cardinality(Uncounted)
         = swi_issued_count * Cardinality(Ints)
    /\ Total(ints_by_irq) = Total(ints_by_tid) + Cardinality(Half)
    /\ mpc # "wait" => ipend = {} /\ Uncounted = {}

LEMMA InitRecords == Init => RecordsInv
BY TargetAssumption DEF Init, RecordsInv, Types, Locked, Joined, Handed, Past, Disjoint, Latest, Recorded,
   Inside, Busy, Timed, Rounds

(* Steps of Main and of the handlers that leave the rounds alone.            *)
LEMMA RecordsKept ==
  ASSUME RecordsInv, Types', Joined',
         UNCHANGED <<pc, owner, round, start, end, lock_records, clock, global_round_counter>>
  PROVE  RecordsInv'
BY DEF RecordsInv, Locked, Handed, Past, Disjoint, Latest, Recorded

LEMMA ResetStep == ASSUME RecordsInv, reset_test_state PROVE RecordsInv'
<1>1. /\ mpc = "setup" /\ mpc' = "check" /\ swi_issued_count' = 0 /\ global_round_counter' = 0
      /\ pc' = [w \in Workers |-> "loop"]
      /\ lock_records' = [r \in Rounds |-> NoRecord]
      /\ ints_by_irq' = [i \in Ints |-> 0] /\ ints_by_tid' = [w \in Workers |-> 0]
      /\ UNCHANGED <<clock, round, start, end, ipend, isr, step>>
  BY DEF reset_test_state, ResetRounds, ResetCounts
<1>2. Types'
  BY <1>1 DEF RecordsInv, Types
<1>3. \A r \in Rounds : ~ Recorded(r)'
  BY <1>1 DEF Recorded
<1>4. \A w \in Workers : pc'[w] = "loop"
  BY <1>1
<1>5. Handed'
  BY <1>1, <1>3, <1>4 DEF Handed, Busy, Rounds
<1>6. Locked' /\ Joined' /\ Past' /\ Disjoint' /\ Latest'
  BY <1>1, <1>3, <1>4 DEF Locked, Joined, Past, Disjoint, Latest, Inside, Timed
<1> QED
  BY <1>2, <1>5, <1>6 DEF RecordsInv

LEMMA MainStep == ASSUME RecordsInv, run_lock_test PROVE RecordsInv'
<1>1. CASE CheckRounds
  BY <1>1, RecordsKept, TargetAssumption DEF CheckRounds, RoundsLeft, workVars, intVars, RecordsInv, Types, Joined
<1>2. CASE IssueSwi
  BY <1>2, RecordsKept DEF IssueSwi, workVars, RecordsInv, Types, Joined
<1>3. CASE wait_for_int_count
  BY <1>3, RecordsKept DEF wait_for_int_count, workVars, intVars, RecordsInv, Types, Joined
<1>4. CASE Complete
  BY <1>4, RecordsKept DEF Complete, workVars, intVars, RecordsInv, Types, Joined
<1>5. CASE Join
  BY <1>5, RecordsKept DEF Join, workVars, intVars, RecordsInv, Types, Joined
<1>6. CASE Verify
  BY <1>6, RecordsKept DEF Verify, workVars, intVars, RecordsInv, Types, Joined
<1> QED
  BY <1>1, <1>2, <1>3, <1>4, <1>5, <1>6, ResetStep DEF run_lock_test

LEMMA InterruptStep ==
  ASSUME RecordsInv, NEW w \in Workers, interrupt_handler(w) \/ \E i \in Ints : Deliver(w, i)
  PROVE  RecordsInv'
<1>1. CASE interrupt_handler(w)
  <2>1. /\ isr[w] # NoInt /\ isr[w] \in Ints
        /\ UNCHANGED <<mpc, swi_issued_count, pc, owner, round, start, end, lock_records, clock,
                       global_round_counter, ipend>>
        /\ isr' \in {isr, [isr EXCEPT ![w] = NoInt]}
        /\ \E s \in {"irq", "tid", "ciad"} : step' = [step EXCEPT ![w] = s]
        /\ ints_by_irq' \in {ints_by_irq, [ints_by_irq EXCEPT ![isr[w]] = @ + 1]}
        /\ ints_by_tid' \in {ints_by_tid, [ints_by_tid EXCEPT ![w] = @ + 1]}
    BY <1>1 DEF interrupt_handler, mainVars, workVars, RecordsInv, Types
  <2>2. ints_by_irq' \in [Ints -> Nat] /\ ints_by_tid' \in [Workers -> Nat]
    BY <2>1 DEF RecordsInv, Types
  <2>3. isr' \in [Workers -> Ints \cup {NoInt}] /\ step' \in [Workers -> {"irq", "tid", "ciad"}]
    BY <2>1 DEF RecordsInv, Types
  <2>4. Types'
    BY <2>1, <2>2, <2>3 DEF RecordsInv, Types
  <2>5. Joined'
    BY <2>1 DEF RecordsInv, Types, Joined
  <2> QED
    BY <2>1, <2>4, <2>5, RecordsKept
<1>2. ASSUME NEW i \in Ints, Deliver(w, i) PROVE RecordsInv'
  <2>1. /\ pc[w] # "stopped"
        /\ UNCHANGED <<mpc, swi_issued_count, pc, owner, round, start, end, lock_records, clock,
                       global_round_counter, ints_by_irq, ints_by_tid>>
        /\ isr' = [isr EXCEPT ![w] = i] /\ step' = [step EXCEPT ![w] = "irq"]
        /\ ipend' = ipend \ {i}
    BY <1>2 DEF Deliver, mainVars, workVars
  <2>2. Types'
    BY <2>1 DEF RecordsInv, Types
  <2>3. Joined'
    BY <2>1 DEF RecordsInv, Types, Joined
  <2> QED
    BY <2>1, <2>2, <2>3, RecordsKept
<1> QED
  BY <1>1, <1>2

(* What every step of a worker has in common.                                *)
LEMMA WorkerFrame ==
  ASSUME RecordsInv, NEW w \in Workers, thread_func(w)
  PROVE  /\ UNCHANGED <<mpc, swi_issued_count, ipend, isr, step, ints_by_irq, ints_by_tid>>
         /\ pc[w] # "stopped" /\ isr[w] = NoInt
         /\ pc'[w] \in {"stopped", "loop", "lock"} \cup Inside \cup Busy
         /\ pc' = [pc EXCEPT ![w] = pc'[w]]
         /\ \A v \in Workers : v # w => pc'[v] = pc[v]
         /\ global_round_counter' >= global_round_counter /\ global_round_counter' \in Nat
         /\ Joined'
<1>1. /\ UNCHANGED <<mpc, swi_issued_count, ipend, isr, step, ints_by_irq, ints_by_tid>>
      /\ pc[w] # "stopped" /\ isr[w] = NoInt
  BY DEF thread_func, Step, LoopTest, lock_func, FetchRound, ReadStart, DelayAndReadEnd, unlock_func,
         UnlockAndBreak, WriteRecord, mainVars, intVars
<1>2. \E m \in {"stopped", "loop", "lock"} \cup Inside \cup Busy : pc' = [pc EXCEPT ![w] = m]
  BY DEF thread_func, Step, LoopTest, lock_func, FetchRound, ReadStart, DelayAndReadEnd, unlock_func,
         UnlockAndBreak, WriteRecord, Inside, Busy
<1>3. pc \in [Workers -> {"stopped", "loop", "lock"} \cup Inside \cup Busy]
  BY DEF RecordsInv, Types
<1>4. /\ pc'[w] \in {"stopped", "loop", "lock"} \cup Inside \cup Busy
      /\ pc' = [pc EXCEPT ![w] = pc'[w]]
      /\ \A v \in Workers : v # w => pc'[v] = pc[v]
  BY <1>2, <1>3
<1>5. global_round_counter' \in {global_round_counter, global_round_counter + 1}
  BY DEF thread_func, LoopTest, lock_func, FetchRound, ReadStart, DelayAndReadEnd, unlock_func,
         UnlockAndBreak, WriteRecord
<1>6. global_round_counter' >= global_round_counter /\ global_round_counter' \in Nat
  BY <1>5 DEF RecordsInv, Types
<1>7. Joined'
  BY <1>1, <1>4, <1>6, TargetAssumption DEF RecordsInv, Types, Joined
<1> QED
  BY <1>1, <1>4, <1>6, <1>7

(* Steps that only move a worker between labels where it has no round.       *)
LEMMA LoopStep ==
  ASSUME RecordsInv, NEW w \in Workers, LoopTest(w) \/ lock_func(w) \/ UnlockAndBreak(w)
  PROVE  RecordsInv'
<1>1. /\ pc[w] \notin Busy \/ pc'[w] = pc[w]
      /\ pc'[w] \notin Busy
      /\ UNCHANGED <<start, end, lock_records, clock, global_round_counter>>
      /\ round' \in {round, [round EXCEPT ![w] = 0]}
  <2>1. CASE LoopTest(w)
    BY <2>1 DEF LoopTest, Step, RecordsInv, Types, Busy
  <2>2. CASE lock_func(w)
    BY <2>2 DEF lock_func, Step, RecordsInv, Types, Busy
  <2>3. CASE UnlockAndBreak(w)
    BY <2>3 DEF UnlockAndBreak, Step, RecordsInv, Types, Busy
  <2> QED
    BY <2>1, <2>2, <2>3
<1>2. thread_func(w)
  BY DEF thread_func
<1>3. Locked'
  <2>1. CASE LoopTest(w)
    BY <2>1, WorkersAssumption DEF LoopTest, Step, RecordsInv, Types, Locked, Inside
  <2>2. CASE lock_func(w)
    BY <2>2, WorkersAssumption DEF lock_func, Step, RecordsInv, Types, Locked
  <2>3. CASE UnlockAndBreak(w)
    BY <2>3, WorkersAssumption DEF UnlockAndBreak, Step, RecordsInv, Types, Locked, Inside
  <2> QED
    BY <2>1, <2>2, <2>3
<1>4. Types' /\ Joined'
  BY <1>1, <1>2, WorkerFrame DEF RecordsInv, Types
<1>5. \A v \in Workers : v # w => pc'[v] = pc[v] /\ round'[v] = round[v]
  BY <1>1, <1>2, WorkerFrame DEF RecordsInv, Types
<1>6. pc[w] \notin Busy
  BY <1>1
<1>7. \A r \in Rounds : Recorded(r)' <=> Recorded(r)
  BY <1>1 DEF Recorded
<1>8. Handed'
  BY <1>1, <1>5, <1>6, <1>7 DEF RecordsInv, Types, Handed, Recorded
<1>9. Past' /\ Disjoint' /\ Latest'
  BY <1>1, <1>5, <1>6, <1>7 DEF RecordsInv, Types, Past, Disjoint, Latest, Busy, Timed
<1> QED
  BY <1>3, <1>4, <1>8, <1>9 DEF RecordsInv

(* The round a worker fetches is new: nobody has it and no record is of it.  *)
LEMMA FetchStep == ASSUME RecordsInv, NEW w \in Workers, FetchRound(w) PROVE RecordsInv'
<1>1. /\ pc[w] = "fetch"
      /\ pc'[w] = IF global_round_counter >= TARGET THEN "break" ELSE "start"
      /\ round' = [round EXCEPT ![w] = global_round_counter]
      /\ global_round_counter' = global_round_counter + 1
      /\ UNCHANGED <<owner, clock, start, end, lock_records>>
  BY DEF FetchRound, Step, RecordsInv, Types
<1>2. thread_func(w)
  BY DEF thread_func
<1>3. Types' /\ Joined'
  BY <1>1, <1>2, WorkerFrame DEF RecordsInv, Types
<1>4. /\ \A v \in Workers : v # w => pc'[v] = pc[v] /\ round'[v] = round[v]
      /\ round'[w] = global_round_counter
  BY <1>1, <1>2, WorkerFrame DEF RecordsInv, Types
<1>5. pc[w] \notin Busy /\ pc'[w] \notin Timed \cup {"delay"} /\ pc[w] \in Inside
  BY <1>1 DEF Busy, Timed, Inside
<1>6. \A r \in Rounds : Recorded(r)' <=> Recorded(r)
  BY <1>1 DEF Recorded
<1>7. Locked'
  BY <1>1, <1>4, <1>5 DEF RecordsInv, Locked
<1>8. Handed'
  <2>1. ASSUME pc'[w] \in Busy
        PROVE  global_round_counter \in Rounds /\ ~ Recorded(global_round_counter)
    BY <1>1, <2>1, TargetAssumption DEF Busy, Rounds, RecordsInv, Types, Handed
  <2>2. \A v \in Workers :
          pc'[v] \in Busy => /\ round'[v] \in Rounds /\ round'[v] < global_round_counter'
                             /\ lock_records'[round'[v]] = NoRecord
    BY <1>1, <1>4, <2>1 DEF RecordsInv, Types, Handed, Rounds, Recorded
  <2>3. \A u, v \in Workers : u # v /\ pc'[u] \in Busy /\ pc'[v] \in Busy => round'[u] # round'[v]
    BY <1>1, <1>4, <1>5 DEF RecordsInv, Types, Handed, Rounds
  <2>4. \A r \in Rounds : Recorded(r)' => r < global_round_counter' /\ lock_records'[r].round = r
    BY <1>1, <1>6 DEF RecordsInv, Types, Handed, Rounds
  <2>5. ASSUME NEW r \in Rounds, r < global_round_counter'
        PROVE  Recorded(r)' \/ \E v \in Workers : pc'[v] \in Busy /\ round'[v] = r
    <3>1. CASE r = global_round_counter
      BY <1>1, <1>4, <3>1, TargetAssumption DEF Rounds, Busy, RecordsInv, Types
    <3>2. CASE r # global_round_counter
      <4>1. r < global_round_counter
        BY <1>1, <2>5, <3>2 DEF Rounds, RecordsInv, Types
      <4> QED
        BY <1>4, <1>5, <1>6, <4>1 DEF RecordsInv, Handed
    <3> QED
      BY <3>1, <3>2
  <2> QED
    BY <2>2, <2>3, <2>4, <2>5 DEF Handed, Recorded
<1>9. Past' /\ Disjoint' /\ Latest'
  BY <1>1, <1>4, <1>5, <1>6 DEF RecordsInv, Types, Past, Disjoint, Latest
<1> QED
  BY <1>3, <1>7, <1>8, <1>9 DEF RecordsInv

(* Nobody else holds the lock, so all that is measured is in the past.       *)
LEMMA ReadStartStep == ASSUME RecordsInv, NEW w \in Workers, ReadStart(w) PROVE RecordsInv'
<1>1. /\ pc[w] = "start" /\ pc'[w] = "delay"
      /\ start' = [start EXCEPT ![w] = clock]
      /\ UNCHANGED <<global_round_counter, owner, clock, round, end, lock_records>>
  BY DEF ReadStart, Step, RecordsInv, Types
<1>2. thread_func(w)
  BY DEF thread_func
<1>3. Types' /\ Joined'
  BY <1>1, <1>2, WorkerFrame DEF RecordsInv, Types
<1>4. /\ \A v \in Workers : v # w => pc'[v] = pc[v] /\ start'[v] = start[v]
      /\ start'[w] = clock
  BY <1>1, <1>2, WorkerFrame DEF RecordsInv, Types
<1>5. \A v \in Workers : v # w => pc[v] # "delay"
  BY <1>1 DEF RecordsInv, Locked, Inside
<1>6. \A v \in Workers :
        /\ pc'[v] \in Inside <=> pc[v] \in Inside
        /\ pc'[v] \in Busy <=> pc[v] \in Busy
        /\ pc'[v] \in Timed <=> pc[v] \in Timed
        /\ pc'[v] \in Timed => v # w
  BY <1>1, <1>4 DEF Inside, Busy, Timed
<1>7. \A r \in Rounds : Recorded(r)' <=> Recorded(r)
  BY <1>1 DEF Recorded
<1>8. Locked' /\ Handed'
  BY <1>1, <1>6, <1>7 DEF RecordsInv, Locked, Handed, Recorded
<1>9. Past' /\ Disjoint'
  BY <1>1, <1>4, <1>6, <1>7 DEF RecordsInv, Past, Disjoint
<1>10. Latest'
  BY <1>1, <1>4, <1>5, <1>6, <1>7 DEF RecordsInv, Past, Latest
<1> QED
  BY <1>3, <1>8, <1>9, <1>10 DEF RecordsInv

LEMMA ReadEndStep == ASSUME RecordsInv, NEW w \in Workers, DelayAndReadEnd(w) PROVE RecordsInv'
<1>1. /\ pc[w] = "delay" /\ pc'[w] = "unlock"
      /\ clock' = clock + 1 /\ end' = [end EXCEPT ![w] = clock']
      /\ UNCHANGED <<global_round_counter, owner, round, start, lock_records>>
  BY DEF DelayAndReadEnd, Step, RecordsInv, Types
<1>2. thread_func(w)
  BY DEF thread_func
<1>3. Types' /\ Joined'
  BY <1>1, <1>2, WorkerFrame DEF RecordsInv, Types
<1>4. /\ \A v \in Workers : v # w => pc'[v] = pc[v] /\ end'[v] = end[v]
      /\ end'[w] = clock + 1
  BY <1>1, <1>2, WorkerFrame DEF RecordsInv, Types
<1>5. \A v \in Workers : pc'[v] # "delay"
  BY <1>1, <1>4 DEF RecordsInv, Locked, Inside
<1>6. \A v \in Workers :
        /\ pc'[v] \in Inside <=> pc[v] \in Inside
        /\ pc'[v] \in Busy <=> pc[v] \in Busy
        /\ pc'[v] \in Timed <=> pc[v] \in Timed \/ v = w
  BY <1>1, <1>4 DEF Inside, Busy, Timed
<1>7. \A r \in Rounds : Recorded(r)' <=> Recorded(r)
  BY <1>1 DEF Recorded
<1>8. Locked' /\ Handed'
  BY <1>1, <1>6, <1>7 DEF RecordsInv, Locked, Handed, Recorded
<1>9. Past'
  <2>1. \A r \in Rounds : Recorded(r) => lock_records[r].end_time \in Nat
    BY DEF RecordsInv, Types, Recorded, Records
  <2> QED
    BY <1>1, <1>4, <1>6, <1>7, <2>1 DEF RecordsInv, Types, Past
<1>10. Disjoint'
  <2>1. \A r \in Rounds : Recorded(r) => lock_records[r].end_time <= start[w]
    BY <1>1 DEF RecordsInv, Latest
  <2>2. \A v \in Workers : pc[v] \in Timed => end[v] <= start[w]
    BY <1>1 DEF RecordsInv, Latest
  <2> QED
    BY <1>1, <1>4, <1>6, <1>7, <2>1, <2>2 DEF RecordsInv, Disjoint, Apart
<1>11. Latest'
  BY <1>5 DEF Latest
<1> QED
  BY <1>3, <1>8, <1>9, <1>10, <1>11 DEF RecordsInv

LEMMA UnlockStep == ASSUME RecordsInv, NEW w \in Workers, unlock_func(w) PROVE RecordsInv'
<1>1. /\ pc[w] = "unlock" /\ pc'[w] = "record" /\ owner' = NoThread
      /\ UNCHANGED <<global_round_counter, clock, round, start, end, lock_records>>
  BY DEF unlock_func, Step, RecordsInv, Types
<1>2. thread_func(w)
  BY DEF thread_func
<1>3. Types' /\ Joined'
  BY <1>1, <1>2, WorkerFrame DEF RecordsInv, Types
<1>4. \A v \in Workers : v # w => pc'[v] = pc[v]
  BY <1>1, <1>2, WorkerFrame
<1>5. \A v \in Workers : pc'[v] \notin Inside
  BY <1>1, <1>4 DEF RecordsInv, Locked, Inside
<1>6. \A v \in Workers :
        /\ pc'[v] \in Busy <=> pc[v] \in Busy
        /\ pc'[v] \in Timed <=> pc[v] \in Timed
        /\ pc'[v] = "delay" <=> pc[v] = "delay"
  BY <1>1, <1>4 DEF Busy, Timed
<1>7. \A r \in Rounds : Recorded(r)' <=> Recorded(r)
  BY <1>1 DEF Recorded
<1>8. Locked' /\ Handed'
  BY <1>1, <1>5, <1>6, <1>7 DEF RecordsInv, Locked, Handed, Recorded
<1>9. Past' /\ Disjoint' /\ Latest'
  BY <1>1, <1>6, <1>7 DEF RecordsInv, Past, Disjoint, Latest
<1> QED
  BY <1>3, <1>8, <1>9 DEF RecordsInv

(* The record goes where no other busy worker's will go.                     *)
LEMMA WriteStep == ASSUME RecordsInv, NEW w \in Workers, WriteRecord(w) PROVE RecordsInv'
<1> DEFINE rec == [start_time |-> start[w], end_time |-> end[w], thread_id |-> w, round |-> round[w]]
<1>1. /\ pc[w] = "record" /\ pc'[w] = "loop"
      /\ lock_records' = [lock_records EXCEPT ![round[w]] = rec]
      /\ round' = [round EXCEPT ![w] = 0]
      /\ start' = [start EXCEPT ![w] = 0] /\ end' = [end EXCEPT ![w] = 0]
      /\ UNCHANGED <<global_round_counter, owner, clock>>
  BY DEF WriteRecord, Step, RecordsInv, Types
<1>2. round[w] \in Rounds /\ round[w] < global_round_counter /\ ~ Recorded(round[w])
  BY <1>1 DEF RecordsInv, Handed, Busy
<1>3. /\ rec \in Records /\ rec # NoRecord /\ rec.round = round[w]
      /\ rec.start_time = start[w] /\ rec.end_time = end[w]
  BY <1>2, RecordAssumption DEF Records, RecordsInv, Types
<1>4. thread_func(w)
  BY DEF thread_func
<1> HIDE DEF rec
<1>5. Types' /\ Joined'
  BY <1>1, <1>2, <1>3, <1>4, WorkerFrame DEF RecordsInv, Types
<1>6. \A v \in Workers : v # w =>
        /\ pc'[v] = pc[v] /\ round'[v] = round[v] /\ start'[v] = start[v] /\ end'[v] = end[v]
  BY <1>1, <1>4, WorkerFrame DEF RecordsInv, Types
<1>7. /\ lock_records'[round[w]] = rec /\ rec # NoRecord
      /\ \A r \in Rounds : r # round[w] =>
           lock_records'[r] = lock_records[r] /\ (Recorded(r)' <=> Recorded(r))
  BY <1>1, <1>2, <1>3 DEF RecordsInv, Types, Recorded
<1>8. pc'[w] \notin Inside \cup Busy \cup Timed \cup {"delay"} /\ pc[w] \in Busy /\ pc[w] \in Timed
  BY <1>1 DEF Inside, Busy, Timed
<1>9. Locked'
  BY <1>1, <1>6, <1>8 DEF RecordsInv, Locked
<1>10. Handed'
  <2>1. \A v \in Workers :
          pc'[v] \in Busy => /\ round'[v] \in Rounds /\ round'[v] < global_round_counter'
                             /\ lock_records'[round'[v]] = NoRecord
    <3> SUFFICES ASSUME NEW v \in Workers, pc'[v] \in Busy
                 PROVE  /\ round'[v] \in Rounds /\ round'[v] < global_round_counter'
                        /\ lock_records'[round'[v]] = NoRecord
      OBVIOUS
    <3>1. v # w /\ pc[v] \in Busy /\ round'[v] = round[v]
      BY <1>6, <1>8
    <3>2. round[v] \in Rounds /\ round[v] < global_round_counter /\ ~ Recorded(round[v])
      BY <3>1 DEF RecordsInv, Handed
    <3>3. round[v] # round[w]
      BY <1>8, <3>1 DEF RecordsInv, Handed
    <3>4. lock_records'[round[v]] = NoRecord
      BY <1>7, <3>2, <3>3 DEF Recorded
    <3> QED
      BY <1>1, <3>1, <3>2, <3>4
  <2>2. \A u, v \in Workers : u # v /\ pc'[u] \in Busy /\ pc'[v] \in Busy => round'[u] # round'[v]
    BY <1>6, <1>8 DEF RecordsInv, Handed
  <2>3. \A r \in Rounds : Recorded(r)' => r < global_round_counter' /\ lock_records'[r].round = r
    BY <1>1, <1>2, <1>3, <1>7 DEF RecordsInv, Handed
  <2>4. ASSUME NEW r \in Rounds, r < global_round_counter'
        PROVE  Recorded(r)' \/ \E v \in Workers : pc'[v] \in Busy /\ round'[v] = r
    <3>1. CASE r = round[w]
      BY <1>7, <3>1 DEF Recorded
    <3>2. CASE r # round[w]
      BY <1>1, <1>6, <1>7, <2>4, <3>2 DEF RecordsInv, Handed
    <3> QED
      BY <3>1, <3>2
  <2> QED
    BY <2>1, <2>2, <2>3, <2>4 DEF Handed, Recorded
<1>11. Past'
  BY <1>1, <1>3, <1>6, <1>7, <1>8 DEF RecordsInv, Past
<1>12. Disjoint'
  <2>1. ASSUME NEW r \in Rounds, NEW s \in Rounds, r # s, Recorded(r)', Recorded(s)'
        PROVE  Apart(lock_records'[r].start_time, lock_records'[r].end_time,
                     lock_records'[s].start_time, lock_records'[s].end_time)
    BY <1>3, <1>7, <1>8, <2>1 DEF RecordsInv, Disjoint, Apart
  <2>2. ASSUME NEW v \in Workers, NEW r \in Rounds, pc'[v] \in Timed, Recorded(r)'
        PROVE  Apart(start'[v], end'[v], lock_records'[r].start_time, lock_records'[r].end_time)
    BY <1>3, <1>6, <1>7, <1>8, <2>2 DEF RecordsInv, Disjoint, Apart
  <2>3. ASSUME NEW u \in Workers, NEW v \in Workers, u # v, pc'[u] \in Timed, pc'[v] \in Timed
        PROVE  Apart(start'[u], end'[u], start'[v], end'[v])
    BY <1>6, <1>8, <2>3 DEF RecordsInv, Disjoint
  <2> QED
    BY <2>1, <2>2, <2>3 DEF Disjoint, Apart
<1>13. Latest'
  BY <1>3, <1>6, <1>7, <1>8 DEF RecordsInv, Latest
<1> QED
  BY <1>5, <1>9, <1>10, <1>11, <1>12, <1>13 DEF RecordsInv

(* Every round a worker took is recorded once, apart from all the others.    *)
THEOREM LockTimerInv == Spec => []RecordsInv
<1>1. RecordsInv /\ [Next]_vars => RecordsInv'
  <2> SUFFICES ASSUME RecordsInv, [Next]_vars PROVE RecordsInv'
    OBVIOUS
  <2>1. CASE UNCHANGED vars
    BY <2>1, RecordsKept DEF vars, mainVars, workVars, intVars, RecordsInv, Types, Joined
  <2>2. ASSUME NEW w \in Workers, thread_func(w) PROVE RecordsInv'
    BY <2>2, LoopStep, FetchStep, ReadStartStep, ReadEndStep, UnlockStep, WriteStep DEF thread_func
  <2> QED
    BY <2>1, <2>2, MainStep, InterruptStep DEF Next, Finished
<1> QED
  BY InitRecords, <1>1, PTL DEF Spec

(* verify_no_overlaps: when it reads the table, every round has its record,  *)
(* although global_round_counter overshoots and records are written after    *)
(* the unlock, and no two intervals overlap.                                 *)
THEOREM RecordsComplete == Spec => []RecordsExact
<1>1. RecordsInv => RecordsExact
  <2> SUFFICES ASSUME RecordsInv, mpc = "verify"
               PROVE  /\ \A r \in Rounds : lock_records[r] # NoRecord /\ lock_records[r].round = r
                      /\ \A r, s \in Rounds :
                           \/ r = s
                           \/ lock_records[r].end_time <= lock_records[s].start_time
                           \/ lock_records[s].end_time <= lock_records[r].start_time
    BY DEF RecordsExact
  <2>1. \A w \in Workers : pc[w] \notin Busy
    BY DEF RecordsInv, Joined, Busy
  <2>2. \A r \in Rounds : r < global_round_counter
    BY TargetAssumption DEF RecordsInv, Joined, Types, Rounds
  <2>3. \A r \in Rounds : Recorded(r) /\ lock_records[r].round = r
    BY <2>1, <2>2 DEF RecordsInv, Handed
  <2> QED
    BY <2>3 DEF RecordsInv, Disjoint, Apart, Recorded
<1> QED
  BY LockTimerInv, <1>1, PTL

-----------------------------------------------------------------------------
(* Sums of counters.                                                         *)

LEMMA UnitsFinite ==
  ASSUME NEW S, IsFiniteSet(S), NEW f \in [S -> Nat]
  PROVE  IsFiniteSet(Units(f)) /\ Total(f) \in Nat
<1> DEFINE col == [x \in S |-> {x} \X (1 .. f[x])]
           Cols == {col[x] : x \in S}
<1>1. IsFiniteSet(Cols)
  <2>1. col \in Surjection(S, Cols)
    BY DEF Surjection
  <2> QED
    BY <2>1, FS_Surjection
<1>2. ASSUME NEW x \in S PROVE IsFiniteSet(col[x])
  <2>1. f[x] \in Nat /\ IsFiniteSet(1 .. f[x])
    BY FS_Interval
  <2>2. IsFiniteSet({x}) /\ IsFiniteSet({x} \X (1 .. f[x]))
    BY <2>1, FS_Singleton, FS_Product
  <2> QED
    BY <2>2
<1>3. IsFiniteSet(UNION Cols)
  <2>1. \A T \in Cols : IsFiniteSet(T)
    BY <1>2
  <2> HIDE DEF Cols
  <2> QED
    BY <1>1, <2>1, FS_UNION
<1>4. Units(f) = UNION Cols
  BY DEF Units
<1> QED
  BY <1>3, <1>4, FS_CardinalityType DEF Total

(* One more count: the total grows by one.                                   *)
LEMMA OneMore ==
  ASSUME NEW S, IsFiniteSet(S), NEW f \in [S -> Nat], NEW x \in S
  PROVE  Total([f EXCEPT ![x] = @ + 1]) = Total(f) + 1
<1> DEFINE g == [f EXCEPT ![x] = @ + 1]
<1>1. g[x] = f[x] + 1 /\ \A y \in S \ {x} : g[y] = f[y]
  OBVIOUS
<1>2. 1 .. (f[x] + 1) = (1 .. f[x]) \cup {f[x] + 1}
  OBVIOUS
<1>3. Units(g) = Units(f) \cup {<<x, f[x] + 1>>}
  BY <1>1, <1>2 DEF Units
<1>4. <<x, f[x] + 1>> \notin Units(f)
  BY DEF Units
<1> QED
  BY <1>3, <1>4, UnitsFinite, FS_AddElement DEF Total

LEMMA NothingCounted ==
  ASSUME NEW S
  PROVE  Total([x \in S |-> 0]) = 0
<1>1. Units([x \in S |-> 0]) = {}
  BY DEF Units
<1> QED
  BY <1>1, FS_EmptySet DEF Total

(* The interrupts that n SWIs raise.                                         *)
LEMMA SwiTimes ==
  ASSUME NEW n \in Nat
  PROVE  /\ Cardinality(Ints) \in Nat /\ n * Cardinality(Ints) \in Nat
         /\ (n + 1) * Cardinality(Ints) = n * Cardinality(Ints) + Cardinality(Ints)
<1>1. Cardinality(Ints) \in Nat
  BY IntsAssumption, FS_CardinalityType
<1> QED
  BY <1>1

LEMMA Sizes ==
  ASSUME RecordsInv
  PROVE  /\ IsFiniteSet(ipend) /\ IsFiniteSet(Uncounted) /\ IsFiniteSet(Half)
         /\ Cardinality(ipend) \in Nat /\ Cardinality(Uncounted) \in Nat /\ Cardinality(Half) \in Nat
         /\ Total(ints_by_tid) \in Nat /\ Total(ints_by_irq) \in Nat
<1>1. IsFiniteSet(ipend)
  BY IntsAssumption, FS_Subset DEF RecordsInv, Types
<1>2. IsFiniteSet(Uncounted)
  BY WorkersAssumption, FS_Subset DEF Uncounted
<1>3. IsFiniteSet(Half)
  BY WorkersAssumption, FS_Subset DEF Half
<1>4. Total(ints_by_tid) \in Nat
  BY WorkersAssumption, UnitsFinite DEF RecordsInv, Types
<1>5. Total(ints_by_irq) \in Nat
  BY IntsAssumption, UnitsFinite DEF RecordsInv, Types
<1> QED
  BY <1>1, <1>2, <1>3, <1>4, <1>5, FS_CardinalityType

LEMMA InitAccounts == Init => Accounts
<1> SUFFICES ASSUME Init PROVE Accounts
  OBVIOUS
<1>1. ipend = {} /\ Uncounted = {} /\ Half = {} /\ swi_issued_count = 0
  BY DEF Init, Uncounted, Half
<1>2. Total(ints_by_irq) = 0 /\ Total(ints_by_tid) = 0
  BY NothingCounted DEF Init
<1>3. Cardinality({}) = 0 /\ Cardinality(Ints) \in Nat
  BY FS_EmptySet, IntsAssumption, FS_CardinalityType
<1>4. 0 * Cardinality(Ints) = 0
  BY <1>3
<1> QED
  BY <1>1, <1>2, <1>3, <1>4 DEF Accounts

(* Main counts no interrupt, and raises all of them where none is on its way.*)
LEMMA MainAccounts == ASSUME RecordsInv, Accounts, run_lock_test PROVE Accounts'
<1> USE DEF Accounts
<1>1. CASE reset_test_state
  <2>1. /\ mpc = "setup" /\ mpc' = "check" /\ swi_issued_count' = 0
        /\ ints_by_irq' = [i \in Ints |-> 0] /\ ints_by_tid' = [w \in Workers |-> 0]
        /\ UNCHANGED <<ipend, isr, step>>
    BY <1>1 DEF reset_test_state, ResetCounts
  <2>2. ipend' = {} /\ Uncounted' = {} /\ Half' = {}
    BY <2>1 DEF Uncounted, Half
  <2>3. Total(ints_by_irq') = 0 /\ Total(ints_by_tid') = 0
    BY <2>1, NothingCounted
  <2>4. Cardinality({}) = 0 /\ Cardinality(Ints) \in Nat
    BY FS_EmptySet, IntsAssumption, FS_CardinalityType
  <2>5. 0 * Cardinality(Ints) = 0
    BY <2>4
  <2> QED
    BY <2>1, <2>2, <2>3, <2>4, <2>5
<1>2. CASE IssueSwi
  <2>1. /\ mpc = "swi" /\ mpc' = "wait" /\ swi_issued_count' = swi_issued_count + 1 /\ ipend' = Ints
        /\ UNCHANGED <<isr, step, ints_by_irq, ints_by_tid>>
    BY <1>2 DEF IssueSwi
  <2>2. ipend = {} /\ Cardinality(ipend) = 0 /\ Uncounted' = Uncounted /\ Half' = Half
    BY <2>1, FS_EmptySet DEF Uncounted, Half
  <2>3. swi_issued_count \in Nat
    BY DEF RecordsInv, Types
  <2>4. Total(ints_by_tid) + Cardinality(Ints) + Cardinality(Uncounted)
          = (swi_issued_count + 1) * Cardinality(Ints)
    BY <2>2, <2>3, SwiTimes, Sizes
  <2> QED
    BY <2>1, <2>2, <2>4
<1>3. CASE wait_for_int_count
  <2>1. /\ Total(ints_by_tid) >= swi_issued_count * Cardinality(Ints)
        /\ UNCHANGED <<swi_issued_count, ipend, isr, step, ints_by_irq, ints_by_tid>>
    BY <1>3 DEF wait_for_int_count, total_int_count, intVars
  <2>2. Uncounted' = Uncounted /\ Half' = Half
    BY <2>1 DEF Uncounted, Half
  <2>3. Cardinality(ipend) = 0 /\ Cardinality(Uncounted) = 0
    <3>1. swi_issued_count * Cardinality(Ints) \in Nat
      BY SwiTimes DEF RecordsInv, Types
    <3> QED
      BY <2>1, <3>1, Sizes
  <2>4. ipend = {} /\ Uncounted = {}
    BY <2>3, Sizes, FS_EmptySet
  <2> QED
    BY <2>1, <2>2, <2>4
<1>4. CASE CheckRounds \/ Complete \/ Join \/ Verify
  <2>1. /\ mpc # "wait" /\ UNCHANGED <<swi_issued_count, ipend, isr, step, ints_by_irq, ints_by_tid>>
    BY <1>4 DEF CheckRounds, Complete, Join, Verify, intVars
  <2>2. Uncounted' = Uncounted /\ Half' = Half
    BY <2>1 DEF Uncounted, Half
  <2> QED
    BY <2>1, <2>2
<1> QED
  BY <1>1, <1>2, <1>3, <1>4 DEF run_lock_test

(* An interrupt leaves ipend for a handler.                                  *)
LEMMA DeliverAccounts ==
  ASSUME RecordsInv, Accounts, NEW w \in Workers, NEW i \in Ints, Deliver(w, i)
  PROVE  Accounts'
<1>1. /\ isr[w] = NoInt /\ i \in ipend /\ ipend' = ipend \ {i}
      /\ isr' = [isr EXCEPT ![w] = i] /\ step' = [step EXCEPT ![w] = "irq"]
      /\ UNCHANGED <<mpc, swi_issued_count, ints_by_irq, ints_by_tid>>
  BY DEF Deliver, mainVars
<1>2. w \notin Uncounted /\ Uncounted' = Uncounted \cup {w} /\ Half' = Half
  BY <1>1, IntsAssumption DEF Uncounted, Half, RecordsInv, Types
<1>3. Cardinality(Uncounted') = Cardinality(Uncounted) + 1
  BY <1>2, Sizes, FS_AddElement
<1>4. Cardinality(ipend') = Cardinality(ipend) - 1
  BY <1>1, Sizes, FS_RemoveElement
<1>5. mpc = "wait"
  BY <1>1 DEF Accounts
<1>6. swi_issued_count * Cardinality(Ints) \in Nat
  BY SwiTimes DEF RecordsInv, Types
<1> QED
  BY <1>1, <1>2, <1>3, <1>4, <1>5, Sizes DEF Accounts

LEMMA HandlerAccounts ==
  ASSUME RecordsInv, Accounts, NEW w \in Workers, interrupt_handler(w)
  PROVE  Accounts'
<1>1. /\ isr[w] # NoInt /\ isr[w] \in Ints
      /\ UNCHANGED <<mpc, swi_issued_count, ipend>>
  BY DEF interrupt_handler, mainVars, RecordsInv, Types
<1>2. CASE step[w] = "irq"
  <2>1. /\ step' = [step EXCEPT ![w] = "tid"] /\ UNCHANGED <<ints_by_tid, isr>>
        /\ ints_by_irq' = [ints_by_irq EXCEPT ![isr[w]] = @ + 1]
    BY <1>2 DEF interrupt_handler
  <2>2. Uncounted' = Uncounted /\ w \notin Half /\ Half' = Half \cup {w}
    BY <1>1, <1>2, <2>1 DEF Uncounted, Half, RecordsInv, Types
  <2>3. Cardinality(Half') = Cardinality(Half) + 1
    BY <2>2, Sizes, FS_AddElement
  <2>4. Total(ints_by_irq') = Total(ints_by_irq) + 1
    <3>1. ints_by_irq \in [Ints -> Nat] /\ isr[w] \in Ints
      BY <1>1 DEF RecordsInv, Types
    <3> QED
      BY ONLY <2>1, <3>1, OneMore, IntsAssumption
  <2> QED
    BY <1>1, <2>1, <2>2, <2>3, <2>4, Sizes DEF Accounts
<1>3. CASE step[w] = "tid"
  <2>1. /\ step' = [step EXCEPT ![w] = "ciad"] /\ UNCHANGED <<ints_by_irq, isr>>
        /\ ints_by_tid' = [ints_by_tid EXCEPT ![w] = @ + 1]
    BY <1>3 DEF interrupt_handler
  <2>2. /\ w \in Uncounted /\ Uncounted' = Uncounted \ {w}
        /\ w \in Half /\ Half' = Half \ {w}
    BY <1>1, <1>3, <2>1 DEF Uncounted, Half, RecordsInv, Types
  <2>3. Cardinality(Half') = Cardinality(Half) - 1
    BY <2>2, Sizes, FS_RemoveElement
  <2>4. Cardinality(Uncounted') = Cardinality(Uncounted) - 1
    BY <2>2, Sizes, FS_RemoveElement
  <2>5. Total(ints_by_tid') = Total(ints_by_tid) + 1
    <3>1. ints_by_tid \in [Workers -> Nat]
      BY DEF RecordsInv, Types
    <3> QED
      BY ONLY <2>1, <3>1, OneMore, WorkersAssumption
  <2>6. mpc = "wait"
    BY <2>2 DEF Accounts
  <2> QED
    BY <1>1, <2>1, <2>3, <2>4, <2>5, <2>6, Sizes DEF Accounts
<1>4. CASE step[w] = "ciad"
  <2>1. /\ step' = [step EXCEPT ![w] = "irq"] /\ isr' = [isr EXCEPT ![w] = NoInt]
        /\ UNCHANGED <<ints_by_irq, ints_by_tid>>
    BY <1>4 DEF interrupt_handler
  <2>2. Uncounted' = Uncounted /\ Half' = Half
    BY <1>1, <1>4, <2>1 DEF Uncounted, Half, RecordsInv, Types
  <2> QED
    BY <1>1, <2>1, <2>2 DEF Accounts
<1> QED
  BY <1>2, <1>3, <1>4 DEF interrupt_handler

(* assert(total_ints_by_tid == total_expected_interrupts): no two SWIs merge *)
(* an interrupt, none is lost and none is counted in one of the arrays only, *)
(* in either test.                                                           *)
THEOREM InterruptsAccounted == Spec => []AccountsAgree
<1>1. RecordsInv /\ Accounts /\ [Next]_vars => Accounts'
  <2> SUFFICES ASSUME RecordsInv, Accounts, [Next]_vars PROVE Accounts'
    OBVIOUS
  <2>1. ASSUME UNCHANGED vars \/ \E w \in Workers : thread_func(w) PROVE Accounts'
    <3>1. UNCHANGED <<mpc, swi_issued_count, ipend, isr, step, ints_by_irq, ints_by_tid>>
      BY <2>1, WorkerFrame DEF vars, mainVars, intVars
    <3>2. Uncounted' = Uncounted /\ Half' = Half
      BY <3>1 DEF Uncounted, Half
    <3> QED
      BY <3>1, <3>2 DEF Accounts
  <2> QED
    BY <2>1, MainAccounts, DeliverAccounts, HandlerAccounts DEF Next, Finished
<1>2. Spec => []Accounts
  BY InitAccounts, <1>1, LockTimerInv, PTL DEF Spec
<1>3. RecordsInv /\ Accounts => AccountsAgree
  <2> SUFFICES ASSUME RecordsInv, Accounts, mpc = "verify"
               PROVE  /\ total_int_count = swi_issued_count * Cardinality(Ints)
                      /\ Total(ints_by_irq) = total_int_count
    BY DEF AccountsAgree
  <2>1. ipend = {} /\ Uncounted = {} /\ Half = {}
    BY DEF Accounts, Uncounted, Half
  <2>2. Cardinality(ipend) = 0 /\ Cardinality(Uncounted) = 0 /\ Cardinality(Half) = 0
    BY <2>1, FS_EmptySet
  <2> QED
    BY <2>2, Sizes DEF Accounts, total_int_count
<1> QED
  BY LockTimerInv, <1>2, <1>3, PTL
=============================================================================
