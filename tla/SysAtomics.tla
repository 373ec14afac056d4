------------------------------ MODULE SysAtomics ------------------------------
(* sys_atomics.c: threads add to tick32 and tick64 with load-locked and       *)
(* store-conditional, and count how often the store failed; main() checks the *)
(* sums and repeats a run in which a thread met no contention.                *)
EXTENDS Naturals, Sequences, FiniteSets, Totals

CONSTANTS
    NUM_THREADS, LOOP_CNT,
    NUM_RETRIES

ASSUME SysAtomicsAssumption ==
    NUM_THREADS \in Nat \ {0} /\ LOOP_CNT \in Nat \ {0} /\ NUM_RETRIES \in Nat \ {0}

RETRY == "RETRY"
Ids == 1 .. NUM_THREADS
Sizes == {32, 64}

(* The body of the loop: both increments, then both mismatched pairs.        *)
Body == << <<"inc", 32>>, <<"inc", 64>>, <<"mismatch", 32>>, <<"mismatch", 64>> >>

VARIABLES
    saTry, saPc, saErr,     \* main(): the run, where it is, run_test's result
    prev_tick, tick,        \* by size
    contention, done,
    saI, saK, saAt, old,    \* a thread: i, place in Body, next step, value loaded
    saFailed                \* a failed assert of a thread or of main()

saThread == <<saI, saK, saAt, old>>
saVars == <<saTry, saPc, saErr, prev_tick, tick, contention, done, saThread, saFailed>>

SaInit ==
    /\ saTry = 1 /\ saPc = "create" /\ saErr = "none"
    /\ prev_tick = [s \in Sizes |-> 1] /\ tick = [s \in Sizes |-> 1]
    /\ contention = [t \in Ids |-> 0] /\ done = [t \in Ids |-> FALSE]
    /\ saI = [t \in Ids |-> 0] /\ saK = [t \in Ids |-> 1]
    /\ saAt = [t \in Ids |-> "stopped"] /\ old = [t \in Ids |-> 0]
    /\ saFailed = FALSE

(* run_test: the ticks are reset, the threads created and started.           *)
RunTest ==
    /\ saPc = "create"
    /\ tick' = [s \in Sizes |-> 1] /\ prev_tick' = [s \in Sizes |-> 1]
    /\ done' = [t \in Ids |-> FALSE] /\ contention' = [t \in Ids |-> 0]
    /\ saI' = [t \in Ids |-> 0] /\ saK' = [t \in Ids |-> 1]
    /\ saAt' = [t \in Ids |-> "load"]
    /\ saPc' = "poll"
    /\ UNCHANGED <<saTry, saErr, old, saFailed>>

(* A turn of the polling loop: the ticks must not fall.                      *)
PollTicks ==
    /\ saPc = "poll" /\ ~(\A t \in Ids : done[t])
    /\ tick # prev_tick
    /\ saFailed' = (saFailed \/ \E s \in Sizes : prev_tick[s] > tick[s])
    /\ prev_tick' = tick
    /\ UNCHANGED <<saTry, saPc, saErr, tick, contention, done, saThread>>

(* An increment: the thread and its i.                                       *)
Increments == Ids \X (0 .. LOOP_CNT - 1)
Amount(x) == x[1] * (x[2] % 5)
Expected == 1 + Total([x \in Increments |-> Amount(x)])

(* all_done, thread_join, the verdict of run_test and the retry in main().   *)
Verdict ==
    IF \E t \in Ids : contention[t] = 0 THEN RETRY
    ELSE IF \A s \in Sizes : tick[s] = Expected THEN "ok" ELSE "error"

FinishRun ==
    /\ saPc = "poll" /\ \A t \in Ids : done[t] /\ saAt[t] = "stopped"
    /\ saErr' = Verdict
    /\ IF Verdict = RETRY /\ saTry < NUM_RETRIES
         THEN saTry' = saTry + 1 /\ saPc' = "create"
         ELSE saPc' = (IF Verdict = "ok" THEN "PASS" ELSE "FAIL") /\ UNCHANGED saTry
    /\ UNCHANGED <<prev_tick, tick, contention, done, saThread, saFailed>>

-----------------------------------------------------------------------------
Op(t) == Body[saK[t]]
SizeOf(t) == Op(t)[2]
inc(t) == Amount(<<t, saI[t]>>)

(* mem_locked of atomic_inc.                                                 *)
LoadLocked(t) ==
    /\ saAt[t] = "load" /\ Op(t)[1] = "inc"
    /\ old' = [old EXCEPT ![t] = tick[SizeOf(t)]]
    /\ saAt' = [saAt EXCEPT ![t] = "store"]
    /\ UNCHANGED <<saTry, saPc, saErr, prev_tick, tick, contention, done, saI, saK, saFailed>>

(* To the next operation of Body, the next i, or the end of thread_body.     *)
Advance(t) ==
    IF saK[t] < Len(Body)
      THEN saK' = [saK EXCEPT ![t] = @ + 1] /\ saAt' = [saAt EXCEPT ![t] = "load"] /\ UNCHANGED saI
      ELSE /\ saK' = [saK EXCEPT ![t] = 1]
           /\ saI' = [saI EXCEPT ![t] = @ + 1]
           /\ saAt' = [saAt EXCEPT ![t] = IF saI[t] + 1 < LOOP_CNT THEN "load" ELSE "done"]

(* The store-conditional of atomic_inc: it fails when the location has       *)
(* changed since the load, and the loop counts one more iteration.  As in    *)
(* the emulator values are compared: adding 0 breaks no reservation.  The    *)
(* wrong variant stores regardless.                                          *)
StoreAlways(t) ==
    /\ saAt[t] = "store" /\ Op(t)[1] = "inc"
    /\ tick' = [tick EXCEPT ![SizeOf(t)] = old[t] + inc(t)]
    /\ Advance(t)
    /\ UNCHANGED <<saTry, saPc, saErr, prev_tick, contention, done, old, saFailed>>

atomic_inc(t) ==
    /\ saAt[t] = "store" /\ Op(t)[1] = "inc"
    /\ \/ /\ tick[SizeOf(t)] = old[t]
          /\ tick' = [tick EXCEPT ![SizeOf(t)] = old[t] + inc(t)]
          /\ Advance(t)
          /\ UNCHANGED contention
       \/ /\ tick[SizeOf(t)] # old[t]
          /\ contention' = [contention EXCEPT ![t] = @ + 1]
          /\ saAt' = [saAt EXCEPT ![t] = "load"]
          /\ UNCHANGED <<tick, saI, saK>>
    /\ UNCHANGED <<saTry, saPc, saErr, prev_tick, done, old, saFailed>>

(* atomic_inc_mismatch: the store names another address and must fail,       *)
(* leaving ignored alone, which the thread asserts.                          *)
atomic_inc_mismatch(t) ==
    /\ saAt[t] = "load" /\ Op(t)[1] = "mismatch"
    /\ Advance(t)
    /\ UNCHANGED <<saTry, saPc, saErr, prev_tick, tick, contention, done, old, saFailed>>

(* my_thread: contention is stored before done.                              *)
MyThreadDone(t) ==
    /\ saAt[t] = "done"
    /\ done' = [done EXCEPT ![t] = TRUE]
    /\ saAt' = [saAt EXCEPT ![t] = "stopped"]
    /\ UNCHANGED <<saTry, saPc, saErr, prev_tick, tick, contention, saI, saK, old, saFailed>>

SaMain == RunTest \/ PollTicks \/ FinishRun
SaThread(t) == LoadLocked(t) \/ atomic_inc(t) \/ atomic_inc_mismatch(t) \/ MyThreadDone(t)
SaNext == SaMain \/ \E t \in Ids : SaThread(t)

SaEnded == saPc \in {"PASS", "FAIL"}

(* No increment is lost: the ticks are at any moment the sum of what the     *)
(* threads have added so far.                                                *)
Added(x, s) == \/ x[2] < saI[x[1]]
               \/ x[2] = saI[x[1]] /\ saK[x[1]] > IF s = 32 THEN 1 ELSE 2
AddedSoFar(s) == [x \in Increments |-> IF Added(x, s) THEN Amount(x) ELSE 0]
TicksExact == saPc = "poll" => \A s \in Sizes : tick[s] = 1 + Total(AddedSoFar(s))

(* The test fails only when every run went by without contention: neither    *)
(* an assert nor a comparison of the sums ever fails.                        *)
SaPasses == ~saFailed /\ saErr # "error" /\ (saPc = "FAIL" => saErr = RETRY /\ saTry = NUM_RETRIES)
=============================================================================
