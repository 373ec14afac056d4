# TLA+ models of the Hexagon system tests

The repository holds bare-metal test programs for the Hexagon architecture, the
runtimes they are linked with, and scripts around them. Nearly everything that is
hard in it is concurrency without an operating system: up to eight hardware threads
share memory, a kernel lock, a TLB lock, one set of interrupt registers and one
software-managed TLB, and they meet through spin loops. This directory models those
parts in TLA+, checks them with TLC on small instances and proves the most important
results with TLAPS for every value of the constants.

Source paths below are relative to `src/`.

## 1. Inventory

### 1.1 Components, their state and operations

| component | source | state | operations |
|---|---|---|---|
| thread launch library | `standalone_systests/src/thread_common.c`, `include/thread_common.h` | `thread_semaphore[]`, the malloc'ed `thread_work` of a launched thread | `create_waiting_thread`, `start_waiting_threads`, `thread_create_blocked`, `thread_run_blocked`, `wait_on_semaphore`, `thread_wrapper` |
| start instruction test | `standalone_systests/src/start.c` | `reset_mask`, `ssr_cause_log[]`, the installed reset handler | `test_start`, `my_reset_handler`, `thread_func`, `main` |
| software-managed TLB | `standalone_systests/crt0/crt0_standalone.S`, `crt0/tlb.c`, `hexagon-arch-tests/asm/crt0.S` | the TLB, `__tlb_idx`, `TLBMapTable`, the TLB lock | `event_handle_tlbmissx`, `event_handle_tlbmissrw`, `add_translation*`, `tlb_invalidate`, `write_tlb_entry` |
| interrupt dispatcher | both `crt0` files, `hexagon-arch-tests/src/lib.rs` | IPEND, IAD, SSR of each thread, the saved frame | delivery, `event_handle_int`, `trigger_swi`, `clear_all_swi` |
| hardware lock test | `standalone_systests/src/lock_verify.c` | SYSCFG.KL/TL, the shared counters, the stall flags | six multi-thread tests and their workers and handlers |
| lock and timer test | `standalone_systests/src/lock_timer_test.c` | `global_round_counter`, `lock_records[]`, interrupt counters | `run_lock_test`, `thread_func`, `interrupt_handler` |
| software interrupt wait test | `standalone_systests/src/swi_wait.c`, `include/interrupts.h` | `ints_by_irq[]`, `ints_by_tid[]`, `times_woken[]`, SYSCFG.INT_EN, IASSIGN | three rounds, the wait threads, the handler, the teardown |
| multicast multicore test | `standalone_systests/src/sa8797p_nsp_multicore.c`, `mcw.c` | receive buffers and slots of each core, the MCW mask and LUTs | `coordinator_main`, `worker_core_main`, `run_core_compute`, multicast writes |
| lock, wait, resume, interrupt and thread tests | `k0lock.c`, `tlblock.c`, `k0locklock.c`, `tlblocklock.c`, `k0lock-syscfg.c`, `swi.c`, `swi2.c`, `bestwait.c`, `pend_wake_wait.c`, `test-thread.c`, `thread_scheduling.c`, `nmi_cross_thread.c`, `ciad-siad.c` | the lock, IPEND, IAD, IMASK, SYSCFG.INT_EN, waiting threads, shared counters | each test's main, workers and handler |
| atomics test | `sys_atomics.c` | the ticks, the contention counts, LL/SC reservations | `run_test`, `thread_func`, the increments, the mismatched pairs |
| MMU and TLB tests | `include/mmu.h`, `include/hsv39.h`, `mmu_*.c`, `hsv39_tlb.c` | TLB entries with size, ASID, G and permissions, SSR.ASID and UM, `my_exceptions` | seven programs and the exception handlers they install |
| bad address test | `badva.c` | `TLBMapTable`, BADVA0, BADVA1, SSR.V0, V1, BVS | packets of two accesses and their misses |
| L2VIC tests | `pendalot.c`, `fastint.c`, `levelint.c`, `int_range.c`, `fastl2vic.c` | enable, type, pending, VID | register writes, `intr_handler` |
| QTimer test | `qtimer.c`, `include/qtimer.h` | two timers, their L2VIC bits | rearm, enable, the handlers |
| PMU tests | `pmu.c`, `include/pmu.h` | counters, event selection, SYSCFG.PM, SSR.PE | configure, start, stop, read through three register views |
| cycle counter test | `pcycle.c` | the 64 bit count, SSR.CE | reads whole and by halves, the range checks |
| scatter and gather test | `standalone_vec.c` | vector TCM, the elements still to be stored or fetched | scatters, gathers, releases, scalar references |
| minimal C library | `min_libc.c` (three copies) | locals only | `printf`, `num_to_s`, `pad0`, `getcmdline` |
| in-memory files | `util.c` | `desc[]` | `fmemopen_mem`, `fread_mem`, `fwrite_mem`, `fgetc_mem`, `frewind_mem`, `fclose_mem` |
| not modelled | section 7 | | |

### 1.2 How they interact

* A test's main thread calls the **launch library**. `thread_create` (the toolchain's)
  writes the start tables and executes `start`; the new thread comes out of reset in the
  handler that the event table names (crt0's, unless `start.c` replaced it) and reaches
  `thread_wrapper`, which parks in `wait_on_semaphore`. The library is plain loads and
  stores; nothing is locked.
* Every access of every thread can miss in the TLB and enter the **miss handlers**. They
  share `__tlb_idx` (LL/SC) and the hardware TLB lock with each other, and the TLB with
  the **translation calls** that a test's main thread makes.
* Software interrupts go to IPEND; the hardware picks a thread that takes them, sets IAD
  and enters the **dispatcher**, which calls the registered handler and re-enables the
  interrupt with `ciad`. The **lock**, **timer** and **wait** tests rely on this: an
  interrupt handler is not re-entered for the same interrupt until its `ciad`.
* The other **multi-threaded tests** use the same lock, interrupt registers and launch calls,
  each with its own loops and counters. No two tests run together.
* The **single-threaded tests** meet a device (scatter unit, PMU, TLB, cycle counter, L2VIC,
  timers) that works while they do, and handlers that run between two of their steps.
* In the **multicore** test, cores have no shared memory: a multicast write goes to the
  ports of a LUT entry that the mask leaves on, and lands if the receiver has programmed
  its own LUT.

### 1.3 What is hard, and what makes each part correct

* *Launch*: a GO stored before the thread stored ON_WAIT would be overwritten and the
  thread would park for ever. Correct: GO is written only when every thread of the mask
  is parked; no GO is lost; each function runs once, with its own parameter; calls return.
* *TLB*: two threads miss on the same page; the index is handed out before the lock is
  taken; the table entry is read before the lock too; a translation call works at the same
  time. Correct: no page has two entries (a duplicate is a fatal event on this machine),
  fixed entries are never replaced, the DEAD loop is not reached, misses are served.
* *Dispatcher*: SSR is rewritten twice, the number for `ciad` has to survive the handler.
  Correct: an interrupt is served by one thread at a time and enabled again after it.
* *Locks and interrupts*: an interrupt may hit the holder of a lock, a thread stalled on
  it, or a thread between the two. Correct: exclusion holds, counts are exact, a stalled
  thread takes no interrupt, nobody waits for ever.
* *Multicore*: a broadcast to a core that has not programmed its LUT is lost; a flag
  may only be seen after the value it announces.

* *Waiting and pending*: an interrupt may come before the wait it is to end, merge with
  itself, or hit the holder of a lock that its handler wants. Correct: each interrupt
  raised is counted once; the tests end.
* *Devices*: elements of a scatter retire in any order, entries of the refill handler are
  global and stay, a counter wraps between the reads of its halves, a timer is rearmed
  and enabled in two steps. Correct: no check of a test fails for such a reason, no access is
  replayed for ever, no timer falls silent.
* *Helpers*: number conversion by nested loops over a divider, and file positions after any
  sequence of calls.

PROJECT.json lists each hazard at its line under `hazards`.

## 2. Modules

`MC*.tla` extends the module it names, gives the model values and says why the instance
is large enough. Operators commented as "wrong variant" are not part of a specification:
each is the code with one plausible mistake, kept to show that a property notices it.

### ThreadSemaphore (and ThreadSemaphoreProofs)

`thread_common.c`. A store, or a poll that succeeds, is a step. `pc` says where a thread
is (`enter` before the ON_WAIT store, `spin` in the loop, `func` in the function,
`waitLoop`/`setLoop` in the two loops of `start_waiting_threads`, `join` in the
toolchain's `thread_join`); `cur` is the part of the mask a loop still has to visit, in
thread order. `work` is the malloc'ed block, named by the creation it belongs to. The
caller is a parameter of each operation, so that StartTest can call the library from a
worker. `Client` is what the tests do with the library: create, start a set of parked
threads, join threads that were started.

**Launch** is what the library promises: a thread is handed a job, held, released, and runs
that job once. ThreadSemaphore instantiates it (`Abstract == INSTANCE Launch WITH ...`): a
thread is idle while stopped, held from its creation to the GO store, and released from
there to the end of its function. Polls, the ON_WAIT store and the call and return of
`start_waiting_threads` are stutters.

### StartTest (proved about in ThreadSemaphoreProofs)

`start.c`, composed with the library by EXTENDS: the same variables and actions, and a
reset handler that started threads run instead of `thread_wrapper`. `mode` records which of
the two a thread came out of reset into. It runs the real masks (0x2, 0x6, 0xe) on the real
four threads, so a worker is itself in the masks it starts.

### TlbRefill (and TlbRefillProofs)

The two miss handlers, instruction by instruction where memory or the TLB is touched, and
`tlb.c`, with `add_translation_fixed`, which invalidates the page before the index is checked, and
so also when the index is then refused. An entry is its page and frame; attribute bits and page sizes other than the 1M
that the handlers write are left out. `resv` is the set of live LL reservations. The retry
of `memw_locked` is the action StoreFails. The caller's contract of the translation calls
is a guard (BeingMapped, PageIdle): nobody uses a page while it is being remapped. The code
does not enforce it: `tlb_invalidate` probes outside the lock, so without the contract
another thread may refill the page between the two.

### IntDispatch (and IntDispatchProofs)

`event_handle_int`. `Runtime` selects the copy; they differ in `CiadNumber`. IPEND and IAD
are global, IE, EX and CAUSE belong to a thread. Handlers touch mapped pages only, so
no TLB miss rewrites SSR.CAUSE inside one; outside one, OtherEvent does. `clear_all_swi` is
called when no other thread is in a handler, as in the tests.

### LockVerify (and LockVerifyProofs)

`lock_verify.c`, its six multi-thread tests in the order of `main()`, on the test's own
three workers. The launch is one step here, by the Barrier theorem of ThreadSemaphore. The
handler's `isr_count++` is a load and a store. The test leans on time in two places, and the
model makes the same assumptions as guards: `delay(1024)` outlasts the delivery of a pending
interrupt and the workers' loops outlast main's swi loop (LongDelay); `delay(200)` outlasts
a waiter's way from its signal to its lock instruction (StartFiring). The handler
counts how often it finds the lock bit set; that it does so at least once is, in the words of
the source, only "very likely", so the property says what is certain: every interrupt that
the lock's owner took is in that count. `taken` and `takenByOwner` are bookkeeping of the
model, started afresh for each test. The single-thread SYSCFG checks are left out.

### LockTimer (and LockTimerProofs)

`lock_timer_test.c`, both calls of `run_lock_test`. The clock ticks once per delay; two
readings are compared, never subtracted. One assumption about time (DelayAndReadEnd): the
long delay outlasts main's way from its test of `global_round_counter` to `swi`, and the
delivery of what is pending. Without it main could raise interrupts that no worker is left to
take, and wait for them for ever; the test chose DELAY_ITERS so that this does not happen.

### SwiWait (and ThreadTestProofs)

`swi_wait.c`: the three rounds (plain, SYSCFG.INT_EN off, IASSIGN masked), the handler
under `k0lock`, the asserts (which abort) and the teardown. Main's sum of `times_woken[]`
goes into a local, as in the code. A wait thread's test of `tasks_enabled` and its `wait` are
two steps, so the teardown may come between them. Task priorities are left out: they only influence which
thread the hardware picks, and the model allows each.

**Totals** is the sum over an array of counters, in this program, LockTimer and SysAtomics: the
number of counts the array holds, which unlike a fold can be proved about. MCSwiWait
compares it with the fold on small arrays (the assumption TotalIsSum).

### Multicore (and MulticoreProofs)

`sa8797p_nsp_multicore.c` and `mcw.c`. The network is external: it keeps the order of
writes from one core to another and nothing else. L2TCM is zero at reset. A core's sum is the
set of thread numbers added so far, which tells apart what the arithmetic sum does; the
addition is LL/SC as in `atomic_add_u32`. The excluded core is the last one.

### ThreadSuite: ThreadTests and SysAtomics (and ThreadTestProofs)

*ThreadTests* holds thirteen small tests as tables: for every thread the sequence of
its operations on state other threads can see (`Create`, lock, `swi`, `wait`, a load, a
store, a check...), and the operations of its interrupt handler. One machine executes
them, one operation a step, with a pending interrupt taken between any two. `ttHw` is the set of
threads the machine has. Polling a condition is waiting for it; counters that the code
increments without a lock are a load and a store. Task priorities and the length of delays
are left out. `k0lock-syscfg.c` reads SYSCFG and writes it back while the other thread locks and
unlocks: the value read holds the lock bit and GIE, the write puts GIE back, and the machine
chooses whether the lock bit, which may be stale by then, is written too (OpPutSyscfg). Where it is,
the writer may end up with the lock, or the holder without it; the test has no check, and
SuiteEnds names the hang as an exception (LockLeftSet). `swi2.c` changes GIE by a
read-modify-write of SYSCFG too, and has no lock; so does `swi_wait.c`, whose handlers lock, and
SwiWait takes a machine that leaves the lock bit alone there.

*SysAtomics* is `sys_atomics.c`: both increments and both mismatched LL/SC pairs of each
iteration, an increment being a load and a conditional store that fails when the value has
changed in between (the emulator's rule), and main's retries when a thread met no contention.

A behaviour of *ThreadSuite* runs one test; the variables of the others are fixed.

### SystemTests and its nine parts (and SystemTestsProofs)

One behaviour runs one program, chosen in the initial state.

* **ScatterGather** (`standalone_vec.c`): every call of `main`, in order; the elements of the
  vector in progress retire in any order, and a load or release waits for what the hardware
  makes it wait for. Results are compared with the scalar loops.
* **PmuTests** (`pmu.c`, `pmu.h`): event selection is two register writes, as in
  `pmu_config`; the packets of thread 0's poll are counted too while another thread works.
* **MmuTests** (`mmu.h`, `hsv39.h` and seven programs): an access either completes or
  faults; the fault's handler, or the runtime's refill, changes the TLB and the
  access is replayed. An address is its page.
* **Badva** (`badva.c`): the misses of the two slots of a packet, in either order, with the
  register and the SSR bits they leave.
* **CycleCounter** (`pcycle.c`): a count that goes on between reads, 32-bit arithmetic in the
  checks (`WORD` for 2^32).
* **L2vicTests**: what the controller latches, per level or edge source, and the handler.
* **QTimers**: both timers and both handlers; the handler of `qtimer.c` stays inside until
  timer 1 is due again. The sources are level ones (INT_TYPE = 0), and their pending bit is set
  once when the timer becomes due. L2vicTests lets a level source follow its line; here the code
  rules that out: `qtimer.c:184` waits, with IRQ2 enabled and timer 2 not yet rearmed, for
  INT_PENDING to be IRQ1's bit and no other, which would never come.
* **MinLibc**: the directives of a format in order, each with its argument (`%d %x %p %s %c %%
  %016llx` and unsupported ones); an `int` becomes a `uint64_t` by sign extension; the divider
  loops of `num_to_s` step by step in `MlWidth` arithmetic; the two passes of `getcmdline`, and its
  return, after which the bytes of the automatic `buf` are main's and `args` still points at them.
* **MemFile** (`util.c`): the descriptors, in `int` arithmetic: products wrap, and of a sum that
  overflows both outcomes of a build are taken. No program of the repository calls these
  functions, so any client is allowed, with any arguments and in any order. That `max` is the size of
  the buffer a client passes is its contract.

## 3. Runs

| run | shows | instance and why it is enough | states |
|---|---|---|---|
| `launch` | it implements Launch; barrier, no lost GO, each function once with its own param, calls return | main and 3 workers, 5 creations: masks with slow members, and thread numbers that are created twice | 127,501 |
| `start_test` | start.c's own checks in every interleaving, every thread tested, the program ends | the code's own size | 5,916 |
| `tlb_refill` | no duplicate entry, fixed entries kept, no DEAD loop, misses served | 2 threads, 3 pages of which one is the boot page, 2 replaceable entries; invalidations by translation calls keep the misses coming; 2 fixed entries, one free for a translation, and every index up to one beyond them | 360,804 |
| `int_dispatch` | one service at a time, IAD exact, redelivery | 3 threads, 2 interrupts of which one is masked on one thread, 3 swis each | 39,536 |
| `int_standalone` | finding 1 | as above with 2 threads | violation |
| `lock_verify` | counters exact under interrupts, no interrupt in a stalled thread, every test ends | 3 workers, 2 iterations (a first and a last), 2 swis in the stall phase (the second merges or is delivered later) | 49,419 |
| `lock_timer` | every interrupt accounted for, one record per round without overlaps, both tests end | 2 workers, 2 interrupts, 3 rounds, 2 swis a test | 152,553 |
| `swi_wait` | handled exactly once, the counters agree, all delivered | 2 waiters, 2 interrupts, the code's 3 rounds | 131,513 |
| `swi_wait_spin` | finding 2 | the same | violation |
| `system_tests` | every check of the nine programs, one translation per page, exact conversions, files in their buffers, no silent timer, every program ends | matrices of 6 halfwords (both halves of a pair hold several lanes), 4 PMU threads, counts modulo 64 starting anywhere in a word, so that every check meets a wrap and the first cycles after one, numbers modulo 65536 with zeros inside and at the end, ints of both signs, 2 descriptors with ints of 4 bits, so that products and sums overflow, 6 sources of which 4 share a register, periods 6 and 13 | 95,453 |
| `thread_suite` | every check of the fourteen programs, no interrupt lost, no increment of `thcnt` or of a tick lost and no wrong sum, every test ends but for the hangs of section 5 | 3 workers, 2 interrupts, 2 rounds of each loop; `pend_wake_wait.c` 1 round; atomics with 2 threads, 2 increments and at most 2 runs | 43,612 |
| `multicore` | sums complete, flags after values, the mask filters V2 and only V2, PASS | 3 cores (the fewest the test accepts) of 2 threads | 12,025 |

Named bounds: MaxRounds (creations), MaxSwi (swis), MaxTeardown (interrupts handled while
main pokes threads out of `wait` at the end), ITERATIONS, STALL_SWIS and TARGET (the code's
loop counts, smaller), INT_MAX and MlIntMax (the largest int), Args and MlInts (arguments of a
transfer and of printf), IndexArgs (indexes of a translation call). In `lock_timer`, MaxSwi makes main wait for the rounds to be used up
after its last swi. Deadlock is checked in `start_test`, `lock_verify`, `lock_timer` and
`tlb_refill`; the others may stop, at a bound (`launch`, `int_dispatch`), at their last
state (`multicore`, `system_tests`, `thread_suite`) or because a program hangs (`swi_wait`, finding
2; two tests of `thread_suite`).

No symmetry is used: loops visit threads in order, and the liveness runs need the full
graph.

### Fairness

* A hardware thread that is not stopped or stalled keeps executing (weak fairness of its
  steps): there is no scheduler, and spin loops pause but do not block others.
* A deliverable interrupt is delivered. In IntDispatch this is strong fairness of Deliver,
  since programs turn SSR.IE off and on; elsewhere weak fairness.
* A lock that is free again and again is granted to each stalled thread (strong fairness
  of the lock action in LockVerify, LockTimer, SwiWait): the arbitration of `k0lock` and
  `tlblock` among stalled threads. The tests depend on it to end. TlbRefill does without
  it, so RefillProgress says that some thread makes progress, not each.
* The multicast network delivers what it accepted.
* SystemTests: weak fairness of the running program together with its device and clock.
  Nothing is assumed about the callers of the in-memory files.
* ThreadSuite: weak fairness of each thread, strong fairness of the lock (arbitration, as
  above) and of taking an interrupt, since tests mask and unmask.

## 4. Findings

1. `standalone_systests/crt0/crt0_standalone.S:801`. The dispatcher reads the number for
   `ciad` back from a slot that was saved before the number was put into the register, so
   it uses USR[20:16]. `int_standalone` shows the disagreement with the comment at line
   796. The arch runtime's copy takes the number from SSR.CAUSE and is right.
   The modules LockVerify, LockTimer and SwiWait take a dispatcher whose `ciad`
   re-enables the interrupt that was served.
2. `standalone_systests/src/swi_wait.c:85`. The second loop of `wait_for_ints_delivered`
   waits on a local that nothing updates. `swi_wait_spin` shows a run in which it never
   ends, although every thread was woken.

## 5. Deviations stated as exceptions

The properties of `system_tests` and `thread_suite` name the cases in which the code does
something else than it looks meant to do. For most of them no line of the repository promises
otherwise. In `min_libc.c` two comments and a branch do, quoted below: there the code disagrees with
its own text. The properties state what the code does, and no run of its own is spent on them.

* `test-thread.c` creates a thread for each i up to and including THCNT; on a machine with that
  many the last fails the assertion that its id is below THCNT.
* `bestwait.c` counts `thcnt` before it waits: the interrupt that is to end the wait may come
  before it.
* `pend_wake_wait.c`: the handler takes the lock that the interrupted thread may hold.
* `int_range.c` clears with `|=`: it reads ENABLE_CLEAR, and clears more than it
  means to where that register does not read as 0.
* `badva.c`: `test_badva_write` fails when the last miss left V1 (the same bit as BVS) set.
* `pcycle.c` computes bounds in 32 bits: a check fails when the low word wraps in it. A range
  check also fails when its upper bound, the low word times MAX_HW_THREADS, leaves the word, or
  when the low word is so small, right after a wrap, that the bound is less than two cycles
  away (RangeHolds).
* `min_libc.c:240-241` reads an `int` and passes it as `uint64_t`. A negative `%d` prints the sign
  extended value as an unsigned number, and `%x` of a value with bit 31 prints sixteen digits,
  although `num_to_s` has a branch that prints a '-' (lines 152-155, never taken: its
  `signed_num` is unsigned) and line 226 lists "%d, %s, %c, %x, %016llx" as supported. PrintsRight
  states what is printed.
* `min_libc.c:319`: `buf` of `getcmdline` is automatic, although the comment at line 313 says
  "using static buffers"; `args` points into a dead frame when main runs. ArgumentsAgree speaks of
  the strings at the return of `getcmdline`, and of the count after it.
* `util.c:96`: a transfer that is asked to end beyond INT_MAX may pass the clamp and leave its
  buffer. FilesInBuffers names it (`tooLong`); nothing in the repository asks for one.
* `k0lock-syscfg.c:44` writes back a lock bit that may be stale: see ThreadSuite.
* `sys_atomics.c` may end without contention (RETRY), never with a wrong sum.
* `swi_wait.c:190`: the assertion on `ints_by_tid` may be evaluated one count too early.

## 6. Proofs

All theorems hold for every value of the constants that satisfies the named ASSUMEs.

**ThreadSemaphoreProofs.** `NoLostGo` is not inductive: nothing in it says why main does not
store GO early. `IInv` adds where threads can be (Places), that a thread on its way
still has OFF in its semaphore (Arriving), what main's first loop has already established about the
threads it has left behind (Waiting), what the second loop may still write (Releasing), and,
for the work blocks, that params not yet handed out are unused (Fresh) and that a block exists
exactly while its thread is not stopped (WorkOwned). From it: `TypeCorrect`, `GoIsNeverLost`,
`RunsOnce`, `WorkIsOwned` and the action property `Barrier`. `LaunchImplemented` is the step
simulation under the mapping of Launch: `IInv` supplies that a GO is stored only for a held
thread and that a function that ends has not run before. It is the safety part of
Launch (`SafeSpec`); the fairness part of `ImplementsLaunch` is left to TLC.

**TlbRefillProofs.** No duplicates needs three things together: a handler that is
about to write holds the lock and its page is not in the TLB; the lock has one owner; and a
page that is being remapped is nobody else's. With the range of the index over the LL/SC
increment they are inductive. That entry 0 is the boot page's and no translation call maps that
page (BootKept) gives the last part of FixedOnlyRemapped. `UniqueEntries`, `IndexAndLock`, `HandlerNeverDead`,
`FixedEntriesKept` follow. Assumed: SizeAssumption, NameAssumption, and the caller's
contract in the guards.

**IntDispatchProofs.** For the arch runtime (`ASSUME Runtime = "arch"`): from delivery to
`ciad`, SSR.CAUSE still holds the number of the interrupt (CauseKept), so `ciad` names it
(CiadUsesIntnum), so IAD is the set of interrupts in service, so no second delivery
happens. `ServiceIsExclusive`, `NothingLeftDisabled`.

**ThreadSemaphoreProofs, StartTest.** The last part of the module is about `start.c`, for any
number of threads. Its checks pass because at any time one thread, the *tester*, is inside
`test_start`: main, or the one worker that main waits for. `StInv` says who that is and what
the others are doing (Roster, MainTests, MainWaits), what the tester has established at each
phase (Testing), that the threads it started are in the reset handler and have stored their
cause and set their bit of `reset_mask` exactly when they are past those stores (Resetting,
Reported), that the load and store of the mask are under the lock (MaskLock), and that nothing is left over between two tests (Clean). `StartTestInv`, `StartChecksPass` and
`EveryThreadTested` follow. Assumed: threads are numbered from 0 and main is 0
(NumberingAssumption), as the masks of the program have it.

**LockVerifyProofs.** The counter is read and written in two steps, and the property speaks of
its value at the join only. `LvInv` keeps it equal to the number of sections executed (the
set `Sections` of pairs of a worker and an iteration), with the value a worker has loaded still
current while it holds the lock (Counting, LockOwned): `CountersAreExact`. For the interrupts,
one handler runs at a time (OneHandler), its counts lag behind the deliveries by the handler that
runs (Counts), and a pending SWI finds a worker that has not passed its last section
(Interrupted): `EveryInterruptCounted`. In the stall tests the holder is masked and the waiters
are at their lock instruction until main joins (Stalling): `StalledThreadsSpared`. For any
number of workers and iterations.

**LockTimerProofs.** Two invariants. `RecordsInv`: a round that was handed out is recorded or
belongs to one worker that still has to record it (Handed); the intervals measured so far, in
the table or still in a worker's locals, are over (Past) and apart (Disjoint), and the one being
measured began after all of them ended (Latest). The record is written after the unlock, so
the locals have to be part of it. `RecordsComplete` follows. `Accounts`: every interrupt
raised is pending, in a handler, or counted; the two arrays differ by the handlers between their
two increments, of which there may be several, since this handler takes no lock; main raises
again when nothing is left. `InterruptsAccounted` follows. Assumed besides the sets: a record
is not the value that stands for an empty slot (RecordAssumption).

**MulticoreProofs.** What a core knows follows from the order of the writes it has received,
so `McInv` is mostly about writes in flight. `Behind(s, landed, f, g)` says that every write of
g in a channel comes after one of f, or f has landed; `Sent` that f is on its way or has landed.
With them: a done flag comes behind the complete sum (SumReported), a report flag behind the
verdict on V2 (V2Reported), V3 behind V2 for every core but the excluded one, to which no V2
is ever sent (Filtered, Masked). Nothing is broadcast before every core has programmed its LUT
(Booted). A core's sum is the set of threads that have stopped, and a reservation that still
stands saw it as it is (Sums). `SumsAreComplete`, `MaskFiltersV2` and `CoordinatorChecksPass`
follow for any number of cores (at least 3) and threads.

**ThreadTestProofs.** *swi_wait.c*: `HandledOnce` counts per interrupt; to keep it, every raised
interrupt has to be accounted for. `RoundInv` says that in every round each interrupt is exactly
one of not yet raised, pending, in one handler, or counted (Accounts), that a handler's
interrupt is auto-disabled and no two handlers have the same (Serving), and where threads
are (Types). `RoundAccounts` and `HandledAtMostOnce` follow. The handler's two increments are
under `k0lock`, so at most one thread is between them, and the totals of the two arrays differ
by it: `CountersNeverApart`. *The thread tests*: what the tests check, and that no interrupt or
increment is lost, depends on the tables, so `TestsInv` says where every thread of every test is and what the shared variables hold when it
is there. `InText` is the first half: every thread, and every handler it is interrupted by, is
at a place of its text. A loop of any length is a text whose operations are known by their
place in a turn (lemmas on Times, Until and the pieces a text is joined from; Sound, Calm and Plain
say what a piece may do). `ProgInv` is the second half, for each test that checks or counts
something:

* `LockLockInv`: the second `lock` never returns, so the check behind it is not reached;
  `CiadInv`: IAD after each call; `MutexInv`: a thread that has stopped, or is about to, has
  stored its `thid`, and main is past the join only when they all have (on a machine with
  too few hardware threads for the last one; section 5 has the other case); `CountedInv`: a thread
  between `trylockMutex` and `unlockMutex` has the mutex, so two are never there at once and the
  `thcnt` it has loaded is the present one, and `thcnt` is the number of threads past their
  store; `BestwaitInv`: the
  value of `thcnt` and where the interrupt is, at every place of main and thread 1;
* `CountInv` for the tests that count interrupts: nothing of an interrupt is outstanding, or
  one is, pending or in one handler, whose loaded count is still the present one (Idle,
  Pending, Served). It needs that an interrupt is raised only when the last one is over:
  `SwiInv` (a thread of `swi.c` that has not raised its successor's interrupt finds it never
  raised) and `Swi2Inv` (which turn of `run_test` main is in, and which interrupts it has
  waited for: AtTest, InTurn).

`SuiteTestsAlways` is the invariant of the suite; `ThreadTestsNeverFail`, `ThcntNeverShort` and
`InterruptsNeverLost` follow, for any number of workers (at least 2), interrupts and rounds.

*sys_atomics.c*: `SaInv` keeps each tick equal to 1 plus the total of the increments made so
far, by thread and iteration (TicksExact). A store-conditional succeeds only when the value it
was computed from is still there, so the tick grows by that increment alone (StoreSucceeds);
when every thread is done the increments made are all of them, and the sum is the expected one:
`AtomicsNeverLose`. The ticks are unbounded numbers in the model; the code's sums are far
below 2^32.

**SystemTestsProofs.** *QTimers*: `TimersAlive` alone is not inductive: a handler between its two
steps must be known to have the other one before it. `QtInv` adds that order (HandlerOrder), for
both files' handlers and any periods: `TimersNeverSilent`. *MemFile*: the position stays in the
file and the file in its buffer for any width of int and any int arguments, as long as no transfer
is asked to end beyond INT_MAX; one that is may set `overrun`, after which nothing is claimed.
The lemma XferBounded says what the clamp of `do_xfer` returns for either outcome of its sum:
`FilesStayInBuffers`.

The checks of the other programs are about one sequence of calls each, met by a device at any
moment. Each has an invariant that says what the device holds at every place of the sequence:

* *L2vicTests*, `LvInv`: per program (PendalotInv, FastintInv, LevelintInv, IntRangeInv,
  FastL2vicInv) which sources are enabled and pending, and an account of each source: what was
  raised is pending, in the handler or counted. `L2vicTestsNeverFail`, for any number of
  sources and register width.
* *Badva*, `BvInv`: which pages the table and the TLB map at each packet (PagesInv), what
  the misses so far have left in BADVA and SSR, in either order (PacketInv, LastMiss), and that
  a recorded failure is the one of `test_badva_write` after a miss that left V1 (BvFailInv).
  `BadvaOnlyWriteFails`.
* *CycleCounter*, `PcInv`: how many cycles lie between the values in the registers at each place
  (Steady, PcHigh while the low word has not wrapped), hence what a check compares.
  `CycleChecksOnlyFailAtWrap`, for any word size, starting count and number of threads.
* *ScatterGather*, `SgInv`: the matrix is the image of the vectors stored so far and of the lanes
  of the current one that have retired (Image, Progress); the elements the unit still has are
  those of one call (StoreUnit, GatherUnit), each lane of a pair has one place in the matrix
  (PairLane), and buffers a call does not name are untouched. `ScatterMatchesScalar`, for every even matrix
  size.
* *MmuTests*, `MmInv`: per program, which entry holds which translation at each call (MmPlace).
  In the permission and cache tests every entry is of a megabyte of its own (Slotted), and what
  it allows goes with what `my_exceptions` has recorded, in whatever order an access reports
  what is missing. In `mmu_asids.c` the entry of one ASID is not seen under the other; the
  refill may put its entry at any index but a fixed one, and only one such entry is ever
  valid. Lemmas on `tlbp`, `tlbr` and the extended entries say what a probe finds for every
  page size. `PlaceApart` derives from it that no two visible entries overlap.
  `MmuTestsNeverFail`, for any number of TLB entries and any pages of the data and the function.

*Composition*: a step of another program leaves the variables of all these as they are
(OthersKeep), so that every result holds of the suite as the runs check it: `SystemTimersNeverSilent`,
`SystemFilesStayInBuffers`, `MappingsAlwaysAgree` and, for every program but the PMU tests,
`SystemTestsNeverFail`. Assumed: the assumption of each module (QTimersAssumption,
MatrixAssumption, ...), which says that sizes are positive; of MmuAssumption, also that the two
pages are not the first of their megabyte and that TLB indices stay below 512, where the
extended entries start; of L2vicAssumption, where `int_range.c` leaves sources set.

The type invariants are proved with the rest and not checked by runs of their own.

Only model-checked:

* every liveness property (`CallsReturn`, `TestsEnd`, ... and the fairness part of
  `ImplementsLaunch`): fairness and ENABLED are outside what is proved here;
* `LibraryExact` of SystemTests: it compares loops over digits with their result, for which a
  proof would need induction over the digits;
* the PMU tests' part of `SystemChecksPass`: a counter is a sum over the threads, defined by
  recursion, and the ranges checked (15 packets, 100000, a tenth of the work) bound how many
  packets a build spends around the work and in the poll. The run fixes these numbers; the
  assumptions of the module do not, and should not be chosen for a proof.

## 7. Not modelled

* Runtime start-up, reset, trap, NMI and error handlers (both `crt0` files): straight-line
  register set-up, whose result is the Init of TlbRefill and IntDispatch; the error
  handlers end the program. The arch runtime's one-shot `__thread_entry` and its unlocked
  `exception_count` are not covered.
* The arch suite's Rust programs: counterparts of tests modelled from the standalone suite,
  otherwise probes of single registers.
* DMA, VID groups, DTG interrupts, several HVX contexts, single step, `llsc_on_excp.c`,
  `swi_fs.c`, `vwctrl.c`: the behaviour of the device is known only from the values the test
  expects, so a model would restate them.
* Instruction and register result tests (`hvx_misc.c`, `ieee_fp.c`, `float_excp.c`, `hmx.c`,
  `qfloat_test.c`, `memcpy.c`, ...): single instructions against tables.
* Semihosting tests: host file I/O. `verif-hexagon`: random test generation in Python.
* Inside modelled components: attribute bits and sizes in TlbRefill, the single-thread SYSCFG
  checks of LockVerify, timer set-up in LockTimer, `test_gcycle_xt` and the trap0 half of
  `test_pcycle_read`, cache attributes in MmuTests, the check
  at `mmu_permissions.c:99` that the replayed store increments its pointer once (that rests on the
  machine's precise exceptions alone), task priorities everywhere, the string
  helpers of `min_libc.c`, the contents of in-memory files.

Proofs that would come next: the PMU tests, with the bounds on the packets of a build as
assumptions and the sum over threads stated without recursion.
