------------------------------- MODULE PmuTests -------------------------------
(* pmu.c on pmu.h: packet counters that any thread may configure, start and   *)
(* stop through shared registers.  The threads of the tests run one after the *)
(* other (thread_run_blocked), but while one works thread 0 polls for its     *)
(* end, and its packets are counted too wherever an event names them.         *)
(*                                                                            *)
(* A packet count is what the code asks for plus 0 .. OVERHEAD packets around *)
(* it, and the poll is 0 or POLL packets: both stand for every build.         *)
EXTENDS Naturals, Sequences

CONSTANTS
    NUM_THREADS,        \* 8 in the source, as many as there are counters
    BASE_WORK_COUNT,
    OVERHEAD, POLL

ASSUME PmuAssumption ==
    /\ NUM_THREADS \in 2 .. 8 /\ BASE_WORK_COUNT \in Nat /\ POLL \in Nat
    /\ OVERHEAD \in Nat /\ 10 * OVERHEAD <= BASE_WORK_COUNT

Threads == 0 .. NUM_THREADS - 1
Counters == Threads

(* The 10 bit event numbers.                                                 *)
COMMITTED_PKT_ANY == 3
COMMITTED_PKT == [t \in 0 .. 7 |-> IF t < 6 THEN 12 + t ELSE 15 + t]
HVX_PKT == 273

SREG == "sys"
GREG == "greg"
CREG == "upmucnt"

VARIABLES
    pmStep,
    pmucnt,
    pmuevtcfg, pmucfg,  \* per counter: the 8 low and the 2 high bits of its event
    pmuOn,              \* SYSCFG bit 9
    ssrPE,              \* SSR:PE of thread 0
    pmFail

pmRegs == <<pmucnt, pmuevtcfg, pmucfg, pmuOn, ssrPE>>
pmVars == <<pmStep, pmRegs, pmFail>>

-----------------------------------------------------------------------------
(* The hardware: thread u commits pkts[u] packets, hvx of them HVX packets.  *)

PmEvent(c) == pmuevtcfg[c] + 256 * pmucfg[c]
SumOver(pkts) ==
    LET sum[t \in Threads] == pkts[t] + IF t = 0 THEN 0 ELSE sum[t - 1]
    IN sum[NUM_THREADS - 1]
Counted(c, pkts, hvx) ==
    CASE PmEvent(c) = COMMITTED_PKT_ANY -> SumOver(pkts)
      [] PmEvent(c) = HVX_PKT -> hvx
      [] OTHER -> SumOver([t \in Threads |-> IF COMMITTED_PKT[t] = PmEvent(c) THEN pkts[t] ELSE 0])
CountIf(on, pkts, hvx) ==
    pmucnt' = IF on THEN [c \in Counters |-> pmucnt[c] + Counted(c, pkts, hvx)] ELSE pmucnt
Packets(t, n, poll) == [u \in Threads |-> IF u = t THEN n ELSE IF u = 0 THEN poll ELSE 0]

(* Guest and user reads see the counters only when SSR:PE is set.            *)
get_counter(c, type) == IF type = SREG \/ ssrPE THEN pmucnt[c] ELSE 0

-----------------------------------------------------------------------------
(* The calls of the tests.                                                   *)

Reset == [op |-> "reset"]
SetCounters(f) == [op |-> "set", to |-> f]
Config(c, e) == [op |-> "config_low", c |-> c, e |-> e]
ConfigHigh(c, e) == [op |-> "config_high", c |-> c, e |-> e]
Work(t, n) == [op |-> "work", t |-> t, n |-> n]
Start == [op |-> "start"]
Stop == [op |-> "stop"]
Nops(n) == [op |-> "nops", n |-> n, hvx |-> 0]
Vrmpy(n) == [op |-> "nops", n |-> n, hvx |-> n]
Toggle(pe) == [op |-> "pe", pe |-> pe]
GuestWrites == [op |-> "gwrite"]
ConfigThread == [op |-> "config_thread"]
Check(type, range) == [op |-> "check", type |-> type, range |-> range]
CheckAny == [op |-> "check_any"]

Always(lo, hi) == [c \in Counters |-> <<lo, hi>>]
Only0(lo, hi) == [c \in {0} |-> <<lo, hi>>]
ERR(n) == n + n \div 10
pmu_config(c, e) == <<Config(c, e), ConfigHigh(c, e)>>
ConfigThreads == LET cfg[t \in Threads] == IF t = 0 THEN <<>> ELSE cfg[t - 1] \o pmu_config(t, COMMITTED_PKT[t])
                 IN cfg[NUM_THREADS - 1]
WorkOfThreads ==
    [i \in 1 .. NUM_THREADS - 1 |-> Work(i, (i + 1) * BASE_WORK_COUNT)]
        \o pmu_config(0, COMMITTED_PKT[0]) \o <<Work(0, BASE_WORK_COUNT)>>

test_config_with_pmu_enabled(start) ==
    <<Reset, SetCounters([c \in Counters |-> start]), Start, Nops(800)>>
        \o pmu_config(0, COMMITTED_PKT[0]) \o <<Stop, Check(SREG, Only0(start, start + 15))>>

WorkRange(type, pe, off) ==
    [c \in Counters |-> IF type # SREG /\ ~ pe THEN <<0, 0>>
                        ELSE LET n == BASE_WORK_COUNT * (c + 1) IN <<off[c] + n, off[c] + ERR(n)>>]
NoOffset == [c \in Counters |-> 0]
OddOffset == [c \in Counters |-> IF c % 2 = 1 THEN 1000 ELSE 0]

test_threaded_pkt_count(type, pe) ==
    <<Reset>> \o ConfigThreads \o WorkOfThreads
        \o <<Toggle(pe), Check(type, WorkRange(type, pe, NoOffset))>>

(* By pairs: the system registers are read without touching SSR:PE.          *)
test_paired_access(type, pe) ==
    <<Reset>> \o ConfigThreads \o <<SetCounters(OddOffset)>> \o WorkOfThreads
        \o (IF type = SREG THEN <<>> ELSE <<Toggle(pe)>>)
        \o <<Check(type, WorkRange(type, pe, OddOffset))>>

test_alias(type) ==
    <<Reset>> \o test_threaded_pkt_count(type, FALSE) \o <<Reset>> \o test_paired_access(type, FALSE)
        \o <<Reset>> \o test_threaded_pkt_count(type, TRUE) \o <<Reset>> \o test_paired_access(type, TRUE)
        \o <<Toggle(TRUE), Reset, GuestWrites, Check(type, Always(0, 0))>>
test_gpmucnt == test_alias(GREG)
test_upmucnt == test_alias(CREG)

test_config_from_another_thread == <<Reset, ConfigThread, Stop, Check(SREG, Only0(100, 100000))>>
test_hvx_packets ==
    <<Reset>> \o pmu_config(0, HVX_PKT) \o <<Start, Nops(2), Vrmpy(2), Check(SREG, Only0(2, 2)), Stop>>

test_event_change ==
    LET total == 500 + 3 * BASE_WORK_COUNT IN
    <<Reset, SetCounters([c \in Counters |-> IF c = 0 THEN 500 ELSE 0])>>
        \o pmu_config(0, COMMITTED_PKT[0]) \o <<Work(0, BASE_WORK_COUNT)>>
        \o pmu_config(0, COMMITTED_PKT[1]) \o <<Work(1, BASE_WORK_COUNT)>>
        \o pmu_config(0, COMMITTED_PKT[0]) \o <<Work(0, BASE_WORK_COUNT)>>
        \o <<Check(SREG, Only0(total, ERR(total)))>>

test_committed_pkt_any ==
    <<Reset>> \o pmu_config(0, COMMITTED_PKT_ANY) \o pmu_config(1, COMMITTED_PKT[0])
        \o (IF NUM_THREADS > 2 THEN pmu_config(2, COMMITTED_PKT[1]) ELSE <<>>)
        \o <<Work(1, 2 * BASE_WORK_COUNT), Work(0, BASE_WORK_COUNT), CheckAny>>

PmMain ==
    test_config_with_pmu_enabled(0) \o test_config_with_pmu_enabled(100)
        \o test_threaded_pkt_count(SREG, FALSE) \o test_paired_access(SREG, FALSE)
        \o test_gpmucnt \o test_upmucnt \o test_config_from_another_thread
        \o test_hvx_packets \o test_event_change \o test_committed_pkt_any

-----------------------------------------------------------------------------
PmInit ==
    /\ pmStep = 1
    /\ pmucnt \in {[c \in Counters |-> 0], [c \in Counters |-> 7]}
    /\ pmuevtcfg = [c \in Counters |-> 0] /\ pmucfg = [c \in Counters |-> 0]
    /\ pmuOn = FALSE /\ ssrPE = FALSE
    /\ pmFail = FALSE

PmCall(name) == pmStep <= Len(PmMain) /\ PmMain[pmStep].op = name /\ pmStep' = pmStep + 1
PmArg == PmMain[pmStep]

pmu_reset ==
    /\ PmCall("reset")
    /\ pmuOn' = FALSE
    /\ pmucnt' = [c \in Counters |-> 0]
    /\ pmuevtcfg' = [c \in Counters |-> 0] /\ pmucfg' = [c \in Counters |-> 0]
    /\ UNCHANGED <<ssrPE, pmFail>>

pmu_set_counters ==
    /\ PmCall("set")
    /\ pmucnt' = PmArg.to
    /\ UNCHANGED <<pmuevtcfg, pmucfg, pmuOn, ssrPE, pmFail>>

(* pmu_config: the low bits, then the high bits; a running counter counts    *)
(* what its event is in between.                                             *)
pmu_config_low ==
    /\ PmCall("config_low")
    /\ \E n \in 0 .. OVERHEAD : CountIf(pmuOn, Packets(0, n, n), 0)
    /\ pmuevtcfg' = [pmuevtcfg EXCEPT ![PmArg.c] = PmArg.e % 256]
    /\ UNCHANGED <<pmucfg, pmuOn, ssrPE, pmFail>>

pmu_config_high ==
    /\ PmCall("config_high")
    /\ \E n \in 0 .. OVERHEAD : CountIf(pmuOn, Packets(0, n, n), 0)
    /\ pmucfg' = [pmucfg EXCEPT ![PmArg.c] = PmArg.e \div 256]
    /\ UNCHANGED <<pmuevtcfg, pmuOn, ssrPE, pmFail>>

pmu_start ==
    /\ PmCall("start")
    /\ pmuOn' = TRUE
    /\ UNCHANGED <<pmucnt, pmuevtcfg, pmucfg, ssrPE, pmFail>>

pmu_stop ==
    /\ PmCall("stop")
    /\ \E n \in 0 .. OVERHEAD : CountIf(pmuOn, Packets(0, n, n), 0)
    /\ pmuOn' = FALSE
    /\ UNCHANGED <<pmuevtcfg, pmucfg, ssrPE, pmFail>>

RunPackets ==
    /\ PmCall("nops")
    /\ CountIf(pmuOn, Packets(0, PmArg.n, PmArg.n), PmArg.hvx)
    /\ UNCHANGED <<pmuevtcfg, pmucfg, pmuOn, ssrPE, pmFail>>

(* pmu_start, the packets, pmu_stop, on thread t; thread 0 polls its end.    *)
work ==
    /\ PmCall("work")
    /\ \E n \in 0 .. OVERHEAD, poll \in {0, POLL} :
         CountIf(TRUE, Packets(PmArg.t, PmArg.n + n, poll), 0)
    /\ pmuOn' = FALSE
    /\ UNCHANGED <<pmuevtcfg, pmucfg, ssrPE, pmFail>>

(* The last thing the other thread does is pmu_start.                        *)
config_thread ==
    /\ PmCall("config_thread")
    /\ \E poll \in {0, POLL} : pmucnt' = [c \in Counters |-> 100 + IF c = 0 THEN poll ELSE 0]
    /\ pmuevtcfg' = [pmuevtcfg EXCEPT ![0] = COMMITTED_PKT[0]]
    /\ pmuOn' = TRUE
    /\ UNCHANGED <<pmucfg, ssrPE, pmFail>>

toggle_ssr_pe ==
    /\ PmCall("pe")
    /\ ssrPE' = PmArg.pe
    /\ UNCHANGED <<pmucnt, pmuevtcfg, pmucfg, pmuOn, pmFail>>

(* Writes of gpmucnt and upmucnt are ignored.                                *)
WriteGuestCounters ==
    /\ PmCall("gwrite")
    /\ UNCHANGED <<pmRegs, pmFail>>

__check_val_range ==
    /\ PmCall("check")
    /\ pmFail' = (pmFail \/ \E c \in DOMAIN PmArg.range :
                     LET v == get_counter(c, PmArg.type)
                     IN v < PmArg.range[c][1] \/ v > PmArg.range[c][2])
    /\ UNCHANGED pmRegs

check_committed_pkt_any ==
    /\ PmCall("check_any")
    /\ LET expect == pmucnt[1] + IF NUM_THREADS > 2 THEN pmucnt[2] ELSE 0
       IN pmFail' = (pmFail \/ pmucnt[0] < expect \/ pmucnt[0] > ERR(expect))
    /\ UNCHANGED pmRegs

PmNext ==
    \/ pmu_reset \/ pmu_set_counters \/ pmu_config_low \/ pmu_config_high
    \/ pmu_start \/ pmu_stop \/ RunPackets \/ work \/ config_thread
    \/ toggle_ssr_pe \/ WriteGuestCounters \/ __check_val_range \/ check_committed_pkt_any

PmDone == pmStep > Len(PmMain)
=============================================================================
