----------------------------- MODULE CycleCounter -----------------------------
(* pcycle.c: the 64 bit cycle counter read whole and by halves, directly and  *)
(* through its guest and user copies, which SSR:CE shows or hides.  The count *)
(* goes on between two reads, so halves may be of two different counts, and   *)
(* the bounds of the checks are themselves computed in 32 bits.               *)
EXTENDS Naturals, Sequences

CONSTANTS
    WORD,               \* 2^32
    PcStart,            \* counts the test may start from
    MAX_HW_THREADS

ASSUME CycleAssumption ==
    WORD \in Nat \ {0} /\ PcStart \subseteq Nat /\ MAX_HW_THREADS \in Nat \ {0}

VARIABLES
    pcStep,             \* the test main has reached and the place in it
    pcycle,
    ssrCE,              \* SSR:CE
    pcReg,              \* the variables read so far
    pcWrapped,          \* the low half has wrapped since the last check
    pcFail

pcVars == <<pcStep, pcycle, ssrCE, pcReg, pcWrapped, pcFail>>

(* Cycles of the instructions (cycle_estimates.h.inc): one per read of a     *)
(* half, two per pair, one per add, three per tlbmatch.                      *)
Half(r, part, copy) == [op |-> "read", r |-> r, part |-> part, copy |-> copy, cost |-> 1]
Pair(r, copy) == [op |-> "read", r |-> r, part |-> "all", copy |-> copy, cost |-> 2]
Spend(n) == [op |-> "spend", cost |-> n]
ENABLE_PCYCLE == [op |-> "enable"]
SetCE(on) == [op |-> "ce", on |-> on]
PcCheck(name) == [op |-> "check", name |-> name]

test_pcycle ==
    <<ENABLE_PCYCLE, Pair("a", FALSE), Half("a", "hi", FALSE), Half("a", "lo", FALSE), Spend(5),
      Pair("b", FALSE), Half("b", "hi", FALSE), Half("b", "lo", FALSE), PcCheck("halves"), PcCheck("adds")>>
test_pcycle2 ==
    <<ENABLE_PCYCLE, Pair("a", FALSE), Spend(3), Spend(1), Pair("b", FALSE), PcCheck("packet")>>
test_pcycle_read == <<Pair("a", FALSE), Pair("b", FALSE), PcCheck("differ")>>
(* test_gpcycle and test_upcycle are the same calls on two copies.           *)
test_copy ==
    <<SetCE(FALSE),
      Half("a", "lo", FALSE), Half("a", "hi", FALSE), Half("b", "lo", TRUE), Half("b", "hi", TRUE),
      PcCheck("hidden_halves"), Pair("a", FALSE), Pair("b", TRUE), PcCheck("hidden"),
      SetCE(TRUE),
      Half("a", "lo", FALSE), Half("a", "hi", FALSE), Half("b", "lo", TRUE), Half("b", "hi", TRUE),
      PcCheck("copy_halves"), Pair("a", FALSE), Pair("b", TRUE), PcCheck("copy")>>

PcMain == <<test_pcycle, test_pcycle2, test_pcycle_read, test_copy, test_copy>>

Lo(n) == n % WORD
Hi(n) == n \div WORD
combine(r) == WORD * r.hi + r.lo

PcInit ==
    /\ pcStep = [test |-> 1, at |-> 1]
    /\ pcycle \in PcStart
    /\ ssrCE = FALSE
    /\ pcReg = [r \in {"a", "b"} |-> [lo |-> 0, hi |-> 0, all |-> 0]]
    /\ pcWrapped = FALSE /\ pcFail = {}

PcArg == PcMain[pcStep.test][pcStep.at]
PcCall(name) ==
    /\ pcStep.test <= Len(PcMain) /\ PcArg.op = name
    /\ pcStep' = IF pcStep.at = Len(PcMain[pcStep.test]) THEN [test |-> pcStep.test + 1, at |-> 1]
                 ELSE [pcStep EXCEPT !.at = @ + 1]
Tick == /\ pcycle' = pcycle + PcArg.cost
        /\ pcWrapped' = (pcWrapped \/ Hi(pcycle') # Hi(pcycle))

(* The enable bit goes off and on: the count restarts or goes on.            *)
PcEnable ==
    /\ PcCall("enable")
    /\ pcycle' \in {0, pcycle}
    /\ pcWrapped' = FALSE
    /\ UNCHANGED <<ssrCE, pcReg, pcFail>>

(* A read sees the count of its own cycle; a hidden copy reads zero.         *)
PcRead ==
    /\ PcCall("read")
    /\ LET n == IF PcArg.copy /\ ~ ssrCE THEN 0 ELSE pcycle
       IN pcReg' = [pcReg EXCEPT ![PcArg.r] =
                      CASE PcArg.part = "lo" -> [@ EXCEPT !.lo = Lo(n)]
                        [] PcArg.part = "hi" -> [@ EXCEPT !.hi = Hi(n)]
                        [] PcArg.part = "all" -> [lo |-> @.lo, hi |-> @.hi, all |-> n]]
    /\ Tick
    /\ UNCHANGED <<ssrCE, pcFail>>

PcSpend ==
    /\ PcCall("spend")
    /\ Tick
    /\ UNCHANGED <<ssrCE, pcReg, pcFail>>

clr_set_ssr_ce ==
    /\ PcCall("ce")
    /\ ssrCE' = PcArg.on
    /\ UNCHANGED <<pcycle, pcReg, pcWrapped, pcFail>>

(* __check_range on 32 bit arguments: both bounds are cut to a word.         *)
__check_range(v, min, max) == Lo(min) <= Lo(v) /\ Lo(v) <= Lo(max)

PcPasses(name, a, b) ==
    CASE name = "halves" -> b.all + combine(a) = a.all + combine(b)
      [] name = "adds" -> b.all = a.all + 4 + 5
      [] name = "packet" -> b.all = a.all + 2 + 3 + 1
      [] name = "differ" -> Lo(a.all) # Lo(b.all)
      [] name = "hidden_halves" -> b.lo = 0 /\ b.hi = 0
      [] name = "hidden" -> Lo(b.all) = 0
      [] name = "copy_halves" -> __check_range(b.lo, a.lo, a.lo * MAX_HW_THREADS) /\ a.hi = b.hi
      [] name = "copy" -> __check_range(b.all, a.all, a.all * MAX_HW_THREADS)

PcRunCheck ==
    /\ PcCall("check")
    /\ pcFail' = IF PcPasses(PcArg.name, pcReg["a"], pcReg["b"]) THEN pcFail
                 ELSE pcFail \cup {[name |-> PcArg.name, low |-> Lo(pcReg["a"].all), lo |-> pcReg["a"].lo,
                                    wrapped |-> pcWrapped]}
    /\ pcWrapped' = IF PcArg.name = "halves" THEN pcWrapped ELSE FALSE
    /\ UNCHANGED <<pcycle, ssrCE, pcReg>>

PcNext == PcEnable \/ PcRead \/ PcSpend \/ clr_set_ssr_ce \/ PcRunCheck
PcDone == pcStep.test > Len(PcMain)

(* The bounds of check_range hold a copy read two cycles after the register  *)
(* whose low word was low: not when the upper bound leaves the word, nor in  *)
(* the first cycle after a wrap, where it is too small.                      *)
RangeHolds(low) == low + 2 <= low * MAX_HW_THREADS /\ low * MAX_HW_THREADS < WORD

(* A check fails only when the low word wraps in it, or in a range check     *)
(* whose bounds cannot hold.                                                 *)
CycleChecksPass ==
    \A f \in pcFail :
        \/ f.wrapped
        \/ f.name = "copy" /\ ~ RangeHolds(f.low)
        \/ f.name = "copy_halves" /\ ~ RangeHolds(f.lo)
=============================================================================
