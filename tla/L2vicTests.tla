------------------------------ MODULE L2vicTests ------------------------------
(* The second-level interrupt controller tests: pendalot.c, fastint.c,        *)
(* levelint.c, int_range.c and fastl2vic.c, on one hardware thread.  main()   *)
(* writes the controller's registers; the handler of core interrupt 2 reads   *)
(* the source from VID and runs between any two steps of main().              *)
EXTENDS Naturals, Sequences, FiniteSets, FiniteSetsExt

CONSTANTS
    INTMAX,         \* sources are 0 .. INTMAX - 1
    LEFT_SET,       \* the source int_range.c leaves enabled
    WordBits        \* sources a register covers (32)

ASSUME L2vicAssumption ==
    /\ INTMAX \in Nat /\ WordBits \in Nat \ {0}
    /\ LEFT_SET \in 1 .. INTMAX - 1 /\ 2 * LEFT_SET >= INTMAX

Irqs == 1 .. INTMAX - 1
L2vicPrograms == {"pendalot", "fastint", "levelint", "int_range", "fastl2vic"}

VARIABLES
    lvProg, lvPc, lvIrq,    \* the test, where main() is, its loop counter
    lvClearReads,           \* does ENABLE_CLEAR read as the enable bits or as 0
    enable, edge, pending,  \* INT_ENABLE, INT_TYPE, latched sources
    vid, lvIsr,             \* VID; the handler's next step, "none" outside
    irqlog, pass, g_irq,    \* what the handler leaves
    lvFail

lvDevice == <<enable, edge, pending>>
lvIsrVars == <<vid, lvIsr, irqlog, pass, g_irq>>
lvVars == <<lvProg, lvPc, lvIrq, lvClearReads, lvDevice, lvIsrVars, lvFail>>

LvInit ==
    /\ lvProg \in L2vicPrograms
    /\ lvPc = IF lvProg = "fastl2vic" THEN "fast" ELSE "setup"
    /\ lvIrq = 1
    /\ lvClearReads \in BOOLEAN /\ (lvProg # "int_range" => ~lvClearReads)
    /\ enable = {} /\ edge = {} /\ pending = {}
    /\ vid = 0 /\ lvIsr = "none"
    /\ irqlog = [i \in 0 .. INTMAX |-> 0]
    /\ pass = 0 /\ g_irq = 0
    /\ lvFail = FALSE

(* main() runs when the handler does not; a loop goes on to the next source  *)
(* or, after the last one, to l.                                             *)
LvAt(l) == lvIsr = "none" /\ lvPc = l
LvLoop(l) ==
    IF lvIrq = INTMAX - 1 THEN lvPc' = l /\ lvIrq' = 1 ELSE lvIrq' = lvIrq + 1 /\ UNCHANGED lvPc
LvCheck(b) == lvFail' = (lvFail \/ ~b)

(* The setup loop: enable through the fast interface, A[0] = irq, or by a    *)
(* read-modify-write of INT_ENABLE; the type; the enable bit read back.      *)
SetupIrq ==
    /\ LvAt("setup")
    /\ enable' = enable \cup {lvIrq}
    /\ edge' = IF lvProg \in {"pendalot", "fastint"} THEN edge \cup {lvIrq} ELSE edge \ {lvIrq}
    /\ LvCheck(lvIrq \in enable')
    /\ LvLoop(CASE lvProg = "pendalot" -> "untriggered"
                [] lvProg = "int_range" -> "readback"
                [] OTHER -> "trigger")
    /\ UNCHANGED <<lvProg, lvClearReads, pending, lvIsrVars>>

(* pendalot.c: nothing has been triggered yet.                               *)
CheckUntriggered ==
    /\ LvAt("untriggered")
    /\ LvCheck(\A i \in 0 .. INTMAX : irqlog[i] = 0)
    /\ lvPc' = "trigger"
    /\ UNCHANGED <<lvProg, lvIrq, lvClearReads, lvDevice, lvIsrVars>>

(* SOFT_INT_SET latches an edge source; a level source follows its line,     *)
(* which stays low.                                                          *)
Latch(irq) == IF irq \in edge THEN pending \cup {irq} ELSE pending

(* The trigger loop.  fastint.c waits after every source, pendalot.c after   *)
(* the last one, levelint.c not at all.                                      *)
Trigger ==
    /\ LvAt("trigger")
    /\ pending' = Latch(lvIrq)
    /\ IF lvProg = "fastint"
         THEN lvPc' = "wait" /\ UNCHANGED lvIrq
         ELSE LvLoop(IF lvProg = "levelint" THEN "end" ELSE "wait")
    /\ UNCHANGED <<lvProg, lvClearReads, enable, edge, lvIsrVars, lvFail>>

(* fastint.c: while (!pass); assert(g_irq == irq); pass = RESET.             *)
WaitOne ==
    /\ lvProg = "fastint" /\ LvAt("wait") /\ pass # 0
    /\ LvCheck(g_irq = lvIrq)
    /\ pass' = 0
    /\ IF lvIrq = INTMAX - 1 THEN lvPc' = "PASS" /\ UNCHANGED lvIrq
                             ELSE lvPc' = "trigger" /\ lvIrq' = lvIrq + 1
    /\ UNCHANGED <<lvProg, lvClearReads, lvDevice, vid, lvIsr, irqlog, g_irq>>

(* pendalot.c: pass is set by the last source's handler; by then every       *)
(* source has been handled once.                                             *)
WaitLast ==
    /\ lvProg = "pendalot" /\ LvAt("wait") /\ pass # 0
    /\ LvCheck(/\ irqlog[0] = 0 /\ irqlog[INTMAX] = 0
               /\ \A i \in Irqs : irqlog[i] = 1)
    /\ lvPc' = "PASS"
    /\ UNCHANGED <<lvProg, lvIrq, lvClearReads, lvDevice, lvIsrVars>>

(* levelint.c: assert(interrupt_count == 0).                                 *)
CheckNone ==
    /\ LvAt("end")
    /\ LvCheck(pass = 0)
    /\ lvPc' = "PASS"
    /\ UNCHANGED <<lvProg, lvIrq, lvClearReads, lvDevice, lvIsrVars>>

(* int_range.c.                                                              *)
ReadBack ==
    /\ LvAt("readback")
    /\ LvCheck(lvIrq \in enable)
    /\ LvLoop("clear")
    /\ UNCHANGED <<lvProg, lvClearReads, lvDevice, lvIsrVars>>

(* L2VIC_INT_ENABLE_CLEAR |= irq_bit  disables irq and every source of its   *)
(* register whose bit the read returned.                                     *)
WordOf(irq) == {i \in 0 .. INTMAX - 1 : i \div WordBits = irq \div WordBits}
ClearIrq ==
    /\ LvAt("clear")
    /\ enable' = IF lvIrq % LEFT_SET = 0 THEN enable
                 ELSE enable \ ({lvIrq} \cup (IF lvClearReads THEN enable \cap WordOf(lvIrq) ELSE {}))
    /\ LvLoop("leftset")
    /\ UNCHANGED <<lvProg, lvClearReads, edge, pending, lvIsrVars, lvFail>>

(* The last loop, and the PASS printed only when LEFT_SET is still enabled.  *)
CheckLeftSet ==
    /\ LvAt("leftset")
    /\ LvCheck(enable = {LEFT_SET})
    /\ lvPc' = "PASS"
    /\ UNCHANGED <<lvProg, lvIrq, lvClearReads, lvDevice, lvIsrVars>>

(* fastl2vic.c: each write of the fast interface, and the register after it. *)
FastWrites == << <<"set", 2, {2}>>, <<"set", 4, {2, 4}>>, <<"set", 3, {2, 3, 4}>>,
                 <<"clear", 4, {2, 3}>>, <<"clear", 2, {3}>>, <<"clear", 3, {}>> >>
FastWrite ==
    /\ LvAt("fast")
    /\ LET w == FastWrites[lvIrq] IN
         /\ enable' = IF w[1] = "set" THEN enable \cup {w[2]} ELSE enable \ {w[2]}
         /\ LvCheck(enable' = w[3])
    /\ IF lvIrq = Len(FastWrites) THEN lvPc' = "PASS" /\ UNCHANGED lvIrq
                                  ELSE lvIrq' = lvIrq + 1 /\ UNCHANGED lvPc
    /\ UNCHANGED <<lvProg, lvClearReads, edge, pending, lvIsrVars>>

-----------------------------------------------------------------------------
(* The controller delivers the lowest source pending and enabled, disables   *)
(* it and puts it in VID.                                                    *)
Deliverable == pending \cap enable
NextSource(i) == Deliverable # {} /\ i = Min(Deliverable)

DeliverVid ==
    /\ lvIsr = "none" /\ lvPc # "PASS"
    /\ \E i \in Irqs :
         /\ NextSource(i)
         /\ vid' = i
         /\ pending' = pending \ {i} /\ enable' = enable \ {i}
    /\ lvIsr' = "enable"
    /\ UNCHANGED <<lvProg, lvPc, lvIrq, lvClearReads, edge, irqlog, pass, g_irq, lvFail>>

(* intr_handler: g_irq = vid; enable the source again.                       *)
HandlerEnable ==
    /\ lvIsr = "enable"
    /\ g_irq' = vid
    /\ enable' = enable \cup {vid}
    /\ lvIsr' = "log"
    /\ UNCHANGED <<lvProg, lvPc, lvIrq, lvClearReads, edge, pending, vid, irqlog, pass, lvFail>>

(* irqlog[vid] += 1; pass++, in pendalot.c for the last source only.         *)
HandlerLog ==
    /\ lvIsr = "log"
    /\ irqlog' = [irqlog EXCEPT ![vid] = @ + 1]
    /\ pass' = IF lvProg # "pendalot" \/ vid = INTMAX - 1 THEN pass + 1 ELSE pass
    /\ lvIsr' = "none"
    /\ UNCHANGED <<lvProg, lvPc, lvIrq, lvClearReads, lvDevice, vid, g_irq, lvFail>>

LvNext ==
    \/ SetupIrq \/ CheckUntriggered \/ Trigger \/ WaitOne \/ WaitLast \/ CheckNone
    \/ ReadBack \/ ClearIrq \/ CheckLeftSet \/ FastWrite
    \/ DeliverVid \/ HandlerEnable \/ HandlerLog

LvEnded == lvPc = "PASS"

(* int_range.c expects ENABLE_CLEAR to read as 0.                            *)
LvPasses == lvFail => lvProg = "int_range" /\ lvClearReads
=============================================================================
