------------------------------ MODULE SystemTests ------------------------------
(* The single-threaded programs and libraries that share no state with each   *)
(* other, one of which a behaviour executes: the scatter and gather test      *)
(* (ScatterGather), the PMU tests (PmuTests), the MMU tests (MmuTests), the   *)
(* bad address test (Badva), the cycle counter test (CycleCounter), the L2VIC *)
(* and timer tests (L2vicTests, QTimers), printf and the command line         *)
(* (MinLibc) and the in-memory files (MemFile).                               *)
EXTENDS ScatterGather, PmuTests, MmuTests, Badva, CycleCounter, L2vicTests, QTimers, MinLibc,
        MemFile

VARIABLE system     \* the program that runs

sysVars == <<sgVars, pmVars, mmVars, bvVars, pcVars, lvVars, qtVars, mlVars, mfVars, system>>

(* The variables of a program that does not run have no meaning.             *)
SgOff == sgStep = 0 /\ tables = 0 /\ vscatter = 0 /\ vgather = 0 /\ unit = 0 /\ sgFail = 0
PmOff == pmStep = 0 /\ pmucnt = 0 /\ pmuevtcfg = 0 /\ pmucfg = 0 /\ pmuOn = 0 /\ ssrPE = 0 /\ pmFail = 0
MmOff == /\ mmProg = 0 /\ mmStep = 0 /\ tlb = 0 /\ mmAsid = 0 /\ userMode = 0 /\ evbMine = 0
         /\ my_exceptions = 0 /\ mmData = 0 /\ mmDead = 0 /\ mmFail = 0
BvOff == /\ bvStep = 0 /\ mb_counter = 0 /\ bvPte = 0 /\ bvTlb = 0 /\ new_data = 0 /\ data = 0
         /\ bvVal = 0 /\ badvaReg = 0 /\ v0 = 0 /\ v1 = 0 /\ bvFail = 0
PcOff == pcStep = 0 /\ pcycle = 0 /\ ssrCE = 0 /\ pcReg = 0 /\ pcWrapped = 0 /\ pcFail = 0
LvOff == /\ lvProg = 0 /\ lvPc = 0 /\ lvIrq = 0 /\ lvClearReads = 0 /\ enable = 0 /\ edge = 0
         /\ pending = 0 /\ vid = 0 /\ lvIsr = 0 /\ irqlog = 0 /\ pass = 0 /\ g_irq = 0 /\ lvFail = 0
QtOff == /\ qtProg = 0 /\ qtPc = 0 /\ qtLeft = 0 /\ qtEnable = 0 /\ qtPend = 0 /\ qtVid = 0
         /\ qtIsr = 0 /\ qtimer2_cnt = 0 /\ qtRan = 0
MlOff == /\ mlAt = 0 /\ mlCall = 0 /\ mlPtr = 0 /\ mlVa = 0 /\ mlOut = 0 /\ mlNum = 0 /\ mlDiv = 0
         /\ mlDigits = 0 /\ mlLine = 0 /\ mlArgc = 0 /\ mlArgs = 0 /\ mlC = 0
MfOff == /\ is_open = 0 /\ fmode = 0 /\ buf_maxsize = 0 /\ crnt_filesize = 0 /\ pos = 0
         /\ overrun = 0 /\ tooLong = 0

SysInit ==
    /\ system \in {"scatter", "pmu", "mmu", "badva", "pcycle", "l2vic", "qtimer", "libc", "memfile"}
    /\ IF system = "scatter" THEN SgInit ELSE SgOff
    /\ IF system = "pmu" THEN PmInit ELSE PmOff
    /\ IF system = "mmu" THEN MmInit ELSE MmOff
    /\ IF system = "badva" THEN BvInit ELSE BvOff
    /\ IF system = "pcycle" THEN PcInit ELSE PcOff
    /\ IF system = "l2vic" THEN LvInit ELSE LvOff
    /\ IF system = "qtimer" THEN QtInit ELSE QtOff
    /\ IF system = "libc" THEN MlInit ELSE MlOff
    /\ IF system = "memfile" THEN MfInit ELSE MfOff

Scatter == system = "scatter" /\ SgNext
           /\ UNCHANGED <<pmVars, mmVars, bvVars, pcVars, lvVars, qtVars, mlVars, mfVars, system>>
Pmu == system = "pmu" /\ PmNext
       /\ UNCHANGED <<sgVars, mmVars, bvVars, pcVars, lvVars, qtVars, mlVars, mfVars, system>>
Mmu == system = "mmu" /\ MmNext
       /\ UNCHANGED <<sgVars, pmVars, bvVars, pcVars, lvVars, qtVars, mlVars, mfVars, system>>
BadvaStep == system = "badva" /\ BvNext
       /\ UNCHANGED <<sgVars, pmVars, mmVars, pcVars, lvVars, qtVars, mlVars, mfVars, system>>
Pcycle == system = "pcycle" /\ PcNext
       /\ UNCHANGED <<sgVars, pmVars, mmVars, bvVars, lvVars, qtVars, mlVars, mfVars, system>>
L2vic == system = "l2vic" /\ LvNext
       /\ UNCHANGED <<sgVars, pmVars, mmVars, bvVars, pcVars, qtVars, mlVars, mfVars, system>>
Qtimer == system = "qtimer" /\ QtNext
       /\ UNCHANGED <<sgVars, pmVars, mmVars, bvVars, pcVars, lvVars, mlVars, mfVars, system>>
Libc == system = "libc" /\ MlNext
       /\ UNCHANGED <<sgVars, pmVars, mmVars, bvVars, pcVars, lvVars, qtVars, mfVars, system>>
MemFiles == system = "memfile" /\ MfNext
       /\ UNCHANGED <<sgVars, pmVars, mmVars, bvVars, pcVars, lvVars, qtVars, mlVars, system>>

SysNext == Scatter \/ Pmu \/ Mmu \/ BadvaStep \/ Pcycle \/ L2vic \/ Qtimer \/ Libc \/ MemFiles

(* The current ASID sees an entry.                                           *)
Visible(e) == e.V /\ (e.G \/ e.asid = mmAsid)

(* The programs run, and the devices and the clock do not stop; nothing      *)
(* makes anybody call the file functions.                                    *)
SysSpec ==
    /\ SysInit /\ [][SysNext]_sysVars
    /\ WF_sysVars(Scatter \/ Pmu \/ Mmu \/ BadvaStep \/ Pcycle \/ L2vic \/ Qtimer \/ Libc)

-----------------------------------------------------------------------------
(* No check of a program ever fails, and no MMU test ends in a core dump or  *)
(* the refill handler's dead loop, whatever order the scatter unit, the      *)
(* packets, the faults and the interrupts take, with these exceptions.       *)
(* badva_write fails when the last miss left V1 set; a cycle check fails     *)
(* when the low word of the count wraps in it, or when a low word times      *)
(* MAX_HW_THREADS does or is less than two more; int_range.c fails where     *)
(* ENABLE_CLEAR does not read as 0.                                          *)
SystemChecksPass ==
    /\ system = "scatter" => ~ sgFail
    /\ system = "pmu" => ~ pmFail
    /\ system = "mmu" => ~ mmFail /\ ~ mmDead
    /\ system = "badva" => BadvaChecksPass
    /\ system = "pcycle" => CycleChecksPass
    /\ system = "l2vic" => LvPasses

(* What the TLB holds is what the tests think it holds.  No two entries the  *)
(* current ASID sees translate the same page, except in mmu_multi_tlb.c,     *)
(* though clear_overlapping_entry probes one address only and an entry of    *)
(* the runtime's refill is global; and a translation badva.c adds, which     *)
(* goes to the table and not to the TLB, meets no older entry of its page.   *)
MappingsAgree ==
    /\ system = "mmu" /\ mmProg # "multi_tlb" =>
         \A i, j \in Legacy :
             i # j /\ Overlaps(tlb[i], tlb[j]) => ~ (Visible(tlb[i]) /\ Visible(tlb[j]))
    /\ system = "badva" => TableAgrees

(* min_libc.c: printf prints every directive with its own argument, a        *)
(* negative int excepted, which comes out as the unsigned 64 bit value it is *)
(* extended to; and the two passes of getcmdline agree on the arguments.     *)
LibraryExact == system = "libc" => PrintedExactly /\ ArgumentsAgree

(* util.c: no position outside its file, no file outside its buffer, unless  *)
(* a transfer is asked to end beyond INT_MAX.                                *)
NoFileOverrun == system = "memfile" => FilesInBuffers

(* qtimer.c, qtimer.h: neither timer is ever left neither running nor        *)
(* pending nor in the hands of a handler that will rearm and enable it.      *)
NoTimerSilent == system = "qtimer" => TimersAlive

(* Every program comes to its end: a replayed access finds its translation   *)
(* at last, the scatter unit drains, printf's loops over the divider stop    *)
(* and no handler waits for an interrupt that cannot come.                   *)
ProgramsEnd ==
    <> \/ system = "scatter" /\ SgDone
       \/ system = "pmu" /\ PmDone
       \/ system = "mmu" /\ MmDone
       \/ system = "badva" /\ BvDone
       \/ system = "pcycle" /\ PcDone
       \/ system = "l2vic" /\ LvEnded
       \/ system = "qtimer" /\ QtEnded
       \/ system = "libc" /\ MlDone
       \/ system = "memfile"
=============================================================================
