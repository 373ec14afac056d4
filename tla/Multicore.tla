------------------------------- MODULE Multicore -------------------------------
(* sa8797p_nsp_multicore.c with mcw.c: a coordinator core and worker cores    *)
(* that talk only through multicast writes.  A write issued by a core goes to *)
(* the ports of its master LUT entry that the master mask leaves on, and      *)
(* lands in the receiver's memory if the receiver's slave LUT has the entry.  *)
(*                                                                            *)
(* The network (external) keeps the order of writes between two cores and     *)
(* nothing else.  L2TCM is zero at reset.  A core's sum is the set of thread  *)
(* numbers whose values have been added: it is the expected_core_sum when it  *)
(* is all of HwThreads.                                                       *)
EXTENDS Naturals, Sequences, FiniteSets

CONSTANTS
    core_count,
    HwThreads           \* 0 .. MAX_THREADS - 1, the threads of each core

ASSUME CoresAssumption == core_count \in Nat /\ core_count >= 3
ASSUME ThreadsAssumption == IsFiniteSet(HwThreads) /\ HwThreads # {}

Cores == 0 .. core_count - 1
WorkerCores == Cores \ {0}
Excluded == core_count - 1

BcastFields == {"map_seed", "phase2_v1", "phase2_v2", "phase2_v3"}
FlagFields == {"phase1_ready", "phase1_done", "phase2_ack", "phase2_saw_v2", "phase2_report"}

VARIABLES
    pc, idx,            \* thread 0 of each core; the core a loop has reached
    masterMask,         \* MCID_MASK of core 0
    slaveLut,           \* cores whose slave LUT entry is programmed
    bcast,              \* nonzero fields of a worker's receive buffer
    slots, slotSum,     \* core 0: nonzero flags and the sum in each slot
    toWorker, toCoord,  \* writes in flight
    core_sum, tpc, treg, resv,
    err

netVars == <<toWorker, toCoord>>
memVars == <<bcast, slots, slotSum>>
lutVars == <<masterMask, slaveLut>>
sumVars == <<core_sum, tpc, treg, resv>>
vars == <<pc, idx, lutVars, memVars, netVars, sumVars, err>>

Write(f, v) == [field |-> f, val |-> v]

Init ==
    /\ pc = [c \in Cores |-> IF c = 0 THEN "program" ELSE "off"]
    /\ idx = 1
    /\ masterMask = Cores /\ slaveLut = {}
    /\ bcast = [c \in Cores |-> {}]
    /\ slots = [c \in Cores |-> {}]
    /\ slotSum = [c \in Cores |-> {}]
    /\ toWorker = [c \in WorkerCores |-> <<>>]
    /\ toCoord = [c \in WorkerCores |-> <<>>]
    /\ core_sum = [c \in Cores |-> {}]
    /\ tpc = [c \in Cores |-> [t \in HwThreads |-> "stopped"]]
    /\ treg = [c \in Cores |-> [t \in HwThreads |-> {}]]
    /\ resv = [c \in Cores |-> {}]
    /\ err = FALSE

Goto(c, l) == pc' = [pc EXCEPT ![c] = l]
At(c, l, m) == pc[c] = l /\ Goto(c, m)

-----------------------------------------------------------------------------
(* The MCW.                                                                  *)

(* mcw_fanout_write32 on BCAST_MCID by core 0, whose port mask is every      *)
(* worker.                                                                   *)
Broadcast(f) ==
    /\ toWorker' = [c \in WorkerCores |->
                      IF c \in masterMask THEN Append(toWorker[c], Write(f, 1)) ELSE toWorker[c]]
    /\ UNCHANGED toCoord

(* worker_send_field: mcw_fanout_write32 on REDUCE_MCID, port mask core 0.   *)
worker_send_field(c, w) ==
    /\ toCoord' = [toCoord EXCEPT ![c] = Append(@, w)]
    /\ UNCHANGED toWorker

Set(fields, w) == IF w.val = 0 THEN fields \ {w.field} ELSE fields \cup {w.field}

(* A write arrives; one for an unprogrammed entry is dropped.                *)
ArriveAtWorker(c) ==
    /\ toWorker[c] # <<>>
    /\ toWorker' = [toWorker EXCEPT ![c] = Tail(@)]
    /\ bcast' = IF c \in slaveLut
                  THEN [bcast EXCEPT ![c] = Set(@, Head(toWorker[c]))] ELSE bcast
    /\ UNCHANGED <<pc, idx, lutVars, slots, slotSum, toCoord, sumVars, err>>

ArriveAtCoord(c) ==
    /\ toCoord[c] # <<>>
    /\ toCoord' = [toCoord EXCEPT ![c] = Tail(@)]
    /\ LET w == Head(toCoord[c]) IN
         /\ slotSum' = IF 0 \in slaveLut /\ w.field = "phase1_sum"
                         THEN [slotSum EXCEPT ![c] = w.val] ELSE slotSum
         /\ slots' = IF 0 \in slaveLut /\ w.field # "phase1_sum"
                       THEN [slots EXCEPT ![c] = Set(@, w)] ELSE slots
    /\ UNCHANGED <<pc, idx, lutVars, bcast, toWorker, sumVars, err>>

-----------------------------------------------------------------------------
(* run_core_compute.                                                         *)

(* core_sum = 0; thread_create of the others, and this thread's own part.    *)
StartCompute(c) ==
    /\ core_sum' = [core_sum EXCEPT ![c] = {}]
    /\ tpc' = [tpc EXCEPT ![c] = [t \in HwThreads |-> "ll"]]
    /\ UNCHANGED <<treg, resv>>

(* atomic_add_u32: memw_locked load; conditional store, or again.            *)
LoadLocked(c, t) ==
    /\ tpc[c][t] = "ll"
    /\ treg' = [treg EXCEPT ![c][t] = core_sum[c]]
    /\ resv' = [resv EXCEPT ![c] = @ \cup {t}]
    /\ tpc' = [tpc EXCEPT ![c][t] = "sc"]
    /\ UNCHANGED <<pc, idx, lutVars, memVars, netVars, core_sum, err>>

(* The wrong variant: a plain store.                                         *)
PlainStore(c, t) ==
    /\ tpc[c][t] = "sc"
    /\ core_sum' = [core_sum EXCEPT ![c] = treg[c][t] \cup {t}]
    /\ tpc' = [tpc EXCEPT ![c][t] = "stopped"]
    /\ UNCHANGED <<pc, idx, lutVars, memVars, netVars, treg, resv, err>>

StoreConditional(c, t) ==
    /\ tpc[c][t] = "sc"
    /\ IF t \in resv[c]
         THEN /\ core_sum' = [core_sum EXCEPT ![c] = treg[c][t] \cup {t}]
              /\ resv' = [resv EXCEPT ![c] = {}]
              /\ tpc' = [tpc EXCEPT ![c][t] = "stopped"]
         ELSE tpc' = [tpc EXCEPT ![c][t] = "ll"] /\ UNCHANGED <<core_sum, resv>>
    /\ UNCHANGED <<pc, idx, lutVars, memVars, netVars, treg, err>>

Joined(c) == \A t \in HwThreads : tpc[c][t] = "stopped"

-----------------------------------------------------------------------------
(* worker_core_main.                                                         *)

(* The slave LUT entry.  The wrong variant signals ready before it.          *)
ProgramLut(c) ==
    /\ slaveLut' = slaveLut \cup {c}
    /\ UNCHANGED <<idx, masterMask, memVars, netVars, sumVars, err>>
SendReady(c) ==
    /\ worker_send_field(c, Write("phase1_ready", 1))
    /\ UNCHANGED <<idx, lutVars, memVars, sumVars, err>>
ClearBcast(c) ==
    /\ bcast' = [bcast EXCEPT ![c] = {}]
    /\ UNCHANGED <<idx, lutVars, slots, slotSum, netVars, sumVars, err>>

ReadyFirst(c) ==
    \/ At(c, "program", "memset") /\ SendReady(c)
    \/ At(c, "memset", "signal") /\ ProgramLut(c)
    \/ At(c, "signal", "seed") /\ ClearBcast(c)

WorkerSetup(c) ==
    \/ At(c, "program", "memset") /\ ProgramLut(c)
    \/ At(c, "memset", "signal") /\ ClearBcast(c)
    \/ At(c, "signal", "seed") /\ SendReady(c)

(* Wait for the seed, compute.                                               *)
WorkerCompute(c) ==
    \/ /\ At(c, "seed", "start") /\ "map_seed" \in bcast[c]
       /\ UNCHANGED <<idx, lutVars, memVars, netVars, sumVars, err>>
    \/ /\ At(c, "start", "join") /\ StartCompute(c)
       /\ UNCHANGED <<idx, lutVars, memVars, netVars, err>>
    \/ /\ At(c, "join", "sendSum") /\ Joined(c)
       /\ UNCHANGED <<idx, lutVars, memVars, netVars, sumVars, err>>

(* The wrong variant: done is sent before the sum.                           *)
DoneFirst(c) ==
    /\ \/ At(c, "sendSum", "sendDone") /\ worker_send_field(c, Write("phase1_done", 1))
       \/ At(c, "sendDone", "v1") /\ worker_send_field(c, Write("phase1_sum", core_sum[c]))
    /\ UNCHANGED <<idx, lutVars, memVars, sumVars, err>>

WorkerReportsSum(c) ==
    /\ \/ At(c, "sendSum", "sendDone") /\ worker_send_field(c, Write("phase1_sum", core_sum[c]))
       \/ At(c, "sendDone", "v1") /\ worker_send_field(c, Write("phase1_done", 1))
    /\ UNCHANGED <<idx, lutVars, memVars, sumVars, err>>

(* Ack V1; on V3 report whether V2 landed.                                   *)
WorkerPhase2(c) ==
    /\ \/ /\ At(c, "v1", "ack") /\ "phase2_v1" \in bcast[c] /\ UNCHANGED netVars
       \/ /\ At(c, "ack", "v3") /\ worker_send_field(c, Write("phase2_ack", 1))
       \/ /\ At(c, "v3", "saw") /\ "phase2_v3" \in bcast[c] /\ UNCHANGED netVars
       \/ /\ At(c, "saw", "report")
          /\ worker_send_field(c, Write("phase2_saw_v2",
                                        IF "phase2_v2" \in bcast[c] THEN 1 ELSE 0))
       \/ /\ At(c, "report", "halted") /\ worker_send_field(c, Write("phase2_report", 1))
    /\ UNCHANGED <<idx, lutVars, memVars, sumVars, err>>

worker_core_main(c) ==
    WorkerSetup(c) \/ WorkerCompute(c) \/ WorkerReportsSum(c) \/ WorkerPhase2(c)

-----------------------------------------------------------------------------
(* coordinator_main.                                                         *)

(* The loops over the worker cores, c < core_count.                          *)
EndOfLoop(c) == c + 1 = core_count

(* The slave entry for the slots, the mask and port mask, the peers' power.  *)
CoordSetup ==
    \/ /\ At(0, "program", "wake")
       /\ slaveLut' = slaveLut \cup {0} /\ masterMask' = Cores
       /\ UNCHANGED <<idx, memVars, netVars, sumVars, err>>
    \/ /\ pc[0] = "wake"
       /\ pc' = [pc EXCEPT ![0] = IF EndOfLoop(idx) THEN "ready" ELSE "wake",
                           ![idx] = "program"]
       /\ idx' = IF EndOfLoop(idx) THEN 1 ELSE idx + 1
       /\ UNCHANGED <<lutVars, memVars, netVars, sumVars, err>>

(* for (c = 1; c < core_count; c++) wait_nonzero(&slots[c].f);               *)
WaitAll(l, f, m) ==
    /\ pc[0] = l
    /\ f \in slots[idx]
    /\ Goto(0, IF EndOfLoop(idx) THEN m ELSE l)
    /\ idx' = IF EndOfLoop(idx) THEN 1 ELSE idx + 1
    /\ UNCHANGED <<lutVars, memVars, netVars, sumVars, err>>

(* phase1_map_reduce.                                                        *)
Phase1 ==
    \/ WaitAll("ready", "phase1_ready", "seed")
    \/ /\ At(0, "seed", "start0") /\ Broadcast("map_seed")
       /\ UNCHANGED <<idx, lutVars, memVars, sumVars, err>>
    \/ /\ At(0, "start0", "join0") /\ StartCompute(0)
       /\ UNCHANGED <<idx, lutVars, memVars, netVars, err>>
    \/ /\ At(0, "join0", "check1") /\ Joined(0)
       /\ slotSum' = [slotSum EXCEPT ![0] = core_sum[0]]
       /\ err' = (slotSum'[0] # HwThreads)
       /\ UNCHANGED <<idx, lutVars, bcast, slots, netVars, sumVars>>
    \/ /\ pc[0] = "check1" /\ "phase1_done" \in slots[idx]
       /\ err' = (err \/ slotSum[idx] # HwThreads)
       /\ Goto(0, IF EndOfLoop(idx) THEN "v1" ELSE "check1")
       /\ idx' = IF EndOfLoop(idx) THEN 1 ELSE idx + 1
       /\ UNCHANGED <<lutVars, memVars, netVars, sumVars>>

SetMask(m) ==
    /\ masterMask' = m
    /\ UNCHANGED <<idx, slaveLut, memVars, netVars, sumVars, err>>
Send(f) ==
    /\ Broadcast(f)
    /\ UNCHANGED <<idx, lutVars, memVars, sumVars, err>>

(* The wrong variant: the mask is restored before V2 is sent.                *)
RestoreEarly ==
    \/ At(0, "filter", "v2") /\ SetMask(Cores \ {Excluded})
    \/ At(0, "v2", "restore") /\ SetMask(Cores)
    \/ At(0, "restore", "v3") /\ Send("phase2_v2")
    \/ At(0, "v3", "check2") /\ Send("phase2_v3")

(* Steps 2 and 3 of phase2_mask_filter.                                      *)
Filter ==
    \/ At(0, "filter", "v2") /\ SetMask(Cores \ {Excluded})
    \/ At(0, "v2", "restore") /\ Send("phase2_v2")
    \/ At(0, "restore", "v3") /\ SetMask(Cores)
    \/ At(0, "v3", "check2") /\ Send("phase2_v3")

(* phase2_mask_filter, and the verdict.                                      *)
Phase2 ==
    \/ At(0, "v1", "acks") /\ Send("phase2_v1")
    \/ WaitAll("acks", "phase2_ack", "filter")
    \/ Filter
    \/ /\ pc[0] = "check2" /\ "phase2_report" \in slots[idx]
       /\ err' = (err \/ ("phase2_saw_v2" \in slots[idx]) # (idx # Excluded))
       /\ Goto(0, CASE ~EndOfLoop(idx) -> "check2" [] EndOfLoop(idx) /\ err' -> "FAIL" [] OTHER -> "PASS")
       /\ idx' = IF EndOfLoop(idx) THEN 1 ELSE idx + 1
       /\ UNCHANGED <<lutVars, memVars, netVars, sumVars>>

coordinator_main == CoordSetup \/ Phase1 \/ Phase2

-----------------------------------------------------------------------------
ComputeThread(c, t) == LoadLocked(c, t) \/ StoreConditional(c, t)

Next ==
    \/ coordinator_main
    \/ \E c \in WorkerCores : worker_core_main(c) \/ ArriveAtWorker(c) \/ ArriveAtCoord(c)
    \/ \E c \in Cores, t \in HwThreads : ComputeThread(c, t)

Spec == Init /\ [][Next]_vars

(* Every hardware thread of every core runs on, and the network delivers.    *)
FairSpec ==
    /\ Spec
    /\ WF_vars(coordinator_main)
    /\ \A c \in WorkerCores : WF_vars(worker_core_main(c)) /\ WF_vars(ArriveAtWorker(c))
                              /\ WF_vars(ArriveAtCoord(c))
    /\ \A c \in Cores, t \in HwThreads : WF_vars(ComputeThread(c, t))

-----------------------------------------------------------------------------
(* check32 of every sum and of every V2 report: when core 0 reads a slot     *)
(* after its done or report flag, the value in it is the final one.          *)
ChecksPass == ~err

(* Once a core has joined its threads, each of them is in core_sum exactly   *)
(* as atomic_add_u32 promises: no addition is lost.                          *)
SumComplete ==
    \A c \in Cores :
        (pc[c] \in {"sendSum", "sendDone"} \/ (c = 0 /\ pc[c] = "check1"))
            => core_sum[c] = HwThreads

(* V2 never reaches the excluded core, and by V3 it has reached the others:  *)
(* the mask filters what is sent while it is set, and nothing sent before    *)
(* or after.                                                                 *)
FilterExact ==
    /\ "phase2_v2" \notin bcast[Excluded]
    /\ \A c \in WorkerCores \ {Excluded} :
         "phase2_v3" \in bcast[c] => "phase2_v2" \in bcast[c]

(* The handshakes lose no broadcast: the test ends, with PASS.               *)
TestPasses == <>(pc[0] = "PASS")
=============================================================================
