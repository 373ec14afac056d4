----------------------------- MODULE MulticoreProofs -----------------------------
(* sa8797p_nsp_multicore.c with mcw.c: the sums, the mask filter and the      *)
(* coordinator's checks, for any number of cores and hardware threads.        *)
EXTENDS Multicore, TLAPS

Early == {"off", "program", "memset", "signal"}     \* a worker before its ready flag
WorkerLabels == Early \cup {"seed", "start", "join", "sendSum", "sendDone", "v1", "ack", "v3",
                            "saw", "report", "halted"}
Booting == {"program", "wake", "ready"}             \* the coordinator before the seed
CoordLabels == Booting \cup {"seed", "start0", "join0", "check1", "v1", "acks", "filter", "v2",
                             "restore", "v3", "check2", "PASS", "FAIL"}

Broadcasts == {Write(f, 1) : f \in BcastFields}
Reports == {Write(f, v) : f \in FlagFields, v \in {0, 1}}
           \cup {Write("phase1_sum", v) : v \in SUBSET HwThreads}

Places ==
    /\ pc \in [Cores -> WorkerLabels \cup CoordLabels] /\ idx \in WorkerCores
    /\ pc[0] \in CoordLabels /\ \A c \in WorkerCores : pc[c] \in WorkerLabels

Memories ==
    /\ masterMask \subseteq Cores /\ slaveLut \subseteq Cores
    /\ bcast \in [Cores -> SUBSET BcastFields]
    /\ slots \in [Cores -> SUBSET FlagFields] /\ slotSum \in [Cores -> SUBSET HwThreads]
    /\ toWorker \in [WorkerCores -> Seq(Broadcasts)] /\ toCoord \in [WorkerCores -> Seq(Reports)]
    /\ err \in BOOLEAN

ThreadTypes ==
    /\ core_sum \in [Cores -> SUBSET HwThreads] /\ resv \in [Cores -> SUBSET HwThreads]
    /\ tpc \in [Cores -> [HwThreads -> {"ll", "sc", "stopped"}]]
    /\ treg \in [Cores -> [HwThreads -> SUBSET HwThreads]]

(* Where a core's threads may run, and where its sum is read.                *)
Computing == {"join", "join0"}
Computed == {"sendSum", "sendDone", "check1"}

(* While the threads of a core run, its sum is that of those that have       *)
(* stopped; a reservation that still stands saw the sum as it is.            *)
Sums ==
    \A c \in Cores :
        /\ pc[c] \notin Computing => Joined(c)
        /\ pc[c] \in Computing => core_sum[c] = {t \in HwThreads : tpc[c][t] = "stopped"}
        /\ \A t \in resv[c] : tpc[c][t] = "sc" /\ treg[c][t] = core_sum[c]
        /\ pc[c] \in Computed => core_sum[c] = HwThreads

(* Nothing is broadcast before every worker has signalled ready, and a worker *)
(* that has signalled has programmed its LUT and cleared its buffer.         *)
Booted ==
    /\ pc[0] = "program" => idx = 1 /\ \A c \in WorkerCores : pc[c] = "off"
    /\ pc[0] # "program" => 0 \in slaveLut
    /\ pc[0] = "wake" => \A c \in WorkerCores : c >= idx => pc[c] = "off"
    /\ pc[0] = "ready" => \A c \in WorkerCores : c < idx => pc[c] \notin Early
    /\ pc[0] \notin Booting => \A c \in WorkerCores : pc[c] \notin Early
    /\ pc[0] \in Booting \cup {"seed"} => \A c \in WorkerCores : toWorker[c] = <<>>
    /\ \A c \in WorkerCores :
         /\ pc[c] \in Early => toCoord[c] = <<>> /\ "phase1_ready" \notin slots[c]
         /\ pc[c] \notin {"off", "program"} => c \in slaveLut

(* In the writes s in flight, every g follows an f, unless an f has landed.  *)
Behind(s, landed, f, g) ==
    \A i \in 1 .. Len(s) : s[i].field = g => landed \/ \E j \in 1 .. i - 1 : s[j].field = f

(* An f is on its way or has landed.                                         *)
Sent(s, landed, f) == landed \/ \E j \in 1 .. Len(s) : s[j].field = f

(* A slot that shows done has the whole sum, one that shows report has the   *)
(* worker's verdict on V2; and so does every slot the writes will make.      *)
SawV2(c) == "phase2_saw_v2" \in slots[c]
SumIn(c) == slotSum[c] = HwThreads

SumReported(c) ==
    /\ \A i \in 1 .. Len(toCoord[c]) :
         toCoord[c][i].field = "phase1_sum" => toCoord[c][i].val = HwThreads
    /\ Behind(toCoord[c], SumIn(c), "phase1_sum", "phase1_done")
    /\ pc[c] = "sendDone" => Sent(toCoord[c], SumIn(c), "phase1_sum")
    /\ "phase1_done" \in slots[c] => SumIn(c)

V2Reported(c) ==
    /\ \A i \in 1 .. Len(toCoord[c]) :
         toCoord[c][i].field = "phase2_saw_v2" =>
             toCoord[c][i].val = IF c = Excluded THEN 0 ELSE 1
    /\ IF c = Excluded THEN ~ SawV2(c)
       ELSE /\ Behind(toCoord[c], SawV2(c), "phase2_saw_v2", "phase2_report")
            /\ pc[c] = "report" => Sent(toCoord[c], SawV2(c), "phase2_saw_v2")
            /\ "phase2_report" \in slots[c] => SawV2(c)

(* V2 is sent under the mask and before V3.                                  *)
GotV2(c) == "phase2_v2" \in bcast[c]

Filtered(c) ==
    /\ pc[c] = "saw" => "phase2_v3" \in bcast[c]
    /\ IF c = Excluded
       THEN ~ GotV2(c) /\ \A i \in 1 .. Len(toWorker[c]) : toWorker[c][i].field # "phase2_v2"
       ELSE /\ Behind(toWorker[c], GotV2(c), "phase2_v2", "phase2_v3")
            /\ pc[0] \in {"restore", "v3"} => Sent(toWorker[c], GotV2(c), "phase2_v2")
            /\ "phase2_v3" \in bcast[c] => GotV2(c)

Masked == pc[0] = "v2" => masterMask = Cores \ {Excluded}

McInv == /\ Places /\ Memories /\ ThreadTypes /\ Sums /\ Booted /\ Masked /\ ChecksPass
         /\ \A c \in WorkerCores : SumReported(c) /\ V2Reported(c) /\ Filtered(c)

-----------------------------------------------------------------------------
LEMMA CoreFacts ==
  /\ 0 \in Cores /\ 0 \notin WorkerCores /\ WorkerCores \subseteq Cores
  /\ Excluded \in WorkerCores /\ 1 \in WorkerCores
BY CoresAssumption DEF Cores, WorkerCores, Excluded

(* The loops over the workers stay among them and reach every one.           *)
LEMMA LoopFacts ==
  ASSUME NEW i \in WorkerCores
  PROVE  /\ ~ EndOfLoop(i) => i + 1 \in WorkerCores
         /\ EndOfLoop(i) => \A c \in WorkerCores : c <= i
         /\ \A c \in WorkerCores : c < i + 1 <=> c < i \/ c = i
         /\ \A c \in WorkerCores : c >= i + 1 <=> c >= i /\ c # i
BY CoresAssumption DEF Cores, WorkerCores, EndOfLoop

(* ---- Sequences of writes.                                                 *)
LEMMA AppendWrite ==
  ASSUME NEW M, NEW s \in Seq(M), NEW m \in M, NEW landed \in BOOLEAN, NEW f, NEW g
  PROVE  /\ Behind(s, landed, f, g) /\ (m.field = g => Sent(s, landed, f))
              => Behind(Append(s, m), landed, f, g)
         /\ Sent(s, landed, f) \/ m.field = f => Sent(Append(s, m), landed, f)
<1>1. /\ Append(s, m) \in Seq(M) /\ Len(Append(s, m)) = Len(s) + 1 /\ Len(s) \in Nat
      /\ \A i \in 1 .. Len(s) : Append(s, m)[i] = s[i]
      /\ Append(s, m)[Len(s) + 1] = m
  OBVIOUS
<1>2. ASSUME Behind(s, landed, f, g), m.field = g => Sent(s, landed, f)
      PROVE  Behind(Append(s, m), landed, f, g)
  BY <1>1, <1>2 DEF Behind, Sent
<1>3. ASSUME Sent(s, landed, f) \/ m.field = f PROVE Sent(Append(s, m), landed, f)
  BY <1>1, <1>3 DEF Sent
<1> QED
  BY <1>2, <1>3

LEMMA TakeWrite ==
  ASSUME NEW M, NEW s \in Seq(M), s # <<>>, NEW landed \in BOOLEAN, NEW now \in BOOLEAN, NEW f, NEW g,
         landed \/ Head(s).field = f => now
  PROVE  /\ Behind(s, landed, f, g) => /\ Behind(Tail(s), now, f, g)
                                       /\ Head(s).field = g => landed
         /\ Sent(s, landed, f) => Sent(Tail(s), now, f)
<1>1. /\ Tail(s) \in Seq(M) /\ Len(Tail(s)) = Len(s) - 1 /\ Len(s) \in Nat /\ Len(s) > 0
      /\ \A i \in 1 .. Len(s) - 1 : Tail(s)[i] = s[i + 1]
      /\ Head(s) = s[1]
  OBVIOUS
<1>2. ASSUME Behind(s, landed, f, g)
      PROVE  Behind(Tail(s), now, f, g) /\ (Head(s).field = g => landed)
  <2>1. Head(s).field = g => landed
    BY <1>1, <1>2 DEF Behind
  <2>2. ASSUME NEW i \in 1 .. Len(s) - 1, s[i + 1].field = g, ~ now
        PROVE  \E j \in 1 .. i - 1 : Tail(s)[j].field = f
    <3>1. PICK j \in 1 .. i : s[j].field = f
      BY <1>1, <1>2, <2>2 DEF Behind
    <3>2. j # 1
      BY <1>1, <2>2, <3>1
    <3>3. j - 1 \in 1 .. i - 1 /\ Tail(s)[j - 1] = s[j]
      BY <1>1, <3>2
    <3> QED
      BY <3>1, <3>3
  <2> QED
    BY <1>1, <2>1, <2>2 DEF Behind
<1>3. ASSUME Sent(s, landed, f) PROVE Sent(Tail(s), now, f)
  <2>1. CASE landed \/ Head(s).field = f
    BY <2>1 DEF Sent
  <2>2. CASE ~(landed \/ Head(s).field = f)
    <3>1. PICK j \in 1 .. Len(s) : s[j].field = f
      BY <1>3, <2>2 DEF Sent
    <3>2. j - 1 \in 1 .. Len(s) - 1 /\ Tail(s)[j - 1] = s[j]
      BY <1>1, <2>2, <3>1
    <3> QED
      BY <1>1, <3>1, <3>2 DEF Sent
  <2> QED
    BY <2>1, <2>2
<1> QED
  BY <1>2, <1>3

(* The writes: what a report or a broadcast carries, and a flag set by one.  *)
LEMMA ReportFacts ==
  /\ \A f \in FlagFields, v \in {0, 1} : Write(f, v) \in Reports
  /\ \A v \in SUBSET HwThreads : Write("phase1_sum", v) \in Reports
  /\ \A f, v : Write(f, v).field = f /\ Write(f, v).val = v
  /\ \A m \in Reports : \/ m.field \in FlagFields
                        \/ m.field = "phase1_sum" /\ m.val \in SUBSET HwThreads
  /\ \A f \in BcastFields : Write(f, 1) \in Broadcasts
  /\ \A m \in Broadcasts : m.field \in BcastFields /\ m.val = 1
<1>1. \A f, v : Write(f, v).field = f /\ Write(f, v).val = v
  BY DEF Write
<1>2. /\ \A f \in FlagFields, v \in {0, 1} : Write(f, v) \in Reports
      /\ \A v \in SUBSET HwThreads : Write("phase1_sum", v) \in Reports
  BY DEF Reports
<1>3. \A m \in Reports : \/ m.field \in FlagFields
                         \/ m.field = "phase1_sum" /\ m.val \in SUBSET HwThreads
  BY <1>1 DEF Reports
<1>4. /\ \A f \in BcastFields : Write(f, 1) \in Broadcasts
      /\ \A m \in Broadcasts : m.field \in BcastFields /\ m.val = 1
  BY <1>1 DEF Broadcasts
<1> QED
  BY <1>1, <1>2, <1>3, <1>4

LEMMA SetFacts ==
  ASSUME NEW fields, NEW w
  PROVE  /\ Set(fields, w) \subseteq fields \cup {w.field}
         /\ \A f \in fields : f # w.field => f \in Set(fields, w)
         /\ w.val # 0 => w.field \in Set(fields, w)
         /\ w.val = 0 => w.field \notin Set(fields, w)
BY DEF Set

(* What a step of worker c changes, and what it sends.                       *)
Sends(c, m) == toCoord' = [toCoord EXCEPT ![c] = Append(@, m)]

LEMMA WorkerEffect ==
  ASSUME Places, ThreadTypes, NEW c \in WorkerCores, worker_core_main(c)
  PROVE  /\ UNCHANGED <<idx, masterMask, slots, slotSum, toWorker, err>>
         /\ pc' = [pc EXCEPT ![c] = pc'[c]]
         /\ \/ UNCHANGED toCoord /\ pc'[c] \notin {"seed", "sendDone", "report"}
            \/ \E m \in Reports :
                 /\ Sends(c, m)
                 /\ pc[c] \in {"signal", "sendSum", "sendDone", "ack", "saw", "report"}
                 /\ m.field = "phase1_sum" => m.val = core_sum[c]
                 /\ m.field = "phase2_saw_v2" => m.val = IF GotV2(c) THEN 1 ELSE 0
                 /\ m.field = "phase1_sum" <=> pc[c] = "sendSum"
                 /\ m.field = "phase1_sum" <=> pc'[c] = "sendDone"
                 /\ m.field = "phase1_done" <=> pc[c] = "sendDone"
                 /\ m.field = "phase2_saw_v2" <=> pc[c] = "saw"
                 /\ m.field = "phase2_saw_v2" <=> pc'[c] = "report"
                 /\ m.field = "phase2_report" <=> pc[c] = "report"
                 /\ pc[c] = "signal" <=> pc'[c] = "seed"
<1> USE ReportFacts, CoreFacts DEF netVars, memVars, lutVars, sumVars, FlagFields
<1> DEFINE Silent == UNCHANGED toCoord /\ pc'[c] \notin {"seed", "sendDone", "report"}
           Frame == /\ UNCHANGED <<idx, masterMask, slots, slotSum, toWorker, err>>
                    /\ pc' = [pc EXCEPT ![c] = pc'[c]]
<1>1. CASE WorkerSetup(c) /\ pc[c] # "signal"
  <2>1. Frame /\ Silent
    BY <1>1 DEF WorkerSetup, At, Goto, ProgramLut, ClearBcast, SendReady, Places
  <2> QED
    BY <2>1
<1>2. CASE WorkerSetup(c) /\ pc[c] = "signal"
  <2>1. Frame /\ Sends(c, Write("phase1_ready", 1)) /\ pc'[c] = "seed"
    BY <1>2 DEF WorkerSetup, At, Goto, SendReady, worker_send_field, Places, Sends
  <2> QED
    BY <1>2, <2>1
<1>3. CASE WorkerCompute(c)
  <2>1. Frame /\ Silent
    BY <1>3 DEF WorkerCompute, At, Goto, Places
  <2> QED
    BY <2>1
<1>4. CASE WorkerReportsSum(c) /\ pc[c] = "sendSum"
  <2>1. Frame /\ Sends(c, Write("phase1_sum", core_sum[c])) /\ pc'[c] = "sendDone"
    BY <1>4 DEF WorkerReportsSum, At, Goto, worker_send_field, Places, Sends
  <2>2. Write("phase1_sum", core_sum[c]) \in Reports
    BY DEF ThreadTypes
  <2> QED
    BY <1>4, <2>1, <2>2
<1>5. CASE WorkerReportsSum(c) /\ pc[c] # "sendSum"
  <2>1. Frame /\ Sends(c, Write("phase1_done", 1)) /\ pc[c] = "sendDone" /\ pc'[c] = "v1"
    BY <1>5 DEF WorkerReportsSum, At, Goto, worker_send_field, Places, Sends
  <2> QED
    BY <2>1
<1>6. CASE WorkerPhase2(c)
  <2>1. Frame
    BY <1>6 DEF WorkerPhase2, At, Goto, worker_send_field, Places
  <2>2. CASE pc[c] \in {"v1", "v3"}
    BY <1>6, <2>1, <2>2 DEF WorkerPhase2, At, Goto, Places
  <2>3. CASE pc[c] = "ack"
    <3>1. Sends(c, Write("phase2_ack", 1)) /\ pc'[c] = "v3"
      BY <1>6, <2>3 DEF WorkerPhase2, At, Goto, worker_send_field, Places, Sends
    <3> QED
      BY <2>1, <2>3, <3>1
  <2>4. CASE pc[c] = "saw"
    <3>1. Sends(c, Write("phase2_saw_v2", IF GotV2(c) THEN 1 ELSE 0)) /\ pc'[c] = "report"
      BY <1>6, <2>4 DEF WorkerPhase2, At, Goto, worker_send_field, Places, Sends, GotV2
    <3>2. (IF GotV2(c) THEN 1 ELSE 0) \in {0, 1}
      OBVIOUS
    <3> QED
      BY <2>1, <2>4, <3>1, <3>2
  <2>5. CASE pc[c] = "report"
    <3>1. Sends(c, Write("phase2_report", 1)) /\ pc'[c] = "halted"
      BY <1>6, <2>5 DEF WorkerPhase2, At, Goto, worker_send_field, Places, Sends
    <3> QED
      BY <2>1, <2>5, <3>1
  <2> QED
    BY <1>6, <2>2, <2>3, <2>4, <2>5 DEF WorkerPhase2, At
<1> QED
  BY <1>1, <1>2, <1>3, <1>4, <1>5, <1>6 DEF worker_core_main

(* What a step of the coordinator leaves alone, and what it broadcasts.      *)
LEMMA CoordEffect ==
  ASSUME Places, coordinator_main
  PROVE  /\ UNCHANGED <<bcast, slots, toCoord>>
         /\ slotSum' = slotSum \/ slotSum' = [slotSum EXCEPT ![0] = core_sum[0]]
         /\ \A c \in WorkerCores : pc'[c] = pc[c] \/ (pc[0] = "wake" /\ c = idx /\ pc'[c] = "program")
         /\ \/ UNCHANGED toWorker /\ pc[0] # "v2"
            \/ \E f \in BcastFields : /\ Broadcast(f) /\ pc[0] \in {"seed", "v1", "v2", "v3"}
                                      /\ f = "phase2_v2" <=> pc[0] = "v2"
                                      /\ f = "phase2_v3" <=> pc[0] = "v3"
         /\ pc'[0] = "restore" <=> pc[0] = "v2"
         /\ pc'[0] = "v3" <=> pc[0] = "restore"
<1> USE CoreFacts DEF netVars, memVars, lutVars, sumVars, Places
<1>1. CASE CoordSetup
  <2>1. CASE pc[0] = "program"
    BY <1>1, <2>1 DEF CoordSetup, At, Goto
  <2>2. CASE pc[0] = "wake"
    <3>1. /\ pc' = [pc EXCEPT ![0] = IF EndOfLoop(idx) THEN "ready" ELSE "wake", ![idx] = "program"]
          /\ UNCHANGED <<bcast, slots, slotSum, toCoord, toWorker>>
      BY <1>1, <2>2 DEF CoordSetup, At
    <3>2. pc'[0] \in {"ready", "wake"} /\ \A c \in WorkerCores \ {idx} : pc'[c] = pc[c]
      BY <3>1
    <3>3. pc'[idx] = "program"
      BY <3>1
    <3> QED
      BY <2>2, <3>1, <3>2, <3>3
  <2> QED
    BY <1>1, <2>1, <2>2 DEF CoordSetup, At
<1>2. CASE Phase1
  BY <1>2 DEF Phase1, At, Goto, WaitAll, Broadcast, BcastFields, StartCompute
<1>3. CASE Phase2
  BY <1>3 DEF Phase2, At, Goto, WaitAll, Filter, SetMask, Send, Broadcast, BcastFields
<1> QED
  BY <1>1, <1>2, <1>3 DEF coordinator_main

(* Steps that leave the sums alone and no core in another stage of them.     *)
LEMMA SumsKept ==
  ASSUME Sums, UNCHANGED sumVars,
         \A c \in Cores :
              (pc'[c] \in Computing <=> pc[c] \in Computing) /\ (pc'[c] \in Computed => pc[c] \in Computed)
  PROVE  Sums'
<1>1. UNCHANGED <<core_sum, tpc, treg, resv>>
  BY DEF sumVars
<1>2. \A c \in Cores : Joined(c)' <=> Joined(c)
  BY <1>1 DEF Joined
<1> SUFFICES ASSUME NEW c \in Cores
             PROVE  /\ pc'[c] \notin Computing => Joined(c)'
                    /\ pc'[c] \in Computing =>
                         core_sum'[c] = {t \in HwThreads : tpc'[c][t] = "stopped"}
                    /\ \A t \in resv'[c] : tpc'[c][t] = "sc" /\ treg'[c][t] = core_sum'[c]
                    /\ pc'[c] \in Computed => core_sum'[c] = HwThreads
  BY DEF Sums
<1>3. pc'[c] \in Computing => core_sum'[c] = {t \in HwThreads : tpc'[c][t] = "stopped"}
  <2>1. pc[c] \in Computing => core_sum[c] = {t \in HwThreads : tpc[c][t] = "stopped"}
    BY DEF Sums
  <2> QED
    BY <1>1, <2>1
<1>4. \A t \in resv'[c] : tpc'[c][t] = "sc" /\ treg'[c][t] = core_sum'[c]
  BY <1>1 DEF Sums
<1>5. pc[c] \notin Computing => Joined(c)
  BY DEF Sums
<1>6. pc[c] \in Computed => core_sum[c] = HwThreads
  BY DEF Sums
<1> QED
  BY <1>1, <1>2, <1>3, <1>4, <1>5, <1>6

LEMMA ReportedKept ==
  ASSUME NEW d \in WorkerCores, SumReported(d), V2Reported(d), toCoord'[d] = toCoord[d],
         slots'[d] = slots[d], slotSum'[d] = slotSum[d],
         pc'[d] = pc[d] \/ pc'[d] \notin {"sendDone", "report"}
  PROVE  SumReported(d)' /\ V2Reported(d)'
BY DEF SumReported, V2Reported, SumIn, SawV2, Behind, Sent

LEMMA FilteredKept ==
  ASSUME NEW d \in WorkerCores, Filtered(d), toWorker'[d] = toWorker[d], bcast'[d] = bcast[d],
         pc'[d] = pc[d] \/ pc'[d] # "saw",
         pc'[0] = pc[0] \/ pc'[0] \notin {"restore", "v3"} \/ (pc[0] = "restore" /\ pc'[0] = "v3")
  PROVE  Filtered(d)'
BY DEF Filtered, GotV2, Behind, Sent

(* A worker whose writes are in flight was woken after the coordinator's LUT *)
(* was programmed: nothing is dropped on the way to the coordinator.         *)
LEMMA CoordLutReady ==
  ASSUME Places, Booted, NEW c \in WorkerCores, toCoord[c] # <<>>
  PROVE  0 \in slaveLut
BY DEF Booted, Early, Places

(* A broadcast is in flight only to workers that have programmed their LUT.  *)
LEMMA WorkerLutReady ==
  ASSUME Places, Booted, NEW c \in WorkerCores, toWorker[c] # <<>>
  PROVE  c \in slaveLut
BY DEF Booted, Early, Booting, Places

LEMMA PlacesStep == McInv /\ [Next]_vars => Places'
<1> SUFFICES ASSUME McInv, [Next]_vars PROVE Places'
  OBVIOUS
<1> USE CoreFacts DEF McInv, netVars, memVars, lutVars, sumVars, Places, WorkerLabels,
    CoordLabels, Early, Booting
<1>1. ASSUME NEW c \in WorkerCores, WorkerSetup(c) PROVE Places'
  BY <1>1 DEF WorkerSetup, At, Goto, ProgramLut, ClearBcast, SendReady, worker_send_field
<1>2. ASSUME NEW c \in WorkerCores, WorkerCompute(c) PROVE Places'
  BY <1>2 DEF WorkerCompute, At, Goto, StartCompute
<1>3. ASSUME NEW c \in WorkerCores, WorkerReportsSum(c) PROVE Places'
  BY <1>3 DEF WorkerReportsSum, At, Goto, worker_send_field
<1>4. ASSUME NEW c \in WorkerCores, WorkerPhase2(c) PROVE Places'
  BY <1>4 DEF WorkerPhase2, At, Goto, worker_send_field
<1>5. ASSUME NEW c \in WorkerCores, ArriveAtWorker(c) PROVE Places'
  BY <1>5 DEF ArriveAtWorker
<1>6. ASSUME NEW c \in WorkerCores, ArriveAtCoord(c) PROVE Places'
  BY <1>6 DEF ArriveAtCoord
<1>7. ASSUME NEW c \in Cores, NEW t \in HwThreads, LoadLocked(c, t) PROVE Places'
  BY <1>7 DEF LoadLocked
<1>8. ASSUME NEW c \in Cores, NEW t \in HwThreads, StoreConditional(c, t) PROVE Places'
  BY <1>8 DEF StoreConditional
<1>9. CASE CoordSetup
  BY <1>9, LoopFacts DEF CoordSetup, At, Goto
<1>10. CASE Phase1
  BY <1>10, LoopFacts DEF Phase1, At, Goto, WaitAll, Broadcast, StartCompute
<1>11. CASE Phase2
  BY <1>11, LoopFacts DEF Phase2, At, Goto, WaitAll, Filter, SetMask, Send, Broadcast
<1>12. CASE UNCHANGED vars
  BY <1>12 DEF vars
<1> QED
  BY <1>1, <1>2, <1>3, <1>4, <1>5, <1>6, <1>7, <1>8, <1>9, <1>10, <1>11, <1>12 DEF Next,
      coordinator_main, worker_core_main, ComputeThread

LEMMA MemoriesStep == McInv /\ [Next]_vars => Memories'
<1> SUFFICES ASSUME McInv, [Next]_vars PROVE Memories'
  OBVIOUS
<1> USE CoreFacts DEF McInv, netVars, memVars, lutVars, sumVars, Places, Memories,
    ThreadTypes
<1>1. ASSUME NEW c \in WorkerCores, worker_core_main(c) PROVE Memories'
  <2>1. slaveLut' \subseteq Cores /\ bcast' \in [Cores -> SUBSET BcastFields]
    BY <1>1 DEF worker_core_main, WorkerSetup, ProgramLut, ClearBcast, SendReady,
        WorkerCompute, WorkerReportsSum, WorkerPhase2
  <2>2. toCoord' \in [WorkerCores -> Seq(Reports)]
    <3>1. CASE UNCHANGED toCoord
      BY <3>1
    <3>2. ASSUME NEW m \in Reports, Sends(c, m) PROVE toCoord' \in [WorkerCores -> Seq(Reports)]
      <4>1. Append(toCoord[c], m) \in Seq(Reports)
        OBVIOUS
      <4> QED
        BY <3>2, <4>1 DEF Sends
    <3> QED
      BY <1>1, <3>1, <3>2, WorkerEffect
  <2> QED
    BY <1>1, <2>1, <2>2, WorkerEffect
<1>2. ASSUME NEW c \in WorkerCores, ArriveAtWorker(c) PROVE Memories'
  <2>1. Head(toWorker[c]) \in Broadcasts /\ Tail(toWorker[c]) \in Seq(Broadcasts)
    BY <1>2 DEF ArriveAtWorker
  <2>2. Set(bcast[c], Head(toWorker[c])) \subseteq BcastFields
    <3>1. bcast[c] \subseteq BcastFields /\ Head(toWorker[c]).field \in BcastFields
      BY <2>1, ReportFacts
    <3> QED
      BY <3>1, SetFacts
  <2> QED
    BY <1>2, <2>1, <2>2 DEF ArriveAtWorker
<1>3. ASSUME NEW c \in WorkerCores, ArriveAtCoord(c) PROVE Memories'
  <2> DEFINE m == Head(toCoord[c])
  <2>1. m \in Reports /\ Tail(toCoord[c]) \in Seq(Reports)
    BY <1>3 DEF ArriveAtCoord
  <2>2. m.field # "phase1_sum" => Set(slots[c], m) \subseteq FlagFields
    BY <2>1, SetFacts, ReportFacts
  <2>3. m.field = "phase1_sum" => m.val \in SUBSET HwThreads
    BY <2>1, ReportFacts DEF FlagFields
  <2>4. toCoord' \in [WorkerCores -> Seq(Reports)]
    BY <1>3, <2>1 DEF ArriveAtCoord
  <2>5. slots' \in [Cores -> SUBSET FlagFields] /\ slotSum' \in [Cores -> SUBSET HwThreads]
    BY <1>3, <2>2, <2>3 DEF ArriveAtCoord
  <2> QED
    BY <1>3, <2>4, <2>5 DEF ArriveAtCoord
<1>4. ASSUME NEW c \in Cores, NEW t \in HwThreads, ComputeThread(c, t) PROVE Memories'
  BY <1>4 DEF ComputeThread, LoadLocked, StoreConditional
<1>5. CASE coordinator_main
  <2>1. masterMask' \subseteq Cores /\ slaveLut' \subseteq Cores /\ err' \in BOOLEAN
    BY <1>5 DEF coordinator_main, CoordSetup, Phase1, Phase2, WaitAll, Filter, SetMask, Send
  <2>2. toWorker' \in [WorkerCores -> Seq(Broadcasts)]
    <3>1. CASE UNCHANGED toWorker
      BY <3>1
    <3>2. ASSUME NEW f \in BcastFields, Broadcast(f)
          PROVE  toWorker' \in [WorkerCores -> Seq(Broadcasts)]
      <4>1. \A c \in WorkerCores : Append(toWorker[c], Write(f, 1)) \in Seq(Broadcasts)
        BY ReportFacts
      <4> QED
        BY <3>2, <4>1 DEF Broadcast
    <3> QED
      BY <1>5, <3>1, <3>2, CoordEffect
  <2>3. slotSum' \in [Cores -> SUBSET HwThreads] /\ UNCHANGED <<bcast, slots, toCoord>>
    BY <1>5, CoordEffect
  <2> QED
    BY <2>1, <2>2, <2>3
<1>6. CASE UNCHANGED vars
  BY <1>6 DEF vars
<1> QED
  BY <1>1, <1>2, <1>3, <1>4, <1>5, <1>6 DEF Next

LEMMA ThreadTypesStep == McInv /\ [Next]_vars => ThreadTypes'
<1> SUFFICES ASSUME McInv, [Next]_vars PROVE ThreadTypes'
  OBVIOUS
<1> USE CoreFacts DEF McInv, netVars, memVars, lutVars, sumVars, Places, ThreadTypes
<1>1. ASSUME NEW c \in WorkerCores, WorkerSetup(c) PROVE ThreadTypes'
  BY <1>1 DEF WorkerSetup, At, Goto, ProgramLut, ClearBcast, SendReady, worker_send_field
<1>2. ASSUME NEW c \in WorkerCores, WorkerCompute(c) PROVE ThreadTypes'
  <2>1. CASE StartCompute(c)
    BY <2>1 DEF StartCompute
  <2>2. CASE UNCHANGED sumVars
    BY <2>2
  <2> QED
    BY <1>2, <2>1, <2>2 DEF WorkerCompute
<1>3. ASSUME NEW c \in WorkerCores, WorkerReportsSum(c) PROVE ThreadTypes'
  BY <1>3 DEF WorkerReportsSum, At, Goto, worker_send_field
<1>4. ASSUME NEW c \in WorkerCores, WorkerPhase2(c) PROVE ThreadTypes'
  BY <1>4 DEF WorkerPhase2, At, Goto, worker_send_field
<1>5. ASSUME NEW c \in WorkerCores, ArriveAtWorker(c) PROVE ThreadTypes'
  BY <1>5 DEF ArriveAtWorker
<1>6. ASSUME NEW c \in WorkerCores, ArriveAtCoord(c) PROVE ThreadTypes'
  BY <1>6 DEF ArriveAtCoord
<1>7. ASSUME NEW c \in Cores, NEW t \in HwThreads, LoadLocked(c, t) PROVE ThreadTypes'
  BY <1>7 DEF LoadLocked
<1>8. ASSUME NEW c \in Cores, NEW t \in HwThreads, StoreConditional(c, t) PROVE ThreadTypes'
  <2>1. \A l \in {"ll", "stopped"} :
          [tpc EXCEPT ![c][t] = l] \in [Cores -> [HwThreads -> {"ll", "sc", "stopped"}]]
    OBVIOUS
  <2>2. tpc' \in [Cores -> [HwThreads -> {"ll", "sc", "stopped"}]]
    BY <1>8, <2>1 DEF StoreConditional
  <2>3. treg[c][t] \cup {t} \in SUBSET HwThreads
    OBVIOUS
  <2>4. core_sum' \in [Cores -> SUBSET HwThreads] /\ resv' \in [Cores -> SUBSET HwThreads]
    <3>1. CASE t \in resv[c]
      <4>1. /\ core_sum' = [core_sum EXCEPT ![c] = treg[c][t] \cup {t}]
            /\ resv' = [resv EXCEPT ![c] = {}]
        BY <1>8, <3>1 DEF StoreConditional
      <4> QED
        BY <2>3, <4>1
    <3>2. CASE t \notin resv[c]
      BY <1>8, <3>2 DEF StoreConditional
    <3> QED
      BY <3>1, <3>2
  <2> QED
    BY <1>8, <2>2, <2>4 DEF StoreConditional
<1>9. CASE CoordSetup
  BY <1>9 DEF CoordSetup, At, Goto
<1>10. CASE Phase1
  <2>1. CASE StartCompute(0)
    BY <2>1 DEF StartCompute
  <2>2. CASE UNCHANGED sumVars
    BY <2>2
  <2> QED
    BY <1>10, <2>1, <2>2 DEF Phase1, WaitAll
<1>11. CASE Phase2
  BY <1>11 DEF Phase2, At, Goto, WaitAll, Filter, SetMask, Send, Broadcast
<1>12. CASE UNCHANGED vars
  BY <1>12 DEF vars
<1> QED
  BY <1>1, <1>2, <1>3, <1>4, <1>5, <1>6, <1>7, <1>8, <1>9, <1>10, <1>11, <1>12 DEF Next,
      coordinator_main, worker_core_main, ComputeThread

LEMMA SumsStep == McInv /\ [Next]_vars => Sums'
<1> SUFFICES ASSUME McInv, [Next]_vars PROVE Sums'
  OBVIOUS
<1> USE CoreFacts DEF McInv, netVars, memVars, lutVars, sumVars, Places, WorkerLabels,
    CoordLabels, Early, Booting, ThreadTypes, Sums, Computing, Computed, Joined, Booted
<1>1. ASSUME NEW c \in WorkerCores, WorkerSetup(c) PROVE Sums'
  <2>1. UNCHANGED sumVars /\ pc' = [pc EXCEPT ![c] = pc'[c]]
    BY <1>1 DEF WorkerSetup, At, Goto, ProgramLut, ClearBcast, SendReady
  <2>2. pc[c] \notin Computing /\ pc'[c] \notin Computing \cup Computed
    BY <1>1 DEF WorkerSetup, At, Goto
  <2> QED
    BY <2>1, <2>2
<1>2. ASSUME NEW c \in WorkerCores, WorkerCompute(c) PROVE Sums'
  <2>1. CASE pc[c] = "seed"
    BY <1>2, <2>1 DEF WorkerCompute, At, Goto
  <2>2. CASE pc[c] = "start"
    <3>1. pc' = [pc EXCEPT ![c] = "join"] /\ StartCompute(c)
      BY <1>2, <2>2 DEF WorkerCompute, At, Goto
    <3>2. resv[c] = {}
      BY <2>2
    <3> QED
      BY <3>1, <3>2 DEF StartCompute
  <2>3. CASE pc[c] = "join"
    <3>1. pc' = [pc EXCEPT ![c] = "sendSum"] /\ Joined(c) /\ UNCHANGED sumVars
      BY <1>2, <2>3 DEF WorkerCompute, At, Goto
    <3>2. core_sum[c] = HwThreads
      <4>1. core_sum[c] = {t \in HwThreads : tpc[c][t] = "stopped"}
        BY <2>3
      <4>2. \A t \in HwThreads : tpc[c][t] = "stopped"
        BY <3>1
      <4> QED
        BY ONLY <4>1, <4>2
    <3> QED
      BY <3>1, <3>2
  <2> QED
    BY <1>2, <2>1, <2>2, <2>3 DEF WorkerCompute, At
<1>3. ASSUME NEW c \in WorkerCores, WorkerReportsSum(c) PROVE Sums'
  BY <1>3 DEF WorkerReportsSum, At, Goto, worker_send_field
<1>4. ASSUME NEW c \in WorkerCores, WorkerPhase2(c) PROVE Sums'
  BY <1>4 DEF WorkerPhase2, At, Goto, worker_send_field
<1>5. ASSUME NEW c \in WorkerCores, ArriveAtWorker(c) PROVE Sums'
  BY <1>5 DEF ArriveAtWorker
<1>6. ASSUME NEW c \in WorkerCores, ArriveAtCoord(c) PROVE Sums'
  BY <1>6 DEF ArriveAtCoord
<1>7. ASSUME NEW c \in Cores, NEW t \in HwThreads, LoadLocked(c, t) PROVE Sums'
  BY <1>7 DEF LoadLocked
<1>8. ASSUME NEW c \in Cores, NEW t \in HwThreads, StoreConditional(c, t) PROVE Sums'
  BY <1>8 DEF StoreConditional
<1>9. CASE CoordSetup
  <2>1. CASE pc[0] = "program"
    BY <1>9, <2>1 DEF CoordSetup, At, Goto
  <2>2. CASE pc[0] = "wake"
    <3>1. UNCHANGED sumVars /\ pc[idx] = "off" /\ idx # 0
      BY <1>9, <2>2, LoopFacts, CoresAssumption DEF CoordSetup, At, WorkerCores, Cores
    <3>2. pc' = [pc EXCEPT ![0] = IF EndOfLoop(idx) THEN "ready" ELSE "wake", ![idx] = "program"]
      BY <1>9, <2>2 DEF CoordSetup, At
    <3>3. pc'[0] \in {"wake", "ready"} /\ pc'[idx] = "program"
      BY <3>1, <3>2
    <3>4. \A c \in Cores : c # 0 /\ c # idx => pc'[c] = pc[c]
      BY <3>2
    <3>5. \A c \in Cores :
              (pc'[c] \in Computing <=> pc[c] \in Computing) /\ (pc'[c] \in Computed => pc[c] \in Computed)
      BY <2>2, <3>1, <3>3, <3>4
    <3> QED
      BY <3>1, <3>5, SumsKept
  <2> QED
    BY <1>9, <2>1, <2>2 DEF CoordSetup, At
<1>10. CASE Phase1
  <2>1. CASE pc[0] \in {"ready", "seed"}
    <3>1. /\ pc' = [pc EXCEPT ![0] = pc'[0]] /\ pc'[0] \in {"ready", "seed", "start0"}
          /\ UNCHANGED sumVars
      BY <1>10, <2>1 DEF Phase1, WaitAll, At, Goto
    <3>2. \A c \in Cores :
              (pc'[c] \in Computing <=> pc[c] \in Computing) /\ (pc'[c] \in Computed => pc[c] \in Computed)
      BY <2>1, <3>1
    <3> QED
      BY <3>1, <3>2, SumsKept
  <2>2. CASE pc[0] = "start0"
    <3>1. pc' = [pc EXCEPT ![0] = "join0"] /\ StartCompute(0)
      BY <1>10, <2>2 DEF Phase1, WaitAll, At, Goto
    <3>2. resv[0] = {}
      BY <2>2
    <3> QED
      BY <3>1, <3>2 DEF StartCompute
  <2>3. CASE pc[0] = "join0"
    <3>1. pc' = [pc EXCEPT ![0] = "check1"] /\ Joined(0) /\ UNCHANGED sumVars
      BY <1>10, <2>3 DEF Phase1, WaitAll, At, Goto
    <3>2. core_sum[0] = HwThreads
      <4>1. core_sum[0] = {t \in HwThreads : tpc[0][t] = "stopped"}
        BY <2>3
      <4>2. \A t \in HwThreads : tpc[0][t] = "stopped"
        BY <3>1
      <4> QED
        BY ONLY <4>1, <4>2
    <3> QED
      BY <3>1, <3>2
  <2>4. CASE pc[0] = "check1"
    BY <1>10, <2>4 DEF Phase1, WaitAll, At, Goto
  <2> QED
    BY <1>10, <2>1, <2>2, <2>3, <2>4 DEF Phase1, WaitAll, At
<1>11. CASE Phase2
  BY <1>11 DEF Phase2, At, Goto, WaitAll, Filter, SetMask, Send, Broadcast
<1>12. CASE UNCHANGED vars
  BY <1>12 DEF vars
<1> QED
  BY <1>1, <1>2, <1>3, <1>4, <1>5, <1>6, <1>7, <1>8, <1>9, <1>10, <1>11, <1>12 DEF Next,
      coordinator_main, worker_core_main, ComputeThread

LEMMA BootedStep == McInv /\ [Next]_vars => Booted'
<1> SUFFICES ASSUME McInv, [Next]_vars PROVE Booted'
  OBVIOUS
<1> USE CoreFacts DEF McInv, netVars, memVars, lutVars, sumVars, Places, WorkerLabels,
    CoordLabels, Early, Booting, Memories, Booted
<1>1. ASSUME NEW c \in WorkerCores, WorkerSetup(c) PROVE Booted'
  <2>1. CASE pc[c] \in {"program", "memset"}
    <3>1. /\ pc' = [pc EXCEPT ![c] = pc'[c]] /\ pc'[c] \in {"memset", "signal"}
          /\ UNCHANGED <<idx, slots, toWorker, toCoord>>
          /\ slaveLut \subseteq slaveLut' /\ (pc[c] = "program" => c \in slaveLut')
      BY <1>1, <2>1 DEF WorkerSetup, At, Goto, ProgramLut, ClearBcast
    <3> QED
      BY <2>1, <3>1
  <2>2. CASE pc[c] = "signal"
    <3>1. /\ pc' = [pc EXCEPT ![c] = "seed"] /\ UNCHANGED <<idx, slaveLut, slots, toWorker>>
          /\ \A d \in WorkerCores \ {c} : toCoord'[d] = toCoord[d]
      BY <1>1, <2>2 DEF WorkerSetup, At, Goto, SendReady, worker_send_field
    <3> QED
      BY <2>2, <3>1
  <2> QED
    BY <1>1, <2>1, <2>2 DEF WorkerSetup, At
<1>2. ASSUME NEW c \in WorkerCores, WorkerCompute(c) PROVE Booted'
  BY <1>2 DEF WorkerCompute, At, Goto, StartCompute
<1>3. ASSUME NEW c \in WorkerCores, WorkerReportsSum(c) PROVE Booted'
  BY <1>3 DEF WorkerReportsSum, At, Goto, worker_send_field
<1>4. ASSUME NEW c \in WorkerCores, WorkerPhase2(c) PROVE Booted'
  BY <1>4 DEF WorkerPhase2, At, Goto, worker_send_field
<1>5. ASSUME NEW c \in WorkerCores, ArriveAtWorker(c) PROVE Booted'
  BY <1>5 DEF ArriveAtWorker
<1>6. ASSUME NEW c \in WorkerCores, ArriveAtCoord(c) PROVE Booted'
  BY <1>6 DEF ArriveAtCoord
<1>7. ASSUME NEW c \in Cores, NEW t \in HwThreads, LoadLocked(c, t) PROVE Booted'
  BY <1>7 DEF LoadLocked
<1>8. ASSUME NEW c \in Cores, NEW t \in HwThreads, StoreConditional(c, t) PROVE Booted'
  BY <1>8 DEF StoreConditional
<1>9. CASE CoordSetup
  <2>1. CASE pc[0] = "program"
    BY <1>9, <2>1 DEF CoordSetup, At, Goto
  <2>2. CASE pc[0] = "wake"
    <3>1. /\ pc' = [pc EXCEPT ![0] = IF EndOfLoop(idx) THEN "ready" ELSE "wake", ![idx] = "program"]
          /\ idx' = IF EndOfLoop(idx) THEN 1 ELSE idx + 1
          /\ UNCHANGED <<slaveLut, slots, toWorker, toCoord>>
      BY <1>9, <2>2 DEF CoordSetup, At
    <3>2. \A c \in WorkerCores : c >= 1
      BY DEF WorkerCores, Cores
    <3>3. /\ pc'[0] = IF EndOfLoop(idx) THEN "ready" ELSE "wake"
          /\ pc'[idx] = "program" /\ \A c \in WorkerCores \ {idx} : pc'[c] = pc[c]
      BY <3>1
    <3>4. pc[idx] = "off"
      BY <2>2, <3>2 DEF WorkerCores, Cores
    <3>5. pc'[0] = "ready" => \A c \in WorkerCores : ~(c < idx')
      BY <3>1, <3>2, <3>3 DEF WorkerCores, Cores
    <3>6. pc'[0] = "wake" => \A c \in WorkerCores : c >= idx' => pc'[c] = "off"
      BY <2>2, <3>1, <3>3, LoopFacts
    <3> QED
      BY <2>2, <3>1, <3>3, <3>4, <3>5, <3>6
  <2> QED
    BY <1>9, <2>1, <2>2 DEF CoordSetup, At
<1>10. CASE Phase1
  <2>1. CASE pc[0] = "ready"
    <3>1. /\ "phase1_ready" \in slots[idx]
          /\ pc' = [pc EXCEPT ![0] = IF EndOfLoop(idx) THEN "seed" ELSE "ready"]
          /\ idx' = IF EndOfLoop(idx) THEN 1 ELSE idx + 1
          /\ UNCHANGED <<slaveLut, slots, toWorker, toCoord>>
      BY <1>10, <2>1 DEF Phase1, WaitAll, At, Goto
    <3>2. pc[idx] \notin Early
      BY <3>1
    <3>3. CASE EndOfLoop(idx)
      <4>1. \A c \in WorkerCores : pc[c] \notin Early
        <5>1. \A c \in WorkerCores : c < idx \/ c = idx
          BY <3>3, LoopFacts DEF WorkerCores, Cores
        <5> QED
          BY <2>1, <3>2, <5>1
      <4> QED
        BY <2>1, <3>1, <3>3, <4>1
    <3>4. CASE ~EndOfLoop(idx)
      <4>1. \A c \in WorkerCores : c < idx' => c < idx \/ c = idx
        BY <3>1, <3>4, LoopFacts
      <4> QED
        BY <2>1, <3>1, <3>2, <3>4, <4>1
    <3> QED
      BY <3>3, <3>4
  <2>2. CASE pc[0] # "ready"
    <3>1. /\ pc' = [pc EXCEPT ![0] = pc'[0]] /\ pc'[0] \notin Booting \cup {"seed"}
          /\ pc[0] \notin Booting
          /\ UNCHANGED <<slaveLut, slots, toCoord>>
      BY <1>10, <2>2 DEF Phase1, At, Goto, WaitAll, Broadcast, StartCompute
    <3> QED
      BY <3>1
  <2> QED
    BY <2>1, <2>2
<1>11. CASE Phase2
  BY <1>11 DEF Phase2, At, Goto, WaitAll, Filter, SetMask, Send, Broadcast
<1>12. CASE UNCHANGED vars
  BY <1>12 DEF vars
<1> QED
  BY <1>1, <1>2, <1>3, <1>4, <1>5, <1>6, <1>7, <1>8, <1>9, <1>10, <1>11, <1>12 DEF Next,
      coordinator_main, worker_core_main, ComputeThread

LEMMA MaskedStep == McInv /\ [Next]_vars => Masked'
<1> SUFFICES ASSUME McInv, [Next]_vars PROVE Masked'
  OBVIOUS
<1> USE CoreFacts DEF McInv, netVars, memVars, lutVars, sumVars, Places, Masked
<1>1. ASSUME NEW c \in WorkerCores, WorkerSetup(c) PROVE Masked'
  BY <1>1 DEF WorkerSetup, At, Goto, ProgramLut, ClearBcast, SendReady, worker_send_field
<1>2. ASSUME NEW c \in WorkerCores, WorkerCompute(c) PROVE Masked'
  BY <1>2 DEF WorkerCompute, At, Goto, StartCompute
<1>3. ASSUME NEW c \in WorkerCores, WorkerReportsSum(c) PROVE Masked'
  BY <1>3 DEF WorkerReportsSum, At, Goto, worker_send_field
<1>4. ASSUME NEW c \in WorkerCores, WorkerPhase2(c) PROVE Masked'
  BY <1>4 DEF WorkerPhase2, At, Goto, worker_send_field
<1>5. ASSUME NEW c \in WorkerCores, ArriveAtWorker(c) PROVE Masked'
  BY <1>5 DEF ArriveAtWorker
<1>6. ASSUME NEW c \in WorkerCores, ArriveAtCoord(c) PROVE Masked'
  BY <1>6 DEF ArriveAtCoord
<1>7. ASSUME NEW c \in Cores, NEW t \in HwThreads, LoadLocked(c, t) PROVE Masked'
  BY <1>7 DEF LoadLocked
<1>8. ASSUME NEW c \in Cores, NEW t \in HwThreads, StoreConditional(c, t) PROVE Masked'
  BY <1>8 DEF StoreConditional
<1>9. CASE CoordSetup
  BY <1>9 DEF CoordSetup, At, Goto
<1>10. CASE Phase1
  BY <1>10 DEF Phase1, At, Goto, WaitAll, Broadcast, StartCompute
<1>11. CASE Phase2
  BY <1>11 DEF Phase2, At, Goto, WaitAll, Filter, SetMask, Send, Broadcast
<1>12. CASE UNCHANGED vars
  BY <1>12 DEF vars
<1> QED
  BY <1>1, <1>2, <1>3, <1>4, <1>5, <1>6, <1>7, <1>8, <1>9, <1>10, <1>11, <1>12 DEF Next,
      coordinator_main, worker_core_main, ComputeThread

LEMMA ReportedStep == McInv /\ [Next]_vars => \A d \in WorkerCores : SumReported(d)' /\ V2Reported(d)'
<1> SUFFICES ASSUME McInv, [Next]_vars PROVE \A d \in WorkerCores : SumReported(d)' /\ V2Reported(d)'
  OBVIOUS
<1> USE CoreFacts DEF McInv, netVars, memVars, lutVars, sumVars, Places, Memories,
    ThreadTypes
<1>1. ASSUME NEW c \in WorkerCores, worker_core_main(c) PROVE \A d \in WorkerCores : SumReported(d)' /\ V2Reported(d)'
  <2> SUFFICES ASSUME NEW d \in WorkerCores PROVE SumReported(d)' /\ V2Reported(d)'
    OBVIOUS
  <2> USE WorkerEffect
  <2>1. UNCHANGED <<slots, slotSum>> /\ pc' = [pc EXCEPT ![c] = pc'[c]] /\ SumReported(d) /\ V2Reported(d)
    BY <1>1
  <2>0. UNCHANGED toCoord \/ \E m \in Reports : Sends(c, m)
    BY <1>1
  <2>2. CASE d # c
    <3>1. toCoord'[d] = toCoord[d] /\ pc'[d] = pc[d]
      BY <2>0, <2>1, <2>2 DEF Sends
    <3> QED
      BY ONLY <2>1, <3>1, ReportedKept
  <2>3. CASE d = c /\ UNCHANGED toCoord /\ pc'[c] \notin {"seed", "sendDone", "report"}
    BY ONLY <2>1, <2>3, ReportedKept
  <2>4. ASSUME d = c, NEW m \in Reports, Sends(c, m),
               m.field = "phase1_sum" => m.val = core_sum[c],
               m.field = "phase2_saw_v2" => m.val = IF GotV2(c) THEN 1 ELSE 0,
               m.field = "phase1_sum" <=> pc[c] = "sendSum",
               m.field = "phase1_sum" <=> pc'[c] = "sendDone",
               m.field = "phase1_done" <=> pc[c] = "sendDone",
               m.field = "phase2_saw_v2" <=> pc[c] = "saw",
               m.field = "phase2_saw_v2" <=> pc'[c] = "report",
               m.field = "phase2_report" <=> pc[c] = "report"
        PROVE  SumReported(c)' /\ V2Reported(c)'
    <3> DEFINE s == toCoord[c]
    <3>1. s \in Seq(Reports) /\ toCoord'[c] = Append(s, m)
      BY <2>4 DEF Sends
    <3>2. /\ Len(Append(s, m)) = Len(s) + 1 /\ Len(s) \in Nat
          /\ \A i \in 1 .. Len(s) : Append(s, m)[i] = s[i]
          /\ Append(s, m)[Len(s) + 1] = m
      BY <3>1
    <3>3. m.field = "phase1_sum" => m.val = HwThreads
      BY <2>4 DEF Sums, Computed
    <3>4. m.field = "phase2_saw_v2" => m.val = IF c = Excluded THEN 0 ELSE 1
      BY <2>4 DEF Filtered
    <3>5. SumReported(c)'
      <4>1. \A i \in 1 .. Len(s) + 1 : Append(s, m)[i].field = "phase1_sum" =>
                                         Append(s, m)[i].val = HwThreads
        BY <2>1, <2>4, <3>2, <3>3 DEF SumReported
      <4>2. Behind(Append(s, m), SumIn(c), "phase1_sum", "phase1_done")
        BY <2>1, <2>4, <3>1, AppendWrite DEF SumReported, SumIn
      <4>3. pc'[c] = "sendDone" => Sent(Append(s, m), SumIn(c), "phase1_sum")
        BY <2>4, <3>1, AppendWrite DEF SumIn
      <4>4. "phase1_done" \in slots[c] => SumIn(c)
        BY <2>1, <2>4 DEF SumReported
      <4> HIDE DEF s
      <4> QED
        BY ONLY <2>1, <3>1, <3>2, <4>1, <4>2, <4>3, <4>4 DEF SumReported, SumIn
    <3>6. V2Reported(c)'
      <4>1. \A i \in 1 .. Len(s) + 1 : Append(s, m)[i].field = "phase2_saw_v2" =>
                                         Append(s, m)[i].val = IF c = Excluded THEN 0 ELSE 1
        BY <2>1, <2>4, <3>2, <3>4 DEF V2Reported
      <4>2. c # Excluded => Behind(Append(s, m), SawV2(c), "phase2_saw_v2", "phase2_report")
        <5>1. SawV2(c) \in BOOLEAN
          BY DEF SawV2
        <5>2. c # Excluded => /\ Behind(s, SawV2(c), "phase2_saw_v2", "phase2_report")
                              /\ m.field = "phase2_report" => Sent(s, SawV2(c), "phase2_saw_v2")
          BY <2>1, <2>4 DEF V2Reported
        <5> HIDE DEF s
        <5> QED
          BY ONLY <2>4, <3>1, <5>1, <5>2, AppendWrite
      <4>3. pc'[c] = "report" => Sent(Append(s, m), SawV2(c), "phase2_saw_v2")
        <5>1. SawV2(c) \in BOOLEAN
          BY DEF SawV2
        <5> HIDE DEF s
        <5> QED
          BY ONLY <2>4, <3>1, <5>1, AppendWrite
      <4>4. IF c = Excluded THEN ~ SawV2(c) ELSE "phase2_report" \in slots[c] => SawV2(c)
        BY <2>1, <2>4 DEF V2Reported
      <4> HIDE DEF s
      <4> QED
        BY ONLY <2>1, <3>1, <3>2, <4>1, <4>2, <4>3, <4>4 DEF V2Reported, SawV2
    <3> QED
      BY <3>5, <3>6
  <2> QED
    BY <1>1, <2>2, <2>3, <2>4
<1>2. ASSUME NEW c \in WorkerCores, ArriveAtWorker(c) PROVE \A d \in WorkerCores : SumReported(d)' /\ V2Reported(d)'
  BY <1>2, ReportedKept DEF ArriveAtWorker
<1>3. ASSUME NEW c \in WorkerCores, ArriveAtCoord(c) PROVE \A d \in WorkerCores : SumReported(d)' /\ V2Reported(d)'
  <2> SUFFICES ASSUME NEW d \in WorkerCores PROVE SumReported(d)' /\ V2Reported(d)'
    OBVIOUS
  <2> DEFINE s == toCoord[c]
             m == Head(s)
  <2>1. /\ s \in Seq(Reports) /\ s # <<>> /\ toCoord' = [toCoord EXCEPT ![c] = Tail(s)]
        /\ UNCHANGED pc /\ SumReported(d) /\ V2Reported(d)
    BY <1>3 DEF ArriveAtCoord
  <2>2. 0 \in slaveLut
    BY <2>1, CoordLutReady
  <2>3. /\ slotSum' = IF m.field = "phase1_sum" THEN [slotSum EXCEPT ![c] = m.val] ELSE slotSum
        /\ slots' = IF m.field # "phase1_sum" THEN [slots EXCEPT ![c] = Set(@, m)] ELSE slots
    BY <1>3, <2>2 DEF ArriveAtCoord
  <2>4. CASE d # c
    <3>1. toCoord'[d] = toCoord[d] /\ slots'[d] = slots[d] /\ slotSum'[d] = slotSum[d]
      BY <2>1, <2>3, <2>4
    <3> QED
      BY ONLY <2>1, <3>1, ReportedKept
  <2>5. CASE d = c
    <3>1. /\ toCoord'[c] = Tail(s) /\ Len(Tail(s)) = Len(s) - 1 /\ Len(s) \in Nat /\ Len(s) > 0
          /\ \A i \in 1 .. Len(s) - 1 : Tail(s)[i] = s[i + 1]
          /\ m = s[1]
      BY <2>1
    <3>2. slotSum'[c] = (IF m.field = "phase1_sum" THEN m.val ELSE slotSum[c])
      BY <2>3
    <3>3. slots'[c] = (IF m.field # "phase1_sum" THEN Set(slots[c], m) ELSE slots[c])
      BY <2>3
    <3>4. SumReported(c)'
      <4>1. SumIn(c) \/ m.field = "phase1_sum" => SumIn(c)'
        BY <2>1, <2>5, <3>1, <3>2 DEF SumReported, SumIn
      <4>2. /\ Behind(Tail(s), SumIn(c)', "phase1_sum", "phase1_done")
            /\ m.field = "phase1_done" => SumIn(c)
            /\ pc[c] = "sendDone" => Sent(Tail(s), SumIn(c)', "phase1_sum")
        <5>1. SumIn(c) \in BOOLEAN /\ SumIn(c)' \in BOOLEAN
          BY DEF SumIn
        <5>2. /\ Behind(s, SumIn(c), "phase1_sum", "phase1_done")
              /\ pc[c] = "sendDone" => Sent(s, SumIn(c), "phase1_sum")
          BY <2>1, <2>5 DEF SumReported
        <5> HIDE DEF s
        <5> QED
          BY ONLY <2>1, <4>1, <5>1, <5>2, TakeWrite
      <4>3. "phase1_done" \in slots'[c] => SumIn(c)'
        BY <2>1, <2>5, <3>3, <4>1, <4>2, SetFacts DEF SumReported
      <4>4. \A i \in 1 .. Len(s) - 1 : Tail(s)[i].field = "phase1_sum" => Tail(s)[i].val = HwThreads
        BY <2>1, <2>5, <3>1 DEF SumReported
      <4> HIDE DEF s, m
      <4> QED
        BY ONLY <2>1, <3>1, <4>2, <4>3, <4>4 DEF SumReported, SumIn
    <3>5. V2Reported(c)'
      <4>1. m.field = "phase2_saw_v2" => m.val = IF c = Excluded THEN 0 ELSE 1
        BY <2>1, <2>5, <3>1 DEF V2Reported
      <4>2. c = Excluded => ~ SawV2(c)'
        BY <2>1, <2>5, <3>3, <4>1, SetFacts DEF V2Reported, SawV2
      <4>3. ASSUME c # Excluded
            PROVE  /\ Behind(Tail(s), SawV2(c)', "phase2_saw_v2", "phase2_report")
                   /\ pc[c] = "report" => Sent(Tail(s), SawV2(c)', "phase2_saw_v2")
                   /\ "phase2_report" \in slots'[c] => SawV2(c)'
        <5>1. SawV2(c) \/ m.field = "phase2_saw_v2" => SawV2(c)'
          BY <3>3, <4>1, <4>3, SetFacts DEF SawV2
        <5>2. /\ Behind(Tail(s), SawV2(c)', "phase2_saw_v2", "phase2_report")
              /\ m.field = "phase2_report" => SawV2(c)
              /\ pc[c] = "report" => Sent(Tail(s), SawV2(c)', "phase2_saw_v2")
          <6>1. SawV2(c) \in BOOLEAN /\ SawV2(c)' \in BOOLEAN
            BY DEF SawV2
          <6>2. /\ Behind(s, SawV2(c), "phase2_saw_v2", "phase2_report")
                /\ pc[c] = "report" => Sent(s, SawV2(c), "phase2_saw_v2")
            BY <2>1, <2>5, <4>3 DEF V2Reported
          <6> HIDE DEF s
          <6> QED
            BY ONLY <2>1, <5>1, <6>1, <6>2, TakeWrite
        <5>3. "phase2_report" \in slots'[c] => SawV2(c)'
          BY <2>1, <2>5, <3>3, <4>3, <5>1, <5>2, SetFacts DEF V2Reported
        <5> QED
          BY <5>2, <5>3
      <4>4. \A i \in 1 .. Len(s) - 1 : Tail(s)[i].field = "phase2_saw_v2" =>
                                         Tail(s)[i].val = IF c = Excluded THEN 0 ELSE 1
        BY <2>1, <2>5, <3>1 DEF V2Reported
      <4> HIDE DEF s, m
      <4> QED
        BY ONLY <2>1, <3>1, <4>2, <4>3, <4>4 DEF V2Reported, SawV2
    <3> QED
      BY <2>5, <3>4, <3>5
  <2> QED
    BY <2>4, <2>5
<1>4. ASSUME NEW c \in Cores, NEW t \in HwThreads, ComputeThread(c, t) PROVE \A d \in WorkerCores : SumReported(d)' /\ V2Reported(d)'
  BY <1>4, ReportedKept DEF ComputeThread, LoadLocked, StoreConditional
<1>5. CASE coordinator_main
  <2>1. ASSUME NEW d \in WorkerCores PROVE SumReported(d)' /\ V2Reported(d)'
    <3>1. toCoord'[d] = toCoord[d] /\ slots'[d] = slots[d] /\ slotSum'[d] = slotSum[d]
      BY <1>5, CoordEffect
    <3>2. pc'[d] = pc[d] \/ pc'[d] \notin {"sendDone", "report"}
      BY <1>5, CoordEffect
    <3> QED
      BY <3>1, <3>2, ReportedKept
  <2> QED
    BY <2>1
<1>6. CASE UNCHANGED vars
  BY <1>6, ReportedKept DEF vars
<1> QED
  BY <1>1, <1>2, <1>3, <1>4, <1>5, <1>6 DEF Next

LEMMA FilteredStep == McInv /\ [Next]_vars => \A d \in WorkerCores : Filtered(d)'
<1> SUFFICES ASSUME McInv, [Next]_vars PROVE \A d \in WorkerCores : Filtered(d)'
  OBVIOUS
<1> USE CoreFacts DEF McInv, netVars, memVars, lutVars, sumVars, Places, Memories,
    ThreadTypes
<1>1. ASSUME NEW c \in WorkerCores, worker_core_main(c) PROVE \A d \in WorkerCores : Filtered(d)'
  <2> SUFFICES ASSUME NEW d \in WorkerCores PROVE Filtered(d)'
    OBVIOUS
  <2>1. UNCHANGED toWorker /\ pc' = [pc EXCEPT ![c] = pc'[c]] /\ Filtered(d)
    BY <1>1, WorkerEffect
  <2>2. pc'[0] = pc[0] /\ (d # c => pc'[d] = pc[d])
    BY <2>1
  <2>3. CASE pc[c] = "memset"
    <3>1. bcast' = [bcast EXCEPT ![c] = {}] /\ pc'[c] = "signal"
      BY <1>1, <2>3 DEF worker_core_main, WorkerSetup, WorkerCompute, WorkerReportsSum,
          WorkerPhase2, At, Goto, ClearBcast
    <3>2. toWorker[c] = <<>> /\ pc[0] \notin {"restore", "v3"}
      BY <2>3 DEF Booted, Early, Booting
    <3>3. CASE d = c
      BY <2>1, <2>2, <3>1, <3>2, <3>3 DEF Filtered, GotV2, Behind
    <3>4. CASE d # c
      <4>1. bcast'[d] = bcast[d]
        BY <3>1, <3>4
      <4> QED
        BY <2>1, <2>2, <3>4, <4>1, FilteredKept
    <3> QED
      BY <3>3, <3>4
  <2>4. CASE pc[c] # "memset"
    <3>1. UNCHANGED bcast
      BY <1>1, <2>4 DEF worker_core_main, WorkerSetup, WorkerCompute, WorkerReportsSum,
          WorkerPhase2, At, ProgramLut, SendReady
    <3>2. pc'[c] = "saw" => "phase2_v3" \in bcast[c]
      BY <1>1 DEF worker_core_main, WorkerSetup, WorkerCompute, WorkerReportsSum,
          WorkerPhase2, At, Goto
    <3> QED
      BY <2>1, <2>2, <3>1, <3>2 DEF Filtered, GotV2
  <2> QED
    BY <2>3, <2>4
<1>2. ASSUME NEW c \in WorkerCores, ArriveAtWorker(c) PROVE \A d \in WorkerCores : Filtered(d)'
  <2> SUFFICES ASSUME NEW d \in WorkerCores PROVE Filtered(d)'
    OBVIOUS
  <2> DEFINE s == toWorker[c]
             m == Head(s)
  <2>1. /\ s \in Seq(Broadcasts) /\ s # <<>> /\ toWorker' = [toWorker EXCEPT ![c] = Tail(s)]
        /\ UNCHANGED pc /\ Filtered(d)
    BY <1>2 DEF ArriveAtWorker
  <2>2. c \in slaveLut
    BY <2>1, WorkerLutReady
  <2>3. bcast' = [bcast EXCEPT ![c] = @ \cup {m.field}]
    <3>1. m \in Broadcasts
      BY <2>1
    <3>2. m.val = 1
      BY <3>1, ReportFacts
    <3> QED
      BY <1>2, <2>2, <3>2 DEF ArriveAtWorker, Set
  <2>4. CASE d # c
    <3>1. toWorker'[d] = toWorker[d] /\ bcast'[d] = bcast[d]
      BY <2>1, <2>3, <2>4
    <3> QED
      BY ONLY <2>1, <3>1, FilteredKept
  <2>5. CASE d = c
    <3>1. /\ toWorker'[c] = Tail(s) /\ Len(Tail(s)) = Len(s) - 1 /\ Len(s) \in Nat /\ Len(s) > 0
          /\ \A i \in 1 .. Len(s) - 1 : Tail(s)[i] = s[i + 1]
          /\ m = s[1]
      BY <2>1
    <3>2. bcast'[c] = bcast[c] \cup {m.field}
      BY <2>3
    <3>3. CASE c = Excluded
      <4>1. \A i \in 1 .. Len(s) : s[i].field # "phase2_v2"
        BY <2>1, <2>5, <3>3 DEF Filtered
      <4>2. ~ GotV2(c)' /\ \A i \in 1 .. Len(s) - 1 : Tail(s)[i].field # "phase2_v2"
        BY <2>1, <2>5, <3>1, <3>2, <3>3, <4>1 DEF Filtered, GotV2
      <4> HIDE DEF s, m
      <4> QED
        BY ONLY <2>1, <2>5, <3>1, <3>2, <3>3, <4>2 DEF Filtered, GotV2
    <3>4. CASE c # Excluded
      <4>1. GotV2(c) \/ m.field = "phase2_v2" => GotV2(c)'
        BY <3>2 DEF GotV2
      <4>2. /\ Behind(Tail(s), GotV2(c)', "phase2_v2", "phase2_v3")
            /\ m.field = "phase2_v3" => GotV2(c)
            /\ pc[0] \in {"restore", "v3"} => Sent(Tail(s), GotV2(c)', "phase2_v2")
        <5>1. GotV2(c) \in BOOLEAN /\ GotV2(c)' \in BOOLEAN
          BY DEF GotV2
        <5>2. /\ Behind(s, GotV2(c), "phase2_v2", "phase2_v3")
              /\ pc[0] \in {"restore", "v3"} => Sent(s, GotV2(c), "phase2_v2")
          BY <2>1, <2>5, <3>4 DEF Filtered
        <5> HIDE DEF s
        <5> QED
          BY ONLY <2>1, <4>1, <5>1, <5>2, TakeWrite
      <4>3. "phase2_v3" \in bcast'[c] => GotV2(c)'
        BY <2>1, <2>5, <3>2, <3>4, <4>1, <4>2 DEF Filtered
      <4>4. pc[c] = "saw" => "phase2_v3" \in bcast'[c]
        BY <2>1, <2>5, <3>2 DEF Filtered
      <4> HIDE DEF s, m
      <4> QED
        BY ONLY <2>1, <2>5, <3>1, <3>4, <4>2, <4>3, <4>4 DEF Filtered, GotV2
    <3> QED
      BY <3>3, <3>4
  <2> QED
    BY <2>4, <2>5
<1>3. ASSUME NEW c \in WorkerCores, ArriveAtCoord(c) PROVE \A d \in WorkerCores : Filtered(d)'
  BY <1>3, FilteredKept DEF ArriveAtCoord
<1>4. ASSUME NEW c \in Cores, NEW t \in HwThreads, ComputeThread(c, t) PROVE \A d \in WorkerCores : Filtered(d)'
  BY <1>4, FilteredKept DEF ComputeThread, LoadLocked, StoreConditional
<1>5. CASE coordinator_main
  <2> SUFFICES ASSUME NEW d \in WorkerCores PROVE Filtered(d)'
    OBVIOUS
  <2>1. /\ UNCHANGED bcast /\ Filtered(d) /\ (pc'[d] = pc[d] \/ pc'[d] = "program")
        /\ pc'[0] = "restore" <=> pc[0] = "v2"
        /\ pc'[0] = "v3" <=> pc[0] = "restore"
    BY <1>5, CoordEffect
  <2>2. CASE UNCHANGED toWorker /\ pc[0] # "v2"
    BY <2>1, <2>2, FilteredKept
  <2>3. ASSUME NEW f \in BcastFields, Broadcast(f), pc[0] \in {"seed", "v1", "v2", "v3"},
               f = "phase2_v2" <=> pc[0] = "v2", f = "phase2_v3" <=> pc[0] = "v3"
        PROVE  Filtered(d)'
    <3> DEFINE s == toWorker[d]
               m == Write(f, 1)
    <3>1. /\ s \in Seq(Broadcasts) /\ m \in Broadcasts /\ m.field = f
          /\ toWorker'[d] = IF d \in masterMask THEN Append(s, m) ELSE s
      BY <2>3, ReportFacts DEF Broadcast
    <3>2. CASE d = Excluded
      <4>1. d \in masterMask => f # "phase2_v2"
        BY <2>3, <3>2 DEF Masked
      <4>2. /\ Len(Append(s, m)) = Len(s) + 1 /\ Len(s) \in Nat
            /\ \A i \in 1 .. Len(s) : Append(s, m)[i] = s[i]
            /\ Append(s, m)[Len(s) + 1] = m
        BY <3>1
      <4>3. \A i \in 1 .. Len(s) : s[i].field # "phase2_v2"
        BY <2>1, <3>2 DEF Filtered
      <4>4. \A i \in 1 .. Len(toWorker'[d]) : toWorker'[d][i].field # "phase2_v2"
        <5> HIDE DEF s, m
        <5> QED
          BY ONLY <3>1, <4>1, <4>2, <4>3
      <4> QED
        BY ONLY <2>1, <3>2, <4>4 DEF Filtered, GotV2
    <3>3. CASE d # Excluded
      <4>1. GotV2(d) \in BOOLEAN
        BY DEF GotV2
      <4>2. Behind(s, GotV2(d), "phase2_v2", "phase2_v3") /\ (f = "phase2_v3" => Sent(s, GotV2(d), "phase2_v2"))
        BY <2>1, <2>3, <3>3 DEF Filtered
      <4>3. Behind(toWorker'[d], GotV2(d), "phase2_v2", "phase2_v3")
        <5> HIDE DEF s, m
        <5> QED
          BY ONLY <3>1, <4>1, <4>2, AppendWrite
      <4>4. pc'[0] \in {"restore", "v3"} => Sent(toWorker'[d], GotV2(d), "phase2_v2")
        <5>1. pc'[0] \in {"restore", "v3"} => d \in masterMask /\ f = "phase2_v2"
          BY <2>1, <2>3, <3>3 DEF Masked
        <5> HIDE DEF s, m
        <5> QED
          BY ONLY <3>1, <4>1, <5>1, AppendWrite
      <4> QED
        BY ONLY <2>1, <3>3, <4>3, <4>4 DEF Filtered, GotV2
    <3> QED
      BY <3>2, <3>3
  <2> QED
    BY <1>5, <2>2, <2>3, CoordEffect
<1>6. CASE UNCHANGED vars
  BY <1>6, FilteredKept DEF vars
<1> QED
  BY <1>1, <1>2, <1>3, <1>4, <1>5, <1>6 DEF Next

LEMMA ChecksStep == McInv /\ [Next]_vars => ChecksPass'
<1> SUFFICES ASSUME McInv, [Next]_vars PROVE ChecksPass'
  OBVIOUS
<1> USE CoreFacts DEF McInv, netVars, memVars, lutVars, sumVars, Places, Memories,
    ThreadTypes, ChecksPass
<1>1. ASSUME NEW c \in WorkerCores, worker_core_main(c) PROVE ChecksPass'
  BY <1>1, WorkerEffect
<1>2. ASSUME NEW c \in WorkerCores, ArriveAtWorker(c) PROVE ChecksPass'
  BY <1>2 DEF ArriveAtWorker
<1>3. ASSUME NEW c \in WorkerCores, ArriveAtCoord(c) PROVE ChecksPass'
  BY <1>3 DEF ArriveAtCoord
<1>4. ASSUME NEW c \in Cores, NEW t \in HwThreads, ComputeThread(c, t) PROVE ChecksPass'
  BY <1>4 DEF ComputeThread, LoadLocked, StoreConditional
<1>5. CASE coordinator_main
  <2>1. CASE CoordSetup
    BY <2>1 DEF CoordSetup
  <2>2. CASE Phase1
    <3>1. CASE pc[0] = "join0"
      <4>1. core_sum[0] = {t \in HwThreads : tpc[0][t] = "stopped"}
        BY <3>1 DEF Sums, Computing
      <4>2. \A t \in HwThreads : tpc[0][t] = "stopped"
        BY <2>2, <3>1 DEF Phase1, WaitAll, At, Joined
      <4>3. core_sum[0] = HwThreads
        BY ONLY <4>1, <4>2
      <4> QED
        BY <2>2, <3>1, <4>3 DEF Phase1, WaitAll, At
    <3>2. CASE pc[0] = "check1"
      BY <2>2, <3>2 DEF Phase1, WaitAll, At, SumReported, SumIn
    <3>3. CASE pc[0] \notin {"join0", "check1"}
      BY <2>2, <3>3 DEF Phase1, WaitAll, At
    <3> QED
      BY <3>1, <3>2, <3>3
  <2>3. CASE Phase2
    <3>1. CASE pc[0] = "check2"
      <4>1. /\ "phase2_report" \in slots[idx]
            /\ err' = (err \/ ("phase2_saw_v2" \in slots[idx]) # (idx # Excluded))
        BY <2>3, <3>1 DEF Phase2, WaitAll, Filter, At
      <4>2. SawV2(idx) <=> idx # Excluded
        BY <4>1 DEF V2Reported
      <4> QED
        BY <4>1, <4>2 DEF SawV2
    <3>2. CASE pc[0] # "check2"
      BY <2>3, <3>2 DEF Phase2, WaitAll, Filter, At, Send, SetMask
    <3> QED
      BY <3>1, <3>2
  <2> QED
    BY <1>5, <2>1, <2>2, <2>3 DEF coordinator_main
<1>6. CASE UNCHANGED vars
  BY <1>6 DEF vars
<1> QED
  BY <1>1, <1>2, <1>3, <1>4, <1>5, <1>6 DEF Next

LEMMA InitMc == Init => McInv
<1> SUFFICES ASSUME Init PROVE McInv
  OBVIOUS
<1> USE CoreFacts, CoresAssumption DEF Init
<1>1. Places
  BY DEF Places, WorkerLabels, CoordLabels, Early, Booting
<1>2. Memories /\ ThreadTypes
  <2>1. <<>> \in Seq(Broadcasts) /\ <<>> \in Seq(Reports)
    OBVIOUS
  <2>2. toWorker \in [WorkerCores -> Seq(Broadcasts)] /\ toCoord \in [WorkerCores -> Seq(Reports)]
    BY <2>1
  <2>3. Memories
    BY <2>2 DEF Memories
  <2>4. tpc \in [Cores -> [HwThreads -> {"ll", "sc", "stopped"}]]
    OBVIOUS
  <2>5. treg \in [Cores -> [HwThreads -> SUBSET HwThreads]]
    OBVIOUS
  <2> QED
    BY <2>3, <2>4, <2>5 DEF ThreadTypes
<1>3. Sums /\ Booted /\ Masked /\ ChecksPass
  BY DEF Sums, Booted, Masked, ChecksPass, Computing, Computed, Joined, Early, Booting
<1>4. ASSUME NEW c \in WorkerCores PROVE SumReported(c) /\ V2Reported(c) /\ Filtered(c)
  BY DEF SumReported, V2Reported, Filtered, Behind, SawV2, GotV2
<1> QED
  BY <1>1, <1>2, <1>3, <1>4 DEF McInv

(* The strengthening that the coordinator's checks rest on.                  *)
THEOREM MulticoreInv == Spec => []McInv
<1>1. McInv /\ [Next]_vars => McInv'
  <2> SUFFICES ASSUME McInv, [Next]_vars PROVE McInv'
    OBVIOUS
  <2>1. \A c \in WorkerCores : (SumReported(c) /\ V2Reported(c) /\ Filtered(c))'
    BY ReportedStep, FilteredStep
  <2> QED
    BY <2>1, PlacesStep, MemoriesStep, ThreadTypesStep, SumsStep, BootedStep, MaskedStep,
        ChecksStep
       DEF McInv
<1> QED
  BY InitMc, <1>1, PTL DEF Spec

(* run_core_compute: atomic_add_u32's load-locked and conditional store lose  *)
(* no addition, on any number of threads, whatever interleaves them.          *)
THEOREM SumsAreComplete == Spec => []SumComplete
<1>1. McInv => SumComplete
  BY DEF McInv, Sums, SumComplete, Computed
<1> QED
  BY MulticoreInv, <1>1, PTL

(* phase2_mask_filter: V2 never lands in the excluded core, and wherever V3   *)
(* has landed in another, V2 has, although broadcasts arrive at each core in  *)
(* its own time.                                                              *)
THEOREM MaskFiltersV2 == Spec => []FilterExact
<1>1. McInv => FilterExact
  BY CoreFacts DEF McInv, Filtered, GotV2, FilterExact
<1> QED
  BY MulticoreInv, <1>1, PTL

(* coordinator_main never counts an error: a slot with its done flag has the  *)
(* complete sum, one with its report flag the right verdict on V2.            *)
THEOREM CoordinatorChecksPass == Spec => []ChecksPass
<1>1. McInv => ChecksPass
  BY DEF McInv
<1> QED
  BY MulticoreInv, <1>1, PTL
=============================================================================
