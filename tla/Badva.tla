-------------------------------- MODULE Badva --------------------------------
(* badva.c: packets of two accesses to pages that are mapped in the           *)
(* translation table only.  Each access that finds no TLB entry reports its   *)
(* address in BADVA0 or BADVA1, the runtime loads the entry and the packet is *)
(* replayed; nothing of the packet is committed before both can be.  The test *)
(* then looks at what the last miss left behind.                              *)
(*                                                                            *)
(* Pages are numbered in megabytes; data0 and data1 are in the first one.     *)
EXTENDS Naturals, Sequences, FiniteSets

VARIABLES
    bvStep,             \* the test main has reached and the place in it
    mb_counter,
    bvPte,              \* TLBMapTable: page -> frame
    bvTlb,              \* the frames of the entries loaded so far
    new_data,           \* the pages new_data0 and new_data1 point to
    data,               \* data0, data1
    bvVal,              \* the values the packet loaded
    badvaReg,           \* BADVA0, BADVA1
    v0, v1,             \* SSR bits 20 and 21: V1 and BVS are the same bit
    bvFail

bvVars == <<bvStep, mb_counter, bvPte, bvTlb, new_data, data, bvVal, badvaReg, v0, v1, bvFail>>

BvPages == 0 .. 6
INVALID_BADVA == 100
NoFrame == 101
BvTests == <<"dual_store", "dual_load", "load_store">>
BvInTest == bvStep.test <= Len(BvTests)
BvTest == BvTests[bvStep.test]
BvPlace(place) == BvInTest /\ bvStep.at = place
BvGoto(place) == bvStep' = [bvStep EXCEPT !.at = place]

(* The values each test starts from and what the packet stores.              *)
StartValues == [dual_store |-> <<"12345678", "87654321">>, dual_load |-> <<"aabbccdd", "eeff0011">>,
                load_store |-> <<"11223344", "55667788">>]
Stores == [dual_store |-> <<"1", "2">>, dual_load |-> <<"", "">>, load_store |-> <<"", "123">>]
(* Which access reports in BADVA0 (external: the slots of the packet).       *)
Slot0 == [dual_store |-> 1, dual_load |-> 1, load_store |-> 2]

BvInit ==
    /\ bvStep = [test |-> 1, at |-> "map"]
    /\ mb_counter = 1
    /\ bvPte = [p \in BvPages |-> p]
    /\ bvTlb = [p \in BvPages |-> IF p = 0 THEN 0 ELSE NoFrame]
    /\ new_data = <<0, 0>>
    /\ data = <<"deadbeef", "abcdef01">>
    /\ bvVal = <<"", "">>
    /\ badvaReg = <<0, 0>> /\ v0 = FALSE /\ v1 = FALSE
    /\ bvFail = {}

(* add_translation: the table, and not the TLB.                              *)
map_data_address(pages) == [p \in BvPages |-> IF p \in pages THEN 0 ELSE bvPte[p]]

BvMap ==
    /\ BvPlace("map")
    /\ data' = StartValues[BvTest]
    /\ new_data' = <<mb_counter, mb_counter + 1>>
    /\ bvPte' = map_data_address({mb_counter, mb_counter + 1})
    /\ mb_counter' = mb_counter + 2
    /\ BvGoto("issue")
    /\ UNCHANGED <<bvTlb, bvVal, badvaReg, v0, v1, bvFail>>

(* dual_store, dual_load, load_store: clear what a miss sets, then the       *)
(* packet.                                                                   *)
BvIssue ==
    /\ BvPlace("issue")
    /\ badvaReg' = <<0, 0>> /\ v0' = FALSE /\ v1' = FALSE
    /\ BvGoto("packet")
    /\ UNCHANGED <<mb_counter, bvPte, bvTlb, new_data, data, bvVal, bvFail>>

(* A miss on access a, up to the refill and the replay.                      *)
BvMiss(a) ==
    /\ BvPlace("packet")
    /\ bvTlb[new_data[a]] = NoFrame
    /\ bvTlb' = [bvTlb EXCEPT ![new_data[a]] = bvPte[new_data[a]]]
    /\ LET low == Slot0[BvTest] = a IN
         /\ badvaReg' = IF low THEN <<new_data[a], INVALID_BADVA>> ELSE <<INVALID_BADVA, new_data[a]>>
         /\ v0' = low /\ v1' = ~ low
    /\ UNCHANGED <<bvStep, mb_counter, bvPte, new_data, data, bvVal, bvFail>>

BvCommit ==
    /\ BvPlace("packet")
    /\ \A a \in {1, 2} : bvTlb[new_data[a]] # NoFrame
    /\ LET reaches(a) == bvTlb[new_data[a]] = 0
           stores(a) == Stores[BvTest][a] # ""
       IN /\ data' = [a \in {1, 2} |-> IF stores(a) /\ reaches(a) THEN Stores[BvTest][a] ELSE data[a]]
          /\ bvVal' = [a \in {1, 2} |-> IF ~ stores(a) /\ reaches(a) THEN data[a] ELSE "elsewhere"]
    /\ BvGoto("check")
    /\ UNCHANGED <<mb_counter, bvPte, bvTlb, new_data, badvaReg, v0, v1, bvFail>>

read_badva == IF v1 THEN badvaReg[2] ELSE badvaReg[1]

(* The register checks and the values of one test.                           *)
BvRegisters ==
    LET low == Slot0[BvTest]
        high == 3 - low
    IN CASE read_badva = new_data[low] -> badvaReg = <<new_data[low], INVALID_BADVA>> /\ v0 /\ ~ v1
         [] read_badva = new_data[high] -> badvaReg = <<INVALID_BADVA, new_data[high]>> /\ ~ v0 /\ v1
         [] OTHER -> FALSE
BvValues ==
    \A a \in {1, 2} : IF Stores[BvTest][a] # "" THEN data[a] = Stores[BvTest][a]
                      ELSE bvVal[a] = StartValues[BvTest][a]

BvCheck ==
    /\ BvPlace("check")
    /\ bvFail' = IF BvRegisters /\ BvValues THEN bvFail ELSE bvFail \cup {BvTest}
    /\ bvStep' = [test |-> bvStep.test + 1, at |-> "map"]
    /\ UNCHANGED <<mb_counter, bvPte, bvTlb, new_data, data, bvVal, badvaReg, v0, v1>>

(* BADVA is the register that BVS selects, whichever one was written.        *)
test_badva_write ==
    /\ bvStep.test = Len(BvTests) + 1
    /\ badvaReg' = [badvaReg EXCEPT ![1] = 50]
    /\ bvFail' = IF (IF v1 THEN badvaReg'[2] ELSE badvaReg'[1]) = 50 THEN bvFail ELSE bvFail \cup {"badva_write"}
    /\ bvStep' = [bvStep EXCEPT !.test = @ + 1]
    /\ UNCHANGED <<mb_counter, bvPte, bvTlb, new_data, data, bvVal, v0, v1>>

BvNext ==
    \/ BvMap \/ BvIssue \/ BvMiss(1) \/ BvMiss(2) \/ BvCommit \/ BvCheck \/ test_badva_write
BvDone == bvStep.test > Len(BvTests) + 1

(* Only test_badva_write fails, when the last miss left V1 set, for BADVA    *)
(* then shows the register that was not written.                             *)
BadvaChecksPass == bvFail \subseteq {"badva_write"} /\ (bvFail # {} => v1)

(* A translation the test adds goes to the table and not to the TLB, and     *)
(* meets no older entry of its page.                                         *)
TableAgrees == \A p \in BvPages : bvTlb[p] # NoFrame => bvTlb[p] = bvPte[p]
=============================================================================
