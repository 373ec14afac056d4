------------------------------- MODULE MmuTests -------------------------------
(* The MMU tests on mmu.h: mmu_permissions.c, mmu_page_size.c, mmu_asids.c,   *)
(* mmu_multi_tlb.c, mmu_overlap.c, mmu_cacheops.c, and hsv39_tlb.c on         *)
(* hsv39.h.  Each writes TLB entries by hand, accesses memory through them    *)
(* and lets its exception handlers, or the runtime's refill, repair the TLB   *)
(* before the access is replayed.                                             *)
(*                                                                            *)
(* An address is the number of its 4K page: nothing here looks below it.      *)
(* Cache attributes are left out.                                             *)
EXTENDS Naturals, Sequences, FiniteSets

CONSTANTS
    DATA_PAGE, FUNC_PAGE,   \* the pages of `data' and of func_return_pc
    NumLegacy               \* the last index of the core's TLB

ONE_MB == 256
TLB_FIXED_ENTRIES == 6
ASSUME MmuAssumption ==
    /\ DATA_PAGE \in 1 .. ONE_MB - 1 /\ FUNC_PAGE \in 1 .. ONE_MB - 1
    /\ NumLegacy \in Nat /\ NumLegacy > TLB_FIXED_ENTRIES /\ NumLegacy < 512

Legacy == 0 .. NumLegacy
Extended == {512, 513}              \* HSV39 DMA TLB entries start from 512
TLB_NOT_FOUND == 2147483647         \* stands for 1 << 31
SEVERAL == 2147483646               \* stands for 0xffffffff
XWRU == {"X", "W", "R", "U"}

VARIABLES
    mmProg, mmStep,     \* the program, and the test and the call it has reached
    tlb,
    mmAsid, userMode,   \* SSR:ASID, SSR:UM
    evbMine,            \* install_my_event_vectors has run
    my_exceptions,
    mmData,             \* the word `data'
    mmDead,             \* a core dump, or the refill handler's dead loop
    mmFail

mmEnv == <<mmProg, evbMine, mmAsid, userMode>>
mmVars == <<mmEnv, mmStep, tlb, my_exceptions, mmData, mmDead, mmFail>>

-----------------------------------------------------------------------------
(* Entries.                                                                  *)

page_start(a, size) == a - (a % size)
create_mmu_entry(G, asid, va, perm, pa, size) ==
    [V |-> TRUE, G |-> G, asid |-> asid, vpn |-> va, pa |-> pa, size |-> size, perm |-> perm]
NoEntry == [create_mmu_entry(FALSE, 0, 0, {}, 0, 1) EXCEPT !.V = FALSE]

Covers(e, asid, va) ==
    /\ e.V
    /\ e.G \/ e.asid = asid
    /\ page_start(e.vpn, e.size) = page_start(va, e.size)
Overlaps(e, f) ==
    /\ e.V /\ f.V
    /\ e.G \/ f.G \/ e.asid = f.asid
    /\ LET size == IF e.size > f.size THEN e.size ELSE f.size
       IN page_start(e.vpn, size) = page_start(f.vpn, size)
hex_tlb_phys_addr(e, va) == page_start(e.pa, e.size) + (va % e.size)

Hits(indices, asid, va) == {i \in indices : Covers(tlb[i], asid, va)}
Lowest(s) == CHOOSE i \in s : \A j \in s : i <= j

(* The instructions.  tlbp of a 64 bit operand searches extended entries.    *)
tlbp(asid, va) == LET h == Hits(Legacy, asid, va) IN IF h = {} THEN TLB_NOT_FOUND ELSE Lowest(h)
tlbp64(asid, va) == LET h == Hits(Extended, asid, va) IN IF h = {} THEN TLB_NOT_FOUND ELSE Lowest(h)
tlboc(e) ==
    LET h == {i \in Legacy : Overlaps(tlb[i], e)}
    IN IF h = {} THEN TLB_NOT_FOUND ELSE IF Cardinality(h) = 1 THEN Lowest(h) ELSE SEVERAL

Clear(t, i) == IF i = TLB_NOT_FOUND THEN t ELSE [t EXCEPT ![i].V = FALSE]
tlbinvasid(t, asid) == [i \in DOMAIN t |-> IF ~ t[i].G /\ t[i].asid = asid
                                             THEN [t[i] EXCEPT !.V = FALSE] ELSE t[i]]

-----------------------------------------------------------------------------
(* The calls the programs are made of.                                       *)

AddTrans(i, va, pa, size, perm) ==
    [op |-> "add_trans", i |-> i, e |-> create_mmu_entry(TRUE, 0, va, perm, pa, size)]
Extend(i, va, pa, size, asid) ==
    [op |-> "extended", i |-> i, e |-> create_mmu_entry(TRUE, asid, va, XWRU, pa, size)]
AddHsv39(i, e) == [op |-> "add_hsv39", i |-> i, e |-> e]
Tlbw(e, i) == [op |-> "tlbw", i |-> i, e |-> e]
Remove(i) == [op |-> "remove", i |-> i]
InvAsid(asid) == [op |-> "invasid", asid |-> asid]
SetAsid(asid) == [op |-> "set_asid", asid |-> asid]
Install == [op |-> "install"]
UserMode == [op |-> "user_mode"]
ClearExceptions == [op |-> "clear"]
Data(v) == [op |-> "data", v |-> v]

Expect(kind, arg, r) == [op |-> "check", kind |-> kind, arg |-> arg, r |-> r]
Probe(asid, va, r) == Expect("tlbp", [asid |-> asid, va |-> va], r)
Probe64(asid, va, r) == Expect("tlbp64", [asid |-> asid, va |-> va], r)
Overlap(e, r) == Expect("tlboc", e, r)
ReadEntry(i, e) == Expect("tlbr", i, e)
Exceptions(s) == Expect("exceptions", 0, s)
Word(v) == Expect("data", 0, v)
WriteIfClear(e, i, r) == [op |-> "ctlbw", e |-> e, i |-> i, r |-> r]

Access(kind, va, v, same) == [op |-> "access", kind |-> kind, va |-> va, v |-> v, same |-> same]
Load(va, v) == Access("load", va, v, TRUE)
LoadOther(va, v) == Access("load", va, v, FALSE)
Store(va, v) == Access("store", va, v, TRUE)
CallFunc(va) == Access("fetch", va, "", TRUE)
CacheOp(kind, va) == Access(kind, va, "", TRUE)

-----------------------------------------------------------------------------
test_permissions ==
    <<ClearExceptions, Data("deadbeef"),
      AddTrans(1, DATA_PAGE + ONE_MB, DATA_PAGE, 1, XWRU \ {"R"}), Probe(0, DATA_PAGE + ONE_MB, 1),
      AddTrans(2, DATA_PAGE + 2 * ONE_MB, DATA_PAGE, 1, XWRU \ {"U"}), Probe(0, DATA_PAGE + 2 * ONE_MB, 2),
      AddTrans(3, DATA_PAGE + 3 * ONE_MB, DATA_PAGE, 1, XWRU \ {"W"}), Probe(0, DATA_PAGE + 3 * ONE_MB, 3),
      AddTrans(4, DATA_PAGE + 4 * ONE_MB, DATA_PAGE, 1, XWRU \ {"U"}), Probe(0, DATA_PAGE + 4 * ONE_MB, 4),
      AddTrans(5, FUNC_PAGE + 5 * ONE_MB, FUNC_PAGE, 1, {"W", "R"}), Probe(0, FUNC_PAGE + 5 * ONE_MB, 5),
      Install, UserMode,
      Load(DATA_PAGE + ONE_MB, "deadbeef"), Load(DATA_PAGE + 2 * ONE_MB, "deadbeef"),
      Store(DATA_PAGE + 3 * ONE_MB, "c0ffee"), Word("c0ffee"),
      Store(DATA_PAGE + 4 * ONE_MB, "c0ffee"), Word("c0ffee"),
      CallFunc(FUNC_PAGE + 5 * ONE_MB),
      Exceptions({"FETCH_NO_XPAGE", "FETCH_NO_UPAGE", "PRIV_NO_READ", "PRIV_NO_WRITE",
                  "PRIV_NO_UREAD", "PRIV_NO_UWRITE"})>>

test_page_size(size) ==
    LET offset == IF size <= ONE_MB THEN 5 * ONE_MB ELSE size
        data == page_start(DATA_PAGE, size)
        func == page_start(FUNC_PAGE, size)
    IN <<Data("deadbeef"),
         AddTrans(1, data + offset, data, size, XWRU), Probe(0, DATA_PAGE + offset, 1),
         Load(DATA_PAGE + offset, "deadbeef"), Store(DATA_PAGE + offset, "cafebabe"), Word("cafebabe"),
         Remove(1), Probe(0, DATA_PAGE + offset, TLB_NOT_FOUND),
         AddTrans(2, func + offset, func, size, XWRU), Probe(0, FUNC_PAGE + offset, 2),
         CallFunc(FUNC_PAGE + offset), Remove(2), Probe(0, FUNC_PAGE + offset, TLB_NOT_FOUND)>>

PageSizes == <<1, 4, 16, 64, 256, 1024, 4096, 16384, 65536, 262144>>     \* PAGE_4K to PAGE_1G
page_size_main == [n \in 1 .. 10 |-> test_page_size(PageSizes[n])]

(* Wrong variant: back to ASID 1 before its entries are invalidated.         *)
SwitchFirst ==
    LET va == DATA_PAGE + 5 * ONE_MB
        entry == create_mmu_entry(FALSE, 1, va, XWRU \ {"U"}, DATA_PAGE, 1)
    IN <<Tlbw(entry, 1), SetAsid(2), Data("deadbeef"), LoadOther(va, "deadbeef"),
         SetAsid(1), InvAsid(entry.asid), Data("cafebabe"), LoadOther(va, "cafebabe")>>

test_asids ==
    LET va == DATA_PAGE + 5 * ONE_MB
        entry == create_mmu_entry(FALSE, 1, va, XWRU \ {"U"}, DATA_PAGE, 1)
    IN <<Tlbw(entry, 1), Overlap(entry, 1), InvAsid(entry.asid), Overlap(entry, TLB_NOT_FOUND),
         Data("deadbeef"), Tlbw(entry, 1), SetAsid(1), Load(va, "deadbeef"),
         Store(va, "cafebabe"), Word("cafebabe"),
         SetAsid(2), Data("deadbeef"), LoadOther(va, "deadbeef"),
         InvAsid(entry.asid), SetAsid(1), Data("cafebabe"), LoadOther(va, "cafebabe")>>

(* tlbinvasid(1): the ASID is in the upper bits of the operand, so this one  *)
(* names ASID 0.                                                             *)
test_multi_tlb ==
    LET va == DATA_PAGE + ONE_MB
        entry == create_mmu_entry(FALSE, 1, va, XWRU \ {"U"}, DATA_PAGE, 1)
    IN <<Install, ClearExceptions, SetAsid(1), InvAsid(0),
         Tlbw(entry, 1), Overlap(entry, 1), Probe(1, va, 1),
         Tlbw(entry, 2), Overlap(entry, SEVERAL), Probe(1, va, 1),
         Exceptions({"MULTI_TLB_MATCH"}), Remove(1), Remove(2)>>

test_overlap ==
    LET va == page_start(DATA_PAGE, ONE_MB) + 5 * ONE_MB
        entry(v, size) == create_mmu_entry(TRUE, 0, v, XWRU \ {"U"}, 0, size)
    IN <<AddTrans(1, va, 0, ONE_MB, XWRU), Probe(0, DATA_PAGE + 5 * ONE_MB, 1),
         Overlap(entry(va, 1), 1), WriteIfClear(entry(va, 1), 2, 1),
         Overlap(entry(va + ONE_MB, 1), TLB_NOT_FOUND), WriteIfClear(entry(va + ONE_MB, 1), 2, TLB_NOT_FOUND),
         Overlap(entry(va, 4 * ONE_MB), SEVERAL),
         Remove(1), Probe(0, DATA_PAGE + 5 * ONE_MB, TLB_NOT_FOUND),
         Remove(2), Probe(0, DATA_PAGE + 6 * ONE_MB, TLB_NOT_FOUND)>>

test_data_cache_ops ==
    <<Install, UserMode,
      ClearExceptions, CacheOp("dcop", DATA_PAGE + ONE_MB), Exceptions({"TLBMISSRW_READ", "PRIV_NO_READ"}),
      ClearExceptions, CacheOp("dcop", DATA_PAGE + 2 * ONE_MB), Exceptions({"TLBMISSRW_READ"}),
      ClearExceptions, CacheOp("dcop", DATA_PAGE + 3 * ONE_MB), Exceptions({"TLBMISSRW_READ"}),
      ClearExceptions, CacheOp("icop", DATA_PAGE + 4 * ONE_MB), Exceptions({"TLBMISSX_NORMAL"})>>

(* hsv39_tlb.c.  The core's pointers have 32 bits: an access "through the    *)
(* new VA", 4G above, is an access to the old one.                           *)
FOUR_GB == 1048576
Pointer(va) == va % FOUR_GB
hsv39_entry(va, pa, size) == create_mmu_entry(TRUE, 1, va, XWRU, pa, size)

hsv39_test_page_size(size) ==
    LET data == page_start(DATA_PAGE, size)
        func == page_start(FUNC_PAGE, size)
    IN <<AddHsv39(512, hsv39_entry(data + FOUR_GB, data, size)), Probe64(1, DATA_PAGE + FOUR_GB, 512),
         Data("deadbeef"), Load(Pointer(DATA_PAGE + FOUR_GB), "deadbeef"),
         Store(Pointer(DATA_PAGE + FOUR_GB), "cafebabe"), Word("cafebabe"),
         Remove(512), Probe64(1, DATA_PAGE + FOUR_GB, TLB_NOT_FOUND),
         AddHsv39(513, hsv39_entry(func + FOUR_GB, func, size)), Probe64(1, FUNC_PAGE + FOUR_GB, 513),
         CallFunc(Pointer(FUNC_PAGE + FOUR_GB)),
         Remove(513), Probe64(1, FUNC_PAGE + FOUR_GB, TLB_NOT_FOUND)>>

test_tlbp ==
    <<Extend(1, DATA_PAGE + ONE_MB, DATA_PAGE, ONE_MB, 1),
      Probe(1, DATA_PAGE + ONE_MB, 1), Probe64(1, DATA_PAGE + ONE_MB, TLB_NOT_FOUND), Remove(1)>>

test_tlbr ==
    LET ext == hsv39_entry(FOUR_GB, 0, 1024 * ONE_MB)
        legacy == create_mmu_entry(TRUE, 1, DATA_PAGE + ONE_MB, XWRU \ {"U"}, DATA_PAGE, 1)
    IN <<AddHsv39(512, ext), Tlbw(legacy, 1), ReadEntry(512, ext), ReadEntry(1, legacy), Remove(512), Remove(1)>>

Hsv39Sizes == <<1, 4, 16, 256, 1024, 4096, 16384, 65536>>      \* in megabytes
hsv39_main ==
    [n \in 1 .. 10 |-> IF n <= 8 THEN hsv39_test_page_size(ONE_MB * Hsv39Sizes[n])
                      ELSE IF n = 9 THEN test_tlbp ELSE test_tlbr]

Program ==
    [permissions |-> <<test_permissions>>, page_size |-> page_size_main, asids |-> <<test_asids>>,
     multi_tlb |-> <<test_multi_tlb>>, overlap |-> <<test_overlap>>,
     cacheops |-> <<test_data_cache_ops>>, hsv39 |-> hsv39_main]
(* The events for which a program installs a handler of its own.             *)
MyEvents ==
    [permissions |-> {"error"}, page_size |-> {"error", "nmi"}, asids |-> {}, multi_tlb |-> {"nmi"},
     overlap |-> {}, cacheops |-> {"error", "tlbmissrw", "tlbmissx"}, hsv39 |-> {}]

-----------------------------------------------------------------------------
MmInit ==
    /\ mmProg \in DOMAIN Program
    /\ mmStep = [test |-> 1, at |-> 1]
    /\ tlb = [i \in Legacy \cup Extended |->
                IF i = 0 THEN create_mmu_entry(TRUE, 0, 0, XWRU, 0, ONE_MB) ELSE NoEntry]
    /\ mmAsid = 0 /\ userMode = FALSE /\ evbMine = FALSE
    /\ my_exceptions = {}
    /\ mmData = "deadbeef"
    /\ mmDead = FALSE /\ mmFail = FALSE

MmRunning == mmStep.test <= Len(Program[mmProg]) /\ ~ mmDead
MmTest == Program[mmProg][mmStep.test]
MmArg == MmTest[mmStep.at]
MmCall(name) ==
    /\ MmRunning /\ MmArg.op = name
    /\ mmStep' = IF mmStep.at < Len(MmTest) THEN [mmStep EXCEPT !.at = @ + 1]
                 ELSE [test |-> mmStep.test + 1, at |-> 1]

(* clear_overlapping_entry and tlb_invalidate clear what a probe of the      *)
(* first address finds, the one for the entry's ASID, the other for ours.    *)
clear_overlapping_entry(t, e) == Clear(t, tlbp(e.asid, e.vpn))
add_translation_extended(t, i, e) ==
    LET probe == LET h == {j \in Legacy : Covers(t[j], mmAsid, e.vpn)}
                 IN IF h = {} THEN TLB_NOT_FOUND ELSE Lowest(h)
    IN [Clear(t, probe) EXCEPT ![i] = e]
IndexAllowed(i) == 1 <= i /\ i <= TLB_FIXED_ENTRIES - 1

add_trans ==
    /\ MmCall("add_trans")
    /\ mmDead' = ~ IndexAllowed(MmArg.i)
    /\ tlb' = LET t == clear_overlapping_entry(tlb, MmArg.e)
              IN IF IndexAllowed(MmArg.i) THEN add_translation_extended(t, MmArg.i, MmArg.e) ELSE t
    /\ UNCHANGED <<mmEnv, my_exceptions, mmData, mmFail>>

add_translation ==
    /\ MmCall("extended")
    /\ tlb' = IF IndexAllowed(MmArg.i) THEN add_translation_extended(tlb, MmArg.i, MmArg.e) ELSE tlb
    /\ UNCHANGED <<mmEnv, my_exceptions, mmData, mmDead, mmFail>>

add_hsv39_tlb_entry ==
    /\ MmCall("add_hsv39")
    /\ tlb' = [Clear(tlb, tlbp64(MmArg.e.asid, MmArg.e.vpn)) EXCEPT ![MmArg.i] = MmArg.e]
    /\ UNCHANGED <<mmEnv, my_exceptions, mmData, mmDead, mmFail>>

tlbw ==
    /\ MmCall("tlbw")
    /\ tlb' = [tlb EXCEPT ![MmArg.i] = MmArg.e]
    /\ UNCHANGED <<mmEnv, my_exceptions, mmData, mmDead, mmFail>>

remove_trans ==
    /\ MmCall("remove")
    /\ tlb' = Clear(tlb, MmArg.i)
    /\ UNCHANGED <<mmEnv, my_exceptions, mmData, mmDead, mmFail>>

invalidate_asid ==
    /\ MmCall("invasid")
    /\ tlb' = tlbinvasid(tlb, MmArg.asid)
    /\ UNCHANGED <<mmEnv, my_exceptions, mmData, mmDead, mmFail>>

set_asid ==
    /\ MmCall("set_asid")
    /\ mmAsid' = MmArg.asid
    /\ UNCHANGED <<mmProg, evbMine, userMode, tlb, my_exceptions, mmData, mmDead, mmFail>>

install_my_event_vectors ==
    /\ MmCall("install")
    /\ evbMine' = TRUE
    /\ UNCHANGED <<mmProg, mmAsid, userMode, tlb, my_exceptions, mmData, mmDead, mmFail>>

enter_user_mode ==
    /\ MmCall("user_mode")
    /\ userMode' = TRUE
    /\ UNCHANGED <<mmProg, mmAsid, evbMine, tlb, my_exceptions, mmData, mmDead, mmFail>>

clear_exception_vector ==
    /\ MmCall("clear")
    /\ my_exceptions' = {}
    /\ UNCHANGED <<mmEnv, tlb, mmData, mmDead, mmFail>>

write_data ==
    /\ MmCall("data")
    /\ mmData' = MmArg.v
    /\ UNCHANGED <<mmEnv, tlb, my_exceptions, mmDead, mmFail>>

Mine(event) == evbMine /\ event \in MyEvents[mmProg]

(* A probe that matches twice also raises the imprecise NMI.                 *)
MmCheck ==
    /\ MmCall("check")
    /\ LET a == MmArg.arg
           got == CASE MmArg.kind = "tlbp" -> tlbp(a.asid, a.va)
                    [] MmArg.kind = "tlbp64" -> tlbp64(a.asid, a.va)
                    [] MmArg.kind = "tlboc" -> tlboc(a)
                    [] MmArg.kind = "tlbr" -> tlb[a]
                    [] MmArg.kind = "exceptions" -> my_exceptions
                    [] MmArg.kind = "data" -> mmData
           twice == MmArg.kind = "tlbp" /\ Cardinality(Hits(Legacy, a.asid, a.va)) > 1
       IN /\ mmFail' = (mmFail \/ got # MmArg.r)
          /\ mmDead' = (twice /\ ~ Mine("nmi"))
          /\ my_exceptions' = IF twice /\ Mine("nmi") THEN my_exceptions \cup {"MULTI_TLB_MATCH"}
                              ELSE my_exceptions
    /\ UNCHANGED <<mmEnv, tlb, mmData>>

ctlbw ==
    /\ MmCall("ctlbw")
    /\ mmFail' = (mmFail \/ tlboc(MmArg.e) # MmArg.r)
    /\ tlb' = IF tlboc(MmArg.e) = TLB_NOT_FOUND THEN [tlb EXCEPT ![MmArg.i] = MmArg.e] ELSE tlb
    /\ UNCHANGED <<mmEnv, my_exceptions, mmData, mmDead>>

-----------------------------------------------------------------------------
(* Accesses and the events they raise.                                       *)

Causes(kind, va) ==
    LET h == Hits(Legacy, mmAsid, va)
        perm == tlb[Lowest(h)].perm
        needs(p, cause) == IF p \in perm THEN {} ELSE {cause}
        user(cause) == IF userMode /\ "U" \notin perm THEN {cause} ELSE {}
    IN IF h = {}
         THEN {CASE kind \in {"load", "dcop"} -> "TLBMISSRW_READ"
                 [] kind = "store" -> "TLBMISSRW_WRITE"
                 [] kind \in {"fetch", "icop"} -> "TLBMISSX_NORMAL"}
       ELSE IF Cardinality(h) > 1 THEN {"MULTI_TLB_MATCH"}
       ELSE CASE kind = "load" -> needs("R", "PRIV_NO_READ") \cup user("PRIV_NO_UREAD")
              [] kind = "store" -> needs("W", "PRIV_NO_WRITE") \cup user("PRIV_NO_UWRITE")
              [] kind = "fetch" -> needs("X", "FETCH_NO_XPAGE") \cup user("FETCH_NO_UPAGE")
              [] kind = "dcop" -> IF "W" \in perm THEN {} ELSE needs("R", "PRIV_NO_READ")
              [] kind = "icop" -> {}

EventOf(cause) ==
    CASE cause \in {"TLBMISSRW_READ", "TLBMISSRW_WRITE"} -> "tlbmissrw"
      [] cause = "TLBMISSX_NORMAL" -> "tlbmissx"
      [] cause = "MULTI_TLB_MATCH" -> "nmi"
      [] OTHER -> "error"

tlb_entry_num(va) == va \div ONE_MB

(* Wrong variant: the handler grants the user bit only.                      *)
GrantUser(cause, va) == tlb' = [tlb EXCEPT ![tlb_entry_num(va)].perm = @ \cup {"U"}]

my_event_handle_error_helper(cause, va) ==
    LET n == tlb_entry_num(va)
        added == CASE cause = "FETCH_NO_XPAGE" -> "X"
                   [] cause = "PRIV_NO_READ" -> "R"
                   [] cause = "PRIV_NO_WRITE" -> "W"
                   [] cause \in {"FETCH_NO_UPAGE", "PRIV_NO_UREAD", "PRIV_NO_UWRITE"} -> "U"
    IN tlb' = [tlb EXCEPT ![n].perm = @ \cup {added}]

MissEntry(va, perm) == create_mmu_entry(TRUE, 0, va, perm, va - tlb_entry_num(va) * ONE_MB, 1)
my_event_handle_tlbmissrw_helper(va) ==
    tlb' = [tlb EXCEPT ![tlb_entry_num(va)] =
              MissEntry(va, CASE tlb_entry_num(va) = 2 -> {"U", "R"}
                              [] tlb_entry_num(va) = 3 -> {"U", "W"}
                              [] OTHER -> {"U"})]
my_event_handle_tlbmissx_helper(va) == tlb' = [tlb EXCEPT ![tlb_entry_num(va)] = MissEntry(va, {"U"})]
my_event_handle_nmi_helper == UNCHANGED tlb

(* The runtime's handlers: a miss writes a 1:1 entry of 1M unless a probe of *)
(* the megabyte finds one, and hangs if that is a fixed one; the others end. *)
DefaultRefill(va) ==
    LET mb == page_start(va, ONE_MB)
        found == tlbp(0, mb)
    IN IF found = TLB_NOT_FOUND
         THEN /\ \E i \in TLB_FIXED_ENTRIES .. NumLegacy :
                   tlb' = [tlb EXCEPT ![i] = create_mmu_entry(TRUE, 0, mb, XWRU, mb, ONE_MB)]
              /\ UNCHANGED mmDead
         ELSE /\ UNCHANGED tlb
              /\ mmDead' = (found < TLB_FIXED_ENTRIES)

AccessFaults ==
    /\ MmRunning /\ MmArg.op = "access"
    /\ \E cause \in Causes(MmArg.kind, MmArg.va) :
         LET event == EventOf(cause) IN
         \/ /\ Mine(event)
            /\ my_exceptions' = my_exceptions \cup {cause}
            /\ CASE event = "error" -> my_event_handle_error_helper(cause, MmArg.va)
                 [] event = "nmi" -> my_event_handle_nmi_helper
                 [] event = "tlbmissrw" -> my_event_handle_tlbmissrw_helper(MmArg.va)
                 [] event = "tlbmissx" -> my_event_handle_tlbmissx_helper(MmArg.va)
            /\ UNCHANGED mmDead
         \/ /\ ~ Mine(event)
            /\ UNCHANGED my_exceptions
            /\ IF event \in {"tlbmissrw", "tlbmissx"} THEN DefaultRefill(MmArg.va)
               ELSE mmDead' = TRUE /\ UNCHANGED tlb
    /\ UNCHANGED <<mmEnv, mmStep, mmData, mmFail>>

(* func_return_pc returns the virtual address it was called at.              *)
AccessCompletes ==
    /\ MmCall("access")
    /\ Causes(MmArg.kind, MmArg.va) = {}
    /\ LET pa == hex_tlb_phys_addr(tlb[tlbp(mmAsid, MmArg.va)], MmArg.va)
           word == IF pa = DATA_PAGE THEN mmData ELSE "elsewhere"
       IN /\ mmFail' = (mmFail \/ CASE MmArg.kind = "load" -> (word = MmArg.v) # MmArg.same
                                    [] MmArg.kind = "fetch" -> pa # FUNC_PAGE
                                    [] OTHER -> FALSE)
          /\ mmData' = IF MmArg.kind = "store" /\ pa = DATA_PAGE THEN MmArg.v ELSE mmData
    /\ UNCHANGED <<mmEnv, tlb, my_exceptions, mmDead>>

MmNext ==
    \/ add_trans \/ add_translation \/ add_hsv39_tlb_entry \/ tlbw \/ remove_trans \/ invalidate_asid
    \/ set_asid \/ install_my_event_vectors \/ enter_user_mode \/ clear_exception_vector
    \/ write_data \/ MmCheck \/ ctlbw \/ AccessFaults \/ AccessCompletes

MmDone == ~ MmRunning
=============================================================================
