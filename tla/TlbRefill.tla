------------------------------- MODULE TlbRefill -------------------------------
(* The software-managed TLB of the standalone runtime: the TLB miss handlers  *)
(* event_handle_tlbmissx and event_handle_tlbmissrw of crt0_standalone.S (the *)
(* same code is in hexagon-arch-tests/asm/crt0.S), run by any hardware thread *)
(* on any access, against the translation calls of crt0/tlb.c, run by Main.   *)
(*                                                                            *)
(* A TLB entry is its page and frame; a cleared V bit is NoPage.  Only 1M     *)
(* pages are modelled, the size the handlers write.  Attribute bits are left  *)
(* out.                                                                       *)
EXTENDS Naturals, FiniteSets

CONSTANTS
    Threads, Main,
    Pages, BootPage,      \* virtual 1M pages; the one mapped at boot
    NoPage,               \* an entry whose V bit is clear
    Frames,               \* physical 1M pages
    Remaps,               \* <<page, frame>> arguments of the translation calls
    TLB_FIXED_ENTRIES,    \* entries 0 .. TLB_FIXED_ENTRIES-1 are not replaced
    NumTLBEntries,        \* _NumTLBEntries: the JTLB size less one
    NoThread

Index == 0 .. NumTLBEntries
FixedIndex == 0 .. TLB_FIXED_ENTRIES - 1
NotFound == NumTLBEntries + 1     \* tlbp sets bit 31

ASSUME SizeAssumption ==
    /\ TLB_FIXED_ENTRIES \in Nat /\ NumTLBEntries \in Nat
    /\ 1 <= TLB_FIXED_ENTRIES /\ TLB_FIXED_ENTRIES <= NumTLBEntries
ASSUME NameAssumption ==
    /\ Main \in Threads /\ NoThread \notin Threads
    /\ BootPage \in Pages /\ NoPage \notin Pages
    /\ Pages \subseteq Frames        \* the table starts as a 1:1 mapping
    /\ Remaps \subseteq (Pages \ {BootPage}) \X Frames

VARIABLES
    tlbVpn, tlbPpn,       \* the TLB
    tlb_idx,              \* __tlb_idx: the entry replaced last
    resv,                 \* threads whose reservation on __tlb_idx is intact
    tlbLock,              \* owner of the hardware TLB lock
    pte,                  \* TLBMapTable
    pc, acc,              \* where a thread is; the access it missed on, "x" or "rw"
    page, idx, ent, found,\* registers: r7, r6, r3, r5
    fix                   \* index argument of the translation call Main is in

vars == <<tlbVpn, tlbPpn, tlb_idx, resv, tlbLock, pte, pc, acc, page, idx, ent, found, fix>>

Handler == {"ll", "sc", "pte", "lock", "probe", "write", "check", "unlock"}
Extended == {"invProbe", "invWrite", "mapWrite"}      \* in add_translation_extended
Mapper == {"fixProbe", "fixWrite", "extend"} \cup Extended

TypeOK ==
    /\ tlbVpn \in [Index -> Pages \cup {NoPage}]
    /\ tlbPpn \in [Index -> Frames]
    /\ tlb_idx \in Index
    /\ resv \subseteq Threads
    /\ tlbLock \in Threads \cup {NoThread}
    /\ pte \in [Pages -> Frames]
    /\ pc \in [Threads -> {"app", "dead"} \cup Handler \cup Mapper]
    /\ acc \in [Threads -> {"x", "rw"}]
    /\ page \in [Threads -> Pages]
    /\ idx \in [Threads -> Index]
    /\ ent \in [Threads -> Frames]
    /\ found \in [Threads -> Index \cup {NotFound}]
    /\ fix \in Index

(* hexagon_start_init clears entries _NumTLBEntries down to 1 and writes the *)
(* global translation of the page of _start to entry 0.                      *)
Init ==
    /\ tlbVpn = [i \in Index |-> IF i = 0 THEN BootPage ELSE NoPage]
    /\ tlbPpn = [i \in Index |-> BootPage]
    /\ tlb_idx = TLB_FIXED_ENTRIES - 1
    /\ resv = {}
    /\ tlbLock = NoThread
    /\ pte = [p \in Pages |-> p]
    /\ pc = [t \in Threads |-> "app"]
    /\ acc = [t \in Threads |-> "x"]
    /\ page = [t \in Threads |-> BootPage]
    /\ idx = [t \in Threads |-> 0]
    /\ ent = [t \in Threads |-> BootPage]
    /\ found = [t \in Threads |-> NotFound]
    /\ fix = 0

Matches(p) == {i \in Index : tlbVpn[i] = p}

(* tlbp: the index of an entry for the page, or bit 31.                      *)
tlbp(p, r) == IF Matches(p) = {} THEN r = NotFound ELSE r \in Matches(p)

Goto(t, l) == pc' = [pc EXCEPT ![t] = l]

(* The handler's registers are restored, the call's locals go out of scope.  *)
Restore(t) ==
    /\ acc' = [acc EXCEPT ![t] = "x"]
    /\ page' = [page EXCEPT ![t] = BootPage]
    /\ idx' = [idx EXCEPT ![t] = 0]
    /\ ent' = [ent EXCEPT ![t] = BootPage]
    /\ found' = [found EXCEPT ![t] = NotFound]

-----------------------------------------------------------------------------
(* The miss handlers.                                                        *)

(* Caller's contract of the translation calls: nobody else uses a page while *)
(* it is being remapped.                                                     *)
BeingMapped(p) == pc[Main] \in Mapper /\ page[Main] = p
PageIdle(p) == \A t \in Threads : pc[t] # "app" => page[t] # p

(* A fetch (elr, or elr's next page) or a data access (badva) with no entry  *)
(* for its page enters a handler.                                            *)
Miss(t, p, a) ==
    /\ pc[t] = "app"
    /\ Matches(p) = {}
    /\ ~BeingMapped(p)
    /\ Goto(t, "ll")
    /\ page' = [page EXCEPT ![t] = p]
    /\ acc' = [acc EXCEPT ![t] = a]
    /\ UNCHANGED <<tlbVpn, tlbPpn, tlb_idx, resv, tlbLock, pte, idx, ent, found, fix>>

(* r6 = memw_locked(__tlb_idx)                                               *)
LoadLocked(t) ==
    /\ pc[t] = "ll"
    /\ idx' = [idx EXCEPT ![t] = tlb_idx]
    /\ resv' = resv \cup {t}
    /\ Goto(t, "sc")
    /\ UNCHANGED <<tlbVpn, tlbPpn, tlb_idx, tlbLock, pte, acc, page, ent, found, fix>>

(* Wrong variant: wrap to entry 0.                                           *)
WrapToZero(i) == IF NumTLBEntries > i THEN i + 1 ELSE 0

(* The compare is in the packet of the increment, so it sees the old value:  *)
(* the last index handed out is _NumTLBEntries itself.                       *)
NextIndex(i) == IF NumTLBEntries > i THEN i + 1 ELSE TLB_FIXED_ENTRIES

(* memw_locked(__tlb_idx, p0) = r6: a store that succeeds ends every other   *)
(* thread's reservation.                                                     *)
StoreConditional(t) ==
    /\ pc[t] = "sc"
    /\ t \in resv
    /\ tlb_idx' = NextIndex(idx[t])
    /\ resv' = {}
    /\ idx' = [idx EXCEPT ![t] = NextIndex(@)]
    /\ Goto(t, "pte")
    /\ UNCHANGED <<tlbVpn, tlbPpn, tlbLock, pte, acc, page, ent, found, fix>>

(* Retry, lost reservation.                                                  *)
StoreFails(t) ==
    /\ pc[t] = "sc"
    /\ t \notin resv
    /\ Goto(t, "ll")
    /\ UNCHANGED <<tlbVpn, tlbPpn, tlb_idx, resv, tlbLock, pte, acc, page, idx, ent, found, fix>>

(* r3 = memh(TLBMapTable + 2 * page), before the lock is taken.              *)
LoadPte(t) ==
    /\ pc[t] = "pte"
    /\ ent' = [ent EXCEPT ![t] = pte[page[t]]]
    /\ Goto(t, "lock")
    /\ UNCHANGED <<tlbVpn, tlbPpn, tlb_idx, resv, tlbLock, pte, acc, page, idx, found, fix>>

(* Wrong variant: no tlblock around probe and write.                         *)
NoTlblock(t) ==
    /\ pc[t] = "lock"
    /\ Goto(t, "probe")
    /\ UNCHANGED <<tlbVpn, tlbPpn, tlb_idx, resv, tlbLock, pte, acc, page, idx, ent, found, fix>>

tlblock(t) ==
    /\ pc[t] = "lock"
    /\ tlbLock = NoThread
    /\ tlbLock' = t
    /\ Goto(t, "probe")
    /\ UNCHANGED <<tlbVpn, tlbPpn, tlb_idx, resv, pte, acc, page, idx, ent, found, fix>>

(* Another thread may have filled the entry since the miss.                  *)
Probe(t) ==
    /\ pc[t] = "probe"
    /\ \E r \in Index \cup {NotFound} :
          /\ tlbp(page[t], r)
          /\ found' = [found EXCEPT ![t] = r]
          /\ Goto(t, IF r = NotFound THEN "write" ELSE "check")
    /\ UNCHANGED <<tlbVpn, tlbPpn, tlb_idx, resv, tlbLock, pte, acc, page, idx, ent, fix>>

(* tlbw(r1:0, r6)                                                            *)
Refill(t) ==
    /\ pc[t] = "write"
    /\ tlbVpn' = [tlbVpn EXCEPT ![idx[t]] = page[t]]
    /\ tlbPpn' = [tlbPpn EXCEPT ![idx[t]] = ent[t]]
    /\ Goto(t, "unlock")
    /\ UNCHANGED <<tlb_idx, resv, tlbLock, pte, acc, page, idx, ent, found, fix>>

(* Wrong variant: the operands of the DEAD compare swapped.                  *)
DeadSwapped(t) ==
    /\ pc[t] = "check"
    /\ Goto(t, IF acc[t] = "rw" /\ found[t] >= TLB_FIXED_ENTRIES THEN "dead" ELSE "unlock")
    /\ UNCHANGED <<tlbVpn, tlbPpn, tlb_idx, resv, tlbLock, pte, acc, page, idx, ent, found, fix>>

(* The read-write handler spins for ever, with the lock, on a miss around a  *)
(* fixed page: "if (p0) jump . // DEAD".                                     *)
AlreadyFilled(t) ==
    /\ pc[t] = "check"
    /\ Goto(t, IF acc[t] = "rw" /\ found[t] < TLB_FIXED_ENTRIES THEN "dead" ELSE "unlock")
    /\ UNCHANGED <<tlbVpn, tlbPpn, tlb_idx, resv, tlbLock, pte, acc, page, idx, ent, found, fix>>

(* Wrong variant: the path that found an entry leaves without the unlock.    *)
UnlockOnlyAfterWrite(t) ==
    /\ pc[t] = "unlock"
    /\ tlbLock' = IF found[t] = NotFound THEN NoThread ELSE tlbLock
    /\ Goto(t, "app")
    /\ Restore(t)
    /\ UNCHANGED <<tlbVpn, tlbPpn, tlb_idx, resv, pte, fix>>

(* tlbunlock and rte; the access is tried again.                             *)
tlbunlock(t) ==
    /\ pc[t] = "unlock"
    /\ tlbLock' = NoThread
    /\ Goto(t, "app")
    /\ Restore(t)
    /\ UNCHANGED <<tlbVpn, tlbPpn, tlb_idx, resv, pte, fix>>

HandlerStep(t) ==
    \/ LoadLocked(t) \/ StoreConditional(t) \/ StoreFails(t) \/ LoadPte(t)
    \/ tlblock(t) \/ Probe(t) \/ Refill(t) \/ AlreadyFilled(t) \/ tlbunlock(t)

-----------------------------------------------------------------------------
(* crt0/tlb.c, on Main.                                                      *)

(* add_translation changes the table in memory and nothing else.             *)
add_translation(p, f) ==
    /\ pc[Main] = "app"
    /\ pte' = [pte EXCEPT ![p] = f]
    /\ UNCHANGED <<tlbVpn, tlbPpn, tlb_idx, resv, tlbLock, pc, acc, page, idx, ent, found, fix>>

(* A translation call begins at l with its arguments.                        *)
Call(l, i, p, f) ==
    /\ pc[Main] = "app"
    /\ PageIdle(p)
    /\ Goto(Main, l)
    /\ page' = [page EXCEPT ![Main] = p]
    /\ ent' = [ent EXCEPT ![Main] = f]
    /\ fix' = i
    /\ UNCHANGED <<tlbVpn, tlbPpn, tlb_idx, resv, tlbLock, pte, acc, idx, found>>

(* The indexes a call may name: those allowed, and the next ones.            *)
IndexArgs == 0 .. TLB_FIXED_ENTRIES
IndexAllowed(i) == i >= 1 /\ i <= TLB_FIXED_ENTRIES - 1

(* An index out of range returns -1 with nothing done.                       *)
add_translation_extended(i, p, f) == IndexAllowed(i) /\ Call("invProbe", i, p, f)

(* Invalidates the page for any index, and then calls the other.             *)
add_translation_fixed(i, p, f) == Call("fixProbe", i, p, f)

ExtendFixed ==
    /\ pc[Main] = "extend"
    /\ \/ /\ IndexAllowed(fix)
          /\ Goto(Main, "invProbe")
          /\ UNCHANGED <<acc, page, idx, ent, found, fix>>
       \/ /\ ~IndexAllowed(fix)
          /\ Goto(Main, "app")
          /\ Restore(Main)
          /\ fix' = 0
    /\ UNCHANGED <<tlbVpn, tlbPpn, tlb_idx, resv, tlbLock, pte>>

(* tlb_invalidate: the probe and the read of the entry are not locked.       *)
Invalidated == IF pc[Main] \in Extended THEN "mapWrite" ELSE "extend"

InvalidateProbe ==
    /\ pc[Main] \in {"fixProbe", "invProbe"}
    /\ \E r \in Index \cup {NotFound} :
          /\ tlbp(page[Main], r)
          /\ found' = [found EXCEPT ![Main] = r]
          /\ Goto(Main, IF r = NotFound THEN Invalidated
                        ELSE IF pc[Main] = "fixProbe" THEN "fixWrite" ELSE "invWrite")
    /\ UNCHANGED <<tlbVpn, tlbPpn, tlb_idx, resv, tlbLock, pte, acc, page, idx, ent, fix>>

(* The entry that was read goes back with V clear, whatever it was.          *)
InvalidateWrite ==
    /\ pc[Main] \in {"fixWrite", "invWrite"}
    /\ tlbLock = NoThread
    /\ tlbVpn' = [tlbVpn EXCEPT ![found[Main]] = NoPage]
    /\ Goto(Main, Invalidated)
    /\ UNCHANGED <<tlbPpn, tlb_idx, resv, tlbLock, pte, acc, page, idx, ent, found, fix>>

(* write_tlb_entry is tlblock, tlbw, tlbunlock in one asm statement; no      *)
(* handler of another thread gets between them.                              *)
write_tlb_entry ==
    /\ pc[Main] = "mapWrite"
    /\ tlbLock = NoThread
    /\ tlbVpn' = [tlbVpn EXCEPT ![fix] = page[Main]]
    /\ tlbPpn' = [tlbPpn EXCEPT ![fix] = ent[Main]]
    /\ Goto(Main, "app")
    /\ Restore(Main)
    /\ fix' = 0
    /\ UNCHANGED <<tlb_idx, resv, tlbLock, pte>>

MapperStep == InvalidateProbe \/ InvalidateWrite \/ ExtendFixed \/ write_tlb_entry

-----------------------------------------------------------------------------
Next ==
    \/ \E t \in Threads, p \in Pages, a \in {"x", "rw"} : Miss(t, p, a)
    \/ \E t \in Threads : HandlerStep(t)
    \/ \E r \in Remaps : add_translation(r[1], r[2])
    \/ \E i \in IndexArgs, r \in Remaps :
          add_translation_extended(i, r[1], r[2]) \/ add_translation_fixed(i, r[1], r[2])
    \/ MapperStep

Spec == Init /\ [][Next]_vars

(* A thread in a handler or in tlb.c keeps running; only tlblock waits.      *)
FairSpec == Spec /\ WF_vars(MapperStep) /\ \A t \in Threads : WF_vars(HandlerStep(t))

-----------------------------------------------------------------------------
(* No page has two entries, whoever fills, replaces or remaps at the same    *)
(* time: the handlers probe again under tlblock before they write.           *)
NoDuplicates ==
    \A i, j \in Index : tlbVpn[i] = tlbVpn[j] /\ tlbVpn[i] # NoPage => i = j

(* "NEVER overwrite fixed entries": a handler has only ever indexes at or    *)
(* above TLB_FIXED_ENTRIES, and __tlb_idx never passes _NumTLBEntries, over  *)
(* every interleaving of the LL/SC increments.                               *)
IndexInRange ==
    /\ tlb_idx >= TLB_FIXED_ENTRIES - 1
    /\ \A t \in Threads :
          pc[t] \in {"pte", "lock", "probe", "write"} => idx[t] >= TLB_FIXED_ENTRIES

(* A fixed entry changes only in a translation call, and only the entry that *)
(* the call names or the one that held its page, and never the boot entry 0, *)
(* also when a call names it.                                                *)
FixedOnlyRemapped ==
    [][\A i \in FixedIndex :
         tlbVpn'[i] # tlbVpn[i] \/ tlbPpn'[i] # tlbPpn[i]
            => /\ pc[Main] \in Mapper /\ i # 0
               /\ i = fix \/ tlbVpn[i] = page[Main]]_vars

(* The read-write handler never reaches its DEAD loop: a page that missed is *)
(* never in a fixed entry by the time the handler probes.                    *)
NeverDead == \A t \in Threads : pc[t] # "dead"

(* tlblock excludes: the thread between tlblock and tlbunlock is the owner,  *)
(* and the lock is free when nobody is there.                                *)
LockExact ==
    \A t \in Threads : tlbLock = t <=> pc[t] \in {"probe", "write", "check", "unlock", "dead"}

(* Misses get served: whenever some thread is in a handler, some thread      *)
(* later returns from one (a reservation is lost only to another's success). *)
InHandler == \E t \in Threads : pc[t] \in Handler
RefillProgress == InHandler ~> \E t \in Threads : pc[t] = "unlock"
=============================================================================
