---------------------------- MODULE TlbRefillProofs ----------------------------
(* The refill handlers and the translation calls, for any number of threads, *)
(* pages and TLB entries.                                                    *)
EXTENDS TlbRefill, TLAPS

Critical == {"probe", "write", "check", "unlock", "dead"}

(* Only Main is ever inside tlb.c, not for the boot page, and once the index *)
(* has been checked with one below the replaceable ones.                     *)
MapperIsMain ==
    /\ \A t \in Threads : pc[t] \in Mapper => t = Main
    /\ pc[Main] \in Mapper => page[Main] # BootPage
    /\ pc[Main] \in Extended => fix \in FixedIndex /\ fix # 0
BootKept == tlbVpn[0] = BootPage

(* What was read is still good when it is used: the value of __tlb_idx      *)
(* between load and conditional store, what the handler's probe found, under *)
(* the lock, and the mapper's because nobody else brings its page back.      *)
ProbeCurrent ==
    /\ \A t \in Threads : pc[t] = "sc" => idx[t] >= TLB_FIXED_ENTRIES - 1
    /\ \A t \in Threads : pc[t] = "write" => Matches(page[t]) = {}
    /\ \A t \in Threads : pc[t] = "check" =>
          found[t] \in Index /\ tlbVpn[found[t]] = page[t]
    /\ pc[Main] \in {"fixWrite", "invWrite"} =>
          /\ found[Main] \in Index
          /\ Matches(page[Main]) \subseteq {found[Main]}
          /\ found[Main] \in FixedIndex => tlbVpn[found[Main]] = page[Main]
    /\ pc[Main] = "mapWrite" => Matches(page[Main]) = {}

(* The pages of threads in a handler are in no fixed entry and are not the   *)
(* page being remapped.                                                      *)
MissedPages ==
    /\ \A t \in Threads : pc[t] \in Handler =>
          \A i \in FixedIndex : tlbVpn[i] # page[t]
    /\ \A t \in Threads \ {Main} : pc[Main] \in Mapper /\ pc[t] \in Handler =>
          page[t] # page[Main]

SafeInv ==
    /\ LockExact /\ IndexInRange /\ MapperIsMain /\ ProbeCurrent /\ MissedPages
    /\ BootKept /\ NoDuplicates /\ NeverDead
IInv == TypeOK /\ SafeInv

LEMMA InitIInv == Init => IInv
<1> SUFFICES ASSUME Init PROVE IInv
  OBVIOUS
<1> USE SizeAssumption, NameAssumption DEF Init, Index, FixedIndex, NotFound
<1>1. TypeOK
  BY DEF TypeOK, Handler, Mapper, Extended
<1>2. SafeInv
  BY DEF SafeInv, LockExact, IndexInRange, MapperIsMain, ProbeCurrent, MissedPages,
         BootKept, NoDuplicates, NeverDead, Handler, Mapper, Extended
<1> QED
  BY <1>1, <1>2 DEF IInv

LEMMA NextIndexRange ==
  ASSUME NEW i \in Index, i >= TLB_FIXED_ENTRIES - 1
  PROVE  NextIndex(i) \in Index /\ NextIndex(i) >= TLB_FIXED_ENTRIES
BY SizeAssumption DEF NextIndex, Index

LEMMA TypeStep == TypeOK /\ [Next]_vars => TypeOK'
<1> SUFFICES ASSUME TypeOK, [Next]_vars PROVE TypeOK'
  OBVIOUS
<1> USE NameAssumption DEF TypeOK, Handler, Mapper, Extended, Goto
<1>1. ASSUME NEW t \in Threads, NEW p \in Pages, NEW a \in {"x", "rw"}, Miss(t, p, a)
      PROVE  TypeOK'
  BY <1>1 DEF Miss
<1>2. ASSUME NEW t \in Threads, LoadLocked(t) PROVE TypeOK'
  BY <1>2 DEF LoadLocked
<1>3. ASSUME NEW t \in Threads, StoreConditional(t) PROVE TypeOK'
  <2>1. NextIndex(idx[t]) \in Index
    BY SizeAssumption DEF NextIndex, Index
  <2> QED
    BY <1>3, <2>1 DEF StoreConditional
<1>4. ASSUME NEW t \in Threads, StoreFails(t) PROVE TypeOK'
  BY <1>4 DEF StoreFails
<1>5. ASSUME NEW t \in Threads, LoadPte(t) PROVE TypeOK'
  BY <1>5 DEF LoadPte
<1>6. ASSUME NEW t \in Threads, tlblock(t) PROVE TypeOK'
  BY <1>6 DEF tlblock
<1>7. ASSUME NEW t \in Threads, Probe(t) PROVE TypeOK'
  BY <1>7 DEF Probe
<1>8. ASSUME NEW t \in Threads, Refill(t) PROVE TypeOK'
  BY <1>8 DEF Refill
<1>9. ASSUME NEW t \in Threads, AlreadyFilled(t) PROVE TypeOK'
  BY <1>9 DEF AlreadyFilled
<1>10. ASSUME NEW t \in Threads, tlbunlock(t) PROVE TypeOK'
  BY <1>10, SizeAssumption DEF tlbunlock, Restore, Index
<1>11. ASSUME NEW r \in Remaps, add_translation(r[1], r[2]) PROVE TypeOK'
  BY <1>11 DEF add_translation
<1>12. ASSUME NEW i \in IndexArgs, NEW r \in Remaps,
              add_translation_extended(i, r[1], r[2]) \/ add_translation_fixed(i, r[1], r[2])
       PROVE  TypeOK'
  <2>1. PICK l \in {"fixProbe", "invProbe"} : Call(l, i, r[1], r[2])
    BY <1>12 DEF add_translation_extended, add_translation_fixed
  <2>2. r[1] \in Pages /\ r[2] \in Frames /\ i \in Index
    BY SizeAssumption DEF IndexArgs, Index
  <2> QED
    BY <2>1, <2>2 DEF Call
<1>13. CASE InvalidateProbe
  BY <1>13 DEF InvalidateProbe, Invalidated
<1>14. CASE InvalidateWrite
  BY <1>14 DEF InvalidateWrite, Invalidated
<1>15. CASE write_tlb_entry
  BY <1>15, SizeAssumption DEF write_tlb_entry, Restore, Index
<1>16. CASE ExtendFixed
  <2>1. 0 \in Index
    BY SizeAssumption DEF Index
  <2>2. CASE pc' = [pc EXCEPT ![Main] = "invProbe"] /\ UNCHANGED <<acc, page, idx, ent, found, fix>>
    BY <1>16, <2>2 DEF ExtendFixed
  <2>3. CASE pc' = [pc EXCEPT ![Main] = "app"] /\ Restore(Main) /\ fix' = 0
    BY <1>16, <2>1, <2>3 DEF ExtendFixed, Restore
  <2> QED
    BY <1>16, <2>2, <2>3 DEF ExtendFixed
<1>17. CASE UNCHANGED vars
  BY <1>17 DEF vars
<1> QED
  BY <1>1, <1>2, <1>3, <1>4, <1>5, <1>6, <1>7, <1>8, <1>9, <1>10, <1>11, <1>12, <1>13,
     <1>14, <1>15, <1>16, <1>17 DEF Next, HandlerStep, MapperStep

LEMMA SafeStep == IInv /\ [Next]_vars => SafeInv'
<1> SUFFICES ASSUME IInv, [Next]_vars PROVE SafeInv'
  OBVIOUS
<1>f. /\ \A i : i \in FixedIndex <=> i \in Index /\ i < TLB_FIXED_ENTRIES
      /\ NotFound \notin Index /\ 0 \in FixedIndex
  BY SizeAssumption DEF FixedIndex, Index, NotFound
<1> USE NameAssumption
    DEF IInv, TypeOK, SafeInv, Handler, Mapper, Extended, Goto, Matches, LockExact, IndexInRange,
        MapperIsMain, ProbeCurrent, MissedPages, BootKept, NoDuplicates, NeverDead
<1>1. ASSUME NEW t \in Threads, NEW p \in Pages, NEW a \in {"x", "rw"}, Miss(t, p, a)
      PROVE  SafeInv'
  <2>1. LockExact'
    BY <1>1, <1>f DEF Miss, BeingMapped
  <2>2. IndexInRange'
    BY <1>1, <1>f DEF Miss, BeingMapped
  <2>3. MapperIsMain'
    BY <1>1, <1>f DEF Miss, BeingMapped
  <2>4. ProbeCurrent'
    BY <1>1, <1>f DEF Miss, BeingMapped
  <2>5. MissedPages'
    BY <1>1, <1>f DEF Miss, BeingMapped
  <2>6. BootKept' /\ NoDuplicates'
    BY <1>1, <1>f DEF Miss, BeingMapped
  <2>7. NeverDead'
    BY <1>1, <1>f DEF Miss, BeingMapped
  <2> QED
    BY <2>1, <2>2, <2>3, <2>4, <2>5, <2>6, <2>7
<1>2. ASSUME NEW t \in Threads, LoadLocked(t) PROVE SafeInv'
  BY <1>2 DEF LoadLocked
<1>3. ASSUME NEW t \in Threads, StoreConditional(t) PROVE SafeInv'
  <2>1. NextIndex(idx[t]) \in Index /\ NextIndex(idx[t]) >= TLB_FIXED_ENTRIES
    BY <1>3, NextIndexRange DEF StoreConditional
  <2>2. TLB_FIXED_ENTRIES \in Nat /\ Index \subseteq Nat
    BY SizeAssumption DEF Index
  <2>3. tlb_idx' >= TLB_FIXED_ENTRIES - 1 /\ idx'[t] >= TLB_FIXED_ENTRIES
    <3>1. tlb_idx' = NextIndex(idx[t]) /\ idx'[t] = NextIndex(idx[t])
      BY <1>3 DEF StoreConditional
    <3>2. \A n \in Index : n >= TLB_FIXED_ENTRIES => n >= TLB_FIXED_ENTRIES - 1
      BY <2>2
    <3> QED
      BY <2>1, <3>1, <3>2
  <2>4. \A u \in Threads \ {t} : idx'[u] = idx[u] /\ pc'[u] = pc[u]
    BY <1>3 DEF StoreConditional
  <2>5. IndexInRange'
    BY <2>3, <2>4
  <2> QED
    BY <1>3, <2>5 DEF StoreConditional
<1>4. ASSUME NEW t \in Threads, StoreFails(t) PROVE SafeInv'
  BY <1>4 DEF StoreFails
<1>5. ASSUME NEW t \in Threads, LoadPte(t) PROVE SafeInv'
  BY <1>5 DEF LoadPte
<1>6. ASSUME NEW t \in Threads, tlblock(t) PROVE SafeInv'
  BY <1>6 DEF tlblock
<1>7. ASSUME NEW t \in Threads, Probe(t) PROVE SafeInv'
  <2>1. LockExact'
    BY <1>7, <1>f DEF Probe, tlbp
  <2>2. IndexInRange'
    BY <1>7, <1>f DEF Probe, tlbp
  <2>3. MapperIsMain'
    BY <1>7, <1>f DEF Probe, tlbp
  <2>4. ProbeCurrent'
    BY <1>7, <1>f DEF Probe, tlbp
  <2>5. MissedPages'
    BY <1>7, <1>f DEF Probe, tlbp
  <2>6. BootKept' /\ NoDuplicates'
    BY <1>7, <1>f DEF Probe, tlbp
  <2>7. NeverDead'
    BY <1>7, <1>f DEF Probe, tlbp
  <2> QED
    BY <2>1, <2>2, <2>3, <2>4, <2>5, <2>6, <2>7
<1>8. ASSUME NEW t \in Threads, Refill(t) PROVE SafeInv'
  <2>1. /\ pc[t] = "write" /\ pc' = [pc EXCEPT ![t] = "unlock"]
        /\ idx[t] \in Index /\ idx[t] \notin FixedIndex
        /\ tlbVpn' = [tlbVpn EXCEPT ![idx[t]] = page[t]]
        /\ UNCHANGED <<tlb_idx, tlbLock, page, idx, found, fix>>
    BY <1>8, <1>f, SizeAssumption DEF Refill, Index
  <2>2. LockExact' /\ IndexInRange' /\ MapperIsMain' /\ NeverDead'
    BY <2>1
  <2>3. \A u \in Threads \ {t} : pc[u] # "write" /\ pc[u] # "check"
    BY <2>1
  <2>4. pc[Main] \in Mapper => t # Main /\ page[t] # page[Main]
    BY <2>1
  <2>5. ProbeCurrent'
    <3>1. pc'[Main] = "invWrite" => /\ found'[Main] \in Index
                                    /\ Matches(page[Main])' \subseteq {found'[Main]}
      BY <2>1, <2>4
    <3>2. pc'[Main] = "invWrite" /\ found'[Main] \in FixedIndex
            => tlbVpn'[found'[Main]] = page'[Main]
      BY <2>1, <2>4
    <3>3. pc'[Main] = "mapWrite" => Matches(page[Main])' = {}
      BY <2>1, <2>4
    <3> QED
      BY <2>1, <2>3, <3>1, <3>2, <3>3
  <2>6. MissedPages'
    BY <2>1, <1>f
  <2>7. BootKept' /\ NoDuplicates'
    BY <2>1, <1>f
  <2> QED
    BY <2>2, <2>5, <2>6, <2>7
<1>9. ASSUME NEW t \in Threads, AlreadyFilled(t) PROVE SafeInv'
  <2>1. LockExact'
    BY <1>9, <1>f DEF AlreadyFilled
  <2>2. IndexInRange'
    BY <1>9, <1>f DEF AlreadyFilled
  <2>3. MapperIsMain'
    BY <1>9, <1>f DEF AlreadyFilled
  <2>4. ProbeCurrent'
    BY <1>9, <1>f DEF AlreadyFilled
  <2>5. MissedPages'
    BY <1>9, <1>f DEF AlreadyFilled
  <2>6. BootKept' /\ NoDuplicates'
    BY <1>9, <1>f DEF AlreadyFilled
  <2>7. NeverDead'
    BY <1>9, <1>f DEF AlreadyFilled
  <2> QED
    BY <2>1, <2>2, <2>3, <2>4, <2>5, <2>6, <2>7
<1>10. ASSUME NEW t \in Threads, tlbunlock(t) PROVE SafeInv'
  BY <1>10 DEF tlbunlock, Restore
<1>11. ASSUME NEW r \in Remaps, add_translation(r[1], r[2]) PROVE SafeInv'
  BY <1>11 DEF add_translation
<1>12. ASSUME NEW i \in IndexArgs, NEW r \in Remaps,
              add_translation_extended(i, r[1], r[2]) \/ add_translation_fixed(i, r[1], r[2])
       PROVE  SafeInv'
  <2>0. PICK l \in {"fixProbe", "invProbe"} :
            Call(l, i, r[1], r[2]) /\ (l = "invProbe" => i \in FixedIndex /\ i # 0)
    BY <1>12, SizeAssumption
       DEF add_translation_extended, add_translation_fixed, IndexAllowed, IndexArgs, FixedIndex
  <2>r. r[1] \in Pages \ {BootPage}
    OBVIOUS
  <2>1. LockExact'
    BY <2>0, <1>f DEF Call, PageIdle
  <2>2. IndexInRange'
    BY <2>0, <1>f DEF Call, PageIdle
  <2>3. MapperIsMain'
    BY <2>0, <2>r DEF Call
  <2>4. ProbeCurrent'
    BY <2>0, <1>f DEF Call, PageIdle
  <2>5. MissedPages'
    BY <2>0, <1>f DEF Call, PageIdle
  <2>6. BootKept' /\ NoDuplicates'
    BY <2>0, <1>f DEF Call, PageIdle
  <2>7. NeverDead'
    BY <2>0, <1>f DEF Call, PageIdle
  <2> QED
    BY <2>1, <2>2, <2>3, <2>4, <2>5, <2>6, <2>7
<1>13. CASE InvalidateProbe
  <2>1. LockExact'
    BY <1>13, <1>f DEF InvalidateProbe, Invalidated, tlbp
  <2>2. IndexInRange'
    BY <1>13, <1>f DEF InvalidateProbe, Invalidated, tlbp
  <2>3. MapperIsMain'
    BY <1>13, <1>f DEF InvalidateProbe, Invalidated, tlbp
  <2>4. ProbeCurrent'
    BY <1>13, <1>f DEF InvalidateProbe, Invalidated, tlbp
  <2>5. MissedPages'
    BY <1>13, <1>f DEF InvalidateProbe, Invalidated, tlbp
  <2>6. BootKept' /\ NoDuplicates'
    BY <1>13, <1>f DEF InvalidateProbe, Invalidated, tlbp
  <2>7. NeverDead'
    BY <1>13, <1>f DEF InvalidateProbe, Invalidated, tlbp
  <2> QED
    BY <2>1, <2>2, <2>3, <2>4, <2>5, <2>6, <2>7
<1>14. CASE InvalidateWrite
  BY <1>14, <1>f DEF InvalidateWrite, Invalidated
<1>15. CASE write_tlb_entry
  BY <1>15, <1>f DEF write_tlb_entry, Restore
<1>16. CASE ExtendFixed
  <2>1. IndexAllowed(fix) => fix \in FixedIndex /\ fix # 0
    BY SizeAssumption DEF IndexAllowed, FixedIndex, Index
  <2> QED
    BY <1>16, <1>f, <2>1 DEF ExtendFixed, Restore
<1>17. CASE UNCHANGED vars
  BY <1>17 DEF vars
<1> QED
  BY <1>1, <1>2, <1>3, <1>4, <1>5, <1>6, <1>7, <1>8, <1>9, <1>10, <1>11, <1>12, <1>13,
     <1>14, <1>15, <1>16, <1>17 DEF Next, HandlerStep, MapperStep

(* The inductive invariant of the refill handlers and the translation calls. *)
THEOREM Invariance == Spec => []IInv
<1>1. IInv /\ [Next]_vars => IInv'
  BY TypeStep, SafeStep DEF IInv
<1> QED
  BY InitIInv, <1>1, PTL DEF Spec

(* The variables keep their types; __tlb_idx never exceeds _NumTLBEntries.   *)
THEOREM TypeCorrect == Spec => []TypeOK
<1>1. IInv => TypeOK
  BY DEF IInv
<1> QED
  BY Invariance, <1>1, PTL

(* No page ever has two TLB entries.                                         *)
THEOREM UniqueEntries == Spec => []NoDuplicates
<1>1. IInv => NoDuplicates
  BY DEF IInv, SafeInv
<1> QED
  BY Invariance, <1>1, PTL

(* The handlers' replacement index stays among the replaceable entries, and  *)
(* the TLB lock is held exactly between tlblock and tlbunlock.               *)
THEOREM IndexAndLock == Spec => [](IndexInRange /\ LockExact)
<1>1. IInv => IndexInRange /\ LockExact
  BY DEF IInv, SafeInv
<1> QED
  BY Invariance, <1>1, PTL

(* The read-write handler never enters its DEAD loop.                        *)
THEOREM HandlerNeverDead == Spec => []NeverDead
<1>1. IInv => NeverDead
  BY DEF IInv, SafeInv
<1> QED
  BY Invariance, <1>1, PTL

(* "NEVER overwrite fixed entries": only a translation call changes one, and *)
(* none changes the boot entry.                                              *)
THEOREM FixedEntriesKept == Spec => FixedOnlyRemapped
<1> DEFINE Kept ==
      \A i \in FixedIndex :
         tlbVpn'[i] # tlbVpn[i] \/ tlbPpn'[i] # tlbPpn[i]
            => /\ pc[Main] \in Mapper /\ i # 0
               /\ i = fix \/ tlbVpn[i] = page[Main]
<1>1. IInv /\ [Next]_vars => [Kept]_vars
  <2> SUFFICES ASSUME IInv, Next PROVE Kept
    OBVIOUS
  <2>f. \A i : i \in FixedIndex <=> i \in Index /\ i < TLB_FIXED_ENTRIES
    BY SizeAssumption DEF FixedIndex, Index
  <2>1. CASE UNCHANGED <<tlbVpn, tlbPpn>>
    BY <2>1
  <2>2. ASSUME NEW t \in Threads, Refill(t) PROVE Kept
    <3>1. idx[t] \in Index /\ idx[t] >= TLB_FIXED_ENTRIES
      BY <2>2 DEF Refill, IInv, SafeInv, TypeOK, IndexInRange
    <3>2. idx[t] \notin FixedIndex
      BY <2>f, <3>1, SizeAssumption DEF Index
    <3> QED
      BY <2>2, <2>f, <3>1, <3>2 DEF Refill, IInv, TypeOK
  <2>3. CASE InvalidateWrite
    <3>1. /\ pc[Main] \in Mapper /\ page[Main] # BootPage /\ tlbVpn[0] = BootPage
          /\ found[Main] \in FixedIndex => tlbVpn[found[Main]] = page[Main]
      BY <2>3 DEF InvalidateWrite, IInv, SafeInv, ProbeCurrent, MapperIsMain, BootKept, Mapper, Extended
    <3>2. \A i \in FixedIndex : tlbPpn'[i] = tlbPpn[i] /\ (tlbVpn'[i] # tlbVpn[i] => i = found[Main])
      BY <2>3, <2>f DEF InvalidateWrite, IInv, TypeOK
    <3> QED
      BY <3>1, <3>2
  <2>4. CASE write_tlb_entry
    BY <2>4, <2>f DEF write_tlb_entry, IInv, SafeInv, TypeOK, MapperIsMain, Mapper, Extended
  <2> QED
    BY <2>1, <2>2, <2>3, <2>4
       DEF Next, HandlerStep, MapperStep, Miss, LoadLocked, StoreConditional, StoreFails,
           LoadPte, tlblock, Probe, AlreadyFilled, tlbunlock, add_translation,
           add_translation_extended, add_translation_fixed, Call, ExtendFixed, InvalidateProbe
<1> QED
  BY Invariance, <1>1, PTL DEF Spec, FixedOnlyRemapped
=============================================================================
