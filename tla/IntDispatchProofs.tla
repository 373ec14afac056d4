--------------------------- MODULE IntDispatchProofs ---------------------------
(* The arch dispatcher, for any set of threads and interrupts, any masks and *)
(* any number of swis.                                                       *)
EXTENDS IntDispatch, TLAPS

Served == {intno[t] : t \in {u \in Threads : InService(u)}}

(* From delivery until the handler returns, SSR.CAUSE is the interrupt's:    *)
(* EX, then the cleared IE, keep other events of this thread out.            *)
CauseKept == \A t \in Threads : pc[t] \in {"entry", "isr"} => cause[t] = IntCause(intno[t])

IInv == TypeOK /\ NoConcurrentService /\ IadExact /\ CauseKept /\ CiadUsesIntnum

(* The dispatcher's mask recovers the number from CAUSE.                     *)
LEMMA CauseNumberOfInt ==
  ASSUME NEW n \in 0 .. 31 PROVE IntCause(n) \in 0 .. 255 /\ CauseNumber(IntCause(n)) = n
BY DEF IntCause, CauseNumber

LEMMA NumberInRange == ASSUME NEW c \in 0 .. 255 PROVE CauseNumber(c) \in 0 .. 31
BY DEF CauseNumber

LEMMA InitIInv == Init => IInv
<1> SUFFICES ASSUME Init PROVE IInv
  OBVIOUS
<1>1. \A t \in Threads : cause[t] \in 0 .. 255
  BY IntsAssumption DEF Init
<1>2. TypeOK
  BY <1>1, IntsAssumption DEF Init, TypeOK, InService
<1>3. IadExact
  BY DEF Init, IadExact, InService
<1>4. NoConcurrentService /\ CauseKept /\ CiadUsesIntnum
  BY DEF Init, NoConcurrentService, CauseKept, CiadUsesIntnum, InService
<1> QED
  BY <1>2, <1>3, <1>4 DEF IInv

(* Steps of the program leave the interrupts in service alone.               *)
LEMMA ProgramStep ==
  ASSUME IInv, NEW t \in Threads, Program(t) PROVE IInv'
<1> USE IntsAssumption DEF IInv, TypeOK, InService
<1>1. ASSUME NEW n \in Ints, trigger_swi(t, n) PROVE IInv'
  BY <1>1 DEF trigger_swi, ssr, NoConcurrentService, IadExact, CauseKept, CiadUsesIntnum
<1>2. CASE DisableInterrupts(t)
  BY <1>2 DEF DisableInterrupts, NoConcurrentService, IadExact, CauseKept, CiadUsesIntnum
<1>3. CASE EnableInterrupts(t)
  BY <1>3 DEF EnableInterrupts, NoConcurrentService, IadExact, CauseKept, CiadUsesIntnum
<1>4. CASE clear_all_swi(t)
  BY <1>4 DEF clear_all_swi, ssr, NoConcurrentService, IadExact, CauseKept, CiadUsesIntnum
<1>5. ASSUME NEW c \in OtherCauses, OtherEvent(t, c) PROVE IInv'
  BY <1>5 DEF OtherEvent, NoConcurrentService, IadExact, CauseKept, CiadUsesIntnum
<1> QED
  BY <1>1, <1>2, <1>3, <1>4, <1>5 DEF Program

(* A delivered interrupt was not in IAD, so nobody was serving it.           *)
LEMMA DeliverStep ==
  ASSUME IInv, NEW t \in Threads, NEW n \in Ints, Deliver(t, n) PROVE IInv'
<1> USE IntsAssumption DEF IInv, InService, Goto
<1>1. n \notin Served
  BY DEF Deliver, IadExact, Served
<1>2. n \in 0 .. 31 /\ IntCause(n) \in 0 .. 255
  BY CauseNumberOfInt
<1>3. TypeOK'
  BY <1>2 DEF Deliver, TypeOK
<1>4. NoConcurrentService'
  BY <1>1 DEF Deliver, NoConcurrentService, Served, TypeOK
<1>5. IadExact'
  BY DEF Deliver, IadExact, TypeOK
<1>6. CauseKept' /\ CiadUsesIntnum'
  BY DEF Deliver, CauseKept, CiadUsesIntnum, TypeOK
<1> QED
  BY <1>3, <1>4, <1>5, <1>6

(* ciad clears the bit of the interrupt that ends, and no thread that goes   *)
(* on shares it.                                                             *)
LEMMA DispatcherStep ==
  ASSUME Runtime = "arch", IInv, NEW t \in Threads, event_handle_int(t) PROVE IInv'
<1> USE IntsAssumption DEF IInv, InService, Goto
<1>1. CASE CallHandler(t)
  BY <1>1 DEF CallHandler, TypeOK, NoConcurrentService, IadExact, CauseKept, CiadUsesIntnum
<1>2. CASE HandlerReturns(t)
  <2>1. CiadNumber(t) = intno[t] /\ intno[t] \in 0 .. 31
    BY <1>2, CauseNumberOfInt DEF HandlerReturns, CiadNumber, CauseKept, TypeOK
  <2>2. TypeOK' /\ CauseKept' /\ CiadUsesIntnum'
    BY <1>2, <2>1 DEF HandlerReturns, TypeOK, CauseKept, CiadUsesIntnum
  <2>3. NoConcurrentService' /\ IadExact'
    BY <1>2 DEF HandlerReturns, TypeOK, NoConcurrentService, IadExact
  <2> QED
    BY <2>2, <2>3
<1>3. CASE Ciad(t)
  <2>1. iad' = iad \ {intno[t]}
    BY <1>3 DEF Ciad, CiadUsesIntnum
  <2>2. TypeOK' /\ CauseKept' /\ CiadUsesIntnum' /\ NoConcurrentService'
    BY <1>3 DEF Ciad, ssr, TypeOK, CauseKept, CiadUsesIntnum, NoConcurrentService
  <2>3. \A u \in Threads : InService(u)' <=> InService(u) /\ u # t
    BY <1>3 DEF Ciad, TypeOK
  <2>4. \A u \in Threads : InService(u) /\ u # t => intno[u] # intno[t]
    BY <1>3 DEF Ciad, NoConcurrentService
  <2>5. IadExact'
    BY <1>3, <2>1, <2>3, <2>4 DEF Ciad, IadExact
  <2> QED
    BY <2>2, <2>5
<1>4. CASE Rte(t)
  BY <1>4 DEF Rte, TypeOK, NoConcurrentService, IadExact, CauseKept, CiadUsesIntnum
<1> QED
  BY <1>1, <1>2, <1>3, <1>4 DEF event_handle_int

LEMMA Invariance == ASSUME Runtime = "arch" PROVE Spec => []IInv
<1>1. IInv /\ UNCHANGED vars => IInv'
  BY DEF vars, IInv, TypeOK, InService, NoConcurrentService, IadExact, CauseKept, CiadUsesIntnum
<1>2. IInv /\ [Next]_vars => IInv'
  BY <1>1, ProgramStep, DeliverStep, DispatcherStep DEF Next
<1> QED
  BY InitIInv, <1>2, PTL DEF Spec

(* No two threads run the handler of the same interrupt: the dispatcher of   *)
(* the arch runtime re-enables an interrupt only when its handler is done.   *)
THEOREM ServiceIsExclusive ==
  ASSUME Runtime = "arch" PROVE Spec => [](TypeOK /\ NoConcurrentService)
BY Invariance, PTL DEF IInv

(* IAD is exactly the interrupts in service: event_handle_int of the arch    *)
(* runtime leaves no interrupt disabled and enables none early, whatever the *)
(* threads interleave.                                                       *)
THEOREM NothingLeftDisabled ==
  ASSUME Runtime = "arch" PROVE Spec => []IadExact
BY Invariance, PTL DEF IInv
=============================================================================
