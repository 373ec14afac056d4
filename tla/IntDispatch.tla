------------------------------ MODULE IntDispatch ------------------------------
(* event_handle_int, the interrupt dispatcher of both runtimes:               *)
(* hexagon-arch-tests/asm/crt0.S ("arch") and crt0_standalone.S               *)
(* ("standalone").  The hardware auto-disables an interrupt when it delivers  *)
(* it (IAD); only the dispatcher's ciad makes it deliverable again.  The two  *)
(* copies differ in where the number handed to ciad comes from.               *)
(*                                                                            *)
(* Handlers touch only mapped pages (the image, and device pages installed in *)
(* fixed TLB entries), so no event rewrites SSR.CAUSE while one runs.  The    *)
(* dispatcher's null-pointer branch is left out: the table starts with        *)
(* .NoHandler in every entry and register_interrupt stores function pointers. *)
(* What a handler computes does not matter here; it may raise interrupts.     *)
EXTENDS Naturals, FiniteSets

CONSTANTS
    Threads,
    Ints,
    Runtime,      \* "arch" or "standalone"
    UsrInt,       \* USR[20:16] of a thread's program: 1 after event_handle_reset
    IMask,        \* interrupts a thread masks (imask, iassignw), set up once
    OtherCauses,  \* what TLB misses and traps leave in SSR.CAUSE
    MaxSwi        \* bound on swi instructions per interrupt

ASSUME RuntimeAssumption == Runtime \in {"arch", "standalone"}
ASSUME IntsAssumption ==
    /\ Ints \subseteq 0 .. 31
    /\ UsrInt \in [Threads -> 0 .. 31]
    /\ IMask \in [Threads -> SUBSET Ints]
    /\ OtherCauses \subseteq 0 .. 255
    /\ MaxSwi \in Nat

(* SSR.CAUSE of interrupt n; the dispatcher's and(ssr, #0x1f).               *)
IntCause(n) == 192 + n
CauseNumber(c) == c % 32

VARIABLES
    ipend, iad,       \* global IPEND and IAD
    ie, ex, cause,    \* SSR fields of a thread
    pc,
    intno,            \* the interrupt a thread has taken
    ciadNum,          \* the number whose bit is in r26
    raised            \* swis so far

vars == <<ipend, iad, ie, ex, cause, pc, intno, ciadNum, raised>>
ssr == <<ie, ex, cause>>

(* Between delivery and the dispatcher's ciad.                              *)
InService(t) == pc[t] \in {"entry", "isr", "ciad"}

TypeOK ==
    /\ ipend \subseteq Ints
    /\ iad \subseteq Ints
    /\ ie \in [Threads -> BOOLEAN]
    /\ ex \in [Threads -> BOOLEAN]
    /\ cause \in [Threads -> 0 .. 255]
    /\ pc \in [Threads -> {"app", "entry", "isr", "ciad", "rte"}]
    /\ intno \in [Threads -> 0 .. 31]
    /\ \A t \in Threads : InService(t) => intno[t] \in Ints
    /\ ciadNum \in [Threads -> 0 .. 31]
    /\ raised \in [Ints -> 0 .. MaxSwi]

(* Past hexagon_start_init: interrupts on, nothing pending.                  *)
Init ==
    /\ ipend = {}
    /\ iad = {}
    /\ ie = [t \in Threads |-> TRUE]
    /\ ex = [t \in Threads |-> FALSE]
    /\ cause \in [Threads -> OtherCauses]
    /\ pc = [t \in Threads |-> "app"]
    /\ intno = [t \in Threads |-> 0]
    /\ ciadNum = [t \in Threads |-> 0]
    /\ raised = [n \in Ints |-> 0]

Goto(t, l) == pc' = [pc EXCEPT ![t] = l]

-----------------------------------------------------------------------------
(* The program.                                                              *)

(* From the program, or from a handler (cascade_handler).                    *)
trigger_swi(t, n) ==
    /\ pc[t] \in {"app", "isr"}
    /\ raised[n] < MaxSwi
    /\ ipend' = ipend \cup {n}
    /\ raised' = [raised EXCEPT ![n] = @ + 1]
    /\ UNCHANGED <<iad, ssr, pc, intno, ciadNum>>

(* write_ssr(ssr & !SSR_IE), and the write that restores it.                 *)
DisableInterrupts(t) ==
    /\ pc[t] = "app" /\ ie[t]
    /\ ie' = [ie EXCEPT ![t] = FALSE]
    /\ UNCHANGED <<ipend, iad, ex, cause, pc, intno, ciadNum, raised>>

EnableInterrupts(t) ==
    /\ pc[t] = "app" /\ ~ie[t]
    /\ ie' = [ie EXCEPT ![t] = TRUE]
    /\ UNCHANGED <<ipend, iad, ex, cause, pc, intno, ciadNum, raised>>

(* cswi and ciad of every interrupt, between the writes that disable and     *)
(* restore SSR.IE.  The tests call it when the other threads have stopped.   *)
clear_all_swi(t) ==
    /\ pc[t] = "app" /\ ~ie[t]
    /\ \A u \in Threads : pc[u] = "app"
    /\ ipend' = {}
    /\ iad' = {}
    /\ UNCHANGED <<ssr, pc, intno, ciadNum, raised>>

(* A TLB miss or a trap of the program: its handler (TlbRefill for a miss)   *)
(* runs with EX set and returns, leaving its own number in SSR.CAUSE.        *)
OtherEvent(t, c) ==
    /\ pc[t] = "app"
    /\ cause' = [cause EXCEPT ![t] = c]
    /\ UNCHANGED <<ipend, iad, ie, ex, pc, intno, ciadNum, raised>>

-----------------------------------------------------------------------------
(* The hardware delivers a pending interrupt to one thread that takes it.    *)
Deliver(t, n) ==
    /\ pc[t] = "app"
    /\ n \in ipend \ iad
    /\ n \notin IMask[t]
    /\ ie[t] /\ ~ex[t]
    /\ ipend' = ipend \ {n}
    /\ iad' = iad \cup {n}
    /\ cause' = [cause EXCEPT ![t] = IntCause(n)]
    /\ ex' = [ex EXCEPT ![t] = TRUE]
    /\ intno' = [intno EXCEPT ![t] = n]
    /\ Goto(t, "entry")
    /\ UNCHANGED <<ie, ciadNum, raised>>

(* Save the context, ssr = (UM, EX, IE cleared), callr IntHandlers[CAUSE].   *)
CallHandler(t) ==
    /\ pc[t] = "entry"
    /\ ie' = [ie EXCEPT ![t] = FALSE]
    /\ ex' = [ex EXCEPT ![t] = FALSE]
    /\ Goto(t, "isr")
    /\ UNCHANGED <<ipend, iad, cause, intno, ciadNum, raised>>

(* The number r26's bit is shifted by.  arch: CAUSE of the ssr read after    *)
(* the handler.  standalone: the upper half of the r7 that is read back from *)
(* the frame, which was saved before intnum was inserted into r7, so it is   *)
(* the program's USR.                                                        *)
CiadNumber(t) == IF Runtime = "arch" THEN CauseNumber(cause[t]) ELSE UsrInt[t]

(* A wrong variant: the number left in r26 by the handler before.            *)
StaleNumber(t) ==
    /\ pc[t] = "isr"
    /\ ie' = [ie EXCEPT ![t] = TRUE]
    /\ ex' = [ex EXCEPT ![t] = TRUE]
    /\ Goto(t, "ciad")
    /\ UNCHANGED <<ipend, iad, cause, intno, ciadNum, raised>>

(* ssr = (EX, IE, not UM), with the mask for ciad ready in r26.              *)
HandlerReturns(t) ==
    /\ pc[t] = "isr"
    /\ ie' = [ie EXCEPT ![t] = TRUE]
    /\ ex' = [ex EXCEPT ![t] = TRUE]
    /\ ciadNum' = [ciadNum EXCEPT ![t] = CiadNumber(t)]
    /\ Goto(t, "ciad")
    /\ UNCHANGED <<ipend, iad, cause, intno, raised>>

(* The wrong variants: forget the ciad; write all of IAD instead of one bit. *)
NoCiad(t) ==
    /\ pc[t] = "ciad"
    /\ Goto(t, "rte")
    /\ UNCHANGED <<ipend, iad, ssr, intno, ciadNum, raised>>

CiadAll(t) ==
    /\ pc[t] = "ciad"
    /\ iad' = {}
    /\ Goto(t, "rte")
    /\ UNCHANGED <<ipend, ssr, intno, ciadNum, raised>>

(* ciad(r26)                                                                 *)
Ciad(t) ==
    /\ pc[t] = "ciad"
    /\ iad' = iad \ {ciadNum[t]}
    /\ Goto(t, "rte")
    /\ UNCHANGED <<ipend, ssr, intno, ciadNum, raised>>

(* Restore the context; rte.                                                 *)
Rte(t) ==
    /\ pc[t] = "rte"
    /\ ex' = [ex EXCEPT ![t] = FALSE]
    /\ Goto(t, "app")
    /\ UNCHANGED <<ipend, iad, ie, cause, intno, ciadNum, raised>>

event_handle_int(t) == CallHandler(t) \/ HandlerReturns(t) \/ Ciad(t) \/ Rte(t)

Program(t) ==
    \/ \E n \in Ints : trigger_swi(t, n)
    \/ DisableInterrupts(t)
    \/ EnableInterrupts(t)
    \/ clear_all_swi(t)
    \/ \E c \in OtherCauses : OtherEvent(t, c)

Next == \E t \in Threads : Program(t) \/ event_handle_int(t) \/ \E n \in Ints : Deliver(t, n)

Spec == Init /\ [][Next]_vars

(* The dispatcher runs on; the program's IE-off sections end; the hardware   *)
(* takes a deliverable interrupt at the next packet boundary.                *)
FairSpec ==
    /\ Spec
    /\ \A t \in Threads :
         /\ WF_vars(event_handle_int(t))
         /\ WF_vars(EnableInterrupts(t))
         /\ \A n \in Ints : SF_vars(Deliver(t, n))

-----------------------------------------------------------------------------
(* Until the dispatcher's ciad, the interrupt it serves is not delivered     *)
(* again: no two threads are in the handler of the same interrupt.           *)
NoConcurrentService ==
    \A t, u \in Threads :
        InService(t) /\ InService(u) /\ intno[t] = intno[u] => t = u

(* IAD holds the interrupts being served and no others: none is left         *)
(* disabled behind a handler that has returned, none is enabled early.       *)
IadExact == iad = {intno[t] : t \in {u \in Threads : InService(u)}}

(* crt0_standalone.S, before ciad: the number it uses is the number of the   *)
(* interrupt ("R7.H is also intnum.. use for ciad").                         *)
CiadUsesIntnum == \A t \in Threads : pc[t] = "ciad" => ciadNum[t] = intno[t]

(* An interrupt some thread takes does not stay pending: swi after swi, it   *)
(* is delivered (or the program clears it).  test_iad_cleared_after_handler  *)
(* relies on it for the second swi.                                          *)
Redelivered ==
    \A n \in Ints : (\E t \in Threads : n \notin IMask[t]) => []<>(n \notin ipend)
=============================================================================
