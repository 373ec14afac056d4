-------------------------------- MODULE QTimers --------------------------------
(* qtimer.c, and qtimer.h with the loop of its user: two periodic timers      *)
(* whose interrupts thread 0 waits for.  The handlers of the two files differ *)
(* in the order in which they rearm a timer and enable its interrupt again,   *)
(* and qtimer.c's handler of timer 2 stays until timer 1 is due once more.    *)
(*                                                                            *)
(* A timer is modelled by the ticks it has left, cval - count.  init_l2vic    *)
(* makes both sources level ones (INT_TYPE = 0).  Their pending bit is set    *)
(* when the timer becomes due and cleared by the delivery, and a line that    *)
(* stays high meanwhile does not set it again: qtimer.c's handler of timer 2  *)
(* counts on that, since it enables IRQ2 and then waits for INT_PENDING to be *)
(* IRQ1's bit alone, long before it rearms timer 2 and so lowers its line.    *)
EXTENDS Integers, FiniteSets, FiniteSetsExt

CONSTANTS
    ticks_per_qtimer1, ticks_per_qtimer2,
    QtTarget        \* main() ends when timer 2 has gone off so often (25, 2)

ASSUME QTimersAssumption ==
    /\ ticks_per_qtimer1 \in Nat \ {0} /\ ticks_per_qtimer2 \in Nat
    /\ ticks_per_qtimer2 > ticks_per_qtimer1
    /\ QtTarget \in Nat \ {0}

Timers == {1, 2}                \* the timers, and their interrupts IRQ1, IRQ2
Period(k) == IF k = 1 THEN ticks_per_qtimer1 ELSE ticks_per_qtimer2

VARIABLES
    qtProg,                     \* whose handler: "qtimer.c" or "qtimer.h"
    qtPc,                       \* main()
    qtLeft,                     \* ticks left; 0 or less: due
    qtEnable, qtPend,           \* L2VIC_INT_ENABLE, L2VIC_INT_PENDING
    qtVid, qtIsr,               \* VID; the handler's next step, "none" outside
    qtimer2_cnt,
    qtRan                       \* has the thread run since the last tick

qtVars == <<qtProg, qtPc, qtLeft, qtEnable, qtPend, qtVid, qtIsr, qtimer2_cnt, qtRan>>

(* enable_core_interrupt, init_l2vic (INT_TYPE: above), init_qtimers(3).     *)
QtInit ==
    /\ qtProg \in {"qtimer.c", "qtimer.h"}
    /\ qtPc = "check"
    /\ qtLeft = [k \in Timers |-> Period(k)]
    /\ qtEnable = Timers /\ qtPend = {}
    /\ qtVid = 1 /\ qtIsr = "none"
    /\ qtimer2_cnt = 0
    /\ qtRan = FALSE

(* The thread sits in wait, or in the handler's loop.                        *)
QtBlocked ==
    \/ qtPc = "waiting" /\ qtIsr = "none" /\ qtPend \cap qtEnable = {}
    \/ qtIsr = "spin" /\ qtPend # {1}

(* A tick; a timer that becomes due latches its interrupt.  A thread that    *)
(* can run does at least a step from tick to tick.                           *)
QtTick ==
    /\ qtPc # "PASS"
    /\ qtRan \/ QtBlocked
    /\ qtRan' = FALSE
    /\ qtLeft' = [k \in Timers |-> qtLeft[k] - 1]
    /\ qtPend' = qtPend \cup {k \in Timers : qtLeft[k] = 1}
    /\ UNCHANGED <<qtProg, qtPc, qtEnable, qtVid, qtIsr, qtimer2_cnt>>

(* while (qtimer2_cnt < ...) asm_wait();                                     *)
QtMain ==
    /\ qtIsr = "none"
    /\ \/ qtPc = "check" /\ qtPc' = IF qtimer2_cnt < QtTarget THEN "wait" ELSE "PASS"
       \/ qtPc = "wait" /\ qtPc' = "waiting"
    /\ UNCHANGED <<qtProg, qtLeft, qtEnable, qtPend, qtVid, qtIsr, qtimer2_cnt>>

(* The first step of intr_handler for an interrupt.                          *)
Entry(k) == IF qtProg = "qtimer.c" THEN "enable" ELSE "rearm"

(* The interrupt is taken, its enable bit cleared; it ends a wait.           *)
QtDeliver ==
    /\ qtIsr = "none" /\ qtPc # "PASS" /\ qtPend \cap qtEnable # {}
    /\ qtVid' = Min(qtPend \cap qtEnable)
    /\ qtPend' = qtPend \ {qtVid'} /\ qtEnable' = qtEnable \ {qtVid'}
    /\ qtIsr' = Entry(qtVid')
    /\ qtPc' = IF qtPc = "waiting" THEN "check" ELSE qtPc
    /\ UNCHANGED <<qtProg, qtLeft, qtimer2_cnt>>

(* What follows in the handler; the wrong variant rearms the timer and does  *)
(* not enable its interrupt again.                                           *)
SkipEnable ==
    CASE qtProg = "qtimer.c" /\ qtIsr = "enable" -> IF qtVid = 2 THEN "spin" ELSE "rearm"
      [] qtIsr = "spin" -> "rearm"
      [] OTHER -> "none"
HandlerNext ==
    CASE qtProg = "qtimer.c" /\ qtIsr = "enable" -> IF qtVid = 2 THEN "spin" ELSE "rearm"
      [] qtIsr = "spin" -> "rearm"
      [] qtProg = "qtimer.h" /\ qtIsr = "rearm" -> "enable"
      [] OTHER -> "none"

(* qtimer2_cnt++, with the last step of timer 2's handler.                   *)
CountQtimer ==
    qtimer2_cnt' = IF qtVid = 2 /\ qtIsr' = "none" THEN qtimer2_cnt + 1 ELSE qtimer2_cnt

update_l2vic ==
    /\ qtIsr = "enable"
    /\ qtEnable' = qtEnable \cup {qtVid}
    /\ qtIsr' = HandlerNext
    /\ CountQtimer
    /\ UNCHANGED <<qtProg, qtPc, qtLeft, qtPend, qtVid>>

(* update_qtimer1, update_qtimer2: cval += ticks.                            *)
update_qtimer ==
    /\ qtIsr = "rearm"
    /\ qtLeft' = [qtLeft EXCEPT ![qtVid] = @ + Period(qtVid)]
    /\ qtPend' = IF qtLeft'[qtVid] <= 0 THEN qtPend \cup {qtVid} ELSE qtPend
    /\ qtIsr' = HandlerNext
    /\ CountQtimer
    /\ UNCHANGED <<qtProg, qtPc, qtEnable, qtVid>>

(* while (1) if (L2VIC_INT_PENDING(IRQ1) == 0x8) break;  exactly IRQ1's bit. *)
SpinForTimer1 ==
    /\ qtIsr = "spin"
    /\ qtPend = {1}
    /\ qtIsr' = HandlerNext
    /\ CountQtimer
    /\ UNCHANGED <<qtProg, qtPc, qtLeft, qtEnable, qtPend, qtVid>>

QtThread ==
    /\ QtMain \/ QtDeliver \/ update_l2vic \/ update_qtimer \/ SpinForTimer1
    /\ qtRan' = TRUE
QtNext == QtThread \/ QtTick
QtSpec == QtInit /\ [][QtNext]_qtVars

QtEnded == qtPc = "PASS"

(* No tick of a timer is lost and no timer falls silent: one that is not     *)
(* running is pending or its handler has yet to rearm it, and one whose      *)
(* interrupt is disabled has a handler that has yet to enable it.            *)
TimersAlive ==
    /\ \A k \in Timers : qtLeft[k] <= 0 =>
         k \in qtPend \/ (qtVid = k /\ qtIsr \in {"enable", "spin", "rearm"})
    /\ \A k \in Timers \ qtEnable : qtVid = k /\ qtIsr \in {"enable", "rearm"}
=============================================================================
