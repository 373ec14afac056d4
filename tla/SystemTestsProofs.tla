--------------------------- MODULE SystemTestsProofs ---------------------------
(* The programs of SystemTests, each proved by itself and then in the         *)
(* composition, whose other programs leave its variables alone: the timer     *)
(* handlers of qtimer.c and qtimer.h, for any two periods and any number of   *)
(* rounds; the in-memory files of util.c, for any number of descriptors, any  *)
(* width of int, buffer sizes and arguments; the L2VIC tests, for any number  *)
(* of interrupts; the bad address test; the cycle counter test, for any width *)
(* of a word and any count it starts from; the scatter and gather test, for   *)
(* any even size of the matrix; and the MMU tests, for any pages of `data'    *)
(* and of func_return_pc in the first megabyte and any size of the TLB.       *)
EXTENDS SystemTests, WellFoundedInduction, FiniteSetTheorems, TLAPS

-----------------------------------------------------------------------------
(* qtimer.c and qtimer.h.                                                    *)

QtTypeOK ==
    /\ qtProg \in {"qtimer.c", "qtimer.h"}
    /\ qtPc \in {"check", "wait", "waiting", "PASS"}
    /\ qtLeft \in [Timers -> Int]
    /\ qtEnable \in SUBSET Timers /\ qtPend \in SUBSET Timers
    /\ qtVid \in Timers
    /\ qtIsr \in {"none", "enable", "spin", "rearm"}
    /\ qtimer2_cnt \in Nat

(* The order of a handler's steps.  qtimer.h rearms first, so a timer that   *)
(* is due again before the enable is pending by then; qtimer.c enables       *)
(* first, so nothing is disabled when it spins or rearms.                    *)
HandlerOrder ==
    /\ qtProg = "qtimer.h" /\ qtIsr = "enable" /\ qtLeft[qtVid] <= 0 => qtVid \in qtPend
    /\ qtProg = "qtimer.c" /\ qtIsr \in {"spin", "rearm"} => qtEnable = Timers
    /\ qtIsr = "spin" => qtProg = "qtimer.c"

QtInv == QtTypeOK /\ TimersAlive /\ HandlerOrder

LEMMA PeriodPositive == \A k \in Timers : Period(k) \in Nat \ {0}
BY QTimersAssumption DEF Period, Timers

LEMMA QtInitInv == QtInit => QtInv
BY PeriodPositive DEF QtInit, QtInv, QtTypeOK, TimersAlive, HandlerOrder, Timers

LEMMA MinInSet == ASSUME NEW S \in SUBSET Timers, S # {} PROVE Min(S) \in S
<1>1. \E x \in S : \A y \in S : x <= y
  <2>1. CASE 1 \in S
    BY <2>1 DEF Timers
  <2>2. CASE S = {2}
    BY <2>2
  <2> QED
    BY <2>1, <2>2 DEF Timers
<1> QED
  BY <1>1 DEF Min

LEMMA CountType ==
  ASSUME QtTypeOK, CountQtimer
  PROVE  qtimer2_cnt' \in Nat
BY DEF QtTypeOK, CountQtimer

LEMMA DeliverStep == ASSUME QtInv, QtDeliver PROVE QtInv'
<1> USE DEF QtInv, QtTypeOK, TimersAlive, HandlerOrder
<1> DEFINE S == qtPend \cap qtEnable
<1>1. qtVid' \in S
  BY MinInSet DEF QtDeliver
<1> HIDE DEF S
<1>2. /\ qtIsr = "none" /\ UNCHANGED <<qtProg, qtLeft, qtimer2_cnt>>
      /\ qtPend' = qtPend \ {qtVid'} /\ qtEnable' = qtEnable \ {qtVid'}
      /\ qtIsr' = IF qtProg = "qtimer.c" THEN "enable" ELSE "rearm"
      /\ qtPc' \in {"check", "wait", "waiting", "PASS"}
  BY DEF QtDeliver, Entry
<1>3. qtVid' \in Timers
  BY <1>1 DEF S
<1> QED
  BY <1>1, <1>2, <1>3

LEMMA EnableStep == ASSUME QtInv, update_l2vic PROVE QtInv'
<1> USE DEF QtInv, QtTypeOK, TimersAlive, HandlerOrder
<1>1. /\ qtIsr = "enable" /\ UNCHANGED <<qtProg, qtPc, qtLeft, qtPend, qtVid>>
      /\ qtEnable' = qtEnable \cup {qtVid}
  BY DEF update_l2vic
<1>2. qtIsr' = IF qtProg = "qtimer.h" THEN "none" ELSE IF qtVid = 2 THEN "spin" ELSE "rearm"
  BY DEF update_l2vic, HandlerNext
<1>3. qtimer2_cnt' \in Nat
  BY CountType DEF update_l2vic
<1>4. qtEnable' = Timers
  BY <1>1
<1> QED
  BY <1>1, <1>2, <1>3, <1>4

LEMMA RearmStep == ASSUME QtInv, update_qtimer PROVE QtInv'
<1> USE DEF QtInv, QtTypeOK, TimersAlive, HandlerOrder
<1>1. /\ qtIsr = "rearm" /\ UNCHANGED <<qtProg, qtPc, qtEnable, qtVid>>
      /\ qtLeft' = [qtLeft EXCEPT ![qtVid] = @ + Period(qtVid)]
      /\ qtPend' = IF qtLeft'[qtVid] <= 0 THEN qtPend \cup {qtVid} ELSE qtPend
  BY DEF update_qtimer
<1>2. qtIsr' = IF qtProg = "qtimer.h" THEN "enable" ELSE "none"
  BY DEF update_qtimer, HandlerNext
<1>3. qtimer2_cnt' \in Nat
  BY CountType DEF update_qtimer
<1>4. qtLeft' \in [Timers -> Int] /\ \A k \in Timers \ {qtVid} : qtLeft'[k] = qtLeft[k]
  BY <1>1, PeriodPositive
<1> QED
  BY <1>1, <1>2, <1>3, <1>4

LEMMA SpinStep == ASSUME QtInv, SpinForTimer1 PROVE QtInv'
<1> USE DEF QtInv, QtTypeOK, TimersAlive, HandlerOrder
<1>1. /\ qtIsr = "spin" /\ UNCHANGED <<qtProg, qtPc, qtLeft, qtEnable, qtPend, qtVid>>
      /\ qtIsr' = "rearm"
  BY DEF SpinForTimer1, HandlerNext
<1>2. qtimer2_cnt' \in Nat
  BY CountType DEF SpinForTimer1
<1> QED
  BY <1>1, <1>2

LEMMA TickStep == ASSUME QtInv, QtTick PROVE QtInv'
<1> USE DEF QtInv, QtTypeOK, TimersAlive, HandlerOrder
<1>1. /\ UNCHANGED <<qtProg, qtPc, qtEnable, qtVid, qtIsr, qtimer2_cnt>>
      /\ qtLeft' = [k \in Timers |-> qtLeft[k] - 1]
      /\ qtPend' = qtPend \cup {k \in Timers : qtLeft[k] = 1}
  BY DEF QtTick
<1>2. \A k \in Timers : qtLeft'[k] <= 0 => qtLeft[k] <= 0 \/ k \in qtPend'
  BY <1>1
<1>3. QtTypeOK'
  BY <1>1
<1> QED
  BY <1>1, <1>2, <1>3

LEMMA QtStepInv == QtInv /\ [QtNext]_qtVars => QtInv'
<1> SUFFICES ASSUME QtInv, [QtNext]_qtVars PROVE QtInv'
  OBVIOUS
<1>1. CASE QtMain
  BY <1>1 DEF QtMain, QtInv, QtTypeOK, TimersAlive, HandlerOrder
<1>2. CASE UNCHANGED qtVars
  BY <1>2 DEF qtVars, QtInv, QtTypeOK, TimersAlive, HandlerOrder
<1> QED
  BY <1>1, <1>2, DeliverStep, EnableStep, RearmStep, SpinStep, TickStep DEF QtNext, QtThread

(* Neither timer is ever silent: one that is not running is pending or has a *)
(* handler that will rearm it, and a disabled interrupt one that will enable *)
(* it, for every pair of periods.                                            *)
THEOREM TimersNeverSilent == QtSpec => []TimersAlive
<1>1. QtInv => TimersAlive
  BY DEF QtInv
<1> QED
  BY QtInitInv, QtStepInv, <1>1, PTL DEF QtSpec

-----------------------------------------------------------------------------
(* util.c.                                                                   *)

MfInv == MfTypeOK /\ FilesInBuffers

LEMMA LeastRemainder ==
  ASSUME NEW x \in Int, NEW m \in Nat, m > 0
  PROVE  /\ x % m \in 0 .. m - 1
         /\ 0 <= x /\ x < m => x % m = x
         /\ m <= x /\ x < 2 * m => x % m = x - m
<1>1. x % m \in 0 .. m - 1
  OBVIOUS
<1>2. x \div m \in Int /\ x = m * (x \div m) + (x % m)
  OBVIOUS
<1> DEFINE q == x \div m
           r == x % m
<1>3. q \in Int /\ r \in Int /\ 0 <= r /\ r < m /\ x = m * q + r
  BY <1>1, <1>2
<1> HIDE DEF q, r
<1>4. q <= -1 => m * q <= -m
  BY <1>3
<1>5. q = 0 => m * q = 0
  BY <1>3
<1>6. q = 1 => m * q = m
  BY <1>3
<1>7. q >= 2 => m * q >= 2 * m
  BY <1>3
<1>8. m * q \in Int
  BY <1>3
<1>9. 0 <= x /\ x < m => r = x
  BY <1>3, <1>4, <1>5, <1>6, <1>7, <1>8
<1>10. m <= x /\ x < 2 * m => r = x - m
  BY <1>3, <1>4, <1>5, <1>6, <1>7, <1>8
<1> QED
  BY <1>1, <1>9, <1>10 DEF r

(* An int is itself, everything is some int, and a sum of two ints that is   *)
(* too large becomes negative.                                               *)
LEMMA Wrapping ==
  ASSUME NEW n \in Int
  PROVE  /\ Int32(n) \in -(INT_MAX + 1) .. INT_MAX
         /\ -(INT_MAX + 1) <= n /\ n <= INT_MAX => Int32(n) = n
         /\ INT_MAX < n /\ n <= 2 * INT_MAX => Int32(n) < 0
<1> DEFINE m == 2 * (INT_MAX + 1)
           x == n + INT_MAX + 1
<1>1. INT_MAX \in Nat /\ m \in Nat /\ m > 0 /\ x \in Int
  BY MemFileAssumption
<1>2. /\ x % m \in 0 .. m - 1
      /\ 0 <= x /\ x < m => x % m = x
      /\ m <= x /\ x < 2 * m => x % m = x - m
  <2> HIDE DEF m, x
  <2> QED
    BY <1>1, LeastRemainder
<1> DEFINE r == x % m
<1>3. Int32(n) = r - (INT_MAX + 1)
  BY DEF Int32
<1>4. /\ r \in 0 .. m - 1
      /\ 0 <= x /\ x < m => r = x
      /\ m <= x /\ x < 2 * m => r = x - m
  BY <1>2
<1> HIDE DEF r
<1> QED
  BY <1>1, <1>3, <1>4

LEMMA MfInitInv == MfInit => MfInv
<1> SUFFICES ASSUME MfInit PROVE MfInv
  OBVIOUS
<1>1. 0 \in 0 .. INT_MAX
  BY MemFileAssumption
<1>2. overrun \in BOOLEAN /\ tooLong \in BOOLEAN /\ ~ overrun
  BY Zenon DEF MfInit
<1> QED
  BY <1>1, <1>2 DEF MfInit, MfInv, MfTypeOK, FilesInBuffers

LEMMA OpenStep ==
  ASSUME MfInv, ~ overrun, NEW max \in Sizes, NEW m \in Modes, fmemopen_mem(max, m)
  PROVE  MfInv'
<1> USE MemFileAssumption DEF MfInv, MfTypeOK, FilesInBuffers
<1>1. PICK d \in Desc :
        /\ ~ is_open[d]
        /\ is_open' = [is_open EXCEPT ![d] = TRUE]
        /\ fmode' = [fmode EXCEPT ![d] = ModeOf(m)]
        /\ buf_maxsize' = [buf_maxsize EXCEPT ![d] = max]
        /\ crnt_filesize' = [crnt_filesize EXCEPT ![d] = SizeOf(m, max, crnt_filesize[d])]
        /\ pos' = [pos EXCEPT ![d] = 0]
        /\ UNCHANGED <<overrun, tooLong>>
  BY DEF fmemopen_mem, find_free, mfMemory
<1>2. ModeOf(m) \in SUBSET {"READ_OK", "WRITE_OK"}
  BY DEF ModeOf, Modes
<1>3. crnt_filesize[d] = 0 /\ max \in 0 .. INT_MAX
  BY <1>1
<1> DEFINE size == SizeOf(m, max, crnt_filesize[d])
<1>4. size \in Int /\ 0 <= size /\ size <= max
  <2>1. m \in {"r", "r+"} => size = max
    BY Zenon DEF SizeOf
  <2>2. m \in {"w", "w+"} => size = 0
    BY DEF SizeOf
  <2>3. m \in {"+", ""} => size = crnt_filesize[d]
    BY DEF SizeOf
  <2>4. size \in {max, 0}
    BY <1>3, <2>1, <2>2, <2>3 DEF Modes
  <2> HIDE DEF size
  <2> QED
    BY <1>3, <2>4
<1> HIDE DEF size
<1>5. crnt_filesize' = [crnt_filesize EXCEPT ![d] = size]
  BY <1>1 DEF size
<1>6. MfTypeOK'
  BY <1>1, <1>2, <1>3, <1>4, <1>5
<1> QED
  BY <1>1, <1>3, <1>4, <1>5, <1>6

(* A transfer that starts inside its bound ends inside it, or goes past the  *)
(* buffer because its end is beyond INT_MAX.                                 *)
LEMMA XferBounded ==
  ASSUME MfInv, NEW f \in Desc, NEW bytes \in -(INT_MAX + 1) .. INT_MAX,
         NEW checkmax \in Int, 0 <= pos[f], pos[f] <= checkmax, checkmax <= buf_maxsize[f],
         do_xfer(f, bytes, checkmax)
  PROVE  \E end \in Int :
           /\ pos' = [pos EXCEPT ![f] = end]
           /\ overrun' \in BOOLEAN /\ tooLong' \in BOOLEAN
           /\ overrun' => tooLong'
           /\ ~ overrun' => pos[f] <= end /\ end <= checkmax
<1> DEFINE at == pos[f]
           size == buf_maxsize[f]
<1>1. /\ INT_MAX \in Nat /\ at \in Int /\ size \in Int
      /\ 0 <= at /\ at <= checkmax /\ checkmax <= size /\ size <= INT_MAX
  BY MemFileAssumption DEF MfInv, MfTypeOK
<1>2. PICK sum \in {at + bytes, Int32(at + bytes)} :
        LET n == Clamped(at, bytes, sum, checkmax)
        IN /\ pos' = [pos EXCEPT ![f] = Int32(at + n)]
           /\ overrun' = (at + n > size)
           /\ tooLong' = (at + bytes > INT_MAX)
  BY DEF do_xfer
<1> DEFINE n == Clamped(at, bytes, sum, checkmax)
           end == Int32(at + n)
<1>3. /\ pos' = [pos EXCEPT ![f] = end]
      /\ overrun' = (at + n > size)
      /\ tooLong' = (at + bytes > INT_MAX)
  BY <1>2
<1> HIDE DEF at, size
<1>4. /\ at + bytes \in Int
      /\ at + bytes <= INT_MAX => sum = at + bytes
      /\ at + bytes > INT_MAX => sum = at + bytes \/ sum < 0
      /\ sum \in Int
  BY <1>1, <1>2, Wrapping
<1>5. /\ n \in Int /\ 0 <= n
      /\ sum = at + bytes => at + n <= checkmax
  BY <1>1, <1>4 DEF Clamped
<1>6. at + bytes > INT_MAX \/ sum = at + bytes
  BY <1>1, <1>4
<1>7. sum < 0 => n = IF bytes > 0 THEN bytes ELSE 0
  BY <1>1, <1>4 DEF Clamped
<1> HIDE DEF n
<1>8. at + n \in Int /\ end \in Int
  BY <1>1, <1>5, Wrapping
<1>9. at + n <= size => end = at + n
  BY <1>1, <1>5, <1>8, Wrapping
<1> HIDE DEF end
<1>10. at + n <= size => at + n <= checkmax
  <2>1. CASE sum = at + bytes
    BY <2>1, <1>5
  <2>2. CASE at + bytes > INT_MAX /\ sum < 0
    BY <2>2, <1>1, <1>5, <1>7
  <2> QED
    BY <2>1, <2>2, <1>1, <1>4, <1>6
<1>11. at + n > size => at + bytes > INT_MAX
  BY <1>1, <1>5, <1>6
<1>12. /\ overrun' \in BOOLEAN /\ tooLong' \in BOOLEAN
       /\ overrun' => tooLong'
       /\ overrun' <=> at + n > size
  <2>1. (at + n > size) \in BOOLEAN /\ (at + bytes > INT_MAX) \in BOOLEAN
    BY <1>1, <1>5
  <2> QED
    BY <1>3, <1>11, <2>1, Zenon
<1>13. ~ overrun' => at <= end /\ end <= checkmax
  <2>1. ~ (at + n > size) => at <= end /\ end <= checkmax
    BY <1>1, <1>5, <1>8, <1>9, <1>10
  <2> QED
    BY <1>12, <2>1, Zenon
<1> QED
  BY <1>3, <1>8, <1>12, <1>13 DEF at

LEMMA FileStep ==
  ASSUME MfInv, ~ overrun, NEW f \in Desc,
         \/ fclose_mem(f) \/ fgetc_mem(f) \/ frewind_mem(f)
         \/ \E max, nmemb \in Args : fread_mem(f, max, nmemb) \/ fwrite_mem(f, max, nmemb)
  PROVE  MfInv'
<1> USE MemFileAssumption DEF MfInv, MfTypeOK, FilesInBuffers, mfMemory
<1>1. CASE fclose_mem(f)
  BY <1>1 DEF fclose_mem
<1>2. CASE fgetc_mem(f)
  BY <1>2 DEF fgetc_mem
<1>3. CASE frewind_mem(f)
  BY <1>3 DEF frewind_mem
<1>4. ASSUME NEW max \in Args, NEW nmemb \in Args PROVE Int32(max * nmemb) \in -(INT_MAX + 1) .. INT_MAX
  <2>1. max * nmemb \in Int
    OBVIOUS
  <2> QED
    BY <2>1, Wrapping
<1>5. /\ pos[f] \in Int /\ crnt_filesize[f] \in Int /\ buf_maxsize[f] \in Int
      /\ 0 <= pos[f] /\ pos[f] <= crnt_filesize[f] /\ crnt_filesize[f] <= buf_maxsize[f]
      /\ pos[f] <= buf_maxsize[f] /\ buf_maxsize[f] <= buf_maxsize[f]
  OBVIOUS
<1>6. ASSUME NEW max \in Args, NEW nmemb \in Args, fread_mem(f, max, nmemb) PROVE MfInv'
  <2>1. /\ do_xfer(f, Int32(max * nmemb), crnt_filesize[f])
        /\ is_open[f] /\ UNCHANGED <<is_open, fmode, buf_maxsize, crnt_filesize>>
    BY <1>6 DEF fread_mem
  <2>2. PICK end \in Int :
           /\ pos' = [pos EXCEPT ![f] = end]
           /\ overrun' \in BOOLEAN /\ tooLong' \in BOOLEAN
           /\ overrun' => tooLong'
           /\ ~ overrun' => pos[f] <= end /\ end <= crnt_filesize[f]
    BY <1>4, <1>5, <2>1, XferBounded
  <2> QED
    BY <1>5, <2>1, <2>2
<1>7. ASSUME NEW max \in Args, NEW nmemb \in Args, fwrite_mem(f, max, nmemb) PROVE MfInv'
  <2>1. /\ do_xfer(f, Int32(max * nmemb), buf_maxsize[f])
        /\ crnt_filesize' = [crnt_filesize EXCEPT ![f] = IF pos'[f] > @ THEN pos'[f] ELSE @]
        /\ is_open[f] /\ UNCHANGED <<is_open, fmode, buf_maxsize>>
    BY <1>7 DEF fwrite_mem
  <2>2. PICK end \in Int :
           /\ pos' = [pos EXCEPT ![f] = end]
           /\ overrun' \in BOOLEAN /\ tooLong' \in BOOLEAN
           /\ overrun' => tooLong'
           /\ ~ overrun' => pos[f] <= end /\ end <= buf_maxsize[f]
    BY <1>4, <1>5, <2>1, XferBounded
  <2>3. pos'[f] = end
    BY <2>2
  <2> QED
    BY <1>5, <2>1, <2>2, <2>3
<1> QED
  BY <1>1, <1>2, <1>3, <1>6, <1>7

LEMMA MfStepInv == MfInv /\ [MfNext]_mfVars => MfInv'
<1> SUFFICES ASSUME MfInv, [MfNext]_mfVars PROVE MfInv'
  OBVIOUS
<1>1. CASE UNCHANGED mfVars
  BY <1>1 DEF mfVars, mfMemory, MfInv, MfTypeOK, FilesInBuffers
<1>2. CASE MfNext
  BY <1>2, OpenStep, FileStep DEF MfNext
<1> QED
  BY <1>1, <1>2

(* The descriptors keep their types, and every position stays in its file    *)
(* and every file in its buffer, whatever is opened, written and closed and  *)
(* for every width of int, every size and all arguments; a transfer goes     *)
(* past its buffer only if its end is beyond INT_MAX, so that the sum in     *)
(* do_xfer may wrap.                                                         *)
THEOREM FilesStayInBuffers == MfSpec => [](MfTypeOK /\ FilesInBuffers)
<1>1. MfInv <=> MfTypeOK /\ FilesInBuffers
  BY DEF MfInv
<1> QED
  BY MfInitInv, MfStepInv, <1>1, PTL DEF MfSpec

-----------------------------------------------------------------------------
(* The L2VIC tests.                                                         *)

(* A program has set up the sources below lvIrq, or all of them.             *)
Below == 1 .. lvIrq - 1

(* Nothing is pending and no handler runs.                                   *)
Quiet == pending = {} /\ lvIsr = "none" /\ pass = 0

(* Sources that main() has triggered; the one a handler has taken.           *)
Triggered == IF lvPc = "trigger" THEN Below ELSE IF lvPc \in {"wait", "PASS"} THEN Irqs ELSE {}
Handled(i) == lvIsr # "none" /\ vid = i
Last == INTMAX - 1

LvTypeOK ==
    /\ lvProg \in L2vicPrograms
    /\ lvPc \in {"setup", "untriggered", "trigger", "wait", "end", "readback", "clear", "leftset", "fast", "PASS"}
    /\ lvIrq \in Nat
    /\ lvIsr \in {"none", "enable", "log"}
    /\ pending \subseteq Irqs
    /\ pass \in Nat

(* The setup loop, in the four programs that have one.                       *)
SetupPart == lvPc = "setup" => lvIrq \in Irqs /\ Quiet /\ enable = Below
Enabled == enable = IF lvIsr = "enable" THEN Irqs \ {vid} ELSE Irqs

(* pendalot.c: a source that was triggered is pending, taken or logged, and  *)
(* the last one is taken when every other one is logged.                     *)
Account(i) ==
    /\ i \notin Triggered => i \notin pending /\ irqlog[i] = 0 /\ ~ Handled(i)
    /\ i \in Triggered =>
         \/ i \in pending /\ irqlog[i] = 0 /\ ~ Handled(i)
         \/ i \notin pending /\ irqlog[i] = 0 /\ Handled(i)
         \/ i \notin pending /\ irqlog[i] = 1 /\ ~ Handled(i)
PendalotInv ==
    /\ lvPc \in {"setup", "untriggered", "trigger", "wait", "PASS"}
    /\ lvPc = "untriggered" => lvIrq = 1
    /\ lvPc = "trigger" => lvIrq \in Irqs
    /\ edge = IF lvPc = "setup" THEN Below ELSE Irqs
    /\ lvPc # "setup" => Enabled
    /\ lvPc \in {"setup", "untriggered"} => Quiet
    /\ lvIsr # "none" => vid \in Irqs
    /\ irqlog \in [0 .. INTMAX -> Nat] /\ irqlog[0] = 0 /\ irqlog[INTMAX] = 0
    /\ \A i \in Irqs : Account(i)
    /\ pass # 0 => irqlog[Last] = 1
    /\ Handled(Last) \/ irqlog[Last] = 1 => \A i \in Irqs \ {Last} : irqlog[i] = 1

(* fastint.c: between a trigger and the end of its wait there is one source, *)
(* and g_irq names it once pass is set.                                      *)
FastintInv ==
    /\ lvPc \in {"setup", "trigger", "wait", "PASS"}
    /\ lvPc \in {"trigger", "wait"} => lvIrq \in Irqs
    /\ edge = IF lvPc = "setup" THEN Below ELSE Irqs
    /\ lvPc # "setup" => Enabled
    /\ lvPc \in {"trigger", "PASS"} => Quiet
    /\ lvPc = "wait" =>
         \/ pending = {lvIrq} /\ lvIsr = "none" /\ pass = 0
         \/ pending = {} /\ lvIsr = "enable" /\ vid = lvIrq /\ pass = 0
         \/ pending = {} /\ lvIsr = "log" /\ vid = lvIrq /\ g_irq = lvIrq /\ pass = 0
         \/ pending = {} /\ lvIsr = "none" /\ g_irq = lvIrq /\ pass = 1

LevelintInv ==
    /\ lvPc \in {"setup", "trigger", "end", "PASS"}
    /\ lvPc = "trigger" => lvIrq \in Irqs
    /\ edge = {} /\ Quiet

(* int_range.c: the clear loop leaves the sources not reached yet and the    *)
(* multiples of LEFT_SET.                                                    *)
IntRangeInv ==
    /\ lvPc \in {"setup", "readback", "clear", "leftset", "PASS"}
    /\ lvPc \in {"readback", "clear"} => lvIrq \in Irqs
    /\ Quiet
    /\ lvPc = "readback" => enable = Irqs
    /\ ~ lvClearReads =>
         /\ lvPc = "clear" => enable = {i \in Irqs : i >= lvIrq \/ i % LEFT_SET = 0}
         /\ lvPc = "leftset" => enable = {LEFT_SET}

FastL2vicInv ==
    /\ lvPc \in {"fast", "PASS"}
    /\ Quiet
    /\ lvPc = "fast" => lvIrq \in 1 .. 6 /\ enable = IF lvIrq = 1 THEN {} ELSE FastWrites[lvIrq - 1][3]

LvInv ==
    /\ LvTypeOK /\ SetupPart /\ LvPasses
    /\ lvProg = "pendalot" => PendalotInv
    /\ lvProg = "fastint" => FastintInv
    /\ lvProg = "levelint" => LevelintInv
    /\ lvProg = "int_range" => IntRangeInv
    /\ lvProg = "fastl2vic" => FastL2vicInv

(* The delivered source is the lowest one.                                   *)
LEMMA LowestSource ==
  ASSUME NEW S \in SUBSET Nat, S # {}
  PROVE  Min(S) \in S /\ \A y \in S : Min(S) <= y
<1> DEFINE R == OpToRel(<, Nat)
<1>1. \A x, y \in Nat : x < y => <<x, y>> \in R
  BY Zenon DEF OpToRel
<1>2. IsWellFoundedOn(R, Nat)
  BY NatLessThanWellFounded
<1> HIDE DEF R
<1>3. PICK x \in S : \A y \in S : ~ (<<y, x>> \in R)
  BY <1>2, WFMin
<1>4. ASSUME NEW y \in S PROVE x <= y
  <2>1. x \in Nat /\ y \in Nat
    OBVIOUS
  <2>2. ~ (y < x)
    BY <1>1, <1>3, <2>1, Zenon
  <2> QED
    BY <2>1, <2>2
<1> QED
  BY <1>4 DEF Min

LEMMA Sources == INTMAX \in Nat /\ Irqs \subseteq Nat /\ Irqs \subseteq 0 .. INTMAX /\ 0 \notin Irqs /\ INTMAX \notin Irqs
               /\ Last \in Irqs /\ 1 \in Irqs /\ LEFT_SET \in Irqs
BY L2vicAssumption DEF Irqs, Last

LEMMA LvInitInv == LvInit => LvInv
<1> SUFFICES ASSUME LvInit PROVE LvInv
  OBVIOUS
<1> USE Sources DEF LvInit
<1>1. LvTypeOK /\ SetupPart /\ LvPasses
  BY DEF LvTypeOK, SetupPart, LvPasses, Quiet, Below, L2vicPrograms
<1>2. lvProg = "pendalot" => PendalotInv
  BY DEF PendalotInv, Account, Handled, Triggered, Below, Quiet
<1>3. lvProg = "fastint" => FastintInv
  BY DEF FastintInv, Below
<1>4. lvProg = "levelint" => LevelintInv
  BY DEF LevelintInv, Quiet
<1>5. lvProg = "int_range" => IntRangeInv
  BY DEF IntRangeInv, Quiet
<1>6. lvProg = "fastl2vic" => FastL2vicInv
  BY DEF FastL2vicInv, Quiet
<1> QED
  BY <1>1, <1>2, <1>3, <1>4, <1>5, <1>6 DEF LvInv

LEMMA FastL2vicStep == ASSUME LvInv, LvNext, lvProg = "fastl2vic" PROVE LvInv'
<1>1. FastWrite
  BY DEF LvNext, LvInv, FastL2vicInv, Quiet, SetupIrq, CheckUntriggered, Trigger, WaitOne, WaitLast, CheckNone,
         ReadBack, ClearIrq, CheckLeftSet, DeliverVid, NextSource, Deliverable, HandlerEnable, HandlerLog, LvAt
<1>2. lvIrq \in 1 .. 6 /\ lvPc = "fast" /\ UNCHANGED <<lvProg, lvClearReads, edge, pending, lvIsrVars>>
  BY <1>1 DEF FastWrite, LvAt, LvInv, FastL2vicInv
<1>3. enable' = FastWrites[lvIrq][3]
  <2>1. /\ enable = IF lvIrq = 1 THEN {} ELSE FastWrites[lvIrq - 1][3]
        /\ enable' = IF FastWrites[lvIrq][1] = "set" THEN enable \cup {FastWrites[lvIrq][2]}
                      ELSE enable \ {FastWrites[lvIrq][2]}
    BY <1>1, <1>2 DEF FastWrite, LvInv, FastL2vicInv
  <2>2. CASE lvIrq = 1
    BY <2>1, <2>2 DEF FastWrites
  <2>3. CASE lvIrq = 2
    BY <2>1, <2>3 DEF FastWrites
  <2>4. CASE lvIrq = 3
    BY <2>1, <2>4 DEF FastWrites
  <2>5. CASE lvIrq = 4
    BY <2>1, <2>5 DEF FastWrites
  <2>6. CASE lvIrq = 5
    BY <2>1, <2>6 DEF FastWrites
  <2>7. CASE lvIrq = 6
    BY <2>1, <2>7 DEF FastWrites
  <2> QED
    BY <1>2, <2>2, <2>3, <2>4, <2>5, <2>6, <2>7
<1>4. ~ lvFail'
  BY <1>1, <1>3 DEF FastWrite, LvCheck, LvInv, LvPasses
<1>5. IF lvIrq = 6 THEN lvPc' = "PASS" /\ lvIrq' = lvIrq ELSE lvIrq' = lvIrq + 1 /\ lvPc' = lvPc
  BY <1>1 DEF FastWrite, FastWrites
<1>6. FastL2vicInv'
  BY <1>2, <1>3, <1>5 DEF FastL2vicInv, LvInv, Quiet, lvIsrVars
<1> QED
  BY <1>2, <1>4, <1>5, <1>6 DEF LvInv, LvTypeOK, SetupPart, LvPasses, lvIsrVars

LEMMA LevelintStep == ASSUME LvInv, LvNext, lvProg = "levelint" PROVE LvInv'
<1> USE DEF LvInv, LevelintInv, Quiet
<1>1. SetupIrq \/ Trigger \/ CheckNone
  BY DEF LvNext, FastWrite, CheckUntriggered, WaitOne, WaitLast,
         ReadBack, ClearIrq, CheckLeftSet, DeliverVid, NextSource, Deliverable, HandlerEnable, HandlerLog, LvAt
<1>2. UNCHANGED <<lvProg, pending, pass, lvIsr, edge>> /\ ~ lvFail'
  <2>1. CASE SetupIrq
    BY <2>1 DEF SetupIrq, LvCheck, LvPasses, lvIsrVars
  <2>2. CASE Trigger
    BY <2>2 DEF Trigger, Latch, lvIsrVars, LvPasses
  <2>3. CASE CheckNone
    BY <2>3 DEF CheckNone, LvCheck, LvPasses, lvDevice, lvIsrVars
  <2> QED
    BY <1>1, <2>1, <2>2, <2>3
<1>3. SetupPart' /\ lvPc' \in {"setup", "trigger", "end", "PASS"} /\ (lvPc' = "trigger" => lvIrq' \in Irqs) /\ lvIrq' \in Nat
  <2>1. CASE SetupIrq
    BY <2>1, <1>2, Sources DEF SetupIrq, LvAt, LvLoop, SetupPart, Below, Irqs
  <2>2. CASE Trigger
    BY <2>2, <1>2, Sources DEF Trigger, LvAt, LvLoop, SetupPart, LvTypeOK, Irqs
  <2>3. CASE CheckNone
    BY <2>3, <1>2 DEF CheckNone, SetupPart, LvTypeOK
  <2> QED
    BY <1>1, <2>1, <2>2, <2>3
<1> QED
  BY <1>2, <1>3 DEF LvTypeOK, LvPasses

LEMMA IntRangeStep == ASSUME LvInv, LvNext, lvProg = "int_range" PROVE LvInv'
<1> USE DEF LvInv, IntRangeInv, Quiet
<1>1. SetupIrq \/ ReadBack \/ ClearIrq \/ CheckLeftSet
  BY DEF LvNext, FastWrite, CheckUntriggered, WaitOne, WaitLast,
         CheckNone, Trigger, DeliverVid, NextSource, Deliverable, HandlerEnable, HandlerLog, LvAt
<1>2. UNCHANGED <<lvProg, lvClearReads, pending, pass, lvIsr>>
  BY <1>1 DEF SetupIrq, ReadBack, ClearIrq, CheckLeftSet, lvIsrVars, lvDevice
<1>3. LvPasses'
  <2>1. CASE SetupIrq
    BY <2>1 DEF SetupIrq, LvCheck, LvPasses
  <2>2. CASE ReadBack
    BY <2>2 DEF ReadBack, LvAt, LvCheck, LvPasses
  <2>3. CASE ClearIrq
    BY <2>3 DEF ClearIrq, LvPasses
  <2>4. CASE CheckLeftSet
    BY <2>4 DEF CheckLeftSet, LvAt, LvCheck, LvPasses
  <2> QED
    BY <1>1, <2>1, <2>2, <2>3, <2>4
<1>4. SetupPart' /\ IntRangeInv' /\ lvIrq' \in Nat
  <2>1. CASE SetupIrq
    BY <2>1, <1>2, Sources DEF SetupIrq, LvAt, LvLoop, SetupPart, Below, Irqs
  <2>2. CASE ReadBack
    <3>1. lvPc' = "clear" => enable' = {i \in Irqs : i >= lvIrq' \/ i % LEFT_SET = 0}
      BY <2>2, Sources DEF ReadBack, LvAt, LvLoop, lvDevice, Irqs
    <3> QED
      BY <3>1, <2>2, <1>2, Sources DEF ReadBack, LvAt, LvLoop, SetupPart, Irqs, lvDevice, LvTypeOK
  <2>3. CASE ClearIrq
    <3>1. ~ lvClearReads => enable' = {i \in Irqs : i >= lvIrq + 1 \/ i % LEFT_SET = 0}
      BY <2>3, Sources DEF ClearIrq, LvAt, Irqs
    <3>2. \A i \in Irqs : i % LEFT_SET = 0 <=> i = LEFT_SET
      <4> SUFFICES ASSUME NEW i \in 1 .. INTMAX - 1 PROVE i % LEFT_SET = 0 <=> i = LEFT_SET
        BY DEF Irqs
      <4>1. LEFT_SET \in Nat /\ LEFT_SET > 0 /\ i < 2 * LEFT_SET /\ i \in Nat /\ i > 0
        BY L2vicAssumption
      <4>2. i = LEFT_SET * (i \div LEFT_SET) + (i % LEFT_SET) /\ i % LEFT_SET \in 0 .. LEFT_SET - 1 /\ i \div LEFT_SET \in Nat
        <5>1. i = LEFT_SET * (i \div LEFT_SET) + (i % LEFT_SET)
          BY <4>1
        <5>2. i % LEFT_SET \in 0 .. LEFT_SET - 1
          BY <4>1
        <5>3. i \div LEFT_SET \in Nat
          BY <4>1
        <5> QED
          BY <5>1, <5>2, <5>3
      <4>3. CASE i \div LEFT_SET = 0
        BY <4>1, <4>2, <4>3
      <4>4. CASE i \div LEFT_SET = 1
        BY <4>1, <4>2, <4>4
      <4>5. CASE i \div LEFT_SET >= 2
        BY <4>1, <4>2, <4>5
      <4> QED
        BY <4>2, <4>3, <4>4, <4>5
    <3>3. lvPc' = "leftset" /\ ~ lvClearReads => enable' = {LEFT_SET}
      BY <2>3, <3>1, <3>2, Sources DEF ClearIrq, LvAt, LvLoop, Irqs
    <3>4. lvPc' = "clear" => lvIrq' = lvIrq + 1 /\ lvIrq' \in Irqs
      BY <2>3, Sources DEF ClearIrq, LvAt, LvLoop, Irqs
    <3> QED
      BY <3>1, <3>3, <3>4, <2>3, <1>2 DEF ClearIrq, LvAt, LvLoop, SetupPart, LvTypeOK
  <2>4. CASE CheckLeftSet
    BY <2>4, <1>2 DEF CheckLeftSet, SetupPart, LvTypeOK
  <2> QED
    BY <1>1, <2>1, <2>2, <2>3, <2>4
<1> QED
  BY <1>2, <1>3, <1>4 DEF LvTypeOK

LEMMA DeliverLowest ==
  ASSUME LvTypeOK, DeliverVid
  PROVE  /\ vid' \in Irqs /\ vid' \in pending /\ vid' \in enable
         /\ \A i \in pending \cap enable : vid' <= i
         /\ pending' = pending \ {vid'} /\ enable' = enable \ {vid'}
<1>1. PICK i \in Irqs : NextSource(i) /\ vid' = i /\ pending' = pending \ {i} /\ enable' = enable \ {i}
  BY DEF DeliverVid
<1> DEFINE S == pending \cap enable
<1>2. S \in SUBSET Nat /\ S # {} /\ i = Min(S)
  BY <1>1, Sources DEF NextSource, Deliverable, LvTypeOK
<1> HIDE DEF S
<1>3. i \in S /\ \A y \in S : i <= y
  BY <1>2, LowestSource
<1> QED
  BY <1>1, <1>3 DEF S

(* The setup loop of pendalot.c and fastint.c.                               *)
LEMMA SetupEdge ==
  ASSUME LvInv, SetupIrq, lvProg \in {"pendalot", "fastint"}
  PROVE  /\ lvPc = "setup" /\ lvIrq \in Irqs /\ Quiet /\ UNCHANGED <<lvProg, lvClearReads, pending, lvIsrVars>>
         /\ enable' = 1 .. lvIrq /\ edge' = 1 .. lvIrq /\ ~ lvFail'
<1>1. lvPc = "setup" /\ lvIrq \in Irqs /\ Quiet /\ UNCHANGED <<lvProg, lvClearReads, pending, lvIsrVars>>
  BY DEF SetupIrq, LvAt, SetupPart, LvInv
<1>2. enable = 1 .. lvIrq - 1 /\ edge = 1 .. lvIrq - 1
  BY <1>1 DEF LvInv, SetupPart, PendalotInv, FastintInv, Below
<1>3. enable' = enable \cup {lvIrq} /\ edge' = edge \cup {lvIrq}
  BY DEF SetupIrq
<1>4. enable' = 1 .. lvIrq /\ edge' = 1 .. lvIrq
  BY <1>1, <1>2, <1>3, Sources DEF Irqs
<1>5. ~ lvFail'
  BY <1>3 DEF SetupIrq, LvCheck, LvInv, LvPasses
<1> QED
  BY <1>1, <1>4, <1>5

LEMMA FastintStep == ASSUME LvInv, LvNext, lvProg = "fastint" PROVE LvInv'
<1>1. SetupIrq \/ Trigger \/ WaitOne \/ DeliverVid \/ HandlerEnable \/ HandlerLog
  BY DEF LvInv, FastintInv, LvNext, FastWrite, CheckUntriggered, WaitLast,
         CheckNone, ReadBack, ClearIrq, CheckLeftSet, LvAt
<1> USE DEF LvInv, LvTypeOK, FastintInv, LvPasses
<1>2. CASE SetupIrq
  <2>1. lvPc = "setup" /\ lvIrq \in Irqs /\ Quiet /\ UNCHANGED <<lvProg, lvClearReads, pending, lvIsrVars>>
    BY <1>2, SetupEdge
  <2>2. enable' = 1 .. lvIrq /\ edge' = 1 .. lvIrq /\ ~ lvFail'
    BY <1>2, SetupEdge
  <2>3. IF lvIrq = INTMAX - 1 THEN lvPc' = "trigger" /\ lvIrq' = 1 ELSE lvIrq' = lvIrq + 1 /\ lvPc' = "setup"
    BY <1>2, <2>1 DEF SetupIrq, LvLoop
  <2>4. CASE lvIrq = INTMAX - 1
    BY <2>1, <2>2, <2>3, <2>4, Sources DEF Quiet, SetupPart, Enabled, lvIsrVars, Irqs
  <2>5. CASE lvIrq # INTMAX - 1
    <3>1. lvIrq' \in Irqs
      BY <2>1, <2>3, <2>5, Sources DEF Irqs
    <3>2. enable' = 1 .. lvIrq' - 1 /\ edge' = 1 .. lvIrq' - 1
      BY <2>1, <2>2, <2>3, <2>5, Sources DEF Irqs
    <3> QED
      BY <3>1, <3>2, <2>1, <2>2, <2>3, <2>5, Sources DEF Quiet, SetupPart, Below, lvIsrVars
  <2> QED
    BY <2>4, <2>5
<1>3. CASE Trigger
  BY <1>3 DEF Trigger, LvAt, Latch, SetupPart, Quiet, Enabled, lvIsrVars
<1>4. CASE WaitOne
  <2>1. UNCHANGED <<lvProg, lvClearReads, lvDevice, vid, lvIsr>> /\ lvPc = "wait" /\ pass # 0 /\ pass' = 0
        /\ lvIrq \in Irqs /\ lvFail' = (lvFail \/ ~ (g_irq = lvIrq)) /\ lvIsr = "none"
    BY <1>4 DEF WaitOne, LvAt, LvCheck
  <2>2. g_irq = lvIrq /\ pending = {}
    BY <2>1
  <2>3. lvIrq' \in Nat /\ (lvPc' = "PASS" \/ (lvPc' = "trigger" /\ lvIrq' \in Irqs))
    BY <1>4, <2>1, Sources DEF WaitOne, Irqs
  <2> QED
    BY <2>1, <2>2, <2>3 DEF SetupPart, Quiet, Enabled, lvDevice
<1>5. CASE DeliverVid
  <2>1. /\ vid' \in Irqs /\ vid' \in pending
        /\ pending' = pending \ {vid'} /\ enable' = enable \ {vid'}
    BY <1>5, DeliverLowest
  <2>2. /\ lvIsr = "none" /\ lvIsr' = "enable"
        /\ UNCHANGED <<lvProg, lvPc, lvIrq, lvClearReads, edge, irqlog, pass, g_irq, lvFail>>
    BY <1>5 DEF DeliverVid
  <2>3. lvPc = "wait" /\ pending = {lvIrq} /\ pass = 0
    BY <2>1, <2>2 DEF SetupPart, Quiet
  <2> QED
    BY <2>1, <2>2, <2>3 DEF SetupPart, Enabled, Below
<1>6. CASE HandlerEnable
  <2>1. lvPc = "wait" /\ pending = {} /\ vid = lvIrq /\ pass = 0 /\ lvIrq \in Irqs
    BY <1>6 DEF HandlerEnable, SetupPart, Quiet
  <2> QED
    BY <1>6, <2>1 DEF HandlerEnable, SetupPart, Enabled
<1>7. CASE HandlerLog
  <2>1. lvPc = "wait" /\ pending = {} /\ vid = lvIrq /\ g_irq = lvIrq /\ pass = 0 /\ lvIrq \in Irqs
    BY <1>7 DEF HandlerLog, SetupPart, Quiet
  <2> QED
    BY <1>7, <2>1 DEF HandlerLog, SetupPart, Enabled, lvDevice
<1> QED
  BY <1>1, <1>2, <1>3, <1>4, <1>5, <1>6, <1>7

LEMMA PendalotStep == ASSUME LvInv, LvNext, lvProg = "pendalot" PROVE LvInv'
<1>1. SetupIrq \/ CheckUntriggered \/ Trigger \/ WaitLast \/ DeliverVid \/ HandlerEnable \/ HandlerLog
  BY DEF LvInv, PendalotInv, LvNext, FastWrite, WaitOne,
         CheckNone, ReadBack, ClearIrq, CheckLeftSet, LvAt
<1>0. /\ LvTypeOK /\ SetupPart /\ PendalotInv /\ ~ lvFail
      /\ (lvProg' = "pendalot" /\ LvTypeOK' /\ SetupPart' /\ PendalotInv' /\ ~ lvFail' => LvInv')
  BY DEF LvInv, LvPasses
<1> USE DEF PendalotInv
<1>2. CASE SetupIrq
  <2>1. lvPc = "setup" /\ lvIrq \in Irqs /\ Quiet /\ UNCHANGED <<lvProg, lvClearReads, pending, lvIsrVars>>
    BY <1>2, SetupEdge
  <2>2. enable' = 1 .. lvIrq /\ edge' = 1 .. lvIrq /\ ~ lvFail'
    BY <1>2, SetupEdge
  <2>3. IF lvIrq = INTMAX - 1 THEN lvPc' = "untriggered" /\ lvIrq' = 1 ELSE lvIrq' = lvIrq + 1 /\ lvPc' = "setup"
    BY <1>2, <2>1 DEF SetupIrq, LvLoop
  <2>4. lvIrq' \in Irqs /\ lvIrq' \in Nat
    BY <2>1, <2>3, Sources DEF Irqs
  <2>5. LvTypeOK' /\ Quiet'
    BY <1>0, <2>1, <2>3, <2>4 DEF LvTypeOK, Quiet, lvIsrVars
  <2>6. lvPc' = "setup" => enable' = Below' /\ edge' = Below'
    BY <2>1, <2>2, <2>3, Sources DEF Irqs, Below
  <2>7. lvPc' # "setup" => enable' = Irqs /\ edge' = Irqs
    BY <2>1, <2>2, <2>3 DEF Irqs
  <2>8. \A i \in Irqs : Account(i)'
    <3>1. \A i \in Irqs : Account(i) /\ irqlog'[i] = irqlog[i]
      BY <1>0, <2>1 DEF lvIsrVars
    <3>2. Triggered' = {} /\ Triggered = {}
      BY <2>1, <2>3 DEF Triggered
    <3> QED
      BY <3>1, <3>2, <2>1, <2>5 DEF Account, Quiet, Handled
  <2>9. PendalotInv'
    BY <1>0, <2>1, <2>3, <2>4, <2>5, <2>6, <2>7, <2>8 DEF Enabled, Quiet, Handled, lvIsrVars
  <2> QED
    BY <1>0, <2>1, <2>2, <2>4, <2>5, <2>6, <2>9 DEF SetupPart
<1>3. CASE CheckUntriggered
  <2>1. /\ lvPc = "untriggered" /\ lvPc' = "trigger" /\ lvIsr = "none"
        /\ UNCHANGED <<lvProg, lvIrq, lvDevice, lvIsrVars>>
    BY <1>3 DEF CheckUntriggered, LvAt
  <2>2. Quiet /\ \A i \in Irqs : Account(i) /\ i \notin Triggered
    BY <1>0, <2>1 DEF Triggered
  <2>3. \A i \in 0 .. INTMAX : irqlog[i] = 0
    <3>1. \A i \in Irqs : irqlog[i] = 0
      BY <2>2 DEF Account
    <3>2. \A i \in 0 .. INTMAX : i \in Irqs \/ i = 0 \/ i = INTMAX
      BY Sources DEF Irqs
    <3> QED
      BY <1>0, <3>1, <3>2
  <2>4. ~ lvFail'
    BY <1>0, <1>3, <2>3 DEF CheckUntriggered, LvCheck
  <2>5. \A i \in Irqs : Account(i)'
    <3>1. Triggered' = {}
      BY <1>0, <2>1 DEF Triggered, Below
    <3> QED
      BY <2>1, <2>2, <2>3, <3>1, Sources DEF Account, Quiet, Handled, lvIsrVars, lvDevice
  <2>6. SetupPart' /\ LvTypeOK'
    BY <1>0, <2>1 DEF SetupPart, LvTypeOK, lvIsrVars, lvDevice
  <2>7. PendalotInv'
    BY <1>0, <2>1, <2>2, <2>5, Sources DEF Enabled, Quiet, Handled, lvIsrVars, lvDevice
  <2> QED
    BY <1>0, <2>1, <2>4, <2>6, <2>7
<1>4. CASE WaitLast
  <2>1. /\ lvPc = "wait" /\ lvPc' = "PASS" /\ lvIsr = "none" /\ pass # 0
        /\ UNCHANGED <<lvProg, lvIrq, lvDevice, lvIsrVars>>
    BY <1>4 DEF WaitLast, LvAt
  <2>2. \A i \in Irqs : irqlog[i] = 1
    BY <1>0, <2>1 DEF Handled
  <2>3. ~ lvFail'
    BY <1>0, <1>4, <2>2 DEF WaitLast, LvCheck
  <2>4. Triggered' = Triggered
    BY <2>1 DEF Triggered
  <2>5. \A i \in Irqs : Account(i)'
    BY <1>0, <2>1, <2>4 DEF Account, Handled, lvIsrVars, lvDevice
  <2>6. SetupPart' /\ LvTypeOK'
    BY <1>0, <2>1 DEF SetupPart, LvTypeOK, lvIsrVars, lvDevice
  <2>7. PendalotInv'
    BY <1>0, <2>1, <2>5 DEF Enabled, Handled, lvIsrVars, lvDevice
  <2> QED
    BY <1>0, <2>1, <2>3, <2>6, <2>7
<1>5. CASE Trigger
  <2>1. /\ lvPc = "trigger" /\ lvIsr = "none" /\ pending' = pending \cup {lvIrq} /\ lvIrq \in Irqs
        /\ UNCHANGED <<lvProg, enable, edge, lvIsrVars, lvFail>>
    BY <1>5, <1>0 DEF Trigger, LvAt, Latch
  <2>2. IF lvIrq = INTMAX - 1 THEN lvPc' = "wait" /\ lvIrq' = 1 ELSE lvIrq' = lvIrq + 1 /\ lvPc' = "trigger"
    BY <1>5, <2>1 DEF Trigger, LvLoop
  <2>3. lvIrq' \in Irqs /\ lvIrq' \in Nat
    BY <2>1, <2>2, Sources DEF Irqs
  <2>4. \A i \in Irqs : (i \in Triggered' <=> i \in Triggered \/ i = lvIrq)
    BY <2>1, <2>2, Sources DEF Triggered, Below, Irqs
  <2>5. lvIrq \notin Triggered
    BY <2>1 DEF Triggered, Below, Irqs
  <2>6. \A i \in Irqs : Account(i)'
    <3> SUFFICES ASSUME NEW i \in Irqs PROVE Account(i)'
      OBVIOUS
    <3>1. Account(i) /\ irqlog'[i] = irqlog[i] /\ Handled(i)' = Handled(i) /\ ~ Handled(i)
      BY <1>0, <2>1 DEF lvIsrVars, Handled
    <3>2. CASE i = lvIrq
      BY <2>1, <2>4, <2>5, <3>1, <3>2 DEF Account
    <3>3. CASE i # lvIrq
      BY <2>1, <2>4, <3>1, <3>3 DEF Account
    <3> QED
      BY <3>2, <3>3
  <2>7. SetupPart' /\ LvTypeOK'
    BY <1>0, <2>1, <2>2, <2>3 DEF SetupPart, LvTypeOK, lvIsrVars
  <2>8. PendalotInv'
    BY <1>0, <2>1, <2>2, <2>3, <2>6 DEF Enabled, Handled, lvIsrVars
  <2> QED
    BY <1>0, <2>1, <2>7, <2>8
<1>6. CASE DeliverVid
  <2>1. /\ vid' \in Irqs /\ vid' \in pending
        /\ \A i \in pending \cap enable : vid' <= i
        /\ pending' = pending \ {vid'} /\ enable' = enable \ {vid'}
    BY <1>0, <1>6, DeliverLowest
  <2>2. /\ lvIsr = "none" /\ lvIsr' = "enable"
        /\ UNCHANGED <<lvProg, lvPc, lvIrq, edge, irqlog, pass, lvFail>>
    BY <1>6 DEF DeliverVid
  <2>3. lvPc \in {"trigger", "wait", "PASS"}
    BY <1>0, <2>1 DEF Quiet, SetupPart
  <2>4. Triggered' = Triggered
    BY <2>2 DEF Triggered, Below
  <2>5. enable = Irqs /\ pending \subseteq Irqs
    BY <1>0, <2>2, <2>3 DEF Enabled, LvTypeOK
  <2>6. \A i \in Irqs : Account(i)'
    <3> SUFFICES ASSUME NEW i \in Irqs PROVE Account(i)'
      OBVIOUS
    <3>1. Account(i) /\ ~ Handled(i) /\ (Handled(i)' <=> i = vid') /\ irqlog'[i] = irqlog[i]
      BY <1>0, <2>2 DEF Handled
    <3>2. i \in pending' <=> i \in pending /\ i # vid'
      BY <2>1
    <3> QED
      BY <2>1, <2>4, <3>1, <3>2 DEF Account
  <2>7. Handled(Last)' => \A i \in Irqs \ {Last} : irqlog'[i] = 1
    <3> SUFFICES ASSUME vid' = Last, NEW i \in Irqs \ {Last} PROVE irqlog[i] = 1
      BY <2>2 DEF Handled
    <3>1. i \notin pending
      BY <2>1, <2>5, Sources DEF Last, Irqs
    <3>2. Last \in Triggered
      BY <1>0, <2>1, Sources DEF Account
    <3>3. i \in Triggered
      BY <1>0, <3>2, <2>3, Sources DEF Triggered, Below, Last, Irqs, LvTypeOK
    <3>4. Account(i) /\ ~ Handled(i)
      BY <1>0, <2>2 DEF Handled
    <3> QED
      BY <3>1, <3>3, <3>4 DEF Account
  <2>8. SetupPart' /\ LvTypeOK'
    BY <1>0, <2>1, <2>2, <2>3 DEF SetupPart, LvTypeOK
  <2>9. PendalotInv'
    BY <1>0, <2>1, <2>2, <2>3, <2>5, <2>6, <2>7 DEF Enabled, Quiet
  <2> QED
    BY <1>0, <2>2, <2>8, <2>9
<1>7. CASE HandlerEnable
  <2>1. /\ lvIsr = "enable" /\ lvIsr' = "log" /\ enable' = enable \cup {vid}
        /\ UNCHANGED <<lvProg, lvPc, lvIrq, edge, pending, vid, irqlog, pass, lvFail>>
    BY <1>7 DEF HandlerEnable
  <2>2. \A i \in Irqs : Account(i)'
    <3>1. Triggered' = Triggered /\ \A i \in Irqs : Handled(i)' = Handled(i)
      BY <2>1 DEF Triggered, Below, Handled
    <3> QED
      BY <1>0, <2>1, <3>1 DEF Account
  <2>3. SetupPart' /\ LvTypeOK'
    BY <1>0, <2>1 DEF SetupPart, LvTypeOK, Quiet
  <2>4. lvPc \notin {"setup", "untriggered"} /\ enable' = Irqs
    BY <1>0, <2>1 DEF SetupPart, Quiet, Enabled
  <2>5. PendalotInv'
    BY <1>0, <2>1, <2>2, <2>4 DEF Enabled, Handled
  <2> QED
    BY <1>0, <2>1, <2>3, <2>5
<1>8. CASE HandlerLog
  <2>1. /\ lvIsr = "log" /\ lvIsr' = "none" /\ irqlog' = [irqlog EXCEPT ![vid] = @ + 1]
        /\ pass' = IF vid = Last THEN pass + 1 ELSE pass
        /\ UNCHANGED <<lvProg, lvPc, lvIrq, enable, edge, pending, vid, lvFail>>
    BY <1>8 DEF HandlerLog, lvDevice, Last
  <2>2. vid \in Irqs /\ lvPc \notin {"setup", "untriggered"}
    BY <1>0, <2>1 DEF SetupPart, Quiet
  <2>3. /\ irqlog' \in [0 .. INTMAX -> Nat] /\ irqlog'[vid] = irqlog[vid] + 1
        /\ \A i \in 0 .. INTMAX : i # vid => irqlog'[i] = irqlog[i]
    BY <1>0, <2>1, <2>2, Sources
  <2>4. irqlog[vid] = 0
    BY <1>0, <2>1, <2>2 DEF Account, Handled
  <2>5. \A i \in Irqs : Account(i)'
    <3> SUFFICES ASSUME NEW i \in Irqs PROVE Account(i)'
      OBVIOUS
    <3>1. Triggered' = Triggered /\ ~ Handled(i)' /\ (Handled(i) <=> i = vid) /\ Account(i)
      BY <1>0, <2>1 DEF Triggered, Below, Handled
    <3>2. irqlog'[i] = IF i = vid THEN 1 ELSE irqlog[i]
      BY <2>3, <2>4, Sources
    <3> QED
      BY <2>1, <3>1, <3>2 DEF Account
  <2>6. SetupPart' /\ LvTypeOK'
    BY <1>0, <2>1, <2>2 DEF SetupPart, LvTypeOK
  <2>7. irqlog'[0] = 0 /\ irqlog'[INTMAX] = 0
    BY <1>0, <2>2, <2>3, Sources, SMTT(30)
  <2>8. irqlog'[Last] = IF vid = Last THEN 1 ELSE irqlog[Last]
    BY <2>3, <2>4, Sources
  <2>9. pass' # 0 => irqlog'[Last] = 1
    BY <1>0, <2>1, <2>8
  <2>10. irqlog'[Last] = 1 => \A i \in Irqs \ {Last} : irqlog'[i] = 1
    <3> SUFFICES ASSUME irqlog'[Last] = 1, NEW i \in Irqs \ {Last} PROVE irqlog'[i] = 1
      OBVIOUS
    <3>1. irqlog[i] = 1
      BY <1>0, <2>1, <2>8 DEF Handled
    <3>2. i # vid
      BY <2>4, <3>1
    <3> QED
      BY <2>3, <3>1, <3>2, Sources
  <2>11. PendalotInv'
    BY <1>0, <2>1, <2>2, <2>3, <2>5, <2>7, <2>9, <2>10 DEF Enabled, Handled
  <2> QED
    BY <1>0, <2>1, <2>6, <2>11
<1> QED
  BY <1>1, <1>2, <1>3, <1>4, <1>5, <1>6, <1>7, <1>8

LEMMA LvStepInv == LvInv /\ [LvNext]_lvVars => LvInv'
<1> SUFFICES ASSUME LvInv, [LvNext]_lvVars PROVE LvInv'
  OBVIOUS
<1>1. CASE UNCHANGED lvVars
  <2>1. UNCHANGED <<lvProg, lvPc, lvIrq, lvClearReads, enable, edge, pending, vid, lvIsr, irqlog, pass, g_irq, lvFail>>
    BY <1>1 DEF lvVars, lvDevice, lvIsrVars
  <2> QED
    BY <2>1 DEF LvInv, LvTypeOK, SetupPart, LvPasses, PendalotInv, FastintInv, LevelintInv, IntRangeInv,
                FastL2vicInv, Quiet, Enabled, Account, Handled, Triggered, Below
<1>2. CASE LvNext
  <2>1. lvProg \in L2vicPrograms
    BY DEF LvInv, LvTypeOK
  <2> QED
    BY <1>2, <2>1, PendalotStep, FastintStep, LevelintStep, IntRangeStep, FastL2vicStep DEF L2vicPrograms
<1> QED
  BY <1>1, <1>2

-----------------------------------------------------------------------------
(* badva.c.                                                                  *)

BvAccesses == {1, 2}
BvTestNames == {"dual_store", "dual_load", "load_store"}

(* Test n uses pages 2n - 1 and 2n, which no earlier test has mapped.        *)
BvTypeOK ==
    /\ bvStep \in [test : 1 .. 5, at : {"map", "issue", "packet", "check"}]
    /\ bvStep.test > 3 => bvStep.at = "map"
    /\ mb_counter \in Nat
    /\ bvStep.test <= 4 => mb_counter = IF bvStep.at = "map" THEN 2 * bvStep.test - 1 ELSE 2 * bvStep.test + 1
    /\ bvPte \in [BvPages -> BvPages] /\ bvTlb \in [BvPages -> BvPages \cup {NoFrame}]
    /\ bvStep.at # "map" => new_data = <<2 * bvStep.test - 1, 2 * bvStep.test>>
    /\ v0 \in BOOLEAN /\ v1 \in BOOLEAN
    /\ 1 \in DOMAIN badvaReg

(* The table and the TLB agree, and a page that is not mapped yet, or whose  *)
(* packet has not begun, has no entry.                                       *)
PagesInv ==
    /\ \A p \in BvPages : bvTlb[p] # NoFrame => bvTlb[p] = bvPte[p]
    /\ \A p \in BvPages : mb_counter <= p => bvTlb[p] = NoFrame
    /\ bvStep.at # "map" => \A a \in BvAccesses : bvPte[new_data[a]] = 0
    /\ bvStep.at = "issue" => \A a \in BvAccesses : bvTlb[new_data[a]] = NoFrame

(* What the last miss left behind, if access a was the one that missed.      *)
LastMiss(a) ==
    IF Slot0[BvTest] = a THEN badvaReg = <<new_data[a], INVALID_BADVA>> /\ v0 /\ ~ v1
    ELSE badvaReg = <<INVALID_BADVA, new_data[a]>> /\ ~ v0 /\ v1
PacketInv ==
    /\ bvStep.at = "packet" =>
         \/ \A a \in BvAccesses : bvTlb[new_data[a]] = NoFrame
         \/ \E a \in BvAccesses : LastMiss(a)
    /\ bvStep.at = "check" => \E a \in BvAccesses : LastMiss(a)
    /\ bvStep.at \in {"issue", "packet"} => \A a \in BvAccesses : data[a] = StartValues[BvTest][a]
    /\ bvStep.at = "check" => BvValues

BvFailInv == (bvStep.test <= 4 => bvFail = {}) /\ bvFail \subseteq {"badva_write"} /\ (bvFail # {} => v1)

BvInv == BvTypeOK /\ PagesInv /\ PacketInv /\ BvFailInv

LEMMA BvInitInv == BvInit => BvInv
<1> SUFFICES ASSUME BvInit PROVE BvInv
  OBVIOUS
<1>0. bvStep = [test |-> 1, at |-> "map"] /\ mb_counter = 1 /\ v0 = FALSE /\ v1 = FALSE /\ bvFail = {}
      /\ badvaReg = <<0, 0>>
  BY DEF BvInit
<1>00. bvPte = [p \in BvPages |-> p] /\ bvTlb = [p \in BvPages |-> IF p = 0 THEN 0 ELSE NoFrame]
  BY DEF BvInit
<1>1. bvStep.test = 1 /\ bvStep.at = "map" /\ bvStep \in [test : 1 .. 5, at : {"map", "issue", "packet", "check"}]
  BY <1>0
<1>2. BvTypeOK
  <2>1. 1 \in DOMAIN badvaReg
    BY <1>0
  <2>2. bvPte \in [BvPages -> BvPages] /\ bvTlb \in [BvPages -> BvPages \cup {NoFrame}]
    BY <1>00 DEF BvPages
  <2>3. v0 \in BOOLEAN /\ v1 \in BOOLEAN
    BY <1>0
  <2>4. /\ mb_counter \in Nat
        /\ mb_counter = 2 * bvStep.test - 1 /\ ~ (bvStep.test > 3)
    BY <1>0, <1>1
  <2> QED
    BY <1>1, <2>1, <2>2, <2>3, <2>4 DEF BvTypeOK
<1>3. PagesInv /\ PacketInv /\ BvFailInv
  BY <1>0, <1>00, <1>1 DEF PagesInv, PacketInv, BvFailInv, BvPages
<1> QED
  BY <1>2, <1>3 DEF BvInv

(* In a test the two pages are different, and neither is 0.                  *)
LEMMA InTest ==
  ASSUME BvTypeOK, BvInTest
  PROVE  /\ bvStep.test \in 1 .. 3 /\ BvTest \in BvTestNames /\ Slot0[BvTest] \in BvAccesses
         /\ 2 * bvStep.test - 1 \in BvPages /\ 2 * bvStep.test \in BvPages
         /\ bvStep.at # "map" => /\ \A a \in BvAccesses : new_data[a] \in BvPages
                                 /\ new_data[1] # new_data[2]
                                 /\ \A a \in BvAccesses : new_data[a] < mb_counter
<1>1. bvStep.test \in 1 .. 3
  BY DEF BvTypeOK, BvInTest, BvTests
<1>2. BvTest \in BvTestNames
  BY <1>1 DEF BvTest, BvTests, BvTestNames
<1>3. Slot0[BvTest] \in BvAccesses
  BY <1>2 DEF Slot0, BvTestNames, BvAccesses
<1>4. 2 * bvStep.test - 1 \in BvPages /\ 2 * bvStep.test \in BvPages
  BY <1>1 DEF BvPages
<1>5. ASSUME bvStep.at # "map"
      PROVE  /\ \A a \in BvAccesses : new_data[a] \in BvPages
             /\ new_data[1] # new_data[2]
             /\ \A a \in BvAccesses : new_data[a] < mb_counter
  BY <1>1, <1>4, <1>5 DEF BvTypeOK, BvAccesses
<1> QED
  BY <1>1, <1>2, <1>3, <1>4, <1>5

LEMMA BvMapStep == ASSUME BvInv, BvMap PROVE BvInv'
<1>1. /\ BvInTest /\ bvStep.at = "map" /\ bvStep' = [bvStep EXCEPT !.at = "issue"]
      /\ data' = StartValues[BvTest] /\ new_data' = <<mb_counter, mb_counter + 1>>
      /\ mb_counter' = mb_counter + 2
      /\ bvPte' = [p \in BvPages |-> IF p \in {mb_counter, mb_counter + 1} THEN 0 ELSE bvPte[p]]
      /\ UNCHANGED <<bvTlb, bvVal, badvaReg, v0, v1, bvFail>>
  BY DEF BvMap, BvPlace, BvGoto, map_data_address
<1>2. bvStep.test \in 1 .. 3 /\ mb_counter = 2 * bvStep.test - 1 /\ mb_counter \in BvPages /\ mb_counter + 1 \in BvPages
  BY <1>1, InTest DEF BvInv, BvTypeOK, BvPages
<1>3. bvStep' \in [test : 1 .. 5, at : {"map", "issue", "packet", "check"}] /\ bvStep'.test = bvStep.test /\ bvStep'.at = "issue"
  BY <1>1 DEF BvInv, BvTypeOK
<1>4. BvTypeOK'
  BY <1>1, <1>2, <1>3 DEF BvInv, BvTypeOK, BvPages
<1>5. BvTest' = BvTest
  BY <1>3 DEF BvTest
<1>6. PagesInv'
  <2>1. \A p \in BvPages : bvTlb'[p] # NoFrame => bvTlb'[p] = bvPte'[p]
    BY <1>1, <1>2 DEF BvInv, PagesInv, BvPages
  <2>2. \A p \in BvPages : mb_counter' <= p => bvTlb'[p] = NoFrame
    BY <1>1, <1>2 DEF BvInv, PagesInv, BvPages
  <2>3. \A a \in BvAccesses : bvPte'[new_data'[a]] = 0 /\ bvTlb'[new_data'[a]] = NoFrame
    BY <1>1, <1>2 DEF BvInv, PagesInv, BvPages, BvAccesses
  <2> QED
    BY <2>1, <2>2, <2>3 DEF PagesInv
<1>7. PacketInv'
  BY <1>1, <1>3, <1>5 DEF PacketInv
<1> QED
  BY <1>1, <1>3, <1>4, <1>6, <1>7 DEF BvInv, BvFailInv

LEMMA BvIssueStep == ASSUME BvInv, BvIssue PROVE BvInv'
<1>1. /\ BvInTest /\ bvStep.at = "issue" /\ bvStep' = [bvStep EXCEPT !.at = "packet"]
      /\ badvaReg' = <<0, 0>> /\ v0' = FALSE /\ v1' = FALSE
      /\ UNCHANGED <<mb_counter, bvPte, bvTlb, new_data, data, bvVal, bvFail>>
  BY DEF BvIssue, BvPlace, BvGoto
<1>2. bvStep' \in [test : 1 .. 5, at : {"map", "issue", "packet", "check"}] /\ bvStep'.test = bvStep.test /\ bvStep'.at = "packet"
  BY <1>1 DEF BvInv, BvTypeOK
<1>3. BvTest' = BvTest /\ bvStep.test \in 1 .. 3
  BY <1>1, <1>2, InTest DEF BvTest, BvInv
<1>4. BvTypeOK'
  <2>1. 1 \in DOMAIN badvaReg'
    BY <1>1
  <2> QED
    BY <1>1, <1>2, <1>3, <2>1 DEF BvInv, BvTypeOK
<1>5. PagesInv'
  BY <1>1, <1>2 DEF BvInv, PagesInv
<1>6. PacketInv'
  BY <1>1, <1>2, <1>3 DEF BvInv, PagesInv, PacketInv
<1> QED
  BY <1>1, <1>2, <1>3, <1>4, <1>5, <1>6 DEF BvInv, BvFailInv

LEMMA BvMissStep == ASSUME BvInv, NEW a \in BvAccesses, BvMiss(a) PROVE BvInv'
<1>1. /\ BvInTest /\ bvStep.at = "packet" /\ bvTlb[new_data[a]] = NoFrame
      /\ bvTlb' = [bvTlb EXCEPT ![new_data[a]] = bvPte[new_data[a]]]
      /\ badvaReg' = IF Slot0[BvTest] = a THEN <<new_data[a], INVALID_BADVA>> ELSE <<INVALID_BADVA, new_data[a]>>
      /\ v0' = (Slot0[BvTest] = a) /\ v1' = ~ (Slot0[BvTest] = a)
      /\ UNCHANGED <<bvStep, mb_counter, bvPte, new_data, data, bvVal, bvFail>>
  BY DEF BvMiss, BvPlace
<1>2. new_data[a] \in BvPages /\ new_data[a] < mb_counter /\ bvStep.test \in 1 .. 3
  BY <1>1, InTest DEF BvInv
<1>3. BvTypeOK'
  BY <1>1, <1>2 DEF BvInv, BvTypeOK
<1>4. PagesInv'
  <2>1. \A p \in BvPages : bvTlb'[p] = IF p = new_data[a] THEN bvPte[p] ELSE bvTlb[p]
    BY <1>1, <1>2 DEF BvInv, BvTypeOK
  <2>2. \A p \in BvPages : mb_counter <= p => p # new_data[a]
    BY <1>2 DEF BvInv, BvTypeOK, BvPages
  <2> QED
    BY <1>1, <2>1, <2>2 DEF BvInv, PagesInv
<1>5. LastMiss(a)'
  BY <1>1 DEF LastMiss, BvTest
<1>6. PacketInv'
  BY <1>1, <1>5 DEF BvInv, PacketInv, BvTest
<1>7. BvFailInv'
  <2>1. bvFail = {}
    BY <1>2 DEF BvInv, BvFailInv
  <2> QED
    BY <1>1, <2>1 DEF BvFailInv
<1> QED
  BY <1>3, <1>4, <1>6, <1>7 DEF BvInv

LEMMA BvCommitStep == ASSUME BvInv, BvCommit PROVE BvInv'
<1>1. /\ BvInTest /\ bvStep.at = "packet" /\ bvStep' = [bvStep EXCEPT !.at = "check"]
      /\ \A a \in BvAccesses : bvTlb[new_data[a]] # NoFrame
      /\ data' = [a \in {1, 2} |-> IF Stores[BvTest][a] # "" /\ bvTlb[new_data[a]] = 0 THEN Stores[BvTest][a] ELSE data[a]]
      /\ bvVal' = [a \in {1, 2} |-> IF ~ (Stores[BvTest][a] # "") /\ bvTlb[new_data[a]] = 0 THEN data[a] ELSE "elsewhere"]
      /\ UNCHANGED <<mb_counter, bvPte, bvTlb, new_data, badvaReg, v0, v1, bvFail>>
  BY DEF BvCommit, BvPlace, BvGoto, BvAccesses
<1>2. bvStep' \in [test : 1 .. 5, at : {"map", "issue", "packet", "check"}] /\ bvStep'.test = bvStep.test /\ bvStep'.at = "check"
  BY <1>1 DEF BvInv, BvTypeOK
<1>3. BvTest' = BvTest /\ bvStep.test \in 1 .. 3 /\ \A a \in BvAccesses : new_data[a] \in BvPages
  BY <1>1, <1>2, InTest DEF BvTest, BvInv
<1>4. BvTypeOK'
  BY <1>1, <1>2, <1>3 DEF BvInv, BvTypeOK
<1>5. PagesInv'
  BY <1>1, <1>2 DEF BvInv, PagesInv
<1>6. \A a \in BvAccesses : bvTlb[new_data[a]] = 0 /\ data[a] = StartValues[BvTest][a]
  BY <1>1, <1>3 DEF BvInv, PagesInv, PacketInv
<1>7. BvValues'
  BY <1>1, <1>3, <1>6 DEF BvValues, BvAccesses
<1>8. \E a \in BvAccesses : LastMiss(a)'
  <2>1. PICK a \in BvAccesses : LastMiss(a)
    BY <1>1 DEF BvInv, PacketInv, BvAccesses
  <2>2. LastMiss(a)'
    BY <1>1, <1>3, <2>1 DEF LastMiss
  <2> QED
    BY <2>2
<1>9. PacketInv'
  BY <1>2, <1>7, <1>8 DEF PacketInv
<1> QED
  BY <1>1, <1>2, <1>4, <1>5, <1>9 DEF BvInv, BvFailInv

(* Whichever access missed last, the registers name it.                      *)
LEMMA RegistersRight ==
  ASSUME BvInv, BvInTest, bvStep.at # "map", NEW a \in BvAccesses, LastMiss(a)
  PROVE  BvRegisters
<1>1. /\ new_data[1] # new_data[2] /\ Slot0[BvTest] \in BvAccesses
  BY InTest DEF BvInv
<1> DEFINE low == Slot0[BvTest]
           high == 3 - low
<1>2. low \in {1, 2} /\ high \in {1, 2} /\ low # high /\ new_data[low] # new_data[high]
  BY <1>1 DEF BvAccesses
<1>3. CASE a = low
  <2>1. badvaReg = <<new_data[low], INVALID_BADVA>> /\ v0 /\ ~ v1
    BY <1>3 DEF LastMiss
  <2>2. read_badva = new_data[low] /\ read_badva # new_data[high]
    BY <1>2, <2>1 DEF read_badva
  <2> QED
    BY <2>1, <2>2 DEF BvRegisters
<1>4. CASE a # low
  <2>0. a = high
    BY <1>2, <1>4 DEF BvAccesses
  <2>1. badvaReg = <<INVALID_BADVA, new_data[high]>> /\ ~ v0 /\ v1
    BY <1>4, <2>0 DEF LastMiss
  <2>2. read_badva = new_data[high] /\ read_badva # new_data[low]
    BY <1>2, <2>1 DEF read_badva
  <2> QED
    BY <2>1, <2>2 DEF BvRegisters
<1> QED
  BY <1>3, <1>4

LEMMA BvCheckStep == ASSUME BvInv, BvCheck PROVE BvInv'
<1>1. /\ BvInTest /\ bvStep.at = "check" /\ bvStep' = [test |-> bvStep.test + 1, at |-> "map"]
      /\ UNCHANGED <<mb_counter, bvPte, bvTlb, new_data, data, bvVal, badvaReg, v0, v1>>
  BY DEF BvCheck, BvPlace
<1>2. BvRegisters /\ BvValues
  BY <1>1, RegistersRight DEF BvInv, PacketInv
<1>3. bvFail' = bvFail
  BY <1>2 DEF BvCheck
<1>4. bvStep.test \in 1 .. 3 /\ bvStep'.at = "map" /\ bvStep'.test = bvStep.test + 1
  BY <1>1, InTest DEF BvInv
<1>5. BvTypeOK'
  BY <1>1, <1>4 DEF BvInv, BvTypeOK
<1>6. PagesInv' /\ PacketInv' /\ BvFailInv'
  BY <1>1, <1>3, <1>4 DEF BvInv, PagesInv, PacketInv, BvFailInv
<1> QED
  BY <1>5, <1>6 DEF BvInv

LEMMA BvWriteStep == ASSUME BvInv, test_badva_write PROVE BvInv'
<1>1. /\ bvStep.test = 4 /\ bvStep' = [bvStep EXCEPT !.test = @ + 1]
      /\ badvaReg' = [badvaReg EXCEPT ![1] = 50]
      /\ UNCHANGED <<mb_counter, bvPte, bvTlb, new_data, data, bvVal, v0, v1>>
  BY DEF test_badva_write, BvTests
<1>2. bvStep.at = "map" /\ bvStep'.at = "map" /\ bvStep'.test = 5
      /\ bvStep' \in [test : 1 .. 5, at : {"map", "issue", "packet", "check"}]
  BY <1>1 DEF BvInv, BvTypeOK
<1>3. BvFailInv'
  <2>1. badvaReg'[1] = 50 /\ bvFail = {} /\ v1 \in BOOLEAN
    BY <1>1 DEF BvInv, BvTypeOK, BvFailInv
  <2>2. bvFail' = IF (IF v1 THEN badvaReg'[2] ELSE badvaReg'[1]) = 50 THEN bvFail ELSE bvFail \cup {"badva_write"}
    BY DEF test_badva_write
  <2>3. ~ v1 => bvFail' = {}
    BY <2>1, <2>2
  <2>4. bvFail' \subseteq {"badva_write"}
    BY <2>1, <2>2
  <2> QED
    BY <1>1, <1>2, <2>3, <2>4 DEF BvFailInv
<1>4. BvTypeOK' /\ PagesInv' /\ PacketInv'
  BY <1>1, <1>2 DEF BvInv, BvTypeOK, PagesInv, PacketInv
<1> QED
  BY <1>3, <1>4 DEF BvInv

LEMMA BvStepInv == BvInv /\ [BvNext]_bvVars => BvInv'
<1> SUFFICES ASSUME BvInv, [BvNext]_bvVars PROVE BvInv'
  OBVIOUS
<1>1. CASE UNCHANGED bvVars
  BY <1>1 DEF bvVars, BvInv, BvTypeOK, PagesInv, PacketInv, BvFailInv, LastMiss, BvValues, BvTest
<1>2. CASE BvMiss(1) \/ BvMiss(2)
  BY <1>2, BvMissStep DEF BvAccesses
<1> QED
  BY <1>1, <1>2, BvMapStep, BvIssueStep, BvCommitStep, BvCheckStep, BvWriteStep DEF BvNext

-----------------------------------------------------------------------------
(* The cycle counter test.                                                   *)

PcRegs == {"a", "b"}
PcTypeOK ==
    /\ pcycle \in Nat /\ ssrCE \in BOOLEAN /\ pcWrapped \in BOOLEAN
    /\ pcReg \in [PcRegs -> [lo : 0 .. WORD - 1, hi : Nat, all : Nat]]

(* The count with its low word cleared; it is the same at every read of a    *)
(* check that did not wrap.                                                  *)
PcHigh == WORD * Hi(pcycle)
Steady == ~ pcWrapped
RegA == pcReg["a"]
RegB == pcReg["b"]

(* Cycles from the first read of a test to each place of it.                 *)
Elapsed1 == <<0, 0, 2, 3, 4, 9, 11, 12, 13, 13>>
Elapsed2 == <<0, 0, 2, 5, 6, 8>>

Test1Inv(n) ==
    /\ n \in 1 .. 10
    /\ n >= 3 => pcycle = RegA.all + Elapsed1[n]
    /\ n >= 4 /\ Steady => RegA.hi = Hi(pcycle)
    /\ n >= 5 /\ Steady => RegA.lo = RegA.all + 3 - PcHigh
    /\ n >= 7 => RegB.all = RegA.all + 9
    /\ n >= 8 /\ Steady => RegB.hi = Hi(pcycle)
    /\ n >= 9 /\ Steady => RegB.lo = RegB.all + 3 - PcHigh

Test2Inv(n) ==
    /\ n \in 1 .. 6
    /\ n >= 3 => pcycle = RegA.all + Elapsed2[n]
    /\ n = 6 => RegB.all = RegA.all + 6

Test3Inv(n) ==
    /\ n \in 1 .. 3
    /\ n = 2 => pcycle = RegA.all + 2
    /\ n >= 2 /\ Steady => Lo(RegA.all) = RegA.all - PcHigh
    /\ n = 3 => RegB.all = RegA.all + 2 /\ (Steady => Lo(RegB.all) = RegB.all - PcHigh)

(* The copies: hidden up to place 10, shown from place 11 on.                *)
CopyInv(n) ==
    /\ n \in 1 .. 18
    /\ n \in 2 .. 10 => ~ ssrCE
    /\ n >= 11 => ssrCE
    /\ n \in 5 .. 6 => RegB.lo = 0
    /\ n = 6 => RegB.hi = 0
    /\ n = 9 => RegB.all = 0
    /\ n \in 12 .. 13 /\ Steady => RegA.lo = pcycle - (n - 11) - PcHigh
    /\ n \in 13 .. 15 /\ Steady => RegA.hi = Hi(pcycle)
    /\ n \in 14 .. 15 /\ Steady => RegB.lo = RegA.lo + 2
    /\ n = 15 /\ Steady => RegB.hi = Hi(pcycle)
    /\ n = 17 => pcycle = RegA.all + 2
    /\ n \in 17 .. 18 /\ Steady => Lo(RegA.all) = RegA.all - PcHigh
    /\ n = 18 => RegB.all = RegA.all + 2 /\ (Steady => Lo(RegB.all) = RegB.all - PcHigh)

PcPlaceInv ==
    /\ pcStep \in [test : 1 .. 6, at : 1 .. 18]
    /\ pcStep.test = 1 => Test1Inv(pcStep.at)
    /\ pcStep.test = 2 => Test2Inv(pcStep.at)
    /\ pcStep.test = 3 => Test3Inv(pcStep.at)
    /\ pcStep.test \in 4 .. 5 => CopyInv(pcStep.at)
PcInv == PcTypeOK /\ PcPlaceInv /\ CycleChecksPass

LEMMA Halved ==
  ASSUME NEW n \in Nat
  PROVE  Hi(n) \in Nat /\ Lo(n) \in 0 .. WORD - 1 /\ Lo(n) = n - WORD * Hi(n)
<1>1. WORD \in Nat /\ WORD > 0
  BY CycleAssumption
<1>2. n \div WORD \in Nat
  BY <1>1
<1>3. n % WORD \in 0 .. WORD - 1
  BY <1>1
<1>4. n = WORD * (n \div WORD) + (n % WORD)
  BY <1>1
<1>5. WORD * (n \div WORD) \in Nat
  BY <1>1, <1>2
<1>6. n % WORD = n - WORD * (n \div WORD)
  BY <1>3, <1>4, <1>5
<1> QED
  BY <1>2, <1>3, <1>6 DEF Hi, Lo

(* A number is the low word it leaves after whole words.                     *)
LEMMA LowWord ==
  ASSUME NEW q \in Nat, NEW r \in 0 .. WORD - 1
  PROVE  Lo(WORD * q + r) = r /\ Hi(WORD * q + r) = q
<1>1. WORD \in Nat /\ WORD > 0 /\ r \in Nat /\ r < WORD
  BY CycleAssumption
<1> DEFINE n == WORD * q + r
           d == Hi(n)
<1>2. n \in Nat
  BY <1>1
<1>3. d \in Nat /\ Lo(n) \in 0 .. WORD - 1 /\ Lo(n) = n - WORD * d
  BY <1>2, Halved
<1> HIDE DEF d
<1>4. ~ (d < q)
  <2> SUFFICES ASSUME d < q PROVE FALSE
    OBVIOUS
  <2>1. PICK j \in Nat : q = d + 1 + j
    <3>1. q - d - 1 \in Nat /\ q = d + 1 + (q - d - 1)
      BY <1>3
    <3> QED
      BY <3>1
  <2>2. WORD * q = WORD * d + WORD + WORD * j /\ WORD * j >= 0
    BY <1>1, <1>3, <2>1
  <2> QED
    BY <1>1, <1>3, <2>2
<1>5. ~ (q < d)
  <2> SUFFICES ASSUME q < d PROVE FALSE
    OBVIOUS
  <2>1. PICK j \in Nat : d = q + 1 + j
    <3>1. d - q - 1 \in Nat /\ d = q + 1 + (d - q - 1)
      BY <1>3
    <3> QED
      BY <3>1
  <2>2. WORD * d = WORD * q + WORD + WORD * j /\ WORD * j >= 0
    BY <1>1, <1>3, <2>1
  <2> QED
    BY <1>1, <1>3, <2>2
<1>6. d = q
  BY <1>3, <1>4, <1>5
<1> QED
  BY <1>1, <1>3, <1>6 DEF d

LEMMA LowOfSmall == ASSUME NEW r \in 0 .. WORD - 1 PROVE Lo(r) = r /\ Hi(r) = 0
<1>1. WORD * 0 + r = r /\ 0 \in Nat
  BY CycleAssumption
<1> QED
  BY <1>1, LowWord

LEMMA ZeroIn == 0 \in 0 .. WORD - 1 /\ Lo(0) = 0 /\ Hi(0) = 0
<1>1. 0 \in 0 .. WORD - 1
  BY CycleAssumption
<1> QED
  BY <1>1, LowOfSmall

(* Time passes: without a wrap the high word stays.                          *)
SteadyKept == Steady' => Steady /\ Hi(pcycle') = Hi(pcycle) /\ PcHigh' = PcHigh

LEMMA TickEffect ==
  ASSUME PcTypeOK, Tick, NEW k \in Nat, PcArg.cost = k
  PROVE  pcycle' = pcycle + k /\ pcycle' \in Nat /\ pcWrapped' \in BOOLEAN /\ SteadyKept
<1>1. pcycle' = pcycle + k /\ pcWrapped' = (pcWrapped \/ Hi(pcycle') # Hi(pcycle))
  BY DEF Tick
<1>2. pcycle' \in Nat
  BY <1>1 DEF PcTypeOK
<1> QED
  BY <1>1, <1>2 DEF SteadyKept, Steady, PcHigh

PcMoves == pcStep' = IF pcStep.at = Len(PcMain[pcStep.test]) THEN [test |-> pcStep.test + 1, at |-> 1]
                     ELSE [pcStep EXCEPT !.at = @ + 1]

LEMMA HalfEffect ==
  ASSUME PcTypeOK, PcNext, NEW r \in PcRegs, NEW part \in {"lo", "hi"}, NEW copy \in BOOLEAN,
         PcArg = Half(r, part, copy)
  PROVE  LET n == IF copy /\ ~ ssrCE THEN 0 ELSE pcycle
         IN /\ PcMoves /\ pcycle' = pcycle + 1 /\ UNCHANGED <<ssrCE, pcFail>> /\ SteadyKept
            /\ pcReg'[r].lo = IF part = "lo" THEN Lo(n) ELSE pcReg[r].lo
            /\ pcReg'[r].hi = IF part = "hi" THEN Hi(n) ELSE pcReg[r].hi
            /\ pcReg'[r].all = pcReg[r].all
            /\ \A s \in PcRegs \ {r} : pcReg'[s] = pcReg[s]
            /\ PcTypeOK'
<1>1. /\ PcArg.op = "read" /\ PcArg.r = r /\ PcArg.part = part /\ PcArg.copy = copy /\ PcArg.cost = 1
  BY DEF Half
<1>2. PcRead
  BY <1>1 DEF PcNext, PcCall, PcEnable, PcSpend, clr_set_ssr_ce, PcRunCheck
<1> DEFINE n == IF copy /\ ~ ssrCE THEN 0 ELSE pcycle
           new == IF part = "lo" THEN [pcReg[r] EXCEPT !.lo = Lo(n)] ELSE [pcReg[r] EXCEPT !.hi = Hi(n)]
<1>3. PcMoves /\ UNCHANGED <<ssrCE, pcFail>> /\ Tick
  BY <1>2 DEF PcRead, PcCall, PcMoves
<1>4. pcReg' = [pcReg EXCEPT ![r] = new]
  <2>1. CASE part = "lo"
    BY <1>1, <1>2, <2>1 DEF PcRead
  <2>2. CASE part = "hi"
    BY <1>1, <1>2, <2>2 DEF PcRead
  <2> QED
    BY <2>1, <2>2
<1>5. pcycle' = pcycle + 1 /\ pcycle' \in Nat /\ pcWrapped' \in BOOLEAN /\ SteadyKept
  BY <1>1, <1>3, TickEffect
<1>6. n \in Nat
  BY DEF PcTypeOK
<1> HIDE DEF n
<1>7. Lo(n) \in 0 .. WORD - 1 /\ Hi(n) \in Nat
  BY <1>6, Halved
<1>8. pcReg[r] \in [lo : 0 .. WORD - 1, hi : Nat, all : Nat]
  BY DEF PcTypeOK
<1>9. /\ new \in [lo : 0 .. WORD - 1, hi : Nat, all : Nat]
      /\ new.lo = IF part = "lo" THEN Lo(n) ELSE pcReg[r].lo
      /\ new.hi = IF part = "hi" THEN Hi(n) ELSE pcReg[r].hi
      /\ new.all = pcReg[r].all
  BY <1>7, <1>8
<1> HIDE DEF new
<1>10. /\ pcReg' \in [PcRegs -> [lo : 0 .. WORD - 1, hi : Nat, all : Nat]]
       /\ pcReg'[r] = new /\ \A s \in PcRegs \ {r} : pcReg'[s] = pcReg[s]
  BY <1>4, <1>9 DEF PcTypeOK
<1>11. PcTypeOK'
  BY <1>3, <1>5, <1>10 DEF PcTypeOK
<1> QED
  BY <1>3, <1>5, <1>9, <1>10, <1>11 DEF n

LEMMA PairEffect ==
  ASSUME PcTypeOK, PcNext, NEW r \in PcRegs, NEW copy \in BOOLEAN, PcArg = Pair(r, copy)
  PROVE  LET n == IF copy /\ ~ ssrCE THEN 0 ELSE pcycle
         IN /\ PcMoves /\ pcycle' = pcycle + 2 /\ UNCHANGED <<ssrCE, pcFail>> /\ SteadyKept
            /\ pcReg'[r].lo = pcReg[r].lo /\ pcReg'[r].hi = pcReg[r].hi /\ pcReg'[r].all = n
            /\ \A s \in PcRegs \ {r} : pcReg'[s] = pcReg[s]
            /\ PcTypeOK'
<1>1. /\ PcArg.op = "read" /\ PcArg.r = r /\ PcArg.part = "all" /\ PcArg.copy = copy /\ PcArg.cost = 2
  BY DEF Pair
<1>2. PcRead
  BY <1>1 DEF PcNext, PcCall, PcEnable, PcSpend, clr_set_ssr_ce, PcRunCheck
<1> DEFINE n == IF copy /\ ~ ssrCE THEN 0 ELSE pcycle
           new == [lo |-> pcReg[r].lo, hi |-> pcReg[r].hi, all |-> n]
<1>3. PcMoves /\ UNCHANGED <<ssrCE, pcFail>> /\ Tick
  BY <1>2 DEF PcRead, PcCall, PcMoves
<1>4. pcReg' = [pcReg EXCEPT ![r] = new]
  BY <1>1, <1>2 DEF PcRead
<1>5. pcycle' = pcycle + 2 /\ pcycle' \in Nat /\ pcWrapped' \in BOOLEAN /\ SteadyKept
  BY <1>1, <1>3, TickEffect
<1>6. n \in Nat
  BY DEF PcTypeOK
<1> HIDE DEF n
<1>8. pcReg[r] \in [lo : 0 .. WORD - 1, hi : Nat, all : Nat]
  BY DEF PcTypeOK
<1>9. /\ new \in [lo : 0 .. WORD - 1, hi : Nat, all : Nat]
      /\ new.lo = pcReg[r].lo /\ new.hi = pcReg[r].hi /\ new.all = n
  BY <1>6, <1>8
<1> HIDE DEF new
<1>10. /\ pcReg' \in [PcRegs -> [lo : 0 .. WORD - 1, hi : Nat, all : Nat]]
       /\ pcReg'[r] = new /\ \A s \in PcRegs \ {r} : pcReg'[s] = pcReg[s]
  BY <1>4, <1>9 DEF PcTypeOK
<1>11. PcTypeOK'
  BY <1>3, <1>5, <1>10 DEF PcTypeOK
<1> QED
  BY <1>3, <1>5, <1>9, <1>10, <1>11 DEF n

LEMMA SpendEffect ==
  ASSUME PcTypeOK, PcNext, NEW k \in Nat, PcArg = Spend(k)
  PROVE  /\ PcMoves /\ pcycle' = pcycle + k /\ UNCHANGED <<ssrCE, pcFail, pcReg>> /\ SteadyKept /\ PcTypeOK'
<1>1. PcArg.op = "spend" /\ PcArg.cost = k
  BY DEF Spend
<1>2. PcSpend
  BY <1>1 DEF PcNext, PcCall, PcEnable, PcRead, clr_set_ssr_ce, PcRunCheck
<1>3. PcMoves /\ UNCHANGED <<ssrCE, pcFail, pcReg>> /\ Tick
  BY <1>2 DEF PcSpend, PcCall, PcMoves
<1>4. pcycle' = pcycle + k /\ pcycle' \in Nat /\ pcWrapped' \in BOOLEAN /\ SteadyKept
  BY <1>1, <1>3, TickEffect
<1> QED
  BY <1>3, <1>4 DEF PcTypeOK

LEMMA EnableEffect ==
  ASSUME PcTypeOK, PcNext, PcArg = ENABLE_PCYCLE
  PROVE  PcMoves /\ UNCHANGED pcFail /\ PcTypeOK'
<1>1. PcArg.op = "enable"
  BY DEF ENABLE_PCYCLE
<1>2. PcEnable
  BY <1>1 DEF PcNext, PcCall, PcSpend, PcRead, clr_set_ssr_ce, PcRunCheck
<1>3. PcMoves /\ pcycle' \in {0, pcycle} /\ pcWrapped' = FALSE /\ UNCHANGED <<ssrCE, pcReg, pcFail>>
  BY <1>2 DEF PcEnable, PcCall, PcMoves
<1>4. pcycle' \in Nat
  BY <1>3 DEF PcTypeOK
<1>5. pcWrapped' \in BOOLEAN /\ ssrCE' \in BOOLEAN
  BY <1>3 DEF PcTypeOK
<1> QED
  BY <1>3, <1>4, <1>5 DEF PcTypeOK

LEMMA CeEffect ==
  ASSUME PcTypeOK, PcNext, NEW on \in BOOLEAN, PcArg = SetCE(on)
  PROVE  PcMoves /\ UNCHANGED <<pcFail, pcReg>> /\ ssrCE' = on /\ PcTypeOK'
<1>1. PcArg.op = "ce" /\ PcArg.on = on
  BY DEF SetCE
<1>2. clr_set_ssr_ce
  BY <1>1 DEF PcNext, PcCall, PcSpend, PcRead, PcEnable, PcRunCheck
<1> QED
  BY <1>1, <1>2 DEF clr_set_ssr_ce, PcCall, PcMoves, PcTypeOK

(* A check that passes, or may fail, leaves only failures that may be.       *)
LEMMA CheckEffect ==
  ASSUME PcTypeOK, PcNext, CycleChecksPass, NEW name, PcArg = PcCheck(name),
         ~ PcPasses(name, RegA, RegB) =>
             \/ pcWrapped
             \/ name = "copy" /\ ~ RangeHolds(Lo(RegA.all))
             \/ name = "copy_halves" /\ ~ RangeHolds(RegA.lo)
  PROVE  /\ PcMoves /\ UNCHANGED <<ssrCE, pcReg, pcycle>> /\ CycleChecksPass' /\ PcTypeOK'
         /\ name = "halves" => SteadyKept
<1>1. PcArg.op = "check" /\ PcArg.name = name
  BY DEF PcCheck
<1>2. PcRunCheck
  BY <1>1 DEF PcNext, PcCall, PcSpend, PcRead, PcEnable, clr_set_ssr_ce
<1>3. PcMoves /\ UNCHANGED <<ssrCE, pcReg, pcycle>>
  BY <1>2 DEF PcRunCheck, PcCall, PcMoves
<1> DEFINE f == [name |-> name, low |-> Lo(RegA.all), lo |-> RegA.lo, wrapped |-> pcWrapped]
<1>4. pcFail' = IF PcPasses(name, RegA, RegB) THEN pcFail ELSE pcFail \cup {f}
  BY <1>1, <1>2 DEF PcRunCheck, RegA, RegB
<1>5. CycleChecksPass'
  <2>1. f.name = name /\ f.low = Lo(RegA.all) /\ f.lo = RegA.lo /\ f.wrapped = pcWrapped
    OBVIOUS
  <2> HIDE DEF f
  <2>2. CASE PcPasses(name, RegA, RegB)
    BY <1>4, <2>2 DEF CycleChecksPass
  <2>3. CASE ~ PcPasses(name, RegA, RegB)
    BY <1>4, <2>1, <2>3 DEF CycleChecksPass
  <2> QED
    BY <2>2, <2>3
<1>6. pcWrapped' = IF name = "halves" THEN pcWrapped ELSE FALSE
  BY <1>1, <1>2 DEF PcRunCheck
<1>7. PcTypeOK'
  BY <1>3, <1>6 DEF PcTypeOK
<1> QED
  BY <1>3, <1>5, <1>6, <1>7 DEF SteadyKept, Steady, PcHigh

(* The places of each test.                                                  *)

LEMMA PcText ==
  /\ Len(PcMain) = 5 /\ PcMain[1] = test_pcycle /\ PcMain[2] = test_pcycle2 /\ PcMain[3] = test_pcycle_read
  /\ PcMain[4] = test_copy /\ PcMain[5] = test_copy
  /\ Len(test_pcycle) = 10 /\ Len(test_pcycle2) = 6 /\ Len(test_pcycle_read) = 3 /\ Len(test_copy) = 18
BY DEF PcMain, test_pcycle, test_pcycle2, test_pcycle_read, test_copy

LEMMA PcPlace ==
  ASSUME PcPlaceInv, PcMoves, NEW len \in 1 .. 18, Len(PcMain[pcStep.test]) = len, pcStep.at <= len, pcStep.test <= 5
  PROVE  /\ pcStep' \in [test : 1 .. 6, at : 1 .. 18]
         /\ pcStep.at = len => pcStep'.test = pcStep.test + 1 /\ pcStep'.at = 1
         /\ pcStep.at < len => pcStep'.test = pcStep.test /\ pcStep'.at = pcStep.at + 1
BY SMTT(30) DEF PcPlaceInv, PcMoves

(* What is known of the numbers anywhere.                                    *)
LEMMA PcNumbers ==
  ASSUME PcTypeOK
  PROVE  /\ RegA.lo \in 0 .. WORD - 1 /\ RegA.hi \in Nat /\ RegA.all \in Nat
         /\ RegB.lo \in 0 .. WORD - 1 /\ RegB.hi \in Nat /\ RegB.all \in Nat
         /\ pcycle \in Nat /\ PcHigh \in Nat /\ Hi(pcycle) \in Nat
         /\ Lo(pcycle) = pcycle - PcHigh
<1>1. Hi(pcycle) \in Nat /\ Lo(pcycle) = pcycle - WORD * Hi(pcycle)
  BY Halved DEF PcTypeOK
<1>2. WORD * Hi(pcycle) \in Nat
  BY <1>1, CycleAssumption
<1>3. pcReg["a"] \in [lo : 0 .. WORD - 1, hi : Nat, all : Nat] /\ pcReg["b"] \in [lo : 0 .. WORD - 1, hi : Nat, all : Nat]
  BY DEF PcTypeOK, PcRegs
<1> QED
  BY <1>1, <1>2, <1>3 DEF PcTypeOK, PcHigh, RegA, RegB

(* The range check on a copy read two cycles later.                          *)
LEMMA RangeOfSmall ==
  ASSUME NEW low \in 0 .. WORD - 1, NEW v \in 0 .. WORD - 1, v = low + 2, RangeHolds(low)
  PROVE  __check_range(v, low, low * MAX_HW_THREADS)
<1> DEFINE top == low * MAX_HW_THREADS
<1>1. top \in Nat
  BY CycleAssumption
<1>2. low + 2 <= top /\ top < WORD
  BY DEF RangeHolds
<1> HIDE DEF top
<1>3. top \in 0 .. WORD - 1
  BY <1>1, <1>2, CycleAssumption
<1>4. Lo(low) = low /\ Lo(v) = v /\ Lo(top) = top
  BY <1>3, LowOfSmall
<1> QED
  BY <1>2, <1>4 DEF __check_range, top

LEMMA RangeOfCount ==
  ASSUME NEW n \in Nat, NEW v \in Nat, Lo(v) = Lo(n) + 2, RangeHolds(Lo(n))
  PROVE  __check_range(v, n, n * MAX_HW_THREADS)
<1> DEFINE low == Lo(n)
           top == low * MAX_HW_THREADS
           q == Hi(n) * MAX_HW_THREADS
<1>1. low \in 0 .. WORD - 1 /\ Hi(n) \in Nat /\ low = n - WORD * Hi(n) /\ WORD \in Nat /\ MAX_HW_THREADS \in Nat
  BY Halved, CycleAssumption
<1>2. top \in Nat /\ q \in Nat
  BY <1>1
<1>3. low + 2 <= top /\ top < WORD
  BY DEF RangeHolds
<1>4. n * MAX_HW_THREADS = WORD * q + top
  <2>1. n = WORD * Hi(n) + low
    BY <1>1
  <2>2. WORD * (Hi(n) * MAX_HW_THREADS) = (WORD * Hi(n)) * MAX_HW_THREADS
    BY <1>1
  <2> DEFINE w == WORD * Hi(n)
  <2>3. w \in Nat
    BY <1>1
  <2> HIDE DEF w, low
  <2>4. (w + low) * MAX_HW_THREADS = w * MAX_HW_THREADS + low * MAX_HW_THREADS
    BY <1>1, <2>3
  <2> QED
    BY <2>1, <2>2, <2>4 DEF w
<1> HIDE DEF top, q
<1>5. top \in 0 .. WORD - 1
  BY <1>1, <1>2, <1>3
<1>6. Lo(n * MAX_HW_THREADS) = top
  BY <1>2, <1>4, <1>5, LowWord
<1> QED
  BY <1>1, <1>3, <1>6 DEF __check_range

LEMMA PcTestpcycleStep == ASSUME PcInv, PcNext, pcStep.test = 1 PROVE PcInv'
<1>0. PcTypeOK /\ PcPlaceInv /\ CycleChecksPass /\ Test1Inv(pcStep.at)
  BY DEF PcInv, PcPlaceInv
<1>1. /\ RegA.lo \in 0 .. WORD - 1 /\ RegA.hi \in Nat /\ RegA.all \in Nat
      /\ RegB.lo \in 0 .. WORD - 1 /\ RegB.hi \in Nat /\ RegB.all \in Nat
      /\ pcycle \in Nat /\ PcHigh \in Nat /\ Hi(pcycle) \in Nat
      /\ Lo(pcycle) = pcycle - PcHigh
  BY <1>0, PcNumbers
<1>2. Len(PcMain[pcStep.test]) = 10 /\ PcArg = test_pcycle[pcStep.at]
  BY PcText DEF PcArg
<1>3. pcStep.at \in 1 .. 10
  BY <1>0 DEF Test1Inv
<1>4. ASSUME PcMoves, PcTypeOK', CycleChecksPass', NEW m \in 2 .. 10, m = pcStep.at + 1, Test1Inv(m)' PROVE PcInv'
  <2>1. pcStep' \in [test : 1 .. 6, at : 1 .. 18] /\ pcStep'.test = pcStep.test /\ pcStep'.at = m
    BY <1>0, <1>2, <1>3, <1>4, PcPlace
  <2> QED
    BY <1>4, <2>1 DEF PcInv, PcPlaceInv
<1>5. ASSUME PcMoves, PcTypeOK', CycleChecksPass', pcStep.at = 10, Test2Inv(1)' PROVE PcInv'
  <2>1. pcStep' \in [test : 1 .. 6, at : 1 .. 18] /\ pcStep'.test = pcStep.test + 1 /\ pcStep'.at = 1
    BY <1>0, <1>2, <1>3, <1>5, PcPlace
  <2> QED
    BY <1>5, <2>1 DEF PcInv, PcPlaceInv
<1>6. CASE pcStep.at = 1
  <2>1. PcArg = ENABLE_PCYCLE
    BY <1>2, <1>6 DEF test_pcycle
  <2>2. Test1Inv(1)
    BY <1>0, <1>6
  <2>3. PcMoves /\ PcTypeOK' /\ UNCHANGED pcFail
    BY <1>0, <2>1, EnableEffect
  <2>4. CycleChecksPass'
    BY <1>0, <2>3 DEF CycleChecksPass
  <2>5. Test1Inv(2)'
    BY <2>2, <2>3 DEF Test1Inv, SteadyKept, Elapsed1
  <2> QED
    BY <1>4, <1>6, <2>3, <2>4, <2>5
<1>7. CASE pcStep.at = 2
  <2>1. PcArg = Pair("a", FALSE)
    BY <1>2, <1>7 DEF test_pcycle
  <2>2. Test1Inv(2)
    BY <1>0, <1>7
  <2>3. /\ PcMoves /\ PcTypeOK' /\ UNCHANGED <<ssrCE, pcFail>> /\ pcycle' = pcycle + 2 /\ SteadyKept
        /\ RegA'.lo = RegA.lo /\ RegA'.hi = RegA.hi /\ RegA'.all = pcycle /\ RegB' = RegB
    BY <1>0, <2>1, PairEffect DEF RegA, RegB, PcRegs
  <2>4. CycleChecksPass'
    BY <1>0, <2>3 DEF CycleChecksPass
  <2>5. Test1Inv(3)'
    BY <1>1, <2>2, <2>3 DEF Test1Inv, SteadyKept, Elapsed1
  <2> QED
    BY <1>4, <1>7, <2>3, <2>4, <2>5
<1>8. CASE pcStep.at = 3
  <2>1. PcArg = Half("a", "hi", FALSE)
    BY <1>2, <1>8 DEF test_pcycle
  <2>2. Test1Inv(3)
    BY <1>0, <1>8
  <2>3. /\ PcMoves /\ PcTypeOK' /\ UNCHANGED <<ssrCE, pcFail>> /\ pcycle' = pcycle + 1 /\ SteadyKept
        /\ RegA'.lo = RegA.lo /\ RegA'.hi = Hi(pcycle) /\ RegA'.all = RegA.all /\ RegB' = RegB
    BY <1>0, <2>1, HalfEffect DEF RegA, RegB, PcRegs
  <2>4. CycleChecksPass'
    BY <1>0, <2>3 DEF CycleChecksPass
  <2>5. Test1Inv(4)'
    BY <1>1, <2>2, <2>3 DEF Test1Inv, SteadyKept, Elapsed1
  <2> QED
    BY <1>4, <1>8, <2>3, <2>4, <2>5
<1>9. CASE pcStep.at = 4
  <2>1. PcArg = Half("a", "lo", FALSE)
    BY <1>2, <1>9 DEF test_pcycle
  <2>2. Test1Inv(4)
    BY <1>0, <1>9
  <2>3. /\ PcMoves /\ PcTypeOK' /\ UNCHANGED <<ssrCE, pcFail>> /\ pcycle' = pcycle + 1 /\ SteadyKept
        /\ RegA'.lo = Lo(pcycle) /\ RegA'.hi = RegA.hi /\ RegA'.all = RegA.all /\ RegB' = RegB
    BY <1>0, <2>1, HalfEffect DEF RegA, RegB, PcRegs
  <2>4. CycleChecksPass'
    BY <1>0, <2>3 DEF CycleChecksPass
  <2>5. Test1Inv(5)'
    BY <1>1, <2>2, <2>3 DEF Test1Inv, SteadyKept, Elapsed1
  <2> QED
    BY <1>4, <1>9, <2>3, <2>4, <2>5
<1>10. CASE pcStep.at = 5
  <2>1. PcArg = Spend(5)
    BY <1>2, <1>10 DEF test_pcycle
  <2>2. Test1Inv(5)
    BY <1>0, <1>10
  <2>3. PcMoves /\ PcTypeOK' /\ UNCHANGED pcFail /\ pcycle' = pcycle + 5 /\ RegA' = RegA /\ RegB' = RegB /\ SteadyKept
    BY <1>0, <2>1, SpendEffect DEF RegA, RegB
  <2>4. CycleChecksPass'
    BY <1>0, <2>3 DEF CycleChecksPass
  <2>5. Test1Inv(6)'
    BY <1>1, <2>2, <2>3 DEF Test1Inv, SteadyKept, Elapsed1
  <2> QED
    BY <1>4, <1>10, <2>3, <2>4, <2>5
<1>11. CASE pcStep.at = 6
  <2>1. PcArg = Pair("b", FALSE)
    BY <1>2, <1>11 DEF test_pcycle
  <2>2. Test1Inv(6)
    BY <1>0, <1>11
  <2>3. /\ PcMoves /\ PcTypeOK' /\ UNCHANGED <<ssrCE, pcFail>> /\ pcycle' = pcycle + 2 /\ SteadyKept
        /\ RegB'.lo = RegB.lo /\ RegB'.hi = RegB.hi /\ RegB'.all = pcycle /\ RegA' = RegA
    BY <1>0, <2>1, PairEffect DEF RegA, RegB, PcRegs
  <2>4. CycleChecksPass'
    BY <1>0, <2>3 DEF CycleChecksPass
  <2>5. Test1Inv(7)'
    BY <1>1, <2>2, <2>3 DEF Test1Inv, SteadyKept, Elapsed1
  <2> QED
    BY <1>4, <1>11, <2>3, <2>4, <2>5
<1>12. CASE pcStep.at = 7
  <2>1. PcArg = Half("b", "hi", FALSE)
    BY <1>2, <1>12 DEF test_pcycle
  <2>2. Test1Inv(7)
    BY <1>0, <1>12
  <2>3. /\ PcMoves /\ PcTypeOK' /\ UNCHANGED <<ssrCE, pcFail>> /\ pcycle' = pcycle + 1 /\ SteadyKept
        /\ RegB'.lo = RegB.lo /\ RegB'.hi = Hi(pcycle) /\ RegB'.all = RegB.all /\ RegA' = RegA
    BY <1>0, <2>1, HalfEffect DEF RegA, RegB, PcRegs
  <2>4. CycleChecksPass'
    BY <1>0, <2>3 DEF CycleChecksPass
  <2>5. Test1Inv(8)'
    BY <1>1, <2>2, <2>3 DEF Test1Inv, SteadyKept, Elapsed1
  <2> QED
    BY <1>4, <1>12, <2>3, <2>4, <2>5
<1>13. CASE pcStep.at = 8
  <2>1. PcArg = Half("b", "lo", FALSE)
    BY <1>2, <1>13 DEF test_pcycle
  <2>2. Test1Inv(8)
    BY <1>0, <1>13
  <2>3. /\ PcMoves /\ PcTypeOK' /\ UNCHANGED <<ssrCE, pcFail>> /\ pcycle' = pcycle + 1 /\ SteadyKept
        /\ RegB'.lo = Lo(pcycle) /\ RegB'.hi = RegB.hi /\ RegB'.all = RegB.all /\ RegA' = RegA
    BY <1>0, <2>1, HalfEffect DEF RegA, RegB, PcRegs
  <2>4. CycleChecksPass'
    BY <1>0, <2>3 DEF CycleChecksPass
  <2>5. Test1Inv(9)'
    BY <1>1, <2>2, <2>3 DEF Test1Inv, SteadyKept, Elapsed1
  <2> QED
    BY <1>4, <1>13, <2>3, <2>4, <2>5
<1>14. CASE pcStep.at = 9
  <2>1. PcArg = PcCheck("halves")
    BY <1>2, <1>14 DEF test_pcycle
  <2>2. Test1Inv(9)
    BY <1>0, <1>14
  <2>3. /\ PcMoves /\ PcTypeOK' /\ CycleChecksPass' /\ RegA' = RegA /\ RegB' = RegB /\ UNCHANGED <<ssrCE, pcycle>> /\ SteadyKept
    <3>1. ~ PcPasses("halves", RegA, RegB) =>
              \/ pcWrapped
              \/ "halves" = "copy" /\ ~ RangeHolds(Lo(RegA.all))
              \/ "halves" = "copy_halves" /\ ~ RangeHolds(RegA.lo)
      <4>1. Steady => RegB.all + combine(RegA) = RegA.all + combine(RegB)
        <5>1. Steady => combine(RegA) = PcHigh + RegA.lo /\ combine(RegB) = PcHigh + RegB.lo
          BY <2>2 DEF Test1Inv, combine, PcHigh
        <5> QED
          BY <1>1, <2>2, <5>1 DEF Test1Inv
      <4> QED
        BY <4>1 DEF PcPasses, Steady
    <3> QED
      BY <1>0, <2>1, <3>1, CheckEffect DEF RegA, RegB
  <2>5. Test1Inv(10)'
    BY <1>1, <2>2, <2>3 DEF Test1Inv, SteadyKept, Elapsed1
  <2> QED
    BY <1>4, <1>14, <2>3, <2>3, <2>5
<1>15. CASE pcStep.at = 10
  <2>1. PcArg = PcCheck("adds")
    BY <1>2, <1>15 DEF test_pcycle
  <2>2. Test1Inv(10)
    BY <1>0, <1>15
  <2>3. /\ PcMoves /\ PcTypeOK' /\ CycleChecksPass' /\ RegA' = RegA /\ RegB' = RegB /\ UNCHANGED <<ssrCE, pcycle>>
    <3>1. ~ PcPasses("adds", RegA, RegB) =>
              \/ pcWrapped
              \/ "adds" = "copy" /\ ~ RangeHolds(Lo(RegA.all))
              \/ "adds" = "copy_halves" /\ ~ RangeHolds(RegA.lo)
      BY <1>1, <2>2 DEF PcPasses, Test1Inv
    <3> QED
      BY <1>0, <2>1, <3>1, CheckEffect DEF RegA, RegB
  <2>5. Test2Inv(1)'
    BY DEF Test2Inv
  <2> QED
    BY <1>5, <1>15, <2>3, <2>3, <2>5
<1> QED
  BY <1>3, <1>6, <1>7, <1>8, <1>9, <1>10, <1>11, <1>12, <1>13, <1>14, <1>15

LEMMA PcTestpcycle2Step == ASSUME PcInv, PcNext, pcStep.test = 2 PROVE PcInv'
<1>0. PcTypeOK /\ PcPlaceInv /\ CycleChecksPass /\ Test2Inv(pcStep.at)
  BY DEF PcInv, PcPlaceInv
<1>1. /\ RegA.lo \in 0 .. WORD - 1 /\ RegA.hi \in Nat /\ RegA.all \in Nat
      /\ RegB.lo \in 0 .. WORD - 1 /\ RegB.hi \in Nat /\ RegB.all \in Nat
      /\ pcycle \in Nat /\ PcHigh \in Nat /\ Hi(pcycle) \in Nat
      /\ Lo(pcycle) = pcycle - PcHigh
  BY <1>0, PcNumbers
<1>2. Len(PcMain[pcStep.test]) = 6 /\ PcArg = test_pcycle2[pcStep.at]
  BY PcText DEF PcArg
<1>3. pcStep.at \in 1 .. 6
  BY <1>0 DEF Test2Inv
<1>4. ASSUME PcMoves, PcTypeOK', CycleChecksPass', NEW m \in 2 .. 6, m = pcStep.at + 1, Test2Inv(m)' PROVE PcInv'
  <2>1. pcStep' \in [test : 1 .. 6, at : 1 .. 18] /\ pcStep'.test = pcStep.test /\ pcStep'.at = m
    BY <1>0, <1>2, <1>3, <1>4, PcPlace
  <2> QED
    BY <1>4, <2>1 DEF PcInv, PcPlaceInv
<1>5. ASSUME PcMoves, PcTypeOK', CycleChecksPass', pcStep.at = 6, Test3Inv(1)' PROVE PcInv'
  <2>1. pcStep' \in [test : 1 .. 6, at : 1 .. 18] /\ pcStep'.test = pcStep.test + 1 /\ pcStep'.at = 1
    BY <1>0, <1>2, <1>3, <1>5, PcPlace
  <2> QED
    BY <1>5, <2>1 DEF PcInv, PcPlaceInv
<1>6. CASE pcStep.at = 1
  <2>1. PcArg = ENABLE_PCYCLE
    BY <1>2, <1>6 DEF test_pcycle2
  <2>2. Test2Inv(1)
    BY <1>0, <1>6
  <2>3. PcMoves /\ PcTypeOK' /\ UNCHANGED pcFail
    BY <1>0, <2>1, EnableEffect
  <2>4. CycleChecksPass'
    BY <1>0, <2>3 DEF CycleChecksPass
  <2>5. Test2Inv(2)'
    BY <2>2, <2>3 DEF Test2Inv, SteadyKept, Elapsed2
  <2> QED
    BY <1>4, <1>6, <2>3, <2>4, <2>5
<1>7. CASE pcStep.at = 2
  <2>1. PcArg = Pair("a", FALSE)
    BY <1>2, <1>7 DEF test_pcycle2
  <2>2. Test2Inv(2)
    BY <1>0, <1>7
  <2>3. /\ PcMoves /\ PcTypeOK' /\ UNCHANGED <<ssrCE, pcFail>> /\ pcycle' = pcycle + 2 /\ SteadyKept
        /\ RegA'.lo = RegA.lo /\ RegA'.hi = RegA.hi /\ RegA'.all = pcycle /\ RegB' = RegB
    BY <1>0, <2>1, PairEffect DEF RegA, RegB, PcRegs
  <2>4. CycleChecksPass'
    BY <1>0, <2>3 DEF CycleChecksPass
  <2>5. Test2Inv(3)'
    BY <1>1, <2>2, <2>3 DEF Test2Inv, SteadyKept, Elapsed2
  <2> QED
    BY <1>4, <1>7, <2>3, <2>4, <2>5
<1>8. CASE pcStep.at = 3
  <2>1. PcArg = Spend(3)
    BY <1>2, <1>8 DEF test_pcycle2
  <2>2. Test2Inv(3)
    BY <1>0, <1>8
  <2>3. PcMoves /\ PcTypeOK' /\ UNCHANGED pcFail /\ pcycle' = pcycle + 3 /\ RegA' = RegA /\ RegB' = RegB /\ SteadyKept
    BY <1>0, <2>1, SpendEffect DEF RegA, RegB
  <2>4. CycleChecksPass'
    BY <1>0, <2>3 DEF CycleChecksPass
  <2>5. Test2Inv(4)'
    BY <1>1, <2>2, <2>3 DEF Test2Inv, SteadyKept, Elapsed2
  <2> QED
    BY <1>4, <1>8, <2>3, <2>4, <2>5
<1>9. CASE pcStep.at = 4
  <2>1. PcArg = Spend(1)
    BY <1>2, <1>9 DEF test_pcycle2
  <2>2. Test2Inv(4)
    BY <1>0, <1>9
  <2>3. PcMoves /\ PcTypeOK' /\ UNCHANGED pcFail /\ pcycle' = pcycle + 1 /\ RegA' = RegA /\ RegB' = RegB /\ SteadyKept
    BY <1>0, <2>1, SpendEffect DEF RegA, RegB
  <2>4. CycleChecksPass'
    BY <1>0, <2>3 DEF CycleChecksPass
  <2>5. Test2Inv(5)'
    BY <1>1, <2>2, <2>3 DEF Test2Inv, SteadyKept, Elapsed2
  <2> QED
    BY <1>4, <1>9, <2>3, <2>4, <2>5
<1>10. CASE pcStep.at = 5
  <2>1. PcArg = Pair("b", FALSE)
    BY <1>2, <1>10 DEF test_pcycle2
  <2>2. Test2Inv(5)
    BY <1>0, <1>10
  <2>3. /\ PcMoves /\ PcTypeOK' /\ UNCHANGED <<ssrCE, pcFail>> /\ pcycle' = pcycle + 2 /\ SteadyKept
        /\ RegB'.lo = RegB.lo /\ RegB'.hi = RegB.hi /\ RegB'.all = pcycle /\ RegA' = RegA
    BY <1>0, <2>1, PairEffect DEF RegA, RegB, PcRegs
  <2>4. CycleChecksPass'
    BY <1>0, <2>3 DEF CycleChecksPass
  <2>5. Test2Inv(6)'
    BY <1>1, <2>2, <2>3 DEF Test2Inv, SteadyKept, Elapsed2
  <2> QED
    BY <1>4, <1>10, <2>3, <2>4, <2>5
<1>11. CASE pcStep.at = 6
  <2>1. PcArg = PcCheck("packet")
    BY <1>2, <1>11 DEF test_pcycle2
  <2>2. Test2Inv(6)
    BY <1>0, <1>11
  <2>3. /\ PcMoves /\ PcTypeOK' /\ CycleChecksPass' /\ RegA' = RegA /\ RegB' = RegB /\ UNCHANGED <<ssrCE, pcycle>>
    <3>1. ~ PcPasses("packet", RegA, RegB) =>
              \/ pcWrapped
              \/ "packet" = "copy" /\ ~ RangeHolds(Lo(RegA.all))
              \/ "packet" = "copy_halves" /\ ~ RangeHolds(RegA.lo)
      BY <1>1, <2>2 DEF PcPasses, Test2Inv
    <3> QED
      BY <1>0, <2>1, <3>1, CheckEffect DEF RegA, RegB
  <2>5. Test3Inv(1)'
    BY DEF Test3Inv
  <2> QED
    BY <1>5, <1>11, <2>3, <2>3, <2>5
<1> QED
  BY <1>3, <1>6, <1>7, <1>8, <1>9, <1>10, <1>11

LEMMA PcTestpcyclereadStep == ASSUME PcInv, PcNext, pcStep.test = 3 PROVE PcInv'
<1>0. PcTypeOK /\ PcPlaceInv /\ CycleChecksPass /\ Test3Inv(pcStep.at)
  BY DEF PcInv, PcPlaceInv
<1>1. /\ RegA.lo \in 0 .. WORD - 1 /\ RegA.hi \in Nat /\ RegA.all \in Nat
      /\ RegB.lo \in 0 .. WORD - 1 /\ RegB.hi \in Nat /\ RegB.all \in Nat
      /\ pcycle \in Nat /\ PcHigh \in Nat /\ Hi(pcycle) \in Nat
      /\ Lo(pcycle) = pcycle - PcHigh
  BY <1>0, PcNumbers
<1>2. Len(PcMain[pcStep.test]) = 3 /\ PcArg = test_pcycle_read[pcStep.at]
  BY PcText DEF PcArg
<1>3. pcStep.at \in 1 .. 3
  BY <1>0 DEF Test3Inv
<1>4. ASSUME PcMoves, PcTypeOK', CycleChecksPass', NEW m \in 2 .. 3, m = pcStep.at + 1, Test3Inv(m)' PROVE PcInv'
  <2>1. pcStep' \in [test : 1 .. 6, at : 1 .. 18] /\ pcStep'.test = pcStep.test /\ pcStep'.at = m
    BY <1>0, <1>2, <1>3, <1>4, PcPlace
  <2> QED
    BY <1>4, <2>1 DEF PcInv, PcPlaceInv
<1>5. ASSUME PcMoves, PcTypeOK', CycleChecksPass', pcStep.at = 3, CopyInv(1)' PROVE PcInv'
  <2>1. pcStep' \in [test : 1 .. 6, at : 1 .. 18] /\ pcStep'.test = pcStep.test + 1 /\ pcStep'.at = 1
    BY <1>0, <1>2, <1>3, <1>5, PcPlace
  <2> QED
    BY <1>5, <2>1 DEF PcInv, PcPlaceInv
<1>6. CASE pcStep.at = 1
  <2>1. PcArg = Pair("a", FALSE)
    BY <1>2, <1>6 DEF test_pcycle_read
  <2>2. Test3Inv(1)
    BY <1>0, <1>6
  <2>3. /\ PcMoves /\ PcTypeOK' /\ UNCHANGED <<ssrCE, pcFail>> /\ pcycle' = pcycle + 2 /\ SteadyKept
        /\ RegA'.lo = RegA.lo /\ RegA'.hi = RegA.hi /\ RegA'.all = pcycle /\ RegB' = RegB
    BY <1>0, <2>1, PairEffect DEF RegA, RegB, PcRegs
  <2>4. CycleChecksPass'
    BY <1>0, <2>3 DEF CycleChecksPass
  <2>5. Test3Inv(2)'
    BY <1>1, <2>2, <2>3 DEF Test3Inv, SteadyKept
  <2> QED
    BY <1>4, <1>6, <2>3, <2>4, <2>5
<1>7. CASE pcStep.at = 2
  <2>1. PcArg = Pair("b", FALSE)
    BY <1>2, <1>7 DEF test_pcycle_read
  <2>2. Test3Inv(2)
    BY <1>0, <1>7
  <2>3. /\ PcMoves /\ PcTypeOK' /\ UNCHANGED <<ssrCE, pcFail>> /\ pcycle' = pcycle + 2 /\ SteadyKept
        /\ RegB'.lo = RegB.lo /\ RegB'.hi = RegB.hi /\ RegB'.all = pcycle /\ RegA' = RegA
    BY <1>0, <2>1, PairEffect DEF RegA, RegB, PcRegs
  <2>4. CycleChecksPass'
    BY <1>0, <2>3 DEF CycleChecksPass
  <2>5. Test3Inv(3)'
    BY <1>1, <2>2, <2>3 DEF Test3Inv, SteadyKept
  <2> QED
    BY <1>4, <1>7, <2>3, <2>4, <2>5
<1>8. CASE pcStep.at = 3
  <2>1. PcArg = PcCheck("differ")
    BY <1>2, <1>8 DEF test_pcycle_read
  <2>2. Test3Inv(3)
    BY <1>0, <1>8
  <2>3. /\ PcMoves /\ PcTypeOK' /\ CycleChecksPass' /\ RegA' = RegA /\ RegB' = RegB /\ UNCHANGED <<ssrCE, pcycle>>
    <3>1. ~ PcPasses("differ", RegA, RegB) =>
              \/ pcWrapped
              \/ "differ" = "copy" /\ ~ RangeHolds(Lo(RegA.all))
              \/ "differ" = "copy_halves" /\ ~ RangeHolds(RegA.lo)
      <4>1. Steady => Lo(RegA.all) # Lo(RegB.all)
        BY <1>1, <2>2 DEF Test3Inv
      <4> QED
        BY <4>1 DEF PcPasses, Steady
    <3> QED
      BY <1>0, <2>1, <3>1, CheckEffect DEF RegA, RegB
  <2>5. CopyInv(1)'
    BY DEF CopyInv
  <2> QED
    BY <1>5, <1>8, <2>3, <2>3, <2>5
<1> QED
  BY <1>3, <1>6, <1>7, <1>8

LEMMA PcTestcopyStep == ASSUME PcInv, PcNext, pcStep.test \in {4, 5} PROVE PcInv'
<1>0. PcTypeOK /\ PcPlaceInv /\ CycleChecksPass /\ CopyInv(pcStep.at)
  BY DEF PcInv, PcPlaceInv
<1>1. /\ RegA.lo \in 0 .. WORD - 1 /\ RegA.hi \in Nat /\ RegA.all \in Nat
      /\ RegB.lo \in 0 .. WORD - 1 /\ RegB.hi \in Nat /\ RegB.all \in Nat
      /\ pcycle \in Nat /\ PcHigh \in Nat /\ Hi(pcycle) \in Nat
      /\ Lo(pcycle) = pcycle - PcHigh
  BY <1>0, PcNumbers
<1>2. Len(PcMain[pcStep.test]) = 18 /\ PcArg = test_copy[pcStep.at]
  BY PcText DEF PcArg
<1>3. pcStep.at \in 1 .. 18
  BY <1>0 DEF CopyInv
<1>4. ASSUME PcMoves, PcTypeOK', CycleChecksPass', NEW m \in 2 .. 18, m = pcStep.at + 1, CopyInv(m)' PROVE PcInv'
  <2>1. pcStep' \in [test : 1 .. 6, at : 1 .. 18] /\ pcStep'.test = pcStep.test /\ pcStep'.at = m
    BY <1>0, <1>2, <1>3, <1>4, PcPlace
  <2> QED
    BY <1>4, <2>1 DEF PcInv, PcPlaceInv
<1>5. ASSUME PcMoves, PcTypeOK', CycleChecksPass', pcStep.at = 18, CopyInv(1)' PROVE PcInv'
  <2>1. pcStep' \in [test : 1 .. 6, at : 1 .. 18] /\ pcStep'.test = pcStep.test + 1 /\ pcStep'.at = 1
    BY <1>0, <1>2, <1>3, <1>5, PcPlace
  <2> QED
    BY <1>5, <2>1 DEF PcInv, PcPlaceInv
<1>6. CASE pcStep.at = 1
  <2>1. PcArg = SetCE(FALSE)
    BY <1>2, <1>6 DEF test_copy
  <2>2. CopyInv(1)
    BY <1>0, <1>6
  <2>3. PcMoves /\ PcTypeOK' /\ UNCHANGED pcFail /\ ssrCE' = FALSE
    BY <1>0, <2>1, CeEffect
  <2>4. CycleChecksPass'
    BY <1>0, <2>3 DEF CycleChecksPass
  <2>5. CopyInv(2)'
    BY <2>2, <2>3 DEF CopyInv, SteadyKept
  <2> QED
    BY <1>4, <1>6, <2>3, <2>4, <2>5
<1>7. CASE pcStep.at = 2
  <2>1. PcArg = Half("a", "lo", FALSE)
    BY <1>2, <1>7 DEF test_copy
  <2>2. CopyInv(2)
    BY <1>0, <1>7
  <2>3. /\ PcMoves /\ PcTypeOK' /\ UNCHANGED <<ssrCE, pcFail>> /\ pcycle' = pcycle + 1 /\ SteadyKept
        /\ RegA'.lo = Lo(pcycle) /\ RegA'.hi = RegA.hi /\ RegA'.all = RegA.all /\ RegB' = RegB
    BY <1>0, <2>1, HalfEffect DEF RegA, RegB, PcRegs
  <2>4. CycleChecksPass'
    BY <1>0, <2>3 DEF CycleChecksPass
  <2>5. CopyInv(3)'
    BY <1>1, <2>2, <2>3 DEF CopyInv, SteadyKept
  <2> QED
    BY <1>4, <1>7, <2>3, <2>4, <2>5
<1>8. CASE pcStep.at = 3
  <2>1. PcArg = Half("a", "hi", FALSE)
    BY <1>2, <1>8 DEF test_copy
  <2>2. CopyInv(3)
    BY <1>0, <1>8
  <2>3. /\ PcMoves /\ PcTypeOK' /\ UNCHANGED <<ssrCE, pcFail>> /\ pcycle' = pcycle + 1 /\ SteadyKept
        /\ RegA'.lo = RegA.lo /\ RegA'.hi = Hi(pcycle) /\ RegA'.all = RegA.all /\ RegB' = RegB
    BY <1>0, <2>1, HalfEffect DEF RegA, RegB, PcRegs
  <2>4. CycleChecksPass'
    BY <1>0, <2>3 DEF CycleChecksPass
  <2>5. CopyInv(4)'
    BY <1>1, <2>2, <2>3 DEF CopyInv, SteadyKept
  <2> QED
    BY <1>4, <1>8, <2>3, <2>4, <2>5
<1>9. CASE pcStep.at = 4
  <2>1. PcArg = Half("b", "lo", TRUE)
    BY <1>2, <1>9 DEF test_copy
  <2>2. CopyInv(4)
    BY <1>0, <1>9
  <2>0. ~ ssrCE
    BY <2>2 DEF CopyInv
  <2>3. /\ PcMoves /\ PcTypeOK' /\ UNCHANGED <<ssrCE, pcFail>> /\ pcycle' = pcycle + 1 /\ SteadyKept
        /\ RegB'.lo = Lo(0) /\ RegB'.hi = RegB.hi /\ RegB'.all = RegB.all /\ RegA' = RegA
    BY <1>0, <2>0, <2>1, HalfEffect DEF RegA, RegB, PcRegs
  <2>4. CycleChecksPass'
    BY <1>0, <2>3 DEF CycleChecksPass
  <2>5. CopyInv(5)'
    BY <1>1, <2>2, <2>3, ZeroIn DEF CopyInv, SteadyKept
  <2> QED
    BY <1>4, <1>9, <2>3, <2>4, <2>5
<1>10. CASE pcStep.at = 5
  <2>1. PcArg = Half("b", "hi", TRUE)
    BY <1>2, <1>10 DEF test_copy
  <2>2. CopyInv(5)
    BY <1>0, <1>10
  <2>0. ~ ssrCE
    BY <2>2 DEF CopyInv
  <2>3. /\ PcMoves /\ PcTypeOK' /\ UNCHANGED <<ssrCE, pcFail>> /\ pcycle' = pcycle + 1 /\ SteadyKept
        /\ RegB'.lo = RegB.lo /\ RegB'.hi = Hi(0) /\ RegB'.all = RegB.all /\ RegA' = RegA
    BY <1>0, <2>0, <2>1, HalfEffect DEF RegA, RegB, PcRegs
  <2>4. CycleChecksPass'
    BY <1>0, <2>3 DEF CycleChecksPass
  <2>5. CopyInv(6)'
    BY <1>1, <2>2, <2>3, ZeroIn DEF CopyInv, SteadyKept
  <2> QED
    BY <1>4, <1>10, <2>3, <2>4, <2>5
<1>11. CASE pcStep.at = 6
  <2>1. PcArg = PcCheck("hidden_halves")
    BY <1>2, <1>11 DEF test_copy
  <2>2. CopyInv(6)
    BY <1>0, <1>11
  <2>3. /\ PcMoves /\ PcTypeOK' /\ CycleChecksPass' /\ RegA' = RegA /\ RegB' = RegB /\ UNCHANGED <<ssrCE, pcycle>>
    <3>1. ~ PcPasses("hidden_halves", RegA, RegB) =>
              \/ pcWrapped
              \/ "hidden_halves" = "copy" /\ ~ RangeHolds(Lo(RegA.all))
              \/ "hidden_halves" = "copy_halves" /\ ~ RangeHolds(RegA.lo)
      BY <2>2 DEF PcPasses, CopyInv
    <3> QED
      BY <1>0, <2>1, <3>1, CheckEffect DEF RegA, RegB
  <2>5. CopyInv(7)'
    BY <1>1, <2>2, <2>3 DEF CopyInv, SteadyKept
  <2> QED
    BY <1>4, <1>11, <2>3, <2>3, <2>5
<1>12. CASE pcStep.at = 7
  <2>1. PcArg = Pair("a", FALSE)
    BY <1>2, <1>12 DEF test_copy
  <2>2. CopyInv(7)
    BY <1>0, <1>12
  <2>3. /\ PcMoves /\ PcTypeOK' /\ UNCHANGED <<ssrCE, pcFail>> /\ pcycle' = pcycle + 2 /\ SteadyKept
        /\ RegA'.lo = RegA.lo /\ RegA'.hi = RegA.hi /\ RegA'.all = pcycle /\ RegB' = RegB
    BY <1>0, <2>1, PairEffect DEF RegA, RegB, PcRegs
  <2>4. CycleChecksPass'
    BY <1>0, <2>3 DEF CycleChecksPass
  <2>5. CopyInv(8)'
    BY <1>1, <2>2, <2>3 DEF CopyInv, SteadyKept
  <2> QED
    BY <1>4, <1>12, <2>3, <2>4, <2>5
<1>13. CASE pcStep.at = 8
  <2>1. PcArg = Pair("b", TRUE)
    BY <1>2, <1>13 DEF test_copy
  <2>2. CopyInv(8)
    BY <1>0, <1>13
  <2>0. ~ ssrCE
    BY <2>2 DEF CopyInv
  <2>3. /\ PcMoves /\ PcTypeOK' /\ UNCHANGED <<ssrCE, pcFail>> /\ pcycle' = pcycle + 2 /\ SteadyKept
        /\ RegB'.lo = RegB.lo /\ RegB'.hi = RegB.hi /\ RegB'.all = 0 /\ RegA' = RegA
    BY <1>0, <2>0, <2>1, PairEffect DEF RegA, RegB, PcRegs
  <2>4. CycleChecksPass'
    BY <1>0, <2>3 DEF CycleChecksPass
  <2>5. CopyInv(9)'
    BY <1>1, <2>2, <2>3 DEF CopyInv, SteadyKept
  <2> QED
    BY <1>4, <1>13, <2>3, <2>4, <2>5
<1>14. CASE pcStep.at = 9
  <2>1. PcArg = PcCheck("hidden")
    BY <1>2, <1>14 DEF test_copy
  <2>2. CopyInv(9)
    BY <1>0, <1>14
  <2>3. /\ PcMoves /\ PcTypeOK' /\ CycleChecksPass' /\ RegA' = RegA /\ RegB' = RegB /\ UNCHANGED <<ssrCE, pcycle>>
    <3>1. ~ PcPasses("hidden", RegA, RegB) =>
              \/ pcWrapped
              \/ "hidden" = "copy" /\ ~ RangeHolds(Lo(RegA.all))
              \/ "hidden" = "copy_halves" /\ ~ RangeHolds(RegA.lo)
      BY <2>2, ZeroIn DEF PcPasses, CopyInv
    <3> QED
      BY <1>0, <2>1, <3>1, CheckEffect DEF RegA, RegB
  <2>5. CopyInv(10)'
    BY <1>1, <2>2, <2>3 DEF CopyInv, SteadyKept
  <2> QED
    BY <1>4, <1>14, <2>3, <2>3, <2>5
<1>15. CASE pcStep.at = 10
  <2>1. PcArg = SetCE(TRUE)
    BY <1>2, <1>15 DEF test_copy
  <2>2. CopyInv(10)
    BY <1>0, <1>15
  <2>3. PcMoves /\ PcTypeOK' /\ UNCHANGED pcFail /\ ssrCE' = TRUE
    BY <1>0, <2>1, CeEffect
  <2>4. CycleChecksPass'
    BY <1>0, <2>3 DEF CycleChecksPass
  <2>5. CopyInv(11)'
    BY <2>2, <2>3 DEF CopyInv, SteadyKept
  <2> QED
    BY <1>4, <1>15, <2>3, <2>4, <2>5
<1>16. CASE pcStep.at = 11
  <2>1. PcArg = Half("a", "lo", FALSE)
    BY <1>2, <1>16 DEF test_copy
  <2>2. CopyInv(11)
    BY <1>0, <1>16
  <2>3. /\ PcMoves /\ PcTypeOK' /\ UNCHANGED <<ssrCE, pcFail>> /\ pcycle' = pcycle + 1 /\ SteadyKept
        /\ RegA'.lo = Lo(pcycle) /\ RegA'.hi = RegA.hi /\ RegA'.all = RegA.all /\ RegB' = RegB
    BY <1>0, <2>1, HalfEffect DEF RegA, RegB, PcRegs
  <2>4. CycleChecksPass'
    BY <1>0, <2>3 DEF CycleChecksPass
  <2>5. CopyInv(12)'
    BY <1>1, <2>2, <2>3 DEF CopyInv, SteadyKept
  <2> QED
    BY <1>4, <1>16, <2>3, <2>4, <2>5
<1>17. CASE pcStep.at = 12
  <2>1. PcArg = Half("a", "hi", FALSE)
    BY <1>2, <1>17 DEF test_copy
  <2>2. CopyInv(12)
    BY <1>0, <1>17
  <2>3. /\ PcMoves /\ PcTypeOK' /\ UNCHANGED <<ssrCE, pcFail>> /\ pcycle' = pcycle + 1 /\ SteadyKept
        /\ RegA'.lo = RegA.lo /\ RegA'.hi = Hi(pcycle) /\ RegA'.all = RegA.all /\ RegB' = RegB
    BY <1>0, <2>1, HalfEffect DEF RegA, RegB, PcRegs
  <2>4. CycleChecksPass'
    BY <1>0, <2>3 DEF CycleChecksPass
  <2>5. CopyInv(13)'
    BY <1>1, <2>2, <2>3 DEF CopyInv, SteadyKept
  <2> QED
    BY <1>4, <1>17, <2>3, <2>4, <2>5
<1>18. CASE pcStep.at = 13
  <2>1. PcArg = Half("b", "lo", TRUE)
    BY <1>2, <1>18 DEF test_copy
  <2>2. CopyInv(13)
    BY <1>0, <1>18
  <2>0. ssrCE
    BY <2>2 DEF CopyInv
  <2>3. /\ PcMoves /\ PcTypeOK' /\ UNCHANGED <<ssrCE, pcFail>> /\ pcycle' = pcycle + 1 /\ SteadyKept
        /\ RegB'.lo = Lo(pcycle) /\ RegB'.hi = RegB.hi /\ RegB'.all = RegB.all /\ RegA' = RegA
    BY <1>0, <2>0, <2>1, HalfEffect DEF RegA, RegB, PcRegs
  <2>4. CycleChecksPass'
    BY <1>0, <2>3 DEF CycleChecksPass
  <2>5. CopyInv(14)'
    BY <1>1, <2>2, <2>3 DEF CopyInv, SteadyKept
  <2> QED
    BY <1>4, <1>18, <2>3, <2>4, <2>5
<1>19. CASE pcStep.at = 14
  <2>1. PcArg = Half("b", "hi", TRUE)
    BY <1>2, <1>19 DEF test_copy
  <2>2. CopyInv(14)
    BY <1>0, <1>19
  <2>0. ssrCE
    BY <2>2 DEF CopyInv
  <2>3. /\ PcMoves /\ PcTypeOK' /\ UNCHANGED <<ssrCE, pcFail>> /\ pcycle' = pcycle + 1 /\ SteadyKept
        /\ RegB'.lo = RegB.lo /\ RegB'.hi = Hi(pcycle) /\ RegB'.all = RegB.all /\ RegA' = RegA
    BY <1>0, <2>0, <2>1, HalfEffect DEF RegA, RegB, PcRegs
  <2>4. CycleChecksPass'
    BY <1>0, <2>3 DEF CycleChecksPass
  <2>5. CopyInv(15)'
    BY <1>1, <2>2, <2>3 DEF CopyInv, SteadyKept
  <2> QED
    BY <1>4, <1>19, <2>3, <2>4, <2>5
<1>20. CASE pcStep.at = 15
  <2>1. PcArg = PcCheck("copy_halves")
    BY <1>2, <1>20 DEF test_copy
  <2>2. CopyInv(15)
    BY <1>0, <1>20
  <2>3. /\ PcMoves /\ PcTypeOK' /\ CycleChecksPass' /\ RegA' = RegA /\ RegB' = RegB /\ UNCHANGED <<ssrCE, pcycle>>
    <3>1. ~ PcPasses("copy_halves", RegA, RegB) =>
              \/ pcWrapped
              \/ "copy_halves" = "copy" /\ ~ RangeHolds(Lo(RegA.all))
              \/ "copy_halves" = "copy_halves" /\ ~ RangeHolds(RegA.lo)
      <4>1. Steady /\ RangeHolds(RegA.lo) => __check_range(RegB.lo, RegA.lo, RegA.lo * MAX_HW_THREADS) /\ RegA.hi = RegB.hi
        BY <1>1, <2>2, RangeOfSmall DEF CopyInv
      <4> QED
        BY <4>1 DEF PcPasses, Steady
    <3> QED
      BY <1>0, <2>1, <3>1, CheckEffect DEF RegA, RegB
  <2>5. CopyInv(16)'
    BY <1>1, <2>2, <2>3 DEF CopyInv, SteadyKept
  <2> QED
    BY <1>4, <1>20, <2>3, <2>3, <2>5
<1>21. CASE pcStep.at = 16
  <2>1. PcArg = Pair("a", FALSE)
    BY <1>2, <1>21 DEF test_copy
  <2>2. CopyInv(16)
    BY <1>0, <1>21
  <2>3. /\ PcMoves /\ PcTypeOK' /\ UNCHANGED <<ssrCE, pcFail>> /\ pcycle' = pcycle + 2 /\ SteadyKept
        /\ RegA'.lo = RegA.lo /\ RegA'.hi = RegA.hi /\ RegA'.all = pcycle /\ RegB' = RegB
    BY <1>0, <2>1, PairEffect DEF RegA, RegB, PcRegs
  <2>4. CycleChecksPass'
    BY <1>0, <2>3 DEF CycleChecksPass
  <2>5. CopyInv(17)'
    BY <1>1, <2>2, <2>3 DEF CopyInv, SteadyKept
  <2> QED
    BY <1>4, <1>21, <2>3, <2>4, <2>5
<1>22. CASE pcStep.at = 17
  <2>1. PcArg = Pair("b", TRUE)
    BY <1>2, <1>22 DEF test_copy
  <2>2. CopyInv(17)
    BY <1>0, <1>22
  <2>0. ssrCE
    BY <2>2 DEF CopyInv
  <2>3. /\ PcMoves /\ PcTypeOK' /\ UNCHANGED <<ssrCE, pcFail>> /\ pcycle' = pcycle + 2 /\ SteadyKept
        /\ RegB'.lo = RegB.lo /\ RegB'.hi = RegB.hi /\ RegB'.all = pcycle /\ RegA' = RegA
    BY <1>0, <2>0, <2>1, PairEffect DEF RegA, RegB, PcRegs
  <2>4. CycleChecksPass'
    BY <1>0, <2>3 DEF CycleChecksPass
  <2>5. CopyInv(18)'
    BY <1>1, <2>2, <2>3 DEF CopyInv, SteadyKept
  <2> QED
    BY <1>4, <1>22, <2>3, <2>4, <2>5
<1>23. CASE pcStep.at = 18
  <2>1. PcArg = PcCheck("copy")
    BY <1>2, <1>23 DEF test_copy
  <2>2. CopyInv(18)
    BY <1>0, <1>23
  <2>3. /\ PcMoves /\ PcTypeOK' /\ CycleChecksPass' /\ RegA' = RegA /\ RegB' = RegB /\ UNCHANGED <<ssrCE, pcycle>>
    <3>1. ~ PcPasses("copy", RegA, RegB) =>
              \/ pcWrapped
              \/ "copy" = "copy" /\ ~ RangeHolds(Lo(RegA.all))
              \/ "copy" = "copy_halves" /\ ~ RangeHolds(RegA.lo)
      <4>1. Steady /\ RangeHolds(Lo(RegA.all)) => __check_range(RegB.all, RegA.all, RegA.all * MAX_HW_THREADS)
        <5>1. Steady => Lo(RegB.all) = Lo(RegA.all) + 2
          BY <1>1, <2>2 DEF CopyInv
        <5> QED
          BY <1>1, <5>1, RangeOfCount
      <4> QED
        BY <4>1 DEF PcPasses, Steady
    <3> QED
      BY <1>0, <2>1, <3>1, CheckEffect DEF RegA, RegB
  <2>5. CopyInv(1)'
    BY DEF CopyInv
  <2> QED
    BY <1>5, <1>23, <2>3, <2>3, <2>5
<1> QED
  BY <1>3, <1>6, <1>7, <1>8, <1>9, <1>10, <1>11, <1>12, <1>13, <1>14, <1>15, <1>16, <1>17, <1>18, <1>19, <1>20, <1>21, <1>22, <1>23

LEMMA PcInitInv == PcInit => PcInv
<1> SUFFICES ASSUME PcInit PROVE PcInv
  OBVIOUS
<1>1. pcStep.test = 1 /\ pcStep.at = 1 /\ pcStep \in [test : 1 .. 6, at : 1 .. 18]
  BY DEF PcInit
<1>2. pcycle \in Nat /\ pcReg \in [PcRegs -> [lo : 0 .. WORD - 1, hi : Nat, all : Nat]]
  BY CycleAssumption, ZeroIn DEF PcInit, PcRegs
<1>3. PcTypeOK
  BY <1>2 DEF PcInit, PcTypeOK
<1>4. CycleChecksPass
  BY DEF PcInit, CycleChecksPass
<1>5. PcPlaceInv
  BY <1>1 DEF PcPlaceInv, Test1Inv
<1> QED
  BY <1>3, <1>4, <1>5 DEF PcInv

LEMMA PcStepInv == PcInv /\ [PcNext]_pcVars => PcInv'
<1> SUFFICES ASSUME PcInv, [PcNext]_pcVars PROVE PcInv'
  OBVIOUS
<1>1. CASE UNCHANGED pcVars
  BY <1>1 DEF pcVars, PcInv, PcTypeOK, PcPlaceInv, CycleChecksPass, Test1Inv, Test2Inv, Test3Inv, CopyInv,
     RegA, RegB, Steady, PcHigh
<1>2. CASE PcNext
  <2>1. pcStep.test <= 5
    BY <1>2, PcText DEF PcNext, PcCall, PcEnable, PcRead, PcSpend, clr_set_ssr_ce, PcRunCheck
  <2>2. pcStep.test \in 1 .. 5
    BY <2>1 DEF PcInv, PcPlaceInv
  <2> QED
    BY <1>2, <2>2, PcTestpcycleStep, PcTestpcycle2Step, PcTestpcyclereadStep, PcTestcopyStep
<1> QED
  BY <1>1, <1>2

-----------------------------------------------------------------------------
(* The scatter and gather test.                                              *)

(* The element of the matrix that lane i owns: a diagonal.                   *)
Diag(i) == i * (MATRIX_SIZE + 1)
Fill(k) == Letters(k, FILL_CHAR)

(* The tables of kind k.                                                     *)
TablesLike(k, t) ==
    /\ t.k = k
    /\ \A i \in Lanes : t.off[i] = i * (ElementSize(k) * MATRIX_SIZE + ElementSize(k))
    /\ \A i \in Lanes : t.val[i] \in Nat /\ t.acc[i] \in Nat /\ t.q[i] \in Nat
    /\ \A i \in Lanes : t.pred[i] \in BOOLEAN
TablesOf(k) == TablesLike(k, tables)

(* What each lane's element is after the scatter, the accumulating scatter   *)
(* and the predicated one.                                                   *)
Filled(k) == [i \in Lanes |-> Fill(k)]
Values == [i \in Lanes |-> tables.val[i]]
Sums == [i \in Lanes |-> tables.val[i] + tables.acc[i]]
Marked == [i \in Lanes |-> IF tables.pred[i] THEN tables.q[i] ELSE tables.val[i] + tables.acc[i]]

StoreOps == {"scatter", "acc", "q"}
GatherOps == {"gather", "gather_q"}
BeforeOp(k, op) == IF op = "scatter" THEN Filled(k) ELSE IF op = "q" THEN Sums ELSE Values
AfterOp(op) == IF op = "acc" THEN Sums ELSE IF op = "q" THEN Marked ELSE Values

(* A buffer holds f on the diagonal and is untouched elsewhere.              *)
Image(k, buf, f) ==
    /\ buf \in [BufferIndex -> Nat]
    /\ \A i \in Lanes : buf[Diag(i)] = f[i]
    /\ \A x \in BufferIndex : (\A i \in Lanes : Diag(i) # x) => buf[x] = Fill(k)
Holds(k, f) == Image(k, vscatter[k], f)

(* A scatter on its way: the elements in todo are not stored yet.            *)
StoreOf(op, i) == [off |-> tables.off[i], val |-> SourceOf(op)[i]]
Line(k, op) == DummyLoad(k, op)
StoreUnit(k, op, todo) ==
    \/ todo = {} /\ unit \in {<<>>, <<Release(Line(k, op))>>}
    \/ unit = <<Vector(op, k, NoLine, todo), Release(Line(k, op))>>
    \/ /\ k = "32"
       /\ \E s \in SUBSET StoreLanes(op, LoLanes) :
            /\ unit = <<Vector(op, k, NoLine, s), Vector(op, k, NoLine, StoreLanes(op, HiLanes)), Release(Line(k, op))>>
            /\ todo = s \cup StoreLanes(op, HiLanes)
Progress(k, op, todo) ==
    [i \in Lanes |-> IF PredicateOf(op)[i] /\ StoreOf(op, i) \notin todo THEN AfterOp(op)[i] ELSE BeforeOp(k, op)[i]]
Stored(k, op, todo) == Holds(k, Progress(k, op, todo))

(* A gather on its way.  Lane l of a 16_32 gather fetches for another lane.  *)
PairLane(e) == e \div 2 + IF e % 2 = 0 THEN 0 ELSE MATRIX_SIZE \div 2
LaneOf(k, l) == IF k = "16_32" THEN PairLane(l) ELSE l
FetchOf(k, l) == [off |-> tables.off[LaneOf(k, l)], lane |-> l]
Fetches(k, op, lanes) == {FetchOf(k, l) : l \in {l \in lanes : PredicateOf(op)[LaneOf(k, l)]}}
GatherUnit(k, op, todo) ==
    \/ todo = {} /\ unit = <<>>
    \/ unit = <<Vector("gather", k, Line(k, op), todo)>>
    \/ /\ k = "32"
       /\ \E s \in SUBSET Fetches(k, op, LoLanes) :
            /\ unit = <<Vector("gather", k, Gathered("lo"), s), Vector("gather", k, Line(k, op), Fetches(k, op, HiLanes))>>
            /\ todo = s \cup Fetches(k, op, HiLanes)
Fetched(k, op, todo) ==
    \A l \in Lanes :
        IF PredicateOf(op)[LaneOf(k, l)]
          THEN FetchOf(k, l) \notin todo => vgather[k][l] = vscatter[k][Diag(LaneOf(k, l))]
          ELSE vgather[k][l] = Letters(k, GATHER_INIT)

GatherDone(k, op) ==
    \A i \in Lanes :
        vgather[k][i] = IF op = "gather" \/ tables.pred[i] THEN vscatter[k][Diag(i)] ELSE Letters(k, GATHER_INIT)

SgBuffers ==
    /\ vscatter \in [Kinds -> [BufferIndex -> Nat]]
    /\ vgather \in [Kinds -> [Lanes -> Nat]]

SgTypeOK ==
    /\ sgStep \in [kind : 1 .. 4, call : 1 .. 5, at : {"issue", "sync", "check"}]
    /\ SgBuffers
    /\ sgStep.kind = 4 => sgStep.call = 1 /\ sgStep.at = "issue"

CallInv(k, op) ==
    /\ TablesOf(k)
    /\ sgStep.at = "issue" => unit = <<>> /\ Holds(k, BeforeOp(k, op))
    /\ sgStep.at = "check" => unit = <<>> /\ Holds(k, AfterOp(op)) /\ (op \in GatherOps => GatherDone(k, op))
    /\ sgStep.at = "sync" /\ op \in StoreOps =>
         \E todo \in SUBSET StoreLanes(op, Lanes) : StoreUnit(k, op, todo) /\ Stored(k, op, todo)
    /\ sgStep.at = "sync" /\ op \in GatherOps =>
         /\ Holds(k, Values)
         /\ \E todo \in SUBSET Fetches(k, op, Lanes) : GatherUnit(k, op, todo) /\ Fetched(k, op, todo)

(* The buffer of a kind main has not reached.                                *)
Untouched(k) == \A x \in BufferIndex : vscatter[k][x] = Fill(k)

SgInv ==
    /\ SgTypeOK /\ ~ sgFail
    /\ sgStep.kind <= 3 => CallInv(SgKind, SgCall)
    /\ sgStep.kind = 4 => unit = <<>>
    /\ \A n \in 1 .. 3 : n > sgStep.kind => Untouched(MainKinds[n])

-----------------------------------------------------------------------------
(* The diagonal.                                                             *)

LEMMA Sizes0 == MATRIX_SIZE \in Nat /\ MATRIX_SIZE >= 2
BY MatrixAssumption

(* An even number of lanes has two halves.                                   *)
LEMMA TwoHalves ==
  \E m \in Nat : MATRIX_SIZE = 2 * m /\ MATRIX_SIZE \div 2 = m /\ LoLanes = 0 .. m - 1 /\ HiLanes = m .. 2 * m - 1 /\ m >= 1
<1> DEFINE m == MATRIX_SIZE \div 2
<1>1. MATRIX_SIZE = 2 * m /\ m \in Nat /\ m >= 1
  BY MatrixAssumption
<1>2. LoLanes = 0 .. m - 1
  BY DEF LoLanes
<1> HIDE DEF m
<1>3. HiLanes = m .. 2 * m - 1
  BY <1>1, <1>2 DEF HiLanes, Lanes
<1> QED
  BY <1>1, <1>2, <1>3 DEF m

LEMMA Halves == LoLanes \cup HiLanes = Lanes /\ LoLanes \cap HiLanes = {} /\ LoLanes \subseteq Lanes /\ HiLanes \subseteq Lanes
<1>1. PICK m \in Nat : MATRIX_SIZE = 2 * m /\ MATRIX_SIZE \div 2 = m /\ LoLanes = 0 .. m - 1 /\ HiLanes = m .. 2 * m - 1 /\ m >= 1
  BY TwoHalves
<1> QED
  BY <1>1 DEF Lanes

LEMMA DiagIn == ASSUME NEW i \in Lanes PROVE Diag(i) \in Nat /\ Diag(i) \in BufferIndex /\ Diag(i) <= MATRIX_SIZE * MATRIX_SIZE - 1
<1>1. MATRIX_SIZE \in Nat /\ MATRIX_SIZE >= 2 /\ i \in Nat /\ i <= MATRIX_SIZE - 1
  BY Sizes0 DEF Lanes
<1>2. PICK j \in Nat : MATRIX_SIZE = i + 1 + j
  <2>1. MATRIX_SIZE - i - 1 \in Nat /\ MATRIX_SIZE = i + 1 + (MATRIX_SIZE - i - 1)
    BY <1>1
  <2> QED
    BY <2>1
<1>3. i * (MATRIX_SIZE + 1) \in Nat /\ j * (MATRIX_SIZE + 1) \in Nat
  BY <1>1
<1>4. (i + j) * (MATRIX_SIZE + 1) = i * (MATRIX_SIZE + 1) + j * (MATRIX_SIZE + 1)
  BY <1>1
<1>5. (MATRIX_SIZE - 1) * (MATRIX_SIZE + 1) = MATRIX_SIZE * MATRIX_SIZE - 1
  BY <1>1
<1>6. i + j = MATRIX_SIZE - 1
  BY <1>1, <1>2
<1>7. i * (MATRIX_SIZE + 1) + j * (MATRIX_SIZE + 1) = MATRIX_SIZE * MATRIX_SIZE - 1
  BY <1>4, <1>5, <1>6
<1>8. MATRIX_SIZE * MATRIX_SIZE \in Nat
  BY <1>1
<1> DEFINE y == i * (MATRIX_SIZE + 1)
           z == j * (MATRIX_SIZE + 1)
           w == MATRIX_SIZE * MATRIX_SIZE
<1>9. y \in Nat /\ z \in Nat /\ w \in Nat /\ y + z = w - 1
  BY <1>3, <1>7, <1>8
<1> HIDE DEF y, z, w
<1>10. y \in Nat /\ y \in 0 .. w - 1 /\ y <= w - 1
  BY <1>9
<1> QED
  BY <1>10 DEF y, w, Diag, BufferIndex

LEMMA DiagApart == ASSUME NEW i \in Lanes, NEW j \in Lanes, i # j PROVE Diag(i) # Diag(j)
<1>1. MATRIX_SIZE \in Nat
  BY Sizes0
<1>2. ASSUME NEW a \in Nat, NEW b \in Nat, a < b PROVE a * (MATRIX_SIZE + 1) # b * (MATRIX_SIZE + 1)
  <2>1. PICK d \in Nat : b = a + 1 + d
    <3>1. b - a - 1 \in Nat /\ b = a + 1 + (b - a - 1)
      BY <1>2
    <3> QED
      BY <3>1
  <2>2. b * (MATRIX_SIZE + 1) = a * (MATRIX_SIZE + 1) + (MATRIX_SIZE + 1) + d * (MATRIX_SIZE + 1)
    BY <1>1, <2>1
  <2>3. d * (MATRIX_SIZE + 1) \in Nat /\ a * (MATRIX_SIZE + 1) \in Nat
    BY <1>1
  <2> QED
    BY <1>1, <2>2, <2>3
<1>3. i \in Nat /\ j \in Nat /\ (i < j \/ j < i)
  BY <1>1 DEF Lanes
<1> QED
  BY <1>2, <1>3 DEF Diag

LEMMA OffsetDiag ==
  ASSUME NEW k \in Kinds, TablesOf(k), NEW i \in Lanes
  PROVE  /\ tables.off[i] \div ElementSize(k) = Diag(i)
         /\ InRegion(k, tables.off[i])
<1> DEFINE y == i * (MATRIX_SIZE + 1)
           w == MATRIX_SIZE * MATRIX_SIZE
<1>1. MATRIX_SIZE \in Nat /\ i \in Nat
  BY Sizes0 DEF Lanes
<1>2. y \in Nat /\ w \in Nat /\ y <= w - 1
  BY <1>1, DiagIn DEF Diag
<1>3. i * (2 * MATRIX_SIZE + 2) = 2 * y /\ i * (4 * MATRIX_SIZE + 4) = 4 * y
  BY <1>1
<1>4. 4 * MATRIX_SIZE * MATRIX_SIZE = 4 * w
  BY <1>1
<1>5. tables.off[i] = i * (ElementSize(k) * MATRIX_SIZE + ElementSize(k))
  BY DEF TablesOf, TablesLike
<1>6. CASE k = "32"
  <2>1. ElementSize(k) = 4
    BY <1>6 DEF ElementSize
  <2>2. tables.off[i] = 4 * y
    BY <1>3, <1>5, <2>1
  <2> HIDE DEF y, w
  <2>3. (4 * y) \div 4 = y /\ 4 * y + 4 - 1 <= 4 * w - 1
    BY <1>2
  <2> QED
    BY <1>4, <2>1, <2>2, <2>3 DEF y, Diag, InRegion, region_len
<1>7. CASE k # "32"
  <2>1. ElementSize(k) = 2
    BY <1>7 DEF ElementSize
  <2>2. tables.off[i] = 2 * y
    BY <1>3, <1>5, <2>1
  <2> HIDE DEF y, w
  <2>3. (2 * y) \div 2 = y /\ 2 * y + 2 - 1 <= 4 * w - 1
    BY <1>2
  <2> QED
    BY <1>4, <2>1, <2>2, <2>3 DEF y, Diag, InRegion, region_len
<1> QED
  BY <1>6, <1>7

LEMMA OffsetsApart ==
  ASSUME NEW k \in Kinds, TablesOf(k), NEW i \in Lanes, NEW j \in Lanes, i # j
  PROVE  tables.off[i] # tables.off[j]
BY OffsetDiag, DiagApart

(* The lanes of a pair of offset vectors are the lanes in another order.     *)
LEMMA PairLanes ==
  /\ \A e \in Lanes : PairLane(e) \in Lanes
  /\ \A i \in Lanes : \E e \in Lanes : PairLane(e) = i
  /\ \A i \in LoLanes : 2 * i \in Lanes /\ PairLane(2 * i) = i
  /\ \A i \in HiLanes : 2 * i - MATRIX_SIZE + 1 \in Lanes /\ PairLane(2 * i - MATRIX_SIZE + 1) = i
<1>1. PICK m \in Nat : MATRIX_SIZE = 2 * m /\ MATRIX_SIZE \div 2 = m /\ LoLanes = 0 .. m - 1 /\ HiLanes = m .. 2 * m - 1 /\ m >= 1
  BY TwoHalves
<1>2. Lanes = 0 .. 2 * m - 1
  BY <1>1 DEF Lanes
<1>3. \A e \in Lanes : PairLane(e) \in Lanes
  BY <1>1, <1>2 DEF PairLane
<1>4. \A i \in LoLanes : 2 * i \in Lanes /\ PairLane(2 * i) = i
  BY <1>1, <1>2 DEF PairLane
<1>5. \A i \in HiLanes : 2 * i - MATRIX_SIZE + 1 \in Lanes /\ PairLane(2 * i - MATRIX_SIZE + 1) = i
  <2> SUFFICES ASSUME NEW i \in m .. 2 * m - 1
               PROVE  2 * i - 2 * m + 1 \in 0 .. 2 * m - 1 /\ PairLane(2 * i - 2 * m + 1) = i
    BY <1>1, <1>2
  <2>1. 2 * i - 2 * m + 1 \in 0 .. 2 * m - 1
    OBVIOUS
  <2>2. (2 * i - 2 * m + 1) \div 2 = i - m /\ (2 * i - 2 * m + 1) % 2 = 1
    OBVIOUS
  <2> QED
    BY <1>1, <2>1, <2>2 DEF PairLane
<1>6. \A i \in Lanes : \E e \in Lanes : PairLane(e) = i
  BY <1>4, <1>5, Halves
<1> QED
  BY <1>3, <1>4, <1>5, <1>6

-----------------------------------------------------------------------------
(* Buffers and the scalar loops.                                             *)

LEMMA ImageUnique ==
  ASSUME NEW k, NEW b, NEW c, NEW f, Image(k, b, f), Image(k, c, f)
  PROVE  b = c
<1>1. ASSUME NEW x \in BufferIndex PROVE b[x] = c[x]
  <2>1. CASE \E i \in Lanes : Diag(i) = x
    BY <2>1 DEF Image
  <2>2. CASE \A i \in Lanes : Diag(i) # x
    BY <2>2 DEF Image
  <2> QED
    BY <2>1, <2>2
<1>2. b \in [BufferIndex -> Nat] /\ c \in [BufferIndex -> Nat]
  BY DEF Image
<1> QED
  BY <1>1, <1>2

LEMMA ImageSame ==
  ASSUME NEW k, NEW b, NEW f, NEW g, Image(k, b, f), \A i \in Lanes : f[i] = g[i]
  PROVE  Image(k, b, g)
BY DEF Image

LEMMA ScalarImage ==
  ASSUME NEW k \in Kinds, TablesOf(k), NEW b, NEW f, NEW g, NEW lanes \in SUBSET Lanes, NEW vals, NEW keep \in Nat,
         Image(k, b, f), \A i \in lanes : vals[i] \in Nat /\ g[i] = keep * f[i] + vals[i],
         \A i \in Lanes \ lanes : g[i] = f[i]
  PROVE  Image(k, ScalarStore(b, lanes, vals, keep), g)
<1> DEFINE c == ScalarStore(b, lanes, vals, keep)
           own(x) == CHOOSE i \in lanes : tables.off[i] \div ElementSize(tables.k) = x
<1>1. \A i \in Lanes : tables.off[i] \div ElementSize(tables.k) = Diag(i)
  BY OffsetDiag DEF TablesOf, TablesLike
<1>2. \A x \in BufferIndex : c[x] = IF \E i \in lanes : tables.off[i] \div ElementSize(tables.k) = x
                                    THEN keep * b[x] + vals[own(x)] ELSE b[x]
  BY DEF ScalarStore
<1>3. DOMAIN c = BufferIndex /\ c = [x \in BufferIndex |-> c[x]]
  BY DEF ScalarStore
<1>4. ASSUME NEW i \in lanes PROVE own(Diag(i)) = i
  <2>1. own(Diag(i)) \in lanes /\ tables.off[own(Diag(i))] \div ElementSize(tables.k) = Diag(i)
    BY <1>1
  <2> HIDE DEF own
  <2> QED
    BY <1>1, <2>1, DiagApart
<1>5. ASSUME NEW i \in lanes PROVE c[Diag(i)] = keep * b[Diag(i)] + vals[i]
  <2>1. Diag(i) \in BufferIndex
    BY DiagIn
  <2> HIDE DEF c, own
  <2> QED
    BY <1>1, <1>2, <1>4, <2>1
<1>6. ASSUME NEW x \in BufferIndex, \A i \in lanes : Diag(i) # x PROVE c[x] = b[x]
  <2> HIDE DEF c, own
  <2> QED
    BY <1>1, <1>2, <1>6
<1> HIDE DEF c, own
<1>7. \A x \in BufferIndex : b[x] \in Nat
  BY DEF Image
<1>8. \A i \in Lanes : c[Diag(i)] = g[i]
  <2> TAKE i \in Lanes
  <2>1. b[Diag(i)] = f[i]
    BY DEF Image
  <2>2. CASE i \in lanes
    BY <1>5, <2>1, <2>2
  <2>3. CASE i \notin lanes
    <3>1. \A j \in lanes : Diag(j) # Diag(i)
      BY <2>3, DiagApart
    <3>2. Diag(i) \in BufferIndex
      BY DiagIn
    <3> QED
      BY <1>6, <2>1, <2>3, <3>1, <3>2
  <2> QED
    BY <2>2, <2>3
<1>9. \A x \in BufferIndex : (\A i \in Lanes : Diag(i) # x) => c[x] = Fill(k)
  BY <1>6 DEF Image
<1>10. ASSUME NEW x \in BufferIndex PROVE c[x] \in Nat
  <2>1. CASE \E i \in lanes : Diag(i) = x
    <3>1. PICK i \in lanes : Diag(i) = x
      BY <2>1
    <3>2. c[x] = keep * b[x] + vals[i]
      BY <1>5, <3>1
    <3>3. b[x] \in Nat /\ vals[i] \in Nat
      BY <1>7
    <3> QED
      BY <3>2, <3>3
  <2>2. CASE \A i \in lanes : Diag(i) # x
    BY <1>6, <1>7, <2>2
  <2> QED
    BY <2>1, <2>2
<1>11. c \in [BufferIndex -> Nat]
  BY <1>3, <1>10
<1> QED
  BY <1>8, <1>9, <1>11 DEF Image, c

LEMMA ScalarScatter == ASSUME NEW k \in Kinds, TablesOf(k) PROVE Image(k, scalar_scatter(k), Values)
<1> DEFINE b == [x \in BufferIndex |-> Letters(k, FILL_CHAR)]
           f == [i \in Lanes |-> Fill(k)]
           g == [i \in Lanes |-> tables.val[i]]
<1>1. Fill(k) \in Nat
  BY DEF Fill, Letters, FILL_CHAR
<1>2. Image(k, b, f)
  <2>1. \A i \in Lanes : Diag(i) \in BufferIndex
    BY DiagIn
  <2>2. b \in [BufferIndex -> Nat] /\ \A x \in BufferIndex : b[x] = Fill(k)
    BY <1>1 DEF Fill
  <2> HIDE DEF b
  <2> QED
    BY <2>1, <2>2 DEF Image
<1>3. \A i \in Lanes : tables.val[i] \in Nat /\ g[i] = 0 * f[i] + tables.val[i]
  BY <1>1 DEF TablesOf, TablesLike
<1>4. \A i \in Lanes \ Lanes : g[i] = f[i]
  OBVIOUS
<1> HIDE DEF b, f, g
<1>5. Image(k, ScalarStore(b, Lanes, tables.val, 0), g)
  BY <1>2, <1>3, <1>4, ScalarImage
<1> QED
  BY <1>5 DEF b, g, scalar_scatter, Values, Replace

LEMMA ScalarAcc == ASSUME NEW k \in Kinds, TablesOf(k) PROVE Image(k, scalar_scatter_acc(k), Sums)
<1>1. Image(k, scalar_scatter(k), Values)
  BY ScalarScatter
<1>2. \A i \in Lanes : tables.acc[i] \in Nat /\ Sums[i] = 1 * Values[i] + tables.acc[i]
  BY DEF TablesOf, TablesLike, Sums, Values
<1>3. Image(k, ScalarStore(scalar_scatter(k), Lanes, tables.acc, 1), Sums)
  BY <1>1, <1>2, ScalarImage
<1> QED
  BY <1>3 DEF scalar_scatter_acc, Add

LEMMA ScalarQ == ASSUME NEW k \in Kinds, TablesOf(k) PROVE Image(k, scalar_scatter_q(k), Marked)
<1>1. Image(k, scalar_scatter_acc(k), Sums)
  BY ScalarAcc
<1>2. \A i \in Lanes : tables.q[i] \in Nat /\ Sums[i] \in Nat
  BY DEF TablesOf, TablesLike, Sums
<1>3. \A i \in Predicated : tables.q[i] \in Nat /\ Marked[i] = 0 * Sums[i] + tables.q[i]
  BY <1>2 DEF Marked, Predicated
<1>4. \A i \in Lanes \ Predicated : Marked[i] = Sums[i]
  BY DEF Marked, Sums, Predicated
<1>5. Predicated \in SUBSET Lanes
  BY DEF Predicated
<1>6. Image(k, ScalarStore(scalar_scatter_acc(k), Predicated, tables.q, 0), Marked)
  BY <1>1, <1>3, <1>4, <1>5, ScalarImage
<1> QED
  BY <1>6 DEF scalar_scatter_q, Replace

(* The check after a scatter compares the buffer with what it holds.         *)
LEMMA ScatterCheck ==
  ASSUME NEW k \in Kinds, TablesOf(k), NEW op \in StoreOps, Holds(k, AfterOp(op))
  PROVE  check_scatter(k, op)
<1>1. CASE op = "scatter"
  <2>1. AfterOp(op) = Values
    BY <1>1 DEF AfterOp
  <2>2. vscatter[k] = scalar_scatter(k)
    BY <2>1, ScalarScatter, ImageUnique DEF Holds
  <2> QED
    BY <1>1, <2>2 DEF check_scatter
<1>2. CASE op = "acc"
  <2>1. AfterOp(op) = Sums
    BY <1>2 DEF AfterOp
  <2>2. vscatter[k] = scalar_scatter_acc(k)
    BY <2>1, ScalarAcc, ImageUnique DEF Holds
  <2> QED
    BY <1>2, <2>2 DEF check_scatter
<1>3. CASE op = "q"
  <2>1. AfterOp(op) = Marked
    BY <1>3 DEF AfterOp
  <2>2. vscatter[k] = scalar_scatter_q(k)
    BY <2>1, ScalarQ, ImageUnique DEF Holds
  <2> QED
    BY <1>3, <2>2 DEF check_scatter
<1> QED
  BY <1>1, <1>2, <1>3 DEF StoreOps

LEMMA GatherCheck ==
  ASSUME NEW k \in Kinds, TablesOf(k), NEW op \in GatherOps, GatherDone(k, op)
  PROVE  check_gather(k, op)
BY OffsetDiag DEF GatherDone, check_gather

-----------------------------------------------------------------------------
(* One element of a scatter.                                                 *)

LEMMA StoreLanesAre ==
  ASSUME NEW op, NEW lanes \in SUBSET Lanes, NEW e \in StoreLanes(op, lanes)
  PROVE  \E i \in lanes : PredicateOf(op)[i] /\ e = StoreOf(op, i)
BY DEF StoreLanes, StoreOf

LEMMA StoreOfApart ==
  ASSUME NEW k \in Kinds, TablesOf(k), NEW op, NEW i \in Lanes, NEW j \in Lanes, i # j
  PROVE  StoreOf(op, i) # StoreOf(op, j)
<1>1. tables.off[i] # tables.off[j]
  BY OffsetsApart
<1> QED
  BY <1>1 DEF StoreOf

LEMMA StoreElement ==
  ASSUME NEW k \in Kinds, TablesOf(k), NEW op \in StoreOps, NEW todo, NEW b, Image(k, b, Progress(k, op, todo)),
         NEW i \in Lanes, PredicateOf(op)[i], StoreOf(op, i) \in todo, NEW v,
         v = IF op = "acc" THEN b[Diag(i)] + SourceOf(op)[i] ELSE SourceOf(op)[i]
  PROVE  Image(k, [b EXCEPT ![Diag(i)] = v], Progress(k, op, todo \ {StoreOf(op, i)}))
<1> DEFINE c == [b EXCEPT ![Diag(i)] = v]
           f == Progress(k, op, todo)
           g == Progress(k, op, todo \ {StoreOf(op, i)})
<1>1. b \in [BufferIndex -> Nat] /\ Diag(i) \in BufferIndex
  BY DiagIn DEF Image
<1>2. b[Diag(i)] = BeforeOp(k, op)[i]
  BY DEF Image, Progress
<1>3. v = AfterOp(op)[i] /\ v \in Nat
  <2>1. tables.val[i] \in Nat /\ tables.acc[i] \in Nat /\ tables.q[i] \in Nat
    BY DEF TablesOf, TablesLike
  <2>2. CASE op = "scatter"
    BY <2>1, <2>2 DEF AfterOp, Values, SourceOf
  <2>3. CASE op = "acc"
    BY <1>2, <2>1, <2>3 DEF AfterOp, BeforeOp, Values, Sums, SourceOf
  <2>4. CASE op = "q"
    <3>1. tables.pred[i]
      BY <2>4 DEF PredicateOf
    <3> QED
      BY <2>1, <2>4, <3>1 DEF AfterOp, Marked, SourceOf
  <2> QED
    BY <2>2, <2>3, <2>4 DEF StoreOps
<1>4. g[i] = AfterOp(op)[i]
  BY DEF Progress
<1>5. ASSUME NEW j \in Lanes, j # i PROVE g[j] = f[j] /\ Diag(j) # Diag(i) /\ Diag(j) \in BufferIndex
  <2>1. StoreOf(op, j) # StoreOf(op, i)
    BY <1>5, StoreOfApart
  <2> QED
    BY <1>5, <2>1, DiagApart, DiagIn DEF Progress
<1>6. c \in [BufferIndex -> Nat] /\ c[Diag(i)] = v /\ \A x \in BufferIndex : x # Diag(i) => c[x] = b[x]
  BY <1>1, <1>3
<1> HIDE DEF c, f, g
<1>7. \A j \in Lanes : c[Diag(j)] = g[j]
  <2> TAKE j \in Lanes
  <2>1. CASE j = i
    BY <1>3, <1>4, <1>6, <2>1
  <2>2. CASE j # i
    <3>1. b[Diag(j)] = f[j]
      BY DEF Image, f
    <3> QED
      BY <1>5, <1>6, <2>2, <3>1
  <2> QED
    BY <2>1, <2>2
<1>8. \A x \in BufferIndex : (\A j \in Lanes : Diag(j) # x) => c[x] = Fill(k)
  BY <1>6 DEF Image
<1>9. Image(k, c, g)
  BY <1>6, <1>7, <1>8 DEF Image
<1> QED
  BY <1>9 DEF c, g

(* The queue of the unit.                                                    *)
LEMMA ShortQueues ==
  ASSUME NEW a, NEW b, NEW c
  PROVE  /\ Head(<<a>>) = a /\ Tail(<<a>>) = <<>> /\ <<a>> # <<>>
         /\ Head(<<a, b>>) = a /\ Tail(<<a, b>>) = <<b>> /\ <<a, b>> # <<>>
         /\ Head(<<a, b, c>>) = a /\ Tail(<<a, b, c>>) = <<b, c>> /\ <<a, b, c>> # <<>>
         /\ <<a>>[1] = a /\ <<a, b>>[1] = a /\ <<a, b, c>>[1] = a
         /\ <<>> \o <<a>> = <<a>> /\ <<>> \o <<a, b>> = <<a, b>> /\ <<>> \o <<a, b, c>> = <<a, b, c>>
<1>1. Head(<<a>>) = a /\ Head(<<a, b>>) = a /\ Head(<<a, b, c>>) = a
  OBVIOUS
<1>2. <<a>> # <<>> /\ <<a, b>> # <<>> /\ <<a, b, c>> # <<>>
  OBVIOUS
<1>3. Tail(<<a>>) = <<>>
  OBVIOUS
<1>4. Tail(<<a, b>>) = <<b>>
  OBVIOUS
<1>5. Tail(<<a, b, c>>) = <<b, c>>
  OBVIOUS
<1>6. <<>> \o <<a>> = <<a>> /\ <<>> \o <<a, b>> = <<a, b>> /\ <<>> \o <<a, b, c>> = <<a, b, c>>
  OBVIOUS
<1> QED
  BY <1>1, <1>2, <1>3, <1>4, <1>5, <1>6

LEMMA VectorParts ==
  ASSUME NEW t, NEW k, NEW l, NEW s
  PROVE  /\ Vector(t, k, l, s).type = t /\ Vector(t, k, l, s).k = k
         /\ Vector(t, k, l, s).line = l /\ Vector(t, k, l, s).elems = s
BY DEF Vector

(* The queue once element e of its first vector is done.                     *)
Taken(q, e) == [q EXCEPT ![1].elems = @ \ {e}]

LEMMA VectorLeft1 ==
  ASSUME NEW t, NEW k, NEW l, NEW s, NEW e
  PROVE  Taken(<<Vector(t, k, l, s)>>, e) = <<Vector(t, k, l, s \ {e})>>
<1> DEFINE v == Vector(t, k, l, s)
           w == Vector(t, k, l, s \ {e})
           q == <<v>>
<1>1. [v EXCEPT !.elems = @ \ {e}] = w
  BY DEF Vector
<1> HIDE DEF v, w
<1>2. [q EXCEPT ![1] = w] = <<w>>
  OBVIOUS
<1>3. q[1] = v
  OBVIOUS
<1> HIDE DEF q
<1>4. Taken(q, e) = [q EXCEPT ![1] = w]
  BY <1>1, <1>3 DEF Taken
<1> QED
  BY <1>2, <1>4 DEF v, w, q

LEMMA VectorLeft2 ==
  ASSUME NEW t, NEW k, NEW l, NEW s, NEW e, NEW a
  PROVE  Taken(<<Vector(t, k, l, s), a>>, e) = <<Vector(t, k, l, s \ {e}), a>>
<1> DEFINE v == Vector(t, k, l, s)
           w == Vector(t, k, l, s \ {e})
           q == <<v, a>>
<1>1. [v EXCEPT !.elems = @ \ {e}] = w
  BY DEF Vector
<1> HIDE DEF v, w
<1>2. [q EXCEPT ![1] = w] = <<w, a>>
  OBVIOUS
<1>3. q[1] = v
  OBVIOUS
<1> HIDE DEF q
<1>4. Taken(q, e) = [q EXCEPT ![1] = w]
  BY <1>1, <1>3 DEF Taken
<1> QED
  BY <1>2, <1>4 DEF v, w, q

LEMMA VectorLeft3 ==
  ASSUME NEW t, NEW k, NEW l, NEW s, NEW e, NEW a, NEW b
  PROVE  Taken(<<Vector(t, k, l, s), a, b>>, e) = <<Vector(t, k, l, s \ {e}), a, b>>
<1> DEFINE v == Vector(t, k, l, s)
           w == Vector(t, k, l, s \ {e})
           q == <<v, a, b>>
<1>1. [v EXCEPT !.elems = @ \ {e}] = w
  BY DEF Vector
<1> HIDE DEF v, w
<1>2. [q EXCEPT ![1] = w] = <<w, a, b>>
  OBVIOUS
<1>3. q[1] = v
  OBVIOUS
<1> HIDE DEF q
<1>4. Taken(q, e) = [q EXCEPT ![1] = w]
  BY <1>1, <1>3 DEF Taken
<1> QED
  BY <1>2, <1>4 DEF v, w, q

LEMMA TablesSame ==
  ASSUME tables' = tables, NEW k, NEW op, NEW todo, NEW lanes, NEW l
  PROVE  /\ TablesOf(k)' <=> TablesOf(k)
         /\ StoreLanes(op, lanes)' = StoreLanes(op, lanes)
         /\ Progress(k, op, todo)' = Progress(k, op, todo)
         /\ Fetches(k, op, lanes)' = Fetches(k, op, lanes)
         /\ FetchOf(k, l)' = FetchOf(k, l) /\ PredicateOf(op)' = PredicateOf(op)
         /\ BeforeOp(k, op)' = BeforeOp(k, op) /\ AfterOp(op)' = AfterOp(op) /\ Values' = Values
<1>1. TablesOf(k)' <=> TablesOf(k)
  BY DEF TablesOf, TablesLike
<1>2. PredicateOf(op)' = PredicateOf(op) /\ SourceOf(op)' = SourceOf(op)
  BY DEF PredicateOf, SourceOf
<1>3. StoreLanes(op, lanes)' = StoreLanes(op, lanes)
  BY <1>2 DEF StoreLanes
<1>4. BeforeOp(k, op)' = BeforeOp(k, op) /\ AfterOp(op)' = AfterOp(op) /\ Values' = Values
  BY DEF BeforeOp, AfterOp, Values, Sums, Marked, Filled
<1>5. Progress(k, op, todo)' = Progress(k, op, todo)
  BY <1>2, <1>4 DEF Progress, StoreOf
<1>6. FetchOf(k, l)' = FetchOf(k, l)
  BY DEF FetchOf
<1>7. Fetches(k, op, lanes)' = Fetches(k, op, lanes)
  BY <1>2 DEF Fetches, FetchOf
<1> QED
  BY <1>1, <1>2, <1>3, <1>4, <1>5, <1>6, <1>7

LEMMA StoreStep ==
  ASSUME SgBuffers, NEW k \in Kinds, NEW op \in StoreOps, TablesOf(k),
         NEW todo \in SUBSET StoreLanes(op, Lanes), StoreUnit(k, op, todo), Stored(k, op, todo), UnitElement
  PROVE  /\ \E new \in SUBSET StoreLanes(op, Lanes) : StoreUnit(k, op, new)' /\ Stored(k, op, new)'
         /\ SgBuffers' /\ \A j \in Kinds : j # k => vscatter'[j] = vscatter[j]
<1> DEFINE rel == Release(Line(k, op))
           hi == StoreLanes(op, HiLanes)
<1>1. PICK e \in Head(unit).elems :
        /\ unit' = Taken(unit, e)
        /\ vscatter' = IF Head(unit).type = "gather" \/ ~ InRegion(Head(unit).k, e.off) THEN vscatter
                       ELSE [vscatter EXCEPT ![Head(unit).k][e.off \div ElementSize(Head(unit).k)] =
                              IF Head(unit).type = "acc" THEN @ + e.val ELSE e.val]
        /\ vgather' = IF Head(unit).type # "gather" \/ ~ InRegion(Head(unit).k, e.off) THEN vgather
                      ELSE [vgather EXCEPT ![Head(unit).k][e.lane] = vscatter[Head(unit).k][e.off \div ElementSize(Head(unit).k)]]
  BY DEF UnitElement, Taken
<1>2. unit # <<>> /\ tables' = tables
  BY DEF UnitElement
<1>3. Release(Line(k, op)).elems = {}
  BY DEF Release, Vector
<1>4. LoLanes \subseteq Lanes /\ HiLanes \subseteq Lanes /\ LoLanes \cap HiLanes = {}
  BY Halves
<1> HIDE DEF rel, hi
<1>5. e \in todo /\ Head(unit).type = op /\ Head(unit).k = k
      /\ (\/ unit' = <<Vector(op, k, NoLine, todo \ {e}), rel>>
         \/ /\ k = "32"
            /\ \E s \in SUBSET StoreLanes(op, LoLanes) :
                 unit' = <<Vector(op, k, NoLine, s), Vector(op, k, NoLine, hi), rel>> /\ todo \ {e} = s \cup hi)
  <2>1. CASE todo = {} /\ unit \in {<<>>, <<rel>>}
    <3>1. unit = <<rel>> /\ Head(unit) = rel
      BY <1>2, <2>1, ShortQueues
    <3> QED
      BY <1>1, <1>3, <3>1 DEF rel
  <2>2. CASE unit = <<Vector(op, k, NoLine, todo), rel>>
    <3>1. Head(unit).elems = todo /\ Head(unit).type = op /\ Head(unit).k = k
      BY <2>2, ShortQueues, VectorParts
    <3>2. Taken(unit, e) = <<Vector(op, k, NoLine, todo \ {e}), rel>>
      BY <2>2, VectorLeft2
    <3> QED
      BY <1>1, <3>1, <3>2
  <2>3. CASE /\ k = "32"
             /\ \E s \in SUBSET StoreLanes(op, LoLanes) :
                  unit = <<Vector(op, k, NoLine, s), Vector(op, k, NoLine, hi), rel>> /\ todo = s \cup hi
    <3>1. PICK s \in SUBSET StoreLanes(op, LoLanes) :
                 unit = <<Vector(op, k, NoLine, s), Vector(op, k, NoLine, hi), rel>> /\ todo = s \cup hi
      BY <2>3
    <3>2. Head(unit).elems = s /\ Head(unit).type = op /\ Head(unit).k = k
      BY <3>1, ShortQueues, VectorParts
    <3>3. e \in s
      BY <1>1, <3>2
    <3>4. Taken(unit, e) = <<Vector(op, k, NoLine, s \ {e}), Vector(op, k, NoLine, hi), rel>>
      BY <3>1, VectorLeft3
    <3>5. unit' = <<Vector(op, k, NoLine, s \ {e}), Vector(op, k, NoLine, hi), rel>>
      BY <1>1, <3>4
    <3>6. e \notin hi
      <4> SUFFICES ASSUME e \in hi PROVE FALSE
        OBVIOUS
      <4>1. PICK i \in LoLanes : e = StoreOf(op, i)
        BY <1>4, <3>3, StoreLanesAre
      <4>2. PICK j \in HiLanes : e = StoreOf(op, j)
        BY <1>4, StoreLanesAre DEF hi
      <4>3. i \in Lanes /\ j \in Lanes /\ i # j
        BY <1>4
      <4> QED
        BY <4>1, <4>2, <4>3, StoreOfApart
    <3>7. todo \ {e} = (s \ {e}) \cup hi /\ s \ {e} \in SUBSET StoreLanes(op, LoLanes) /\ e \in todo
      BY <3>1, <3>3, <3>6
    <3> QED
      BY <2>3, <3>2, <3>5, <3>7
  <2> QED
    BY <2>1, <2>2, <2>3 DEF StoreUnit, rel, hi
<1>6. StoreUnit(k, op, todo \ {e})'
  <2>1. StoreLanes(op, LoLanes)' = StoreLanes(op, LoLanes) /\ StoreLanes(op, HiLanes)' = StoreLanes(op, HiLanes)
    BY <1>2, TablesSame
  <2>2. CASE unit' = <<Vector(op, k, NoLine, todo \ {e}), rel>>
    BY <2>2 DEF StoreUnit, rel
  <2>3. CASE /\ k = "32"
             /\ \E s \in SUBSET StoreLanes(op, LoLanes) :
                 unit' = <<Vector(op, k, NoLine, s), Vector(op, k, NoLine, hi), rel>> /\ todo \ {e} = s \cup hi
    BY <2>1, <2>3 DEF StoreUnit, rel, hi
  <2> QED
    BY <1>5, <2>2, <2>3
<1>7. PICK i \in Lanes : PredicateOf(op)[i] /\ e = StoreOf(op, i)
  <2>1. e \in StoreLanes(op, Lanes)
    BY <1>5
  <2> QED
    BY <2>1, StoreLanesAre
<1>8. e.off = tables.off[i] /\ e.val = SourceOf(op)[i]
  BY <1>7 DEF StoreOf
<1>9. e.off \div ElementSize(k) = Diag(i) /\ InRegion(k, e.off)
  BY <1>8, OffsetDiag
<1>10. op # "gather"
  BY DEF StoreOps
<1> DEFINE v == IF op = "acc" THEN vscatter[k][Diag(i)] + SourceOf(op)[i] ELSE SourceOf(op)[i]
<1>11. vscatter' = [vscatter EXCEPT ![k] = [vscatter[k] EXCEPT ![Diag(i)] = v]] /\ vgather' = vgather
  BY <1>1, <1>5, <1>8, <1>9, <1>10
<1>0. vscatter \in [Kinds -> [BufferIndex -> Nat]]
  BY DEF SgBuffers
<1>12. Image(k, [vscatter[k] EXCEPT ![Diag(i)] = v], Progress(k, op, todo \ {e}))
  <2>1. Image(k, vscatter[k], Progress(k, op, todo)) /\ StoreOf(op, i) \in todo
    BY <1>5, <1>7 DEF Stored, Holds
  <2> HIDE DEF v
  <2>2. v = IF op = "acc" THEN vscatter[k][Diag(i)] + SourceOf(op)[i] ELSE SourceOf(op)[i]
    BY DEF v
  <2> QED
    BY <1>7, <2>1, <2>2, StoreElement
<1> HIDE DEF v
<1>13. vscatter'[k] = [vscatter[k] EXCEPT ![Diag(i)] = v]
  BY <1>0, <1>11
<1>14. Stored(k, op, todo \ {e})'
  BY <1>2, <1>12, <1>13, TablesSame DEF Stored, Holds
<1>15. vscatter'[k] \in [BufferIndex -> Nat]
  BY <1>12, <1>13 DEF Image
<1>16. vscatter' \in [Kinds -> [BufferIndex -> Nat]] /\ \A j \in Kinds : j # k => vscatter'[j] = vscatter[j]
  BY <1>0, <1>11, <1>13, <1>15
<1>18. SgBuffers'
  BY <1>11, <1>16 DEF SgBuffers
<1>17. todo \ {e} \in SUBSET StoreLanes(op, Lanes)
  OBVIOUS
<1> QED
  BY <1>6, <1>14, <1>16, <1>17, <1>18

-----------------------------------------------------------------------------
(* One element of a gather.                                                  *)

LEMMA FetchesAre ==
  ASSUME NEW k, NEW op, NEW lanes \in SUBSET Lanes, NEW e \in Fetches(k, op, lanes)
  PROVE  \E l \in lanes : PredicateOf(op)[LaneOf(k, l)] /\ e = FetchOf(k, l)
BY DEF Fetches

LEMMA FetchOfApart ==
  ASSUME NEW k, NEW l, NEW m, l # m
  PROVE  FetchOf(k, l) # FetchOf(k, m)
BY DEF FetchOf

LEMMA LaneOfIn == ASSUME NEW k, NEW l \in Lanes PROVE LaneOf(k, l) \in Lanes
BY PairLanes DEF LaneOf

LEMMA FetchStep ==
  ASSUME SgBuffers, NEW k \in Kinds, NEW op \in GatherOps, TablesOf(k),
         NEW todo \in SUBSET Fetches(k, op, Lanes), GatherUnit(k, op, todo), Fetched(k, op, todo), UnitElement
  PROVE  /\ \E new \in SUBSET Fetches(k, op, Lanes) : GatherUnit(k, op, new)' /\ Fetched(k, op, new)'
         /\ SgBuffers' /\ vscatter' = vscatter
<1> DEFINE last == Line(k, op)
           hi == Fetches(k, op, HiLanes)
<1>1. PICK e \in Head(unit).elems :
        /\ unit' = Taken(unit, e)
        /\ vscatter' = IF Head(unit).type = "gather" \/ ~ InRegion(Head(unit).k, e.off) THEN vscatter
                       ELSE [vscatter EXCEPT ![Head(unit).k][e.off \div ElementSize(Head(unit).k)] =
                              IF Head(unit).type = "acc" THEN @ + e.val ELSE e.val]
        /\ vgather' = IF Head(unit).type # "gather" \/ ~ InRegion(Head(unit).k, e.off) THEN vgather
                      ELSE [vgather EXCEPT ![Head(unit).k][e.lane] = vscatter[Head(unit).k][e.off \div ElementSize(Head(unit).k)]]
  BY DEF UnitElement, Taken
<1>2. unit # <<>> /\ tables' = tables
  BY DEF UnitElement
<1>4. LoLanes \subseteq Lanes /\ HiLanes \subseteq Lanes /\ LoLanes \cap HiLanes = {}
  BY Halves
<1> HIDE DEF last, hi
<1>5. e \in todo /\ Head(unit).type = "gather" /\ Head(unit).k = k
      /\ (\/ unit' = <<Vector("gather", k, last, todo \ {e})>>
         \/ /\ k = "32"
            /\ \E s \in SUBSET Fetches(k, op, LoLanes) :
                 unit' = <<Vector("gather", k, Gathered("lo"), s), Vector("gather", k, last, hi)>> /\ todo \ {e} = s \cup hi)
  <2>2. CASE unit = <<Vector("gather", k, last, todo)>>
    <3>1. Head(unit).elems = todo /\ Head(unit).type = "gather" /\ Head(unit).k = k
      BY <2>2, ShortQueues, VectorParts
    <3>2. Taken(unit, e) = <<Vector("gather", k, last, todo \ {e})>>
      BY <2>2, VectorLeft1
    <3> QED
      BY <1>1, <3>1, <3>2
  <2>3. CASE /\ k = "32"
             /\ \E s \in SUBSET Fetches(k, op, LoLanes) :
                  unit = <<Vector("gather", k, Gathered("lo"), s), Vector("gather", k, last, hi)>> /\ todo = s \cup hi
    <3>1. PICK s \in SUBSET Fetches(k, op, LoLanes) :
                 unit = <<Vector("gather", k, Gathered("lo"), s), Vector("gather", k, last, hi)>> /\ todo = s \cup hi
      BY <2>3
    <3>2. Head(unit).elems = s /\ Head(unit).type = "gather" /\ Head(unit).k = k
      BY <3>1, ShortQueues, VectorParts
    <3>3. e \in s
      BY <1>1, <3>2
    <3>4. Taken(unit, e) = <<Vector("gather", k, Gathered("lo"), s \ {e}), Vector("gather", k, last, hi)>>
      BY <3>1, VectorLeft2
    <3>5. unit' = <<Vector("gather", k, Gathered("lo"), s \ {e}), Vector("gather", k, last, hi)>>
      BY <1>1, <3>4
    <3>6. e \notin hi
      <4> SUFFICES ASSUME e \in hi PROVE FALSE
        OBVIOUS
      <4>1. PICK i \in LoLanes : e = FetchOf(k, i)
        BY <1>4, <3>3, FetchesAre
      <4>2. PICK j \in HiLanes : e = FetchOf(k, j)
        BY <1>4, FetchesAre DEF hi
      <4>3. i # j
        BY <1>4
      <4> QED
        BY <4>1, <4>2, <4>3, FetchOfApart
    <3>7. todo \ {e} = (s \ {e}) \cup hi /\ s \ {e} \in SUBSET Fetches(k, op, LoLanes) /\ e \in todo
      BY <3>1, <3>3, <3>6
    <3> QED
      BY <2>3, <3>2, <3>5, <3>7
  <2> QED
    BY <1>2, <2>2, <2>3 DEF GatherUnit, last, hi
<1>6. GatherUnit(k, op, todo \ {e})'
  <2>1. Fetches(k, op, LoLanes)' = Fetches(k, op, LoLanes) /\ Fetches(k, op, HiLanes)' = Fetches(k, op, HiLanes)
    BY <1>2, TablesSame
  <2>2. CASE unit' = <<Vector("gather", k, last, todo \ {e})>>
    BY <2>2 DEF GatherUnit, last
  <2>3. CASE /\ k = "32"
             /\ \E s \in SUBSET Fetches(k, op, LoLanes) :
                 unit' = <<Vector("gather", k, Gathered("lo"), s), Vector("gather", k, last, hi)>> /\ todo \ {e} = s \cup hi
    BY <2>1, <2>3 DEF GatherUnit, last, hi
  <2> QED
    BY <1>5, <2>2, <2>3
<1>7. PICK l \in Lanes : PredicateOf(op)[LaneOf(k, l)] /\ e = FetchOf(k, l)
  <2>1. e \in Fetches(k, op, Lanes)
    BY <1>5
  <2> QED
    BY <2>1, FetchesAre
<1>8. e.off = tables.off[LaneOf(k, l)] /\ e.lane = l
  BY <1>7 DEF FetchOf
<1> DEFINE x == Diag(LaneOf(k, l))
<1>9. e.off \div ElementSize(k) = x /\ InRegion(k, e.off) /\ x \in BufferIndex
  BY <1>8, LaneOfIn, OffsetDiag, DiagIn
<1> HIDE DEF x
<1>10. vgather' = [vgather EXCEPT ![k] = [vgather[k] EXCEPT ![l] = vscatter[k][x]]] /\ vscatter' = vscatter
  BY <1>1, <1>5, <1>8, <1>9
<1>11. vscatter[k][x] \in Nat /\ vgather \in [Kinds -> [Lanes -> Nat]]
  BY <1>9 DEF SgBuffers
<1>12. SgBuffers'
  <2>1. vgather' \in [Kinds -> [Lanes -> Nat]]
    BY <1>10, <1>11
  <2> QED
    BY <1>10, <2>1 DEF SgBuffers
<1>13. vgather'[k][l] = vscatter[k][x] /\ \A m \in Lanes : m # l => vgather'[k][m] = vgather[k][m]
  BY <1>10, <1>11
<1>14. Fetched(k, op, todo \ {e})'
  <2> SUFFICES ASSUME NEW m \in Lanes
               PROVE  IF PredicateOf(op)[LaneOf(k, m)]
                        THEN FetchOf(k, m) \notin todo \ {e} => vgather'[k][m] = vscatter[k][Diag(LaneOf(k, m))]
                        ELSE vgather'[k][m] = Letters(k, GATHER_INIT)
    <3>1. PredicateOf(op)' = PredicateOf(op) /\ \A m \in Lanes : FetchOf(k, m)' = FetchOf(k, m)
      BY <1>2, TablesSame
    <3> QED
      BY <1>10, <3>1 DEF Fetched
  <2>1. CASE m = l
    BY <1>7, <1>13, <2>1 DEF x
  <2>2. CASE m # l
    <3>1. FetchOf(k, m) # e
      BY <1>7, <2>2, FetchOfApart
    <3>2. vgather'[k][m] = vgather[k][m]
      BY <1>13, <2>2
    <3> QED
      BY <3>1, <3>2 DEF Fetched
  <2> QED
    BY <2>1, <2>2
<1>15. todo \ {e} \in SUBSET Fetches(k, op, Lanes)
  OBVIOUS
<1> QED
  BY <1>6, <1>10, <1>12, <1>14, <1>15

-----------------------------------------------------------------------------
(* Vectors retired, issued and waited for.                                   *)

LEMMA StoreRetire ==
  ASSUME NEW k, NEW op, NEW todo, StoreUnit(k, op, todo), UnitRetire
  PROVE  StoreUnit(k, op, todo)'
<1> DEFINE rel == Release(Line(k, op))
           hi == StoreLanes(op, HiLanes)
<1>1. unit # <<>> /\ Head(unit).elems = {} /\ unit' = Tail(unit) /\ tables' = tables
  BY DEF UnitRetire
<1> HIDE DEF rel, hi
<1>2. CASE todo = {} /\ unit \in {<<>>, <<rel>>}
  <2>1. unit' = <<>>
    BY <1>1, <1>2, ShortQueues
  <2> QED
    BY <1>2, <2>1 DEF StoreUnit
<1>3. CASE unit = <<Vector(op, k, NoLine, todo), rel>>
  <2>1. Head(unit).elems = todo /\ Tail(unit) = <<rel>>
    BY <1>3, ShortQueues, VectorParts
  <2> QED
    BY <1>1, <2>1 DEF StoreUnit, rel
<1>4. CASE /\ k = "32"
           /\ \E s \in SUBSET StoreLanes(op, LoLanes) :
                unit = <<Vector(op, k, NoLine, s), Vector(op, k, NoLine, hi), rel>> /\ todo = s \cup hi
  <2>1. PICK s \in SUBSET StoreLanes(op, LoLanes) :
               unit = <<Vector(op, k, NoLine, s), Vector(op, k, NoLine, hi), rel>> /\ todo = s \cup hi
    BY <1>4
  <2>2. Head(unit).elems = s /\ Tail(unit) = <<Vector(op, k, NoLine, hi), rel>>
    BY <2>1, ShortQueues, VectorParts
  <2>3. todo = hi
    BY <1>1, <2>1, <2>2
  <2> QED
    BY <1>1, <2>2, <2>3 DEF StoreUnit, rel
<1> QED
  BY <1>2, <1>3, <1>4 DEF StoreUnit, rel, hi

LEMMA GatherRetire ==
  ASSUME NEW k, NEW op, NEW todo, GatherUnit(k, op, todo), UnitRetire
  PROVE  GatherUnit(k, op, todo)'
<1> DEFINE last == Line(k, op)
           hi == Fetches(k, op, HiLanes)
<1>1. unit # <<>> /\ Head(unit).elems = {} /\ unit' = Tail(unit) /\ tables' = tables
  BY DEF UnitRetire
<1> HIDE DEF last, hi
<1>2. CASE unit = <<Vector("gather", k, last, todo)>>
  <2>1. Head(unit).elems = todo /\ Tail(unit) = <<>>
    BY <1>2, ShortQueues, VectorParts
  <2> QED
    BY <1>1, <2>1 DEF GatherUnit
<1>3. CASE /\ k = "32"
           /\ \E s \in SUBSET Fetches(k, op, LoLanes) :
                unit = <<Vector("gather", k, Gathered("lo"), s), Vector("gather", k, last, hi)>> /\ todo = s \cup hi
  <2>1. PICK s \in SUBSET Fetches(k, op, LoLanes) :
               unit = <<Vector("gather", k, Gathered("lo"), s), Vector("gather", k, last, hi)>> /\ todo = s \cup hi
    BY <1>3
  <2>2. Head(unit).elems = s /\ Tail(unit) = <<Vector("gather", k, last, hi)>>
    BY <2>1, ShortQueues, VectorParts
  <2>3. todo = hi
    BY <1>1, <2>1, <2>2
  <2> QED
    BY <1>1, <2>2, <2>3 DEF GatherUnit, last
<1> QED
  BY <1>1, <1>2, <1>3 DEF GatherUnit, last, hi

(* The load of the line waits until every vector is retired.                 *)
LEMMA StoreWait ==
  ASSUME NEW k, NEW op, NEW todo, StoreUnit(k, op, todo), \A n \in DOMAIN unit : unit[n].line # DummyLoad(k, op)
  PROVE  unit = <<>> /\ todo = {}
<1> DEFINE rel == Release(Line(k, op))
<1>1. rel.line = DummyLoad(k, op)
  BY DEF Release, Vector, Line
<1> HIDE DEF rel
<1>2. unit # <<rel>>
  <2> SUFFICES ASSUME unit = <<rel>> PROVE FALSE
    OBVIOUS
  <2>1. 1 \in DOMAIN unit /\ unit[1] = rel
    OBVIOUS
  <2> QED
    BY <1>1, <2>1
<1>3. ASSUME NEW a PROVE unit # <<a, rel>>
  <2> SUFFICES ASSUME unit = <<a, rel>> PROVE FALSE
    OBVIOUS
  <2>1. 2 \in DOMAIN unit /\ unit[2] = rel
    OBVIOUS
  <2> QED
    BY <1>1, <2>1
<1>4. ASSUME NEW a, NEW b PROVE unit # <<a, b, rel>>
  <2> SUFFICES ASSUME unit = <<a, b, rel>> PROVE FALSE
    OBVIOUS
  <2>1. 3 \in DOMAIN unit /\ unit[3] = rel
    OBVIOUS
  <2> QED
    BY <1>1, <2>1
<1> QED
  BY <1>2, <1>3, <1>4 DEF StoreUnit, rel

LEMMA GatherWait ==
  ASSUME NEW k, NEW op, NEW todo, GatherUnit(k, op, todo), \A n \in DOMAIN unit : unit[n].line # DummyLoad(k, op)
  PROVE  unit = <<>> /\ todo = {}
<1>1. ASSUME NEW s PROVE unit # <<Vector("gather", k, Line(k, op), s)>>
  <2> SUFFICES ASSUME unit = <<Vector("gather", k, Line(k, op), s)>> PROVE FALSE
    OBVIOUS
  <2>1. 1 \in DOMAIN unit /\ unit[1] = Vector("gather", k, Line(k, op), s)
    OBVIOUS
  <2>2. unit[1].line = DummyLoad(k, op)
    BY <2>1 DEF Vector, Line
  <2> QED
    BY <2>1, <2>2
<1>2. ASSUME NEW a, NEW s PROVE unit # <<a, Vector("gather", k, Line(k, op), s)>>
  <2> SUFFICES ASSUME unit = <<a, Vector("gather", k, Line(k, op), s)>> PROVE FALSE
    OBVIOUS
  <2>1. 2 \in DOMAIN unit /\ unit[2] = Vector("gather", k, Line(k, op), s)
    OBVIOUS
  <2>2. unit[2].line = DummyLoad(k, op)
    BY <2>1 DEF Vector, Line
  <2> QED
    BY <2>1, <2>2
<1> QED
  BY <1>1, <1>2 DEF GatherUnit

LEMMA ShuffLane == ASSUME NEW v, NEW e \in Lanes PROVE vshuff(v)[e] = v[PairLane(e)]
<1>1. PICK m \in Nat : MATRIX_SIZE = 2 * m /\ MATRIX_SIZE \div 2 = m
  BY TwoHalves
<1>2. e \in Nat /\ e \div 2 \in Nat
  BY <1>1 DEF Lanes
<1>3. m + e \div 2 = e \div 2 + m /\ e \div 2 + 0 = e \div 2
  BY <1>1, <1>2
<1> QED
  BY <1>1, <1>3 DEF vshuff, PairLane

(* The elements of a 16_32 scatter are those of its lanes, in another order. *)
LEMMA PairStores ==
  ASSUME NEW op
  PROVE  {[off |-> PairOffset(tables.off, e), val |-> vshuff(SourceOf(op))[e]] :
             e \in {e \in Lanes : vshuff(PredicateOf(op))[e]}} = StoreLanes(op, Lanes)
<1> DEFINE p == PredicateOf(op)
           src == SourceOf(op)
<1> HIDE DEF p, src
<1>1. \A v : \A e \in Lanes : vshuff(v)[e] = v[PairLane(e)]
  BY ShuffLane
<1>2. ASSUME NEW e PROVE PairOffset(tables.off, e) = tables.off[PairLane(e)]
  BY DEF PairOffset, PairLane
<1>3. \A e \in Lanes : PairLane(e) \in Lanes
  BY PairLanes
<1>4. \A i \in Lanes : \E e \in Lanes : PairLane(e) = i
  BY PairLanes
<1>5. {e \in Lanes : vshuff(p)[e]} = {e \in Lanes : p[PairLane(e)]}
  BY <1>1
<1>6. {[off |-> PairOffset(tables.off, e), val |-> vshuff(src)[e]] : e \in {e \in Lanes : vshuff(p)[e]}}
        = {[off |-> tables.off[PairLane(e)], val |-> src[PairLane(e)]] : e \in {e \in Lanes : p[PairLane(e)]}}
  BY <1>1, <1>2, <1>5
<1>7. {[off |-> tables.off[PairLane(e)], val |-> src[PairLane(e)]] : e \in {e \in Lanes : p[PairLane(e)]}}
        = {[off |-> tables.off[i], val |-> src[i]] : i \in {i \in Lanes : p[i]}}
  BY <1>3, <1>4
<1> QED
  BY <1>6, <1>7 DEF StoreLanes, p, src

LEMMA StoreHalves == ASSUME NEW op PROVE StoreLanes(op, LoLanes) \cup StoreLanes(op, HiLanes) = StoreLanes(op, Lanes)
BY Halves DEF StoreLanes

LEMMA FetchHalves ==
  ASSUME NEW k, NEW op PROVE Fetches(k, op, LoLanes) \cup Fetches(k, op, HiLanes) = Fetches(k, op, Lanes)
BY Halves DEF Fetches

LEMMA StoreIssue ==
  ASSUME NEW k \in Kinds, NEW op \in StoreOps, unit' = VectorsOf(k, op), tables' = tables
  PROVE  StoreUnit(k, op, StoreLanes(op, Lanes))'
<1>1. StoreLanes(op, Lanes)' = StoreLanes(op, Lanes) /\ StoreLanes(op, LoLanes)' = StoreLanes(op, LoLanes)
      /\ StoreLanes(op, HiLanes)' = StoreLanes(op, HiLanes)
  BY TablesSame
<1>2. op \notin GatherOps
  BY DEF StoreOps, GatherOps
<1>3. CASE k = "16"
  <2>1. unit' = vector_scatter_16(op)
    BY <1>2, <1>3 DEF VectorsOf, StoreOps, GatherOps
  <2>2. Line(k, op) = Scattered("16")
    BY <1>3 DEF Line, DummyLoad, StoreOps
  <2>3. unit' = <<Vector(op, k, NoLine, StoreLanes(op, Lanes)), Release(Line(k, op))>>
    BY <1>3, <2>1, <2>2 DEF vector_scatter_16
  <2> QED
    BY <1>1, <2>3 DEF StoreUnit
<1>4. CASE k = "32"
  <2>1. unit' = vector_scatter_32(op)
    BY <1>2, <1>4 DEF VectorsOf, StoreOps, GatherOps
  <2>2. Line(k, op) = Scattered(IF op = "q" THEN "16" ELSE "32")
    BY <1>4 DEF Line, DummyLoad, StoreOps
  <2>3. unit' = <<Vector(op, k, NoLine, StoreLanes(op, LoLanes)), Vector(op, k, NoLine, StoreLanes(op, HiLanes)),
                 Release(Line(k, op))>>
    BY <1>4, <2>1, <2>2 DEF vector_scatter_32
  <2> QED
    BY <1>1, <1>4, <2>3, StoreHalves DEF StoreUnit
<1>5. CASE k = "16_32"
  <2>1. unit' = vector_scatter_16_32(op)
    BY <1>2, <1>5 DEF VectorsOf, StoreOps, GatherOps
  <2>2. Line(k, op) = Scattered("16_32")
    BY <1>5 DEF Line, DummyLoad, StoreOps
  <2>3. unit' = <<Vector(op, k, NoLine, StoreLanes(op, Lanes)), Release(Line(k, op))>>
    BY <1>5, <2>1, <2>2, PairStores DEF vector_scatter_16_32
  <2> QED
    BY <1>1, <2>3 DEF StoreUnit
<1> QED
  BY <1>3, <1>4, <1>5 DEF Kinds

LEMMA GatherIssue ==
  ASSUME NEW k \in Kinds, NEW op \in GatherOps, unit' = VectorsOf(k, op), tables' = tables
  PROVE  GatherUnit(k, op, Fetches(k, op, Lanes))'
<1>1. Fetches(k, op, Lanes)' = Fetches(k, op, Lanes) /\ Fetches(k, op, LoLanes)' = Fetches(k, op, LoLanes)
      /\ Fetches(k, op, HiLanes)' = Fetches(k, op, HiLanes)
  BY TablesSame
<1>2. op \notin StoreOps
  BY DEF StoreOps, GatherOps
<1>3. ASSUME NEW lanes, k # "16_32" PROVE FetchLanes(op, lanes) = Fetches(k, op, lanes)
  BY <1>3 DEF FetchLanes, Fetches, FetchOf, LaneOf
<1>4. CASE k = "16"
  <2>1. unit' = vector_gather_16(op)
    BY <1>2, <1>4 DEF VectorsOf, StoreOps, GatherOps
  <2>2. Line(k, op) = Gathered("16")
    BY <1>4 DEF Line, DummyLoad, GatherOps
  <2>3. unit' = <<Vector("gather", k, Line(k, op), Fetches(k, op, Lanes))>>
    BY <1>3, <1>4, <2>1, <2>2 DEF vector_gather_16
  <2> QED
    BY <1>1, <2>3 DEF GatherUnit
<1>5. CASE k = "32"
  <2>1. unit' = vector_gather_32(op)
    BY <1>2, <1>5 DEF VectorsOf, StoreOps, GatherOps
  <2>2. Line(k, op) = Gathered("hi")
    BY <1>5 DEF Line, DummyLoad, GatherOps
  <2>3. unit' = <<Vector("gather", k, Gathered("lo"), Fetches(k, op, LoLanes)),
                 Vector("gather", k, Line(k, op), Fetches(k, op, HiLanes))>>
    BY <1>3, <1>5, <2>1, <2>2 DEF vector_gather_32
  <2> QED
    BY <1>1, <1>5, <2>3, FetchHalves DEF GatherUnit
<1>6. CASE k = "16_32"
  <2>1. unit' = vector_gather_16_32(op)
    BY <1>2, <1>6 DEF VectorsOf, StoreOps, GatherOps
  <2>2. Line(k, op) = Gathered("16_32")
    BY <1>6 DEF Line, DummyLoad, GatherOps
  <2>3. {[off |-> PairOffset(tables.off, e), lane |-> e] : e \in {e \in Lanes : vshuff(PredicateOf(op))[e]}}
          = Fetches(k, op, Lanes)
    <3>1. \A e \in Lanes : vshuff(PredicateOf(op))[e] = PredicateOf(op)[LaneOf(k, e)]
      BY <1>6, ShuffLane DEF LaneOf
    <3>2. \A e : PairOffset(tables.off, e) = tables.off[LaneOf(k, e)]
      BY <1>6 DEF PairOffset, LaneOf, PairLane
    <3>3. {e \in Lanes : vshuff(PredicateOf(op))[e]} = {e \in Lanes : PredicateOf(op)[LaneOf(k, e)]}
      BY <3>1
    <3> QED
      BY <3>2, <3>3 DEF Fetches, FetchOf
  <2>4. unit' = <<Vector("gather", k, Line(k, op), Fetches(k, op, Lanes))>>
    BY <1>6, <2>1, <2>2, <2>3 DEF vector_gather_16_32
  <2> QED
    BY <1>1, <2>4 DEF GatherUnit
<1> QED
  BY <1>4, <1>5, <1>6 DEF Kinds

LEMMA NothingStored ==
  ASSUME NEW k, NEW op, Holds(k, BeforeOp(k, op))
  PROVE  Stored(k, op, StoreLanes(op, Lanes))
<1>1. \A i \in Lanes : Progress(k, op, StoreLanes(op, Lanes))[i] = BeforeOp(k, op)[i]
  BY DEF Progress, StoreLanes, StoreOf
<1> QED
  BY <1>1, ImageSame DEF Stored, Holds

LEMMA AllStored ==
  ASSUME NEW k, NEW op \in StoreOps, Stored(k, op, {})
  PROVE  Holds(k, AfterOp(op))
<1>1. ASSUME NEW i \in Lanes PROVE Progress(k, op, {})[i] = AfterOp(op)[i]
  <2>1. CASE op = "q"
    <3>1. Progress(k, op, {})[i] = IF tables.pred[i] THEN AfterOp(op)[i] ELSE BeforeOp(k, op)[i]
      BY <2>1 DEF Progress, PredicateOf
    <3> QED
      BY <2>1, <3>1 DEF AfterOp, BeforeOp, Marked, Sums
  <2>2. CASE op # "q"
    <3>1. PredicateOf(op)[i]
      BY <2>2 DEF PredicateOf, StoreOps
    <3> QED
      BY <3>1 DEF Progress
  <2> QED
    BY <2>1, <2>2
<1> QED
  BY <1>1, ImageSame DEF Stored, Holds

(* The elements a finished gather has fetched, dealt back into order when    *)
(* its offsets were a pair of vectors.                                       *)
Dealt(k) == IF k = "16_32" THEN vdeal(vgather[k]) ELSE vgather[k]

LEMMA AllFetched ==
  ASSUME NEW k \in Kinds, NEW op \in GatherOps, Fetched(k, op, {}), NEW i \in Lanes
  PROVE  Dealt(k)[i] = IF op = "gather" \/ tables.pred[i] THEN vscatter[k][Diag(i)] ELSE Letters(k, GATHER_INIT)
<1>1. PredicateOf(op)[i] <=> (op = "gather" \/ tables.pred[i])
  <2>1. CASE op = "gather"
    BY <2>1 DEF PredicateOf
  <2>2. CASE op = "gather_q"
    BY <2>2 DEF PredicateOf
  <2> QED
    BY <2>1, <2>2 DEF GatherOps
<1>2. ASSUME NEW l \in Lanes, LaneOf(k, l) = i
      PROVE  vgather[k][l] = IF PredicateOf(op)[i] THEN vscatter[k][Diag(i)] ELSE Letters(k, GATHER_INIT)
  BY <1>2 DEF Fetched
<1>3. \E l \in Lanes : LaneOf(k, l) = i /\ Dealt(k)[i] = vgather[k][l]
  <2>1. CASE k = "16_32"
    <3>1. i \in LoLanes \/ (i \in HiLanes /\ i \notin LoLanes)
      BY Halves
    <3>2. CASE i \in LoLanes
      <4>1. Dealt(k)[i] = vgather[k][2 * i]
        BY <2>1, <3>2 DEF Dealt, vdeal
      <4> QED
        BY <2>1, <3>2, <4>1, PairLanes DEF LaneOf
    <3>3. CASE i \in HiLanes /\ i \notin LoLanes
      <4>1. Dealt(k)[i] = vgather[k][2 * i - MATRIX_SIZE + 1]
        BY <2>1, <3>3 DEF Dealt, vdeal
      <4> QED
        BY <2>1, <3>3, <4>1, PairLanes DEF LaneOf
    <3> QED
      BY <3>1, <3>2, <3>3
  <2>2. CASE k # "16_32"
    BY <2>2 DEF Dealt, LaneOf
  <2> QED
    BY <2>1, <2>2
<1> QED
  BY <1>1, <1>2, <1>3

-----------------------------------------------------------------------------
(* Every step keeps the invariant.                                           *)

LEMMA MainKindsAre ==
  /\ MainKinds[1] = "16" /\ MainKinds[2] = "32" /\ MainKinds[3] = "16_32" /\ Len(MainKinds) = 3
  /\ MainCalls[1] = "scatter" /\ MainCalls[2] = "gather" /\ MainCalls[3] = "gather_q"
  /\ MainCalls[4] = "acc" /\ MainCalls[5] = "q" /\ Len(MainCalls) = 5
BY DEF MainKinds, MainCalls

LEMMA StepParts ==
  ASSUME SgTypeOK
  PROVE  /\ sgStep.kind \in 1 .. 4 /\ sgStep.call \in 1 .. 5 /\ sgStep.at \in {"issue", "sync", "check"}
         /\ SgInMain <=> sgStep.kind <= 3
         /\ sgStep.kind <= 3 => SgKind \in Kinds /\ SgCall \in StoreOps \cup GatherOps
         /\ \A n \in 1 .. 3 : MainKinds[n] \in Kinds /\ (n > sgStep.kind => MainKinds[n] # SgKind)
<1>1. sgStep.kind \in 1 .. 4 /\ sgStep.call \in 1 .. 5 /\ sgStep.at \in {"issue", "sync", "check"}
  BY DEF SgTypeOK
<1>2. SgInMain <=> sgStep.kind <= 3
  BY MainKindsAre DEF SgInMain
<1>3. \A n \in 1 .. 3 : n = 1 \/ n = 2 \/ n = 3
  OBVIOUS
<1>4. \A n \in 1 .. 3 : MainKinds[n] \in Kinds
  BY <1>3, MainKindsAre DEF Kinds
<1>5. sgStep.call = 1 \/ sgStep.call = 2 \/ sgStep.call = 3 \/ sgStep.call = 4 \/ sgStep.call = 5
  BY <1>1
<1>6. SgCall \in StoreOps \cup GatherOps
  BY <1>5, MainKindsAre DEF SgCall, StoreOps, GatherOps
<1>7. sgStep.kind <= 3 => SgKind \in Kinds
  BY <1>1, <1>4 DEF SgKind
<1>8. ASSUME NEW n \in 1 .. 3, n > sgStep.kind PROVE MainKinds[n] # SgKind
  <2>1. (sgStep.kind = 1 /\ n = 2) \/ (sgStep.kind = 1 /\ n = 3) \/ (sgStep.kind = 2 /\ n = 3)
    BY <1>1, <1>8
  <2> QED
    BY <2>1, MainKindsAre DEF SgKind
<1> QED
  BY <1>1, <1>2, <1>4, <1>6, <1>7, <1>8

LEMMA UnitKeeps ==
  ASSUME SgInv, UnitElement \/ UnitRetire
  PROVE  SgInv'
<1>1. sgStep' = sgStep /\ tables' = tables /\ (sgFail' <=> sgFail)
  <2>1. UnitElement => sgStep' = sgStep /\ tables' = tables /\ sgFail' = sgFail
    BY Zenon DEF UnitElement
  <2>2. UnitRetire => sgStep' = sgStep /\ tables' = tables /\ sgFail' = sgFail
    BY Zenon DEF UnitRetire
  <2> QED
    BY <2>1, <2>2
<1>2. unit # <<>>
  BY DEF UnitElement, UnitRetire
<1>3. sgStep.kind <= 3 /\ SgBuffers /\ SgTypeOK
  BY <1>2, StepParts DEF SgInv, SgTypeOK
<1>4. PICK k \in Kinds, op \in StoreOps \cup GatherOps : k = SgKind /\ op = SgCall
  BY <1>3, StepParts
<1>5. SgKind' = k /\ SgCall' = op
  BY <1>1, <1>4 DEF SgKind, SgCall
<1>6. CallInv(k, op)
  BY <1>3, <1>4 DEF SgInv
<1>7. sgStep.at = "sync" /\ TablesOf(k)
  BY <1>2, <1>3, <1>6, StepParts DEF CallInv
<1>8. TablesOf(k)' /\ StoreLanes(op, Lanes)' = StoreLanes(op, Lanes) /\ Fetches(k, op, Lanes)' = Fetches(k, op, Lanes)
      /\ Values' = Values
  BY <1>1, <1>7, TablesSame
<1>9. /\ SgBuffers' /\ \A j \in Kinds : j # k => vscatter'[j] = vscatter[j]
      /\ op \in StoreOps => \E todo \in SUBSET StoreLanes(op, Lanes) : StoreUnit(k, op, todo)' /\ Stored(k, op, todo)'
      /\ op \in GatherOps => /\ vscatter' = vscatter
                             /\ \E todo \in SUBSET Fetches(k, op, Lanes) : GatherUnit(k, op, todo)' /\ Fetched(k, op, todo)'
  <2>1. CASE op \in StoreOps
    <3>1. op \notin GatherOps
      BY <2>1 DEF StoreOps, GatherOps
    <3>2. PICK todo \in SUBSET StoreLanes(op, Lanes) : StoreUnit(k, op, todo) /\ Stored(k, op, todo)
      BY <1>6, <1>7, <2>1 DEF CallInv
    <3>3. CASE UnitElement
      BY <1>3, <1>7, <2>1, <3>1, <3>2, <3>3, StoreStep
    <3>4. CASE UnitRetire
      <4>1. StoreUnit(k, op, todo)'
        BY <3>2, <3>4, StoreRetire
      <4>2. vscatter' = vscatter /\ vgather' = vgather
        BY <3>4 DEF UnitRetire
      <4>3. Stored(k, op, todo)'
        BY <1>1, <3>2, <4>2, TablesSame DEF Stored, Holds
      <4> QED
        BY <1>3, <3>1, <4>1, <4>2, <4>3 DEF SgBuffers
    <3> QED
      BY <3>3, <3>4
  <2>2. CASE op \in GatherOps
    <3>1. op \notin StoreOps
      BY <2>2 DEF StoreOps, GatherOps
    <3>2. PICK todo \in SUBSET Fetches(k, op, Lanes) : GatherUnit(k, op, todo) /\ Fetched(k, op, todo)
      BY <1>6, <1>7, <2>2 DEF CallInv
    <3>3. CASE UnitElement
      BY <1>3, <1>7, <2>2, <3>1, <3>2, <3>3, FetchStep
    <3>4. CASE UnitRetire
      <4>1. GatherUnit(k, op, todo)'
        BY <3>2, <3>4, GatherRetire
      <4>2. vscatter' = vscatter /\ vgather' = vgather
        BY <3>4 DEF UnitRetire
      <4>3. PredicateOf(op)' = PredicateOf(op) /\ \A l \in Lanes : FetchOf(k, l)' = FetchOf(k, l)
        BY <1>1, TablesSame
      <4>4. Fetched(k, op, todo)'
        BY <3>2, <4>2, <4>3 DEF Fetched
      <4> QED
        BY <1>3, <3>1, <4>1, <4>2, <4>4 DEF SgBuffers
    <3> QED
      BY <3>3, <3>4
  <2> QED
    BY <2>1, <2>2
<1>10. op \in GatherOps => Holds(k, Values)'
  BY <1>6, <1>7, <1>8, <1>9 DEF CallInv, Holds
<1>11. CallInv(k, op)'
  BY <1>1, <1>7, <1>8, <1>9, <1>10 DEF CallInv
<1>12. SgTypeOK'
  BY <1>1, <1>3, <1>9 DEF SgTypeOK
<1>13. ASSUME NEW n \in 1 .. 3, n > sgStep.kind PROVE Untouched(MainKinds[n])'
  <2>1. MainKinds[n] \in Kinds /\ MainKinds[n] # k
    BY <1>3, <1>4, <1>13, StepParts
  <2>2. vscatter'[MainKinds[n]] = vscatter[MainKinds[n]]
    BY <1>9, <2>1
  <2> QED
    BY <1>13, <2>2 DEF SgInv, Untouched
<1> QED
  BY <1>1, <1>3, <1>5, <1>11, <1>12, <1>13 DEF SgInv

LEMMA IssueKeeps ==
  ASSUME SgInv, SgIssue
  PROVE  SgInv'
<1>1. tables' = tables /\ vscatter' = vscatter /\ (sgFail' <=> sgFail) /\ sgStep.at = "issue"
  BY DEF SgIssue
<1>2. sgStep.kind <= 3 /\ SgBuffers /\ SgTypeOK
  BY StepParts DEF SgInv, SgTypeOK, SgIssue
<1>3. PICK k \in Kinds, op \in StoreOps \cup GatherOps : k = SgKind /\ op = SgCall
  BY <1>2, StepParts
<1>4. sgStep' = [sgStep EXCEPT !.at = "sync"]
  BY DEF SgIssue
<1>5. sgStep'.kind = sgStep.kind /\ sgStep'.call = sgStep.call /\ sgStep'.at = "sync"
      /\ sgStep' \in [kind : 1 .. 4, call : 1 .. 5, at : {"issue", "sync", "check"}]
  BY <1>2, <1>4 DEF SgTypeOK
<1>6. SgKind' = k /\ SgCall' = op
  BY <1>3, <1>5 DEF SgKind, SgCall
<1>7. CallInv(k, op)
  BY <1>2, <1>3 DEF SgInv
<1>8. unit = <<>> /\ Holds(k, BeforeOp(k, op)) /\ TablesOf(k)
  BY <1>1, <1>7 DEF CallInv
<1>9. unit' = <<>> \o VectorsOf(k, op)
  BY <1>3, <1>8 DEF SgIssue
<1>10. unit' = VectorsOf(k, op)
  <2>1. CASE op \in StoreOps
    <3>1. VectorsOf(k, op) \in {vector_scatter_16(op), vector_scatter_32(op), vector_scatter_16_32(op)}
      BY <2>1 DEF VectorsOf, StoreOps, Kinds
    <3>2. <<>> \o vector_scatter_16(op) = vector_scatter_16(op)
      BY ShortQueues DEF vector_scatter_16
    <3>3. <<>> \o vector_scatter_32(op) = vector_scatter_32(op)
      BY ShortQueues DEF vector_scatter_32
    <3>4. <<>> \o vector_scatter_16_32(op) = vector_scatter_16_32(op)
      BY ShortQueues DEF vector_scatter_16_32
    <3> QED
      BY <1>9, <3>1, <3>2, <3>3, <3>4
  <2>2. CASE op \in GatherOps
    <3>1. VectorsOf(k, op) \in {vector_gather_16(op), vector_gather_32(op), vector_gather_16_32(op)}
      BY <2>2 DEF VectorsOf, GatherOps, Kinds
    <3>2. <<>> \o vector_gather_16(op) = vector_gather_16(op)
      BY ShortQueues DEF vector_gather_16
    <3>3. <<>> \o vector_gather_32(op) = vector_gather_32(op)
      BY ShortQueues DEF vector_gather_32
    <3>4. <<>> \o vector_gather_16_32(op) = vector_gather_16_32(op)
      BY ShortQueues DEF vector_gather_16_32
    <3> QED
      BY <1>9, <3>1, <3>2, <3>3, <3>4
  <2> QED
    BY <2>1, <2>2
<1>11. vgather' = IF op = "gather_q" THEN [vgather EXCEPT ![k] = [i \in Lanes |-> Letters(k, GATHER_INIT)]] ELSE vgather
  BY <1>3 DEF SgIssue
<1>12. Letters(k, GATHER_INIT) \in Nat
  BY DEF Letters, GATHER_INIT
<1>13. SgBuffers'
  <2>1. vgather \in [Kinds -> [Lanes -> Nat]] /\ vscatter \in [Kinds -> [BufferIndex -> Nat]]
    BY <1>2 DEF SgBuffers
  <2>2. vgather' \in [Kinds -> [Lanes -> Nat]]
    BY <1>11, <1>12, <2>1
  <2> QED
    BY <1>1, <2>1, <2>2 DEF SgBuffers
<1>14. TablesOf(k)' /\ StoreLanes(op, Lanes)' = StoreLanes(op, Lanes) /\ Fetches(k, op, Lanes)' = Fetches(k, op, Lanes)
       /\ Values' = Values /\ PredicateOf(op)' = PredicateOf(op) /\ BeforeOp(k, op)' = BeforeOp(k, op)
  BY <1>1, <1>8, TablesSame
<1>15. ASSUME op \in StoreOps
       PROVE  \E todo \in SUBSET StoreLanes(op, Lanes) : StoreUnit(k, op, todo)' /\ Stored(k, op, todo)'
  <2> DEFINE all == StoreLanes(op, Lanes)
  <2>1. StoreUnit(k, op, all)'
    BY <1>1, <1>10, <1>15, StoreIssue
  <2>2. Stored(k, op, all)
    BY <1>8, NothingStored
  <2> HIDE DEF all
  <2>3. ASSUME NEW todo, todo = all PROVE StoreUnit(k, op, todo)' /\ Stored(k, op, todo)'
    <3>1. StoreUnit(k, op, todo)'
      BY <1>14, <2>1, <2>3 DEF StoreUnit, all
    <3>2. Stored(k, op, todo)
      BY <2>2, <2>3
    <3>3. Stored(k, op, todo)'
      BY <1>1, <3>2, TablesSame DEF Stored, Holds
    <3> QED
      BY <3>1, <3>3
  <2>4. all \in SUBSET StoreLanes(op, Lanes)
    BY DEF all
  <2> QED
    BY <2>3, <2>4
<1>16. ASSUME op \in GatherOps
       PROVE  /\ Holds(k, Values)'
              /\ \E todo \in SUBSET Fetches(k, op, Lanes) : GatherUnit(k, op, todo)' /\ Fetched(k, op, todo)'
  <2> DEFINE all == Fetches(k, op, Lanes)
  <2>1. GatherUnit(k, op, all)'
    BY <1>1, <1>10, <1>16, GatherIssue
  <2>2. BeforeOp(k, op) = Values
    BY <1>16 DEF BeforeOp, GatherOps
  <2>3. Holds(k, Values)'
    BY <1>1, <1>8, <1>14, <2>2 DEF Holds
  <2> HIDE DEF all
  <2>4. ASSUME NEW todo, todo = all PROVE GatherUnit(k, op, todo)' /\ Fetched(k, op, todo)'
    <3>1. GatherUnit(k, op, todo)'
      BY <1>14, <2>1, <2>4 DEF GatherUnit, all
    <3>2. ASSUME NEW l \in Lanes PROVE IF PredicateOf(op)[LaneOf(k, l)] THEN FetchOf(k, l) \in todo
                                      ELSE vgather'[k][l] = Letters(k, GATHER_INIT)
      <4>1. PredicateOf(op)[LaneOf(k, l)] => FetchOf(k, l) \in todo
        BY <2>4 DEF Fetches, all
      <4>2. op = "gather" => PredicateOf(op)[LaneOf(k, l)]
        BY LaneOfIn DEF PredicateOf
      <4>3. op = "gather_q" => vgather'[k][l] = Letters(k, GATHER_INIT)
        BY <1>2, <1>11 DEF SgBuffers
      <4> QED
        BY <1>16, <4>1, <4>2, <4>3 DEF GatherOps
    <3>3. \A l \in Lanes : FetchOf(k, l)' = FetchOf(k, l)
      BY <1>1, TablesSame
    <3>4. Fetched(k, op, todo)'
      BY <1>14, <3>2, <3>3 DEF Fetched
    <3> QED
      BY <3>1, <3>4
  <2>5. all \in SUBSET Fetches(k, op, Lanes)
    BY DEF all
  <2> QED
    BY <2>3, <2>4, <2>5
<1>17. CallInv(k, op)'
  BY <1>5, <1>14, <1>15, <1>16 DEF CallInv
<1>18. SgTypeOK'
  BY <1>2, <1>5, <1>13 DEF SgTypeOK
<1>19. \A n \in 1 .. 3 : n > sgStep'.kind => Untouched(MainKinds[n])'
  BY <1>1, <1>5 DEF SgInv, Untouched
<1> QED
  BY <1>1, <1>2, <1>5, <1>6, <1>17, <1>18, <1>19 DEF SgInv

LEMMA SyncKeeps ==
  ASSUME SgInv, SgSync
  PROVE  SgInv'
<1>1. tables' = tables /\ vscatter' = vscatter /\ unit' = unit /\ (sgFail' <=> sgFail) /\ sgStep.at = "sync"
  BY DEF SgSync
<1>2. sgStep.kind <= 3 /\ SgBuffers /\ SgTypeOK
  BY StepParts DEF SgInv, SgTypeOK, SgSync
<1>3. PICK k \in Kinds, op \in StoreOps \cup GatherOps : k = SgKind /\ op = SgCall
  BY <1>2, StepParts
<1>4. sgStep' = [sgStep EXCEPT !.at = "check"]
  BY DEF SgSync
<1>5. sgStep'.kind = sgStep.kind /\ sgStep'.call = sgStep.call /\ sgStep'.at = "check"
      /\ sgStep' \in [kind : 1 .. 4, call : 1 .. 5, at : {"issue", "sync", "check"}]
  BY <1>2, <1>4 DEF SgTypeOK
<1>6. SgKind' = k /\ SgCall' = op
  BY <1>3, <1>5 DEF SgKind, SgCall
<1>7. CallInv(k, op)
  BY <1>2, <1>3 DEF SgInv
<1>8. \A n \in DOMAIN unit : unit[n].line # DummyLoad(k, op)
  BY <1>3 DEF SgSync
<1>9. TablesOf(k) /\ TablesOf(k)' /\ AfterOp(op)' = AfterOp(op)
  BY <1>1, <1>7, TablesSame DEF CallInv
<1>10. vgather' = IF k = "16_32" /\ op \in {"gather", "gather_q"} THEN [vgather EXCEPT !["16_32"] = vdeal(@)] ELSE vgather
  BY <1>3 DEF SgSync
<1>11. vgather \in [Kinds -> [Lanes -> Nat]] /\ vscatter \in [Kinds -> [BufferIndex -> Nat]]
  BY <1>2 DEF SgBuffers
<1>12. SgBuffers'
  <2>1. ASSUME NEW v \in [Lanes -> Nat] PROVE vdeal(v) \in [Lanes -> Nat]
    <3>1. \A i \in LoLanes : 2 * i \in Lanes
      BY PairLanes
    <3>2. \A i \in Lanes : i \notin LoLanes => 2 * i - MATRIX_SIZE + 1 \in Lanes
      BY PairLanes, Halves
    <3> QED
      BY <3>1, <3>2 DEF vdeal
  <2>2. vgather' \in [Kinds -> [Lanes -> Nat]]
    BY <1>10, <1>11, <2>1 DEF Kinds
  <2> QED
    BY <1>1, <1>11, <2>2 DEF SgBuffers
<1>13. ASSUME op \in StoreOps PROVE unit = <<>> /\ Holds(k, AfterOp(op)) /\ op \notin GatherOps
  <2>1. PICK todo \in SUBSET StoreLanes(op, Lanes) : StoreUnit(k, op, todo) /\ Stored(k, op, todo)
    BY <1>1, <1>7, <1>13 DEF CallInv
  <2>2. unit = <<>> /\ todo = {}
    BY <1>8, <2>1, StoreWait
  <2> QED
    BY <1>13, <2>1, <2>2, AllStored DEF StoreOps, GatherOps
<1>14. ASSUME op \in GatherOps PROVE unit = <<>> /\ Holds(k, AfterOp(op)) /\ GatherDone(k, op)'
  <2>1. PICK todo \in SUBSET Fetches(k, op, Lanes) : GatherUnit(k, op, todo) /\ Fetched(k, op, todo)
    BY <1>1, <1>7, <1>14 DEF CallInv
  <2>2. unit = <<>> /\ todo = {}
    BY <1>8, <2>1, GatherWait
  <2>3. Fetched(k, op, {})
    BY <2>1, <2>2
  <2>4. vgather'[k] = Dealt(k)
    BY <1>10, <1>11, <1>14 DEF Dealt, GatherOps
  <2>5. GatherDone(k, op)'
    BY <1>1, <1>14, <2>3, <2>4, AllFetched DEF GatherDone
  <2>6. AfterOp(op) = Values
    BY <1>14 DEF AfterOp, GatherOps
  <2> QED
    BY <1>1, <1>7, <1>14, <2>2, <2>5, <2>6 DEF CallInv
<1>15. unit' = <<>> /\ Holds(k, AfterOp(op))' /\ (op \in GatherOps => GatherDone(k, op)')
  BY <1>1, <1>9, <1>13, <1>14 DEF Holds
<1>16. CallInv(k, op)'
  BY <1>5, <1>9, <1>15 DEF CallInv
<1>17. SgTypeOK'
  BY <1>2, <1>5, <1>12 DEF SgTypeOK
<1>18. \A n \in 1 .. 3 : n > sgStep'.kind => Untouched(MainKinds[n])'
  BY <1>1, <1>5 DEF SgInv, Untouched
<1> QED
  BY <1>1, <1>2, <1>5, <1>6, <1>16, <1>17, <1>18 DEF SgInv

(* Fresh tables, and the buffer of a kind main has not reached.              *)
LEMMA FreshTables ==
  ASSUME NEW k \in Kinds
  PROVE  TablesLike(k, create_tables(k))
<1> DEFINE t == create_tables(k)
<1>1. PICK letter \in Nat, mark \in Nat, preds \in [Lanes -> BOOLEAN] : t = Table(k, letter, mark, preds)
  <2>1. create_preds_16 \in [Lanes -> BOOLEAN] /\ create_preds_32 \in [Lanes -> BOOLEAN]
        /\ create_preds_16_32 \in [Lanes -> BOOLEAN]
    BY DEF create_preds_16, create_preds_32, create_preds_16_32
  <2>2. CASE k = "16"
    <3>1. t = Table(k, 65, 64, create_preds_16)
      BY <2>2 DEF create_tables, create_offsets_and_values_16
    <3> QED
      BY <2>1, <3>1
  <2>3. CASE k = "32"
    <3>1. t = Table(k, 65, 38, create_preds_32)
      BY <2>3 DEF create_tables, create_offsets_and_values_32
    <3> QED
      BY <2>1, <3>1
  <2>4. CASE k = "16_32"
    <3>1. t = Table(k, 68, 36, create_preds_16_32)
      BY <2>4 DEF create_tables, create_offsets_and_values_16_32
    <3> QED
      BY <2>1, <3>1
  <2> QED
    BY <2>2, <2>3, <2>4 DEF Kinds
<1> HIDE DEF t
<1>2. \A i \in Lanes : i \in Nat /\ i % 12 \in Nat /\ i % 10 \in Nat
  BY Sizes0 DEF Lanes
<1>3. ASSUME NEW c \in Nat PROVE Letters(k, c) \in Nat
  BY DEF Letters
<1>4. \A i \in Lanes : letter + (i % 12) \in Nat /\ (i % 10) * 257 \in Nat
  BY <1>2
<1>5. \A i \in Lanes : t.val[i] = Letters(k, letter + (i % 12)) /\ t.acc[i] = (i % 10) * 257
                      /\ t.q[i] = Letters(k, mark) /\ t.pred[i] = preds[i]
                      /\ t.off[i] = i * (ElementSize(k) * MATRIX_SIZE + ElementSize(k))
  BY <1>1 DEF Table
<1>6. t.k = k
  BY <1>1 DEF Table
<1>7. \A i \in Lanes : t.val[i] \in Nat /\ t.acc[i] \in Nat /\ t.q[i] \in Nat
  BY <1>3, <1>4, <1>5
<1>8. \A i \in Lanes : t.pred[i] \in BOOLEAN
  BY <1>5
<1>9. \A i \in Lanes : t.off[i] = i * (ElementSize(k) * MATRIX_SIZE + ElementSize(k))
  BY <1>5
<1> QED
  BY <1>6, <1>7, <1>8, <1>9 DEF TablesLike, t

LEMMA UntouchedHolds ==
  ASSUME NEW k \in Kinds, NEW b \in [BufferIndex -> Nat], \A x \in BufferIndex : b[x] = Fill(k)
  PROVE  Image(k, b, Filled(k))
BY DiagIn DEF Image, Filled

LEMMA CheckKeeps ==
  ASSUME SgInv, SgCheck
  PROVE  SgInv'
<1>1. vscatter' = vscatter /\ vgather' = vgather /\ unit' = unit /\ sgStep.at = "check"
  BY DEF SgCheck
<1>2. sgStep.kind <= 3 /\ SgBuffers /\ SgTypeOK /\ ~ sgFail
  BY StepParts DEF SgInv, SgTypeOK, SgCheck
<1>3. PICK k \in Kinds, op \in StoreOps \cup GatherOps : k = SgKind /\ op = SgCall
  BY <1>2, StepParts
<1>4. CallInv(k, op)
  BY <1>2, <1>3 DEF SgInv
<1>5. unit = <<>> /\ Holds(k, AfterOp(op)) /\ TablesOf(k) /\ (op \in GatherOps => GatherDone(k, op))
  BY <1>1, <1>4 DEF CallInv
<1>6. ~ sgFail'
  <2>1. op \in GatherOps => check_gather(k, op)
    BY <1>5, GatherCheck
  <2>2. op \in StoreOps => check_scatter(k, op)
    BY <1>5, ScatterCheck
  <2>3. sgFail' <=> (sgFail \/ ~ IF op \in {"gather", "gather_q"} THEN check_gather(k, op) ELSE check_scatter(k, op))
    BY <1>3 DEF SgCheck
  <2>4. op \in {"gather", "gather_q"} <=> op \in GatherOps
    BY DEF GatherOps
  <2> QED
    BY <1>2, <2>1, <2>2, <2>3, <2>4
<1>7. SgBuffers'
  BY <1>1, <1>2 DEF SgBuffers
<1>8. \A n \in 1 .. 3 : n > sgStep.kind => Untouched(MainKinds[n])'
  BY <1>1 DEF SgInv, Untouched
<1>9. sgStep.kind \in 1 .. 3 /\ sgStep.call \in 1 .. 5
  BY <1>2, StepParts
<1>10. sgStep \in [kind : 1 .. 4, call : 1 .. 5, at : {"issue", "sync", "check"}]
  BY <1>2 DEF SgTypeOK
<1>11. CASE sgStep.call < 5
  <2>1. sgStep' = [sgStep EXCEPT !.call = @ + 1, !.at = "issue"]
    BY <1>11, MainKindsAre DEF SgCheck
  <2>2. sgStep'.kind = sgStep.kind /\ sgStep'.call = sgStep.call + 1 /\ sgStep'.at = "issue"
        /\ sgStep' \in [kind : 1 .. 4, call : 1 .. 5, at : {"issue", "sync", "check"}]
    <3>1. sgStep.call + 1 \in 1 .. 5
      BY <1>9, <1>11
    <3> QED
      BY <1>10, <2>1, <3>1
  <2>3. tables' = tables
    BY <2>2 DEF SgCheck
  <2>4. PICK next : next = MainCalls[sgStep.call + 1]
    OBVIOUS
  <2>5. SgKind' = k /\ SgCall' = next
    BY <1>3, <2>2, <2>4 DEF SgKind, SgCall
  <2>6. BeforeOp(k, next) = AfterOp(op)
    <3>1. sgStep.call = 1 \/ sgStep.call = 2 \/ sgStep.call = 3 \/ sgStep.call = 4
      BY <1>9, <1>11
    <3>2. \/ op = "scatter" /\ next = "gather"
          \/ op = "gather" /\ next = "gather_q"
          \/ op = "gather_q" /\ next = "acc"
          \/ op = "acc" /\ next = "q"
      <4>1. CASE sgStep.call = 1
        BY <1>3, <2>4, <4>1, MainKindsAre DEF SgCall
      <4>2. CASE sgStep.call = 2
        BY <1>3, <2>4, <4>2, MainKindsAre DEF SgCall
      <4>3. CASE sgStep.call = 3
        BY <1>3, <2>4, <4>3, MainKindsAre DEF SgCall
      <4>4. CASE sgStep.call = 4
        BY <1>3, <2>4, <4>4, MainKindsAre DEF SgCall
      <4> QED
        BY <3>1, <4>1, <4>2, <4>3, <4>4
    <3> QED
      BY <3>2 DEF BeforeOp, AfterOp
  <2>7. TablesOf(k)' /\ BeforeOp(k, next)' = BeforeOp(k, next)
    BY <1>5, <2>3, TablesSame
  <2>8. Holds(k, BeforeOp(k, next))'
    BY <1>1, <1>5, <2>6, <2>7 DEF Holds
  <2>9. CallInv(k, next)'
    BY <1>1, <1>5, <2>2, <2>7, <2>8 DEF CallInv
  <2>10. SgTypeOK'
    BY <1>2, <1>7, <2>2 DEF SgTypeOK
  <2> QED
    BY <1>2, <1>6, <1>8, <2>2, <2>5, <2>9, <2>10 DEF SgInv
<1>12. CASE sgStep.call = 5
  <2>1. sgStep' = [kind |-> sgStep.kind + 1, call |-> 1, at |-> "issue"]
    BY <1>12, MainKindsAre DEF SgCheck
  <2>2. sgStep'.kind = sgStep.kind + 1 /\ sgStep'.call = 1 /\ sgStep'.at = "issue"
        /\ sgStep' \in [kind : 1 .. 4, call : 1 .. 5, at : {"issue", "sync", "check"}]
    BY <1>9, <2>1
  <2>3. SgTypeOK'
    BY <1>7, <2>2 DEF SgTypeOK
  <2>4. \A n \in 1 .. 3 : n > sgStep'.kind => Untouched(MainKinds[n])'
    BY <1>8, <1>9, <2>2
  <2>5. CASE sgStep.kind = 3
    BY <1>1, <1>5, <1>6, <2>2, <2>3, <2>4, <2>5 DEF SgInv
  <2>6. CASE sgStep.kind < 3
    <3>1. PICK next : next = MainKinds[sgStep.kind + 1]
      OBVIOUS
    <3>2. sgStep.kind + 1 \in 1 .. 3 /\ sgStep.kind + 1 > sgStep.kind
      BY <1>9, <2>6
    <3>3. next \in Kinds /\ Untouched(next)'
      BY <1>2, <1>8, <3>1, <3>2, StepParts
    <3>4. SgKind' = next /\ SgCall' = "scatter"
      BY <2>2, <3>1, MainKindsAre DEF SgKind, SgCall
    <3>5. tables' = create_tables(next)
      <4>1. sgStep'.kind # sgStep.kind /\ sgStep'.kind <= Len(MainKinds)
        BY <1>9, <2>2, <2>6, MainKindsAre
      <4> QED
        BY <2>2, <3>1, <4>1 DEF SgCheck
    <3>6. TablesOf(next)'
      BY <3>3, <3>5, FreshTables DEF TablesOf
    <3>7. Holds(next, BeforeOp(next, "scatter"))'
      <4>1. BeforeOp(next, "scatter")' = Filled(next)
        BY DEF BeforeOp, Filled
      <4>2. vscatter'[next] \in [BufferIndex -> Nat]
        BY <1>7, <3>3 DEF SgBuffers
      <4> QED
        BY <3>3, <4>1, <4>2, UntouchedHolds DEF Holds, Untouched
    <3>8. CallInv(next, "scatter")'
      BY <1>1, <1>5, <2>2, <3>6, <3>7 DEF CallInv
    <3>9. CallInv(SgKind, SgCall)'
      BY <3>4, <3>8
    <3> QED
      BY <1>6, <1>9, <2>2, <2>3, <2>4, <2>6, <3>9 DEF SgInv
  <2> QED
    BY <1>9, <2>5, <2>6
<1> QED
  BY <1>9, <1>11, <1>12

LEMMA SgInitInv == SgInit => SgInv
<1> SUFFICES ASSUME SgInit PROVE SgInv
  OBVIOUS
<1>1. sgStep.kind = 1 /\ sgStep.call = 1 /\ sgStep.at = "issue" /\ unit = <<>> /\ ~ sgFail
      /\ sgStep \in [kind : 1 .. 4, call : 1 .. 5, at : {"issue", "sync", "check"}]
  BY DEF SgInit
<1>2. \A k \in Kinds : Letters(k, FILL_CHAR) \in Nat
  BY DEF Letters, FILL_CHAR
<1>3. SgBuffers /\ \A k \in Kinds : Untouched(k)
  BY <1>2 DEF SgInit, SgBuffers, Untouched, Fill
<1>4. SgKind = "16" /\ SgCall = "scatter" /\ "16" \in Kinds
  BY <1>1, MainKindsAre DEF SgKind, SgCall, Kinds
<1>5. TablesOf("16")
  BY <1>4, FreshTables DEF SgInit, TablesOf
<1>6. Holds("16", BeforeOp("16", "scatter"))
  <2>1. BeforeOp("16", "scatter") = Filled("16")
    BY DEF BeforeOp, Filled
  <2>2. vscatter["16"] \in [BufferIndex -> Nat]
    BY <1>3, <1>4 DEF SgBuffers
  <2> QED
    BY <1>3, <1>4, <2>1, <2>2, UntouchedHolds DEF Holds, Untouched
<1>7. CallInv("16", "scatter")
  BY <1>1, <1>5, <1>6 DEF CallInv
<1>8. SgTypeOK
  BY <1>1, <1>3 DEF SgTypeOK
<1>9. \A n \in 1 .. 3 : Untouched(MainKinds[n])
  BY <1>3, <1>8, StepParts
<1> QED
  BY <1>1, <1>4, <1>7, <1>8, <1>9 DEF SgInv

LEMMA SgStepInv == SgInv /\ [SgNext]_sgVars => SgInv'
<1> SUFFICES ASSUME SgInv, [SgNext]_sgVars PROVE SgInv'
  OBVIOUS
<1>1. CASE SgNext
  BY <1>1, UnitKeeps, IssueKeeps, SyncKeeps, CheckKeeps DEF SgNext
<1>2. CASE UNCHANGED sgVars
  <2>1. sgStep' = sgStep /\ tables' = tables /\ vscatter' = vscatter /\ vgather' = vgather /\ unit' = unit
        /\ (sgFail' <=> sgFail)
    BY <1>2 DEF sgVars
  <2>2. ASSUME NEW k, NEW op PROVE CallInv(k, op)' <=> CallInv(k, op)
    <3>1. /\ TablesOf(k)' <=> TablesOf(k)
          /\ StoreLanes(op, Lanes)' = StoreLanes(op, Lanes) /\ Fetches(k, op, Lanes)' = Fetches(k, op, Lanes)
          /\ BeforeOp(k, op)' = BeforeOp(k, op) /\ AfterOp(op)' = AfterOp(op) /\ Values' = Values
      BY <2>1, TablesSame
    <3>2. GatherDone(k, op)' <=> GatherDone(k, op)
      BY <2>1 DEF GatherDone
    <3>3. ASSUME NEW f PROVE Holds(k, f)' <=> Holds(k, f)
      BY <2>1 DEF Holds
    <3>4. ASSUME NEW todo PROVE Stored(k, op, todo)' <=> Stored(k, op, todo)
      BY <2>1, TablesSame DEF Stored, Holds
    <3>5. ASSUME NEW todo PROVE StoreUnit(k, op, todo)' <=> StoreUnit(k, op, todo)
      <4>1. StoreLanes(op, LoLanes)' = StoreLanes(op, LoLanes) /\ StoreLanes(op, HiLanes)' = StoreLanes(op, HiLanes)
        BY <2>1, TablesSame
      <4> QED
        BY <2>1, <4>1 DEF StoreUnit
    <3>6. ASSUME NEW todo PROVE GatherUnit(k, op, todo)' <=> GatherUnit(k, op, todo)
      <4>1. Fetches(k, op, LoLanes)' = Fetches(k, op, LoLanes) /\ Fetches(k, op, HiLanes)' = Fetches(k, op, HiLanes)
        BY <2>1, TablesSame
      <4> QED
        BY <2>1, <4>1 DEF GatherUnit
    <3>7. ASSUME NEW todo PROVE Fetched(k, op, todo)' <=> Fetched(k, op, todo)
      <4>1. PredicateOf(op)' = PredicateOf(op) /\ \A l \in Lanes : FetchOf(k, l)' = FetchOf(k, l)
        BY <2>1, TablesSame
      <4> QED
        BY <2>1, <4>1 DEF Fetched
    <3> QED
      BY <2>1, <3>1, <3>2, <3>3, <3>4, <3>5, <3>6, <3>7 DEF CallInv
  <2>3. SgKind' = SgKind /\ SgCall' = SgCall
    BY <2>1 DEF SgKind, SgCall
  <2>4. sgStep'.kind <= 3 => CallInv(SgKind, SgCall)'
    <3>1. PICK k, op : k = SgKind /\ op = SgCall
      OBVIOUS
    <3>2. sgStep.kind <= 3 => CallInv(k, op)
      BY <3>1 DEF SgInv
    <3>3. sgStep.kind <= 3 => CallInv(k, op)'
      BY <2>2, <3>2
    <3> QED
      BY <2>1, <2>3, <3>1, <3>3
  <2>5. SgTypeOK'
    BY <2>1 DEF SgInv, SgTypeOK, SgBuffers
  <2>6. \A n \in 1 .. 3 : n > sgStep'.kind => Untouched(MainKinds[n])'
    BY <2>1 DEF SgInv, Untouched
  <2> QED
    BY <2>1, <2>4, <2>5, <2>6 DEF SgInv
<1> QED
  BY <1>1, <1>2

-----------------------------------------------------------------------------
(* The MMU tests.                                                            *)

(* The entry of the megabyte the tests run in.  Nothing writes index 0.      *)
Fixed == create_mmu_entry(TRUE, 0, 0, XWRU, 0, ONE_MB)
Entries == [V : BOOLEAN, G : BOOLEAN, asid : Nat, vpn : Nat, pa : Nat, size : Nat \ {0}, perm : SUBSET XWRU]
MmPrograms == {"permissions", "page_size", "asids", "multi_tlb", "overlap", "cacheops", "hsv39"}

TlbTypeOK == tlb \in [Legacy \cup Extended -> Entries] /\ tlb[0] = Fixed
MmTypeOK == mmProg \in MmPrograms /\ TlbTypeOK

(* Entry i is e while the program is at one of the places, and else invalid. *)
HoldsAt(i, e, here) == IF here THEN tlb[i] = e ELSE ~ tlb[i].V
NoneFrom(n) == \A i \in Legacy : i >= n => ~ tlb[i].V
NoExtended == ~ tlb[512].V /\ ~ tlb[513].V

(* A page of 4K every address space sees.                                    *)
GlobalPage(va, perm, pa) == create_mmu_entry(TRUE, 0, va, perm, pa, 1)

(* mmu_permissions.c: each entry lacks what its access needs; what a handler *)
(* has added is what my_exceptions tells.                                    *)
PermCauses == {"FETCH_NO_XPAGE", "FETCH_NO_UPAGE", "PRIV_NO_READ", "PRIV_NO_WRITE", "PRIV_NO_UREAD", "PRIV_NO_UWRITE"}
Granted(cause, bit) == IF cause \in my_exceptions THEN {bit} ELSE {}
PermEntry(n, perm) == GlobalPage(DATA_PAGE + n * ONE_MB, perm, DATA_PAGE)
FuncEntry(perm) == GlobalPage(FUNC_PAGE + 5 * ONE_MB, perm, FUNC_PAGE)

PermissionsInv(at) ==
    /\ at \in 1 .. 23
    /\ HoldsAt(1, PermEntry(1, (XWRU \ {"R"}) \cup Granted("PRIV_NO_READ", "R")), at > 3)
    /\ HoldsAt(2, PermEntry(2, (XWRU \ {"U"}) \cup Granted("PRIV_NO_UREAD", "U")), at > 5)
    /\ HoldsAt(3, PermEntry(3, (XWRU \ {"W"}) \cup Granted("PRIV_NO_WRITE", "W")), at > 7)
    /\ HoldsAt(4, PermEntry(4, (XWRU \ {"U"}) \cup Granted("PRIV_NO_UWRITE", "U")), at > 9)
    /\ HoldsAt(5, FuncEntry({"W", "R"} \cup Granted("FETCH_NO_XPAGE", "X") \cup Granted("FETCH_NO_UPAGE", "U")), at > 11)
    /\ NoneFrom(6)
    /\ mmAsid = 0 /\ (at > 13 => evbMine = TRUE) /\ (at > 14 => userMode = TRUE)
    /\ my_exceptions \subseteq PermCauses /\ (at <= 14 => my_exceptions = {})
    /\ at > 15 => "PRIV_NO_READ" \in my_exceptions
    /\ at > 16 => "PRIV_NO_UREAD" \in my_exceptions
    /\ at > 17 => "PRIV_NO_WRITE" \in my_exceptions
    /\ at > 19 => "PRIV_NO_UWRITE" \in my_exceptions
    /\ at > 21 => {"FETCH_NO_XPAGE", "FETCH_NO_UPAGE"} \subseteq my_exceptions
    /\ (at \in 3 .. 17 => mmData = "deadbeef") /\ (at > 17 => mmData = "c0ffee")

(* mmu_page_size.c.                                                          *)
SizeOffset(size) == IF size <= ONE_MB THEN 5 * ONE_MB ELSE size
SizeEntry(page, size) ==
    create_mmu_entry(TRUE, 0, page_start(page, size) + SizeOffset(size), XWRU, page_start(page, size), size)
PageSizeInv(n, at) ==
    /\ (n \in 1 .. 10 /\ at \in 1 .. 13) \/ (n = 11 /\ at = 1)
    /\ HoldsAt(1, SizeEntry(DATA_PAGE, PageSizes[n]), at \in 3 .. 7)
    /\ HoldsAt(2, SizeEntry(FUNC_PAGE, PageSizes[n]), at \in 10 .. 12)
    /\ NoneFrom(3) /\ mmAsid = 0 /\ userMode = FALSE
    /\ (at \in 2 .. 5 => mmData = "deadbeef") /\ (at = 6 => mmData = "cafebabe")

(* mmu_asids.c: a miss under ASID 2 makes the runtime write a global entry.  *)
AsidEntry == create_mmu_entry(FALSE, 1, DATA_PAGE + 5 * ONE_MB, XWRU \ {"U"}, DATA_PAGE, 1)
Refilled == create_mmu_entry(TRUE, 0, 5 * ONE_MB, XWRU, 5 * ONE_MB, ONE_MB)
RefillIndex == TLB_FIXED_ENTRIES .. NumLegacy
AsidsInv(at) ==
    /\ at \in 1 .. 18
    /\ HoldsAt(1, AsidEntry, at \in 2 .. 3 \/ at \in 7 .. 14)
    /\ \A i \in 2 .. 5 : ~ tlb[i].V
    /\ \A i \in RefillIndex : tlb[i].V => tlb[i] = Refilled /\ at >= 13
    /\ \A i, j \in RefillIndex : tlb[i].V /\ tlb[j].V => i = j
    /\ at > 13 => \E i \in RefillIndex : tlb[i].V
    /\ mmAsid = IF at <= 7 THEN 0 ELSE IF at <= 11 THEN 1 ELSE IF at <= 15 THEN 2 ELSE 1
    /\ (at \in 6 .. 9 => mmData = "deadbeef") /\ (at = 10 => mmData = "cafebabe")
    /\ userMode = FALSE /\ evbMine = FALSE

(* mmu_multi_tlb.c: two entries that are the same.                           *)
MultiEntry == create_mmu_entry(FALSE, 1, DATA_PAGE + ONE_MB, XWRU \ {"U"}, DATA_PAGE, 1)
MultiInv(at) ==
    /\ at \in 1 .. 14
    /\ HoldsAt(1, MultiEntry, at \in 6 .. 12)
    /\ HoldsAt(2, MultiEntry, at \in 9 .. 13)
    /\ NoneFrom(3)
    /\ at > 1 => evbMine = TRUE
    /\ my_exceptions = IF at <= 10 THEN {} ELSE {"MULTI_TLB_MATCH"}

(* mmu_overlap.c.                                                            *)
OverlapEntry == create_mmu_entry(TRUE, 0, 5 * ONE_MB, XWRU, 0, ONE_MB)
ClearEntry == create_mmu_entry(TRUE, 0, 6 * ONE_MB, XWRU \ {"U"}, 0, 1)
OverlapInv(at) ==
    /\ at \in 1 .. 12
    /\ HoldsAt(1, OverlapEntry, at \in 2 .. 8)
    /\ HoldsAt(2, ClearEntry, at \in 7 .. 10)
    /\ NoneFrom(3) /\ mmAsid = 0

(* mmu_cacheops.c: access n is call 3n + 1.  It misses, and the first is     *)
(* then refused for want of a readable page.                                 *)
MissPerm(n) == IF n = 2 THEN {"U", "R"} ELSE IF n = 3 THEN {"U", "W"} ELSE {"U"}
MissCause(n) == IF n = 4 THEN "TLBMISSX_NORMAL" ELSE "TLBMISSRW_READ"
CacheEntry(n, perm) == GlobalPage(DATA_PAGE + n * ONE_MB, perm, DATA_PAGE)
CacheDone(n) ==
    /\ tlb[n] = CacheEntry(n, IF n = 1 THEN {"U", "R"} ELSE MissPerm(n))
CacheInv(at) ==
    /\ at \in 1 .. 15
    /\ \A n \in 1 .. 4 : at > 3 * n + 1 => CacheDone(n)
    /\ \A n \in 1 .. 4 : at < 3 * n + 1 => ~ tlb[n].V
    /\ \A n \in 1 .. 4 : at = 3 * n + 1 =>
         \/ ~ tlb[n].V /\ my_exceptions = {}
         \/ tlb[n] = CacheEntry(n, MissPerm(n)) /\ my_exceptions = {MissCause(n)}
         \/ n = 1 /\ CacheDone(n) /\ my_exceptions = {"TLBMISSRW_READ", "PRIV_NO_READ"}
    /\ \A n \in 1 .. 4 : at = 3 * n + 2 =>
         my_exceptions = {MissCause(n)} \cup IF n = 1 THEN {"PRIV_NO_READ"} ELSE {}
    /\ NoneFrom(5) /\ mmAsid = 0
    /\ (at > 1 => evbMine = TRUE) /\ (at > 2 => userMode = TRUE)

(* hsv39_tlb.c: the extended entries, and in the last two tests one of the   *)
(* core's.                                                                   *)
HighEntry(page, n) ==
    LET size == ONE_MB * Hsv39Sizes[n]
    IN hsv39_entry(page_start(page, size) + FOUR_GB, page_start(page, size), size)
ProbedEntry == create_mmu_entry(TRUE, 1, DATA_PAGE + ONE_MB, XWRU, DATA_PAGE, ONE_MB)
ReadExt == hsv39_entry(FOUR_GB, 0, 1024 * ONE_MB)
ReadLegacy == create_mmu_entry(TRUE, 1, DATA_PAGE + ONE_MB, XWRU \ {"U"}, DATA_PAGE, 1)
Hsv39Inv(n, at) ==
    /\ n \in 1 .. 11
    /\ n <= 8 => /\ at \in 1 .. 13 /\ ~ tlb[1].V
                 /\ HoldsAt(512, HighEntry(DATA_PAGE, n), at \in 2 .. 7)
                 /\ HoldsAt(513, HighEntry(FUNC_PAGE, n), at \in 10 .. 12)
                 /\ (at \in 4 .. 5 => mmData = "deadbeef") /\ (at = 6 => mmData = "cafebabe")
    /\ n = 9 => at \in 1 .. 4 /\ NoExtended /\ HoldsAt(1, ProbedEntry, at > 1)
    /\ n = 10 => /\ at \in 1 .. 6 /\ ~ tlb[513].V
                 /\ HoldsAt(512, ReadExt, at \in 2 .. 5) /\ HoldsAt(1, ReadLegacy, at > 2)
    /\ n = 11 => at = 1 /\ NoExtended /\ ~ tlb[1].V
    /\ NoneFrom(2) /\ mmAsid = 0 /\ userMode = FALSE

(* The call a program of one test has reached; the one behind the last when  *)
(* the test has ended.                                                       *)
AtCall(at, len) ==
    \/ at <= len /\ mmStep = [test |-> 1, at |-> at]
    \/ at = len + 1 /\ mmStep = [test |-> 2, at |-> 1]
MmAtTest(n, at) == mmStep = [test |-> n, at |-> at]

MmPlace ==
    /\ mmProg = "permissions" => \E at \in 1 .. 23 : AtCall(at, 22) /\ PermissionsInv(at)
    /\ mmProg = "page_size" => \E n \in 1 .. 11, at \in 1 .. 13 : MmAtTest(n, at) /\ PageSizeInv(n, at)
    /\ mmProg = "asids" => \E at \in 1 .. 18 : AtCall(at, 17) /\ AsidsInv(at)
    /\ mmProg = "multi_tlb" => \E at \in 1 .. 14 : AtCall(at, 13) /\ MultiInv(at)
    /\ mmProg = "overlap" => \E at \in 1 .. 12 : AtCall(at, 11) /\ OverlapInv(at)
    /\ mmProg = "cacheops" => \E at \in 1 .. 15 : AtCall(at, 14) /\ CacheInv(at)
    /\ mmProg = "hsv39" => \E n \in 1 .. 11, at \in 1 .. 13 : MmAtTest(n, at) /\ Hsv39Inv(n, at)

Sees(asid, e) == e.V /\ (e.G \/ e.asid = asid)
MmApart ==
    mmProg # "multi_tlb" =>
         \A i, j \in Legacy :
             i # j /\ Overlaps(tlb[i], tlb[j]) => ~ (Sees(mmAsid, tlb[i]) /\ Sees(mmAsid, tlb[j]))

MmInv == MmTypeOK /\ ~ mmFail /\ ~ mmDead /\ MmPlace

-----------------------------------------------------------------------------
(* The search of the TLB.                                                    *)

(* A step that writes one entry.                                             *)
Wrote(i, e) == tlb' = [tlb EXCEPT ![i] = e]
Invalid(i) == [tlb[i] EXCEPT !.V = FALSE]

LEMMA Singles == (\A i \in Nat : Lowest({i}) = i /\ Cardinality({i}) = 1) /\ Cardinality({}) = 0
<1>1. ASSUME NEW i \in Nat PROVE Lowest({i}) = i
  BY DEF Lowest
<1> QED
  BY <1>1, FS_Singleton, FS_EmptySet

LEMMA HitOne ==
  ASSUME NEW asid, NEW va, NEW i \in Legacy, i \in Nat, Covers(tlb[i], asid, va),
         \A j \in Legacy : j # i => ~ Covers(tlb[j], asid, va)
  PROVE  /\ Hits(Legacy, asid, va) = {i} /\ tlbp(asid, va) = i
         /\ Lowest(Hits(Legacy, asid, va)) = i /\ Cardinality(Hits(Legacy, asid, va)) = 1
<1>1. Hits(Legacy, asid, va) = {i}
  BY DEF Hits
<1> QED
  BY <1>1, Singles DEF tlbp

LEMMA HitNone ==
  ASSUME NEW asid, NEW va, \A j \in Legacy : ~ Covers(tlb[j], asid, va)
  PROVE  /\ Hits(Legacy, asid, va) = {} /\ tlbp(asid, va) = TLB_NOT_FOUND
         /\ Cardinality(Hits(Legacy, asid, va)) = 0
<1>1. Hits(Legacy, asid, va) = {}
  BY DEF Hits
<1> QED
  BY <1>1, Singles DEF tlbp

LEMMA OverlapNone ==
  ASSUME NEW e, \A j \in Legacy : ~ Overlaps(tlb[j], e)
  PROVE  tlboc(e) = TLB_NOT_FOUND
BY DEF tlboc

LEMMA OverlapOne ==
  ASSUME NEW e, NEW i \in Legacy, Overlaps(tlb[i], e), \A j \in Legacy : j # i => ~ Overlaps(tlb[j], e)
  PROVE  tlboc(e) = i
<1>1. {j \in Legacy : Overlaps(tlb[j], e)} = {i}
  OBVIOUS
<1>2. Lowest({i}) = i /\ Cardinality({i}) = 1
  BY Singles DEF Legacy
<1> QED
  BY <1>1, <1>2 DEF tlboc

LEMMA PairIs ==
  Cardinality({1, 2}) = 2 /\ Lowest({1, 2}) = 1
<1>a. IsFiniteSet({1}) /\ Cardinality({1}) = 1
  BY FS_Singleton, Zenon
<1>1. IsFiniteSet({1}) /\ Cardinality({1}) = 1 /\ 2 \notin {1} /\ {1} \cup {2} = {1, 2}
  BY <1>a
<1>2. Cardinality({1} \cup {2}) = Cardinality({1}) + 1
  BY <1>1, FS_AddElement
<1> QED
  BY <1>1, <1>2 DEF Lowest

LEMMA OverlapSeveral ==
  ASSUME NEW e, 1 \in Legacy, 2 \in Legacy, Overlaps(tlb[1], e), Overlaps(tlb[2], e),
         \A j \in Legacy : j \notin {1, 2} => ~ Overlaps(tlb[j], e)
  PROVE  tlboc(e) = SEVERAL
<1>1. {j \in Legacy : Overlaps(tlb[j], e)} = {1, 2}
  OBVIOUS
<1> QED
  BY <1>1, PairIs DEF tlboc

(* Nothing but the first megabyte is covered by the entry the tests run in.  *)
LEMMA FixedCovers ==
  ASSUME NEW asid, NEW va \in Nat
  PROVE  Covers(Fixed, asid, va) <=> va < ONE_MB
BY DEF Covers, Fixed, create_mmu_entry, page_start, ONE_MB

(* A page of 4K covers itself.                                               *)
LEMMA PageCovers ==
  ASSUME NEW e, e.V, e.G, e.size = 1, e.vpn \in Nat, NEW asid, NEW va \in Nat
  PROVE  Covers(e, asid, va) <=> e.vpn = va
BY DEF Covers, page_start

-----------------------------------------------------------------------------
(* The calls.  Each names one action.                                        *)

LEMMA Dispatch ==
  ASSUME MmNext
  PROVE  /\ MmRunning
         /\ MmArg.op = "add_trans" => add_trans
         /\ MmArg.op = "extended" => add_translation
         /\ MmArg.op = "add_hsv39" => add_hsv39_tlb_entry
         /\ MmArg.op = "tlbw" => tlbw
         /\ MmArg.op = "remove" => remove_trans
         /\ MmArg.op = "invasid" => invalidate_asid
         /\ MmArg.op = "set_asid" => set_asid
         /\ MmArg.op = "install" => install_my_event_vectors
         /\ MmArg.op = "user_mode" => enter_user_mode
         /\ MmArg.op = "clear" => clear_exception_vector
         /\ MmArg.op = "data" => write_data
         /\ MmArg.op = "check" => MmCheck
         /\ MmArg.op = "ctlbw" => ctlbw
         /\ MmArg.op = "access" => AccessFaults \/ AccessCompletes
<1>1. add_trans => MmRunning /\ MmArg.op = "add_trans"
  BY DEF add_trans, MmCall
<1>2. add_translation => MmRunning /\ MmArg.op = "extended"
  BY DEF add_translation, MmCall
<1>3. add_hsv39_tlb_entry => MmRunning /\ MmArg.op = "add_hsv39"
  BY DEF add_hsv39_tlb_entry, MmCall
<1>4. tlbw => MmRunning /\ MmArg.op = "tlbw"
  BY DEF tlbw, MmCall
<1>5. remove_trans => MmRunning /\ MmArg.op = "remove"
  BY DEF remove_trans, MmCall
<1>6. invalidate_asid => MmRunning /\ MmArg.op = "invasid"
  BY DEF invalidate_asid, MmCall
<1>7. set_asid => MmRunning /\ MmArg.op = "set_asid"
  BY DEF set_asid, MmCall
<1>8. install_my_event_vectors => MmRunning /\ MmArg.op = "install"
  BY DEF install_my_event_vectors, MmCall
<1>9. enter_user_mode => MmRunning /\ MmArg.op = "user_mode"
  BY DEF enter_user_mode, MmCall
<1>10. clear_exception_vector => MmRunning /\ MmArg.op = "clear"
  BY DEF clear_exception_vector, MmCall
<1>11. write_data => MmRunning /\ MmArg.op = "data"
  BY DEF write_data, MmCall
<1>12. MmCheck => MmRunning /\ MmArg.op = "check"
  BY Zenon DEF MmCheck, MmCall
<1>13. ctlbw => MmRunning /\ MmArg.op = "ctlbw"
  BY Zenon DEF ctlbw, MmCall
<1>14. AccessFaults \/ AccessCompletes => MmRunning /\ MmArg.op = "access"
  BY Zenon DEF AccessFaults, AccessCompletes, MmCall
<1> QED
  BY <1>1, <1>2, <1>3, <1>4, <1>5, <1>6, <1>7, <1>8, <1>9, <1>10, <1>11, <1>12, <1>13, <1>14 DEF MmNext

(* Where a call leaves the program.                                          *)
After == IF mmStep.at < Len(MmTest) THEN [mmStep EXCEPT !.at = @ + 1] ELSE [test |-> mmStep.test + 1, at |-> 1]

(* What a call leaves alone besides the TLB.                                 *)
SameRest == mmProg' = mmProg /\ evbMine' = evbMine /\ mmAsid' = mmAsid /\ userMode' = userMode
Sound == (mmFail' <=> mmFail) /\ (mmDead' <=> mmDead)

LEMMA DoAdd ==
  ASSUME MmNext, ~ mmDead, NEW i \in 1 .. 5, NEW e,
         MmArg.op = "add_trans", MmArg.i = i, MmArg.e = e,
         \A j \in Legacy : ~ Covers(tlb[j], e.asid, e.vpn) /\ ~ Covers(tlb[j], mmAsid, e.vpn)
  PROVE  /\ Wrote(i, e) /\ mmStep' = After
         /\ SameRest /\ Sound /\ my_exceptions' = my_exceptions /\ mmData' = mmData
<1>1. add_trans
  BY Dispatch
<1>2. IndexAllowed(MmArg.i)
  BY DEF IndexAllowed, TLB_FIXED_ENTRIES
<1>3. clear_overlapping_entry(tlb, e) = tlb
  BY HitNone DEF clear_overlapping_entry, Clear
<1>4. add_translation_extended(tlb, i, e) = [tlb EXCEPT ![i] = e]
  <2>1. {j \in Legacy : Covers(tlb[j], mmAsid, e.vpn)} = {}
    OBVIOUS
  <2> QED
    BY <2>1 DEF add_translation_extended, Clear
<1> QED
  BY <1>1, <1>2, <1>3, <1>4 DEF Wrote, add_trans, MmCall, After, SameRest, Sound, mmEnv

LEMMA DoExtend ==
  ASSUME MmNext, NEW i \in 1 .. 5, NEW e,
         MmArg.op = "extended", MmArg.i = i, MmArg.e = e,
         \A j \in Legacy : ~ Covers(tlb[j], mmAsid, e.vpn)
  PROVE  /\ Wrote(i, e) /\ mmStep' = After
         /\ SameRest /\ Sound /\ my_exceptions' = my_exceptions /\ mmData' = mmData
<1>1. add_translation
  BY Dispatch
<1>2. IndexAllowed(MmArg.i)
  BY DEF IndexAllowed, TLB_FIXED_ENTRIES
<1>3. add_translation_extended(tlb, i, e) = [tlb EXCEPT ![i] = e]
  <2>1. {j \in Legacy : Covers(tlb[j], mmAsid, e.vpn)} = {}
    OBVIOUS
  <2> QED
    BY <2>1 DEF add_translation_extended, Clear
<1> QED
  BY <1>1, <1>2, <1>3 DEF Wrote, add_translation, MmCall, After, SameRest, Sound, mmEnv

LEMMA DoAddHsv39 ==
  ASSUME MmNext, NEW i, NEW e,
         MmArg.op = "add_hsv39", MmArg.i = i, MmArg.e = e, NoExtended
  PROVE  /\ Wrote(i, e) /\ mmStep' = After
         /\ SameRest /\ Sound /\ my_exceptions' = my_exceptions /\ mmData' = mmData
<1>1. add_hsv39_tlb_entry
  BY Dispatch
<1>2. tlbp64(e.asid, e.vpn) = TLB_NOT_FOUND
  BY DEF tlbp64, Hits, Covers, NoExtended, Extended
<1> QED
  BY <1>1, <1>2 DEF Wrote, add_hsv39_tlb_entry, MmCall, After, SameRest, Sound, mmEnv, Clear

LEMMA DoTlbw ==
  ASSUME MmNext, NEW i, NEW e, MmArg.op = "tlbw", MmArg.i = i, MmArg.e = e
  PROVE  /\ Wrote(i, e) /\ mmStep' = After
         /\ SameRest /\ Sound /\ my_exceptions' = my_exceptions /\ mmData' = mmData
<1>1. tlbw
  BY Dispatch
<1> QED
  BY <1>1 DEF Wrote, tlbw, MmCall, After, SameRest, Sound, mmEnv

LEMMA DoRemove ==
  ASSUME MmNext, NEW i \in Legacy \cup Extended, MmArg.op = "remove", MmArg.i = i,
         tlb \in [Legacy \cup Extended -> Entries]
  PROVE  /\ Wrote(i, Invalid(i)) /\ mmStep' = After
         /\ SameRest /\ Sound /\ my_exceptions' = my_exceptions /\ mmData' = mmData
<1>1. remove_trans
  BY Dispatch
<1>2. i # TLB_NOT_FOUND
  BY MmuAssumption DEF TLB_NOT_FOUND, Legacy, Extended
<1>3. Clear(tlb, i) = [tlb EXCEPT ![i] = Invalid(i)]
  BY <1>2 DEF Clear, Invalid
<1> QED
  BY <1>1, <1>3 DEF Wrote, remove_trans, MmCall, After, SameRest, Sound, mmEnv

LEMMA DoInvAsid ==
  ASSUME MmNext, NEW asid, MmArg.op = "invasid", MmArg.asid = asid
  PROVE  /\ tlb' = tlbinvasid(tlb, asid) /\ mmStep' = After
         /\ SameRest /\ Sound /\ my_exceptions' = my_exceptions /\ mmData' = mmData
<1>1. invalidate_asid
  BY Dispatch
<1> QED
  BY <1>1 DEF invalidate_asid, MmCall, After, SameRest, Sound, mmEnv

LEMMA DoSetAsid ==
  ASSUME MmNext, NEW asid, MmArg.op = "set_asid", MmArg.asid = asid
  PROVE  /\ tlb' = tlb /\ mmStep' = After /\ mmAsid' = asid
         /\ mmProg' = mmProg /\ evbMine' = evbMine /\ userMode' = userMode
         /\ Sound /\ my_exceptions' = my_exceptions /\ mmData' = mmData
<1>1. set_asid
  BY Dispatch
<1> QED
  BY <1>1 DEF set_asid, MmCall, After, SameRest, Sound, mmEnv

LEMMA DoInstall ==
  ASSUME MmNext, MmArg.op = "install"
  PROVE  /\ tlb' = tlb /\ mmStep' = After /\ evbMine' = TRUE
         /\ mmProg' = mmProg /\ mmAsid' = mmAsid /\ userMode' = userMode
         /\ Sound /\ my_exceptions' = my_exceptions /\ mmData' = mmData
<1>1. install_my_event_vectors
  BY Dispatch
<1> QED
  BY <1>1 DEF install_my_event_vectors, MmCall, After, Sound

LEMMA DoUserMode ==
  ASSUME MmNext, MmArg.op = "user_mode"
  PROVE  /\ tlb' = tlb /\ mmStep' = After /\ userMode' = TRUE
         /\ mmProg' = mmProg /\ mmAsid' = mmAsid /\ evbMine' = evbMine
         /\ Sound /\ my_exceptions' = my_exceptions /\ mmData' = mmData
<1>1. enter_user_mode
  BY Dispatch
<1> QED
  BY <1>1 DEF enter_user_mode, MmCall, After, Sound

LEMMA DoClear ==
  ASSUME MmNext, MmArg.op = "clear"
  PROVE  /\ tlb' = tlb /\ mmStep' = After /\ SameRest /\ Sound
         /\ my_exceptions' = {} /\ mmData' = mmData
<1>1. clear_exception_vector
  BY Dispatch
<1> QED
  BY <1>1 DEF clear_exception_vector, MmCall, After, SameRest, Sound, mmEnv

LEMMA DoData ==
  ASSUME MmNext, NEW v, MmArg.op = "data", MmArg.v = v
  PROVE  /\ tlb' = tlb /\ mmStep' = After /\ SameRest /\ Sound
         /\ my_exceptions' = my_exceptions /\ mmData' = v
<1>1. write_data
  BY Dispatch
<1> QED
  BY <1>1 DEF write_data, MmCall, After, SameRest, Sound, mmEnv

(* A check that finds what it expects, and no second match, changes nothing. *)
MmQuiet == /\ tlb' = tlb /\ mmStep' = After /\ SameRest /\ Sound
         /\ my_exceptions' = my_exceptions /\ mmData' = mmData

LEMMA DoProbe ==
  ASSUME MmNext, ~ mmDead, ~ mmFail, NEW asid, NEW va, NEW r,
         MmArg = Probe(asid, va, r), tlbp(asid, va) = r,
         Cardinality(Hits(Legacy, asid, va)) \in {0, 1}
  PROVE  MmQuiet
<1>1. MmCheck
  BY Dispatch DEF Probe, Expect
<1>2. /\ MmArg.kind = "tlbp" /\ MmArg.arg.asid = asid /\ MmArg.arg.va = va /\ MmArg.r = r
  BY DEF Probe, Expect
<1>3. ~ (Cardinality(Hits(Legacy, asid, va)) > 1)
  OBVIOUS
<1> QED
  BY <1>1, <1>2, <1>3 DEF MmCheck, MmCall, After, SameRest, Sound, mmEnv, MmQuiet

LEMMA DoExpect ==
  ASSUME MmNext, ~ mmDead, ~ mmFail, NEW kind \in {"tlbp64", "tlboc", "tlbr", "exceptions", "data"}, NEW arg, NEW r,
         MmArg = Expect(kind, arg, r),
         kind = "tlbp64" => tlbp64(arg.asid, arg.va) = r,
         kind = "tlboc" => tlboc(arg) = r,
         kind = "tlbr" => tlb[arg] = r,
         kind = "exceptions" => my_exceptions = r,
         kind = "data" => mmData = r
  PROVE  MmQuiet
<1>1. MmCheck
  BY Dispatch DEF Expect
<1>2. MmArg.kind = kind /\ MmArg.arg = arg /\ MmArg.r = r
  BY DEF Expect
<1> QED
  BY <1>1, <1>2 DEF MmCheck, MmCall, After, SameRest, Sound, mmEnv, MmQuiet

LEMMA DoWriteIfClear ==
  ASSUME MmNext, ~ mmFail, NEW e, NEW i, NEW r, MmArg = WriteIfClear(e, i, r), tlboc(e) = r
  PROVE  /\ IF r = TLB_NOT_FOUND THEN Wrote(i, e) ELSE tlb' = tlb
         /\ mmStep' = After
         /\ SameRest /\ Sound /\ my_exceptions' = my_exceptions /\ mmData' = mmData
<1>1. ctlbw
  BY Dispatch DEF WriteIfClear
<1>2. MmArg.e = e /\ MmArg.i = i /\ MmArg.r = r
  BY DEF WriteIfClear
<1> QED
  BY <1>1, <1>2 DEF Wrote, ctlbw, MmCall, After, SameRest, Sound, mmEnv

LEMMA DoFetch ==
  ASSUME MmNext, ~ mmFail, NEW va, NEW v, NEW i, MmArg = Access("fetch", va, v, TRUE), tlbp(mmAsid, va) = i,
         hex_tlb_phys_addr(tlb[i], va) = FUNC_PAGE, Causes("fetch", va) = {}
  PROVE  MmQuiet
<1>1. MmArg.op = "access" /\ MmArg.kind = "fetch" /\ MmArg.va = va
  BY DEF Access
<1>2. AccessCompletes
  BY <1>1, Dispatch DEF AccessFaults
<1> QED
  BY <1>1, <1>2 DEF AccessCompletes, MmCall, After, SameRest, Sound, mmEnv, MmQuiet

LEMMA FetchIs == \A va : \E v : CallFunc(va) = Access("fetch", va, v, TRUE)
BY Zenon DEF CallFunc

LEMMA CacheOpIs == \A kind, va : \E v : CacheOp(kind, va) = Access(kind, va, v, TRUE)
BY Zenon DEF CacheOp

(* An access no event holds up: it reads, writes or runs what its entry      *)
(* translates to.                                                            *)
LEMMA DoAccess ==
  ASSUME MmNext, ~ mmFail, NEW kind, NEW va, NEW v, NEW same, NEW i, NEW pa,
         MmArg = Access(kind, va, v, same), tlbp(mmAsid, va) = i,
         pa = hex_tlb_phys_addr(tlb[i], va), Causes(kind, va) = {},
         kind = "load" => ((IF pa = DATA_PAGE THEN mmData ELSE "elsewhere") = v) = same,
         kind = "fetch" => pa = FUNC_PAGE
  PROVE  /\ tlb' = tlb /\ mmStep' = After /\ SameRest /\ Sound /\ my_exceptions' = my_exceptions
         /\ mmData' = IF kind = "store" /\ pa = DATA_PAGE THEN v ELSE mmData
<1>1. MmArg.op = "access" /\ MmArg.kind = kind /\ MmArg.va = va /\ MmArg.v = v /\ MmArg.same = same
  BY DEF Access
<1>2. AccessCompletes
  BY <1>1, Dispatch DEF AccessFaults
<1>3. mmFail' = (mmFail \/ CASE kind = "load" -> ((IF pa = DATA_PAGE THEN mmData ELSE "elsewhere") = v) # same
                             [] kind = "fetch" -> pa # FUNC_PAGE
                             [] OTHER -> FALSE)
  BY <1>1, <1>2 DEF AccessCompletes
<1>4. ~ mmFail'
  BY <1>3
<1> QED
  BY <1>1, <1>2, <1>4 DEF AccessCompletes, MmCall, After, SameRest, Sound, mmEnv

LEMMA AfterIs ==
  ASSUME NEW n \in Nat, NEW at \in Nat, mmStep = [test |-> n, at |-> at], NEW len, Len(MmTest) = len, mmStep' = After
  PROVE  mmStep' = IF at < len THEN [test |-> n, at |-> at + 1] ELSE [test |-> n + 1, at |-> 1]
BY DEF After

(* Writing an entry.                                                         *)
LEMMA WriteIs ==
  ASSUME TlbTypeOK, NEW i \in Legacy \cup Extended, i # 0, NEW e \in Entries, Wrote(i, e)
  PROVE  /\ TlbTypeOK' /\ tlb'[i] = e
         /\ \A j \in Legacy \cup Extended : j # i => tlb'[j] = tlb[j]
BY MmuAssumption DEF TlbTypeOK, Legacy, Wrote

LEMMA IsEntry ==
  ASSUME NEW G \in BOOLEAN, NEW asid \in Nat, NEW va \in Nat, NEW perm \in SUBSET XWRU, NEW pa \in Nat, NEW size \in Nat \ {0}
  PROVE  create_mmu_entry(G, asid, va, perm, pa, size) \in Entries
BY DEF create_mmu_entry, Entries

LEMMA InvalidIs ==
  ASSUME TlbTypeOK, NEW i \in Legacy \cup Extended
  PROVE  Invalid(i) \in Entries /\ ~ Invalid(i).V
<1>1. tlb[i] \in Entries
  BY DEF TlbTypeOK
<1> QED
  BY <1>1 DEF Invalid, Entries

LEMMA InvAsidIs ==
  ASSUME TlbTypeOK, NEW asid, tlb' = tlbinvasid(tlb, asid)
  PROVE  /\ TlbTypeOK'
         /\ \A i \in Legacy \cup Extended :
              IF ~ tlb[i].G /\ tlb[i].asid = asid THEN ~ tlb'[i].V ELSE tlb'[i] = tlb[i]
<1>1. DOMAIN tlb = Legacy \cup Extended /\ tlb[0] = Fixed /\ 0 \in Legacy
  BY MmuAssumption DEF TlbTypeOK, Legacy
<1>2. ASSUME NEW i \in Legacy \cup Extended
      PROVE  tlb'[i] = IF ~ tlb[i].G /\ tlb[i].asid = asid THEN Invalid(i) ELSE tlb[i]
  BY <1>1 DEF tlbinvasid, Invalid
<1>3. ASSUME NEW i \in Legacy \cup Extended
      PROVE  /\ tlb'[i] \in Entries
             /\ IF ~ tlb[i].G /\ tlb[i].asid = asid THEN ~ tlb'[i].V ELSE tlb'[i] = tlb[i]
  BY <1>2, InvalidIs DEF TlbTypeOK
<1>4. tlb'[0] = Fixed
  <2>1. tlb[0].G
    BY <1>1 DEF Fixed, create_mmu_entry
  <2> QED
    BY <1>1, <1>2, <2>1
<1>5. tlb' \in [Legacy \cup Extended -> Entries]
  BY <1>1, <1>3 DEF tlbinvasid
<1> QED
  BY <1>3, <1>4, <1>5 DEF TlbTypeOK

(* Entries of one page each, every one in the megabyte of its index.         *)
Slotted ==
    \A k \in Legacy : k # 0 /\ tlb[k].V =>
        tlb[k].G /\ tlb[k].size = 1 /\ tlb[k].vpn \in k * ONE_MB .. k * ONE_MB + 255

LEMMA SlotLookup ==
  ASSUME TlbTypeOK, Slotted, NEW asid, NEW k \in Legacy, k # 0, NEW va \in k * ONE_MB .. k * ONE_MB + 255
  PROVE  /\ \A j \in Legacy : j # k => ~ Covers(tlb[j], asid, va)
         /\ Covers(tlb[k], asid, va) <=> tlb[k].V /\ tlb[k].vpn = va
<1>0. k \in Nat /\ va \in Nat /\ va >= ONE_MB
  BY DEF Legacy, ONE_MB
<1>1. ASSUME NEW j \in Legacy, j # k PROVE ~ Covers(tlb[j], asid, va)
  <2>1. CASE j = 0
    BY <2>1, <1>0, FixedCovers DEF TlbTypeOK, ONE_MB
  <2>2. CASE j # 0 /\ tlb[j].V
    <3>1. j \in Nat /\ tlb[j].vpn \in j * ONE_MB .. j * ONE_MB + 255 /\ tlb[j].G /\ tlb[j].size = 1
      BY <2>2 DEF Slotted, Legacy
    <3>2. tlb[j].vpn # va /\ tlb[j].vpn \in Nat
      BY <3>1, <1>1, <1>0 DEF ONE_MB
    <3> QED
      BY <2>2, <3>1, <3>2, <1>0, PageCovers
  <2> QED
    BY <2>1, <2>2 DEF Covers
<1>2. CASE tlb[k].V
  <2>1. tlb[k].vpn \in k * ONE_MB .. k * ONE_MB + 255 /\ tlb[k].G /\ tlb[k].size = 1
    BY <1>2 DEF Slotted
  <2> QED
    BY <1>1, <2>1, <1>0, <1>2, PageCovers DEF ONE_MB
<1> QED
  BY <1>1, <1>2 DEF Covers
-----------------------------------------------------------------------------
(* mmu_permissions.c.                                                        *)

LEMMA PermissionsCalls ==
  ASSUME mmProg = "permissions", mmStep.test = 1
  PROVE  /\ MmTest = test_permissions /\ Len(MmTest) = 22 /\ MmArg = test_permissions[mmStep.at]
BY DEF MmTest, MmArg, Program, test_permissions

LEMMA PermissionsSlots ==
  ASSUME TlbTypeOK, NEW at, PermissionsInv(at)
  PROVE  Slotted
<1> SUFFICES ASSUME NEW k \in Legacy, k # 0, tlb[k].V
             PROVE  tlb[k].G /\ tlb[k].size = 1 /\ tlb[k].vpn \in k * ONE_MB .. k * ONE_MB + 255
  BY DEF Slotted
<1>1. k \in 1 .. 5
  BY DEF PermissionsInv, NoneFrom, Legacy
<1>2. CASE k = 5
  BY <1>2, MmuAssumption DEF PermissionsInv, HoldsAt, FuncEntry, GlobalPage, create_mmu_entry, ONE_MB
<1>3. CASE k \in 1 .. 4
  BY <1>3, MmuAssumption DEF PermissionsInv, HoldsAt, PermEntry, GlobalPage, create_mmu_entry, ONE_MB
<1> QED
  BY <1>1, <1>2, <1>3

(* A write to a free slot.                                                   *)
LEMMA SlotFree ==
  ASSUME TlbTypeOK, Slotted, NEW k \in 1 .. 5, NEW va \in k * ONE_MB .. k * ONE_MB + 255, ~ tlb[k].V
  PROVE  \A asid : \A j \in Legacy : ~ Covers(tlb[j], asid, va)
<1> TAKE asid
<1>1. k \in Legacy /\ k # 0
  BY MmuAssumption DEF Legacy, TLB_FIXED_ENTRIES
<1> QED
  BY <1>1, SlotLookup, ZenonT(40)

LEMMA SlotOthers ==
  ASSUME TlbTypeOK, Slotted, NEW k \in 1 .. 5, NEW va \in k * ONE_MB .. k * ONE_MB + 255
  PROVE  \A asid : /\ \A j \in Legacy : j # k => ~ Covers(tlb[j], asid, va)
                   /\ tlb[k].V /\ tlb[k].vpn = va => Covers(tlb[k], asid, va)
<1> TAKE asid
<1>1. k \in Legacy /\ k # 0
  BY MmuAssumption DEF Legacy, TLB_FIXED_ENTRIES
<1> QED
  BY <1>1, SlotLookup, ZenonT(40)

LEMMA SlotProbe ==
  ASSUME TlbTypeOK, Slotted, NEW k \in 1 .. 5, NEW va \in k * ONE_MB .. k * ONE_MB + 255,
         tlb[k].V, tlb[k].vpn = va, NEW asid
  PROVE  /\ Hits(Legacy, asid, va) = {k} /\ tlbp(asid, va) = k
         /\ Lowest(Hits(Legacy, asid, va)) = k /\ Cardinality(Hits(Legacy, asid, va)) = 1
<1>1. k \in Legacy /\ k \in Nat
  BY MmuAssumption DEF Legacy, TLB_FIXED_ENTRIES
<1>2. /\ \A j \in Legacy : j # k => ~ Covers(tlb[j], asid, va)
      /\ Covers(tlb[k], asid, va)
  BY SlotOthers, Zenon
<1> QED
  BY <1>1, <1>2, HitOne

LEMMA SlotWrite ==
  ASSUME TlbTypeOK, NEW k \in 1 .. 5, NEW e \in Entries, Wrote(k, e)
  PROVE  /\ TlbTypeOK' /\ tlb'[k] = e
         /\ \A j \in 1 .. 5 : j # k => tlb'[j] = tlb[j]
         /\ \A n \in Nat : n > k => (NoneFrom(n)' <=> NoneFrom(n))
<1>1. k \in Legacy \cup Extended /\ k # 0 /\ 1 .. 5 \subseteq Legacy
  BY MmuAssumption DEF Legacy, TLB_FIXED_ENTRIES
<1>2. TlbTypeOK' /\ tlb'[k] = e /\ \A j \in Legacy \cup Extended : j # k => tlb'[j] = tlb[j]
  BY <1>1, WriteIs
<1> QED
  BY <1>1, <1>2 DEF NoneFrom, Legacy

(* What an access with one match needs of its entry.                         *)
Needs(i, p, cause) == IF p \in tlb[i].perm THEN {} ELSE {cause}
User(i, cause) == IF userMode /\ "U" \notin tlb[i].perm THEN {cause} ELSE {}

LEMMA HitCauses ==
  ASSUME NEW va, NEW i, Hits(Legacy, mmAsid, va) = {i}, Lowest(Hits(Legacy, mmAsid, va)) = i,
         Cardinality(Hits(Legacy, mmAsid, va)) = 1
  PROVE  /\ Causes("load", va) = Needs(i, "R", "PRIV_NO_READ") \cup User(i, "PRIV_NO_UREAD")
         /\ Causes("store", va) = Needs(i, "W", "PRIV_NO_WRITE") \cup User(i, "PRIV_NO_UWRITE")
         /\ Causes("fetch", va) = Needs(i, "X", "FETCH_NO_XPAGE") \cup User(i, "FETCH_NO_UPAGE")
         /\ Causes("dcop", va) = IF "W" \in tlb[i].perm THEN {} ELSE Needs(i, "R", "PRIV_NO_READ")
         /\ Causes("icop", va) = {}
BY DEF Causes, Needs, User

LEMMA MissCauses ==
  ASSUME NEW va, Hits(Legacy, mmAsid, va) = {}
  PROVE  /\ Causes("load", va) = {"TLBMISSRW_READ"} /\ Causes("dcop", va) = {"TLBMISSRW_READ"}
         /\ Causes("store", va) = {"TLBMISSRW_WRITE"}
         /\ Causes("fetch", va) = {"TLBMISSX_NORMAL"} /\ Causes("icop", va) = {"TLBMISSX_NORMAL"}
BY DEF Causes

(* What a fault leaves alone.                                                *)
Replay == mmStep' = mmStep /\ SameRest /\ (mmFail' <=> mmFail) /\ mmData' = mmData

(* An access the handler of the error event repairs.                         *)
LEMMA DoError ==
  ASSUME MmNext, NEW kind, NEW va, NEW v, NEW same, MmArg = Access(kind, va, v, same),
         Causes(kind, va) # {}, \A c \in Causes(kind, va) : EventOf(c) = "error", Mine("error")
  PROVE  \E cause \in Causes(kind, va) :
            /\ my_exceptions' = my_exceptions \cup {cause} /\ my_event_handle_error_helper(cause, va)
            /\ Replay /\ (mmDead' <=> mmDead)
<1>1. MmArg.op = "access" /\ MmArg.kind = kind /\ MmArg.va = va
  BY DEF Access
<1>2. AccessFaults
  BY <1>1, Dispatch DEF AccessCompletes
<1>3. PICK cause \in Causes(kind, va) :
         LET event == EventOf(cause) IN
         \/ /\ Mine(event)
            /\ my_exceptions' = my_exceptions \cup {cause}
            /\ CASE event = "error" -> my_event_handle_error_helper(cause, va)
                 [] event = "nmi" -> my_event_handle_nmi_helper
                 [] event = "tlbmissrw" -> my_event_handle_tlbmissrw_helper(va)
                 [] event = "tlbmissx" -> my_event_handle_tlbmissx_helper(va)
            /\ UNCHANGED mmDead
         \/ /\ ~ Mine(event)
            /\ UNCHANGED my_exceptions
            /\ IF event \in {"tlbmissrw", "tlbmissx"} THEN DefaultRefill(va)
               ELSE mmDead' = TRUE /\ UNCHANGED tlb
  BY <1>1, <1>2, Zenon DEF AccessFaults
<1>4. EventOf(cause) = "error"
  OBVIOUS
<1>5. my_exceptions' = my_exceptions \cup {cause} /\ my_event_handle_error_helper(cause, va) /\ (mmDead' <=> mmDead)
  BY <1>3, <1>4
<1>6. Replay
  BY <1>2 DEF AccessFaults, Replay, SameRest, mmEnv
<1> QED
  BY <1>5, <1>6

(* A miss the program's own handler repairs.                                 *)
LEMMA DoMiss ==
  ASSUME MmNext, NEW kind, NEW va, NEW v, NEW same, MmArg = Access(kind, va, v, same), NEW cause,
         Causes(kind, va) = {cause}, EventOf(cause) \in {"tlbmissrw", "tlbmissx"}, Mine(EventOf(cause))
  PROVE  /\ my_exceptions' = my_exceptions \cup {cause} /\ Replay /\ (mmDead' <=> mmDead)
         /\ EventOf(cause) = "tlbmissrw" => my_event_handle_tlbmissrw_helper(va)
         /\ EventOf(cause) = "tlbmissx" => my_event_handle_tlbmissx_helper(va)
<1>1. MmArg.op = "access" /\ MmArg.kind = kind /\ MmArg.va = va
  BY DEF Access
<1>2. AccessFaults
  BY <1>1, Dispatch DEF AccessCompletes
<1>3. LET event == EventOf(cause) IN
         \/ /\ Mine(event)
            /\ my_exceptions' = my_exceptions \cup {cause}
            /\ CASE event = "error" -> my_event_handle_error_helper(cause, va)
                 [] event = "nmi" -> my_event_handle_nmi_helper
                 [] event = "tlbmissrw" -> my_event_handle_tlbmissrw_helper(va)
                 [] event = "tlbmissx" -> my_event_handle_tlbmissx_helper(va)
            /\ UNCHANGED mmDead
         \/ /\ ~ Mine(event)
            /\ UNCHANGED my_exceptions
            /\ IF event \in {"tlbmissrw", "tlbmissx"} THEN DefaultRefill(va)
               ELSE mmDead' = TRUE /\ UNCHANGED tlb
  BY <1>1, <1>2, Zenon DEF AccessFaults
<1>4. /\ my_exceptions' = my_exceptions \cup {cause} /\ (mmDead' <=> mmDead)
      /\ EventOf(cause) = "tlbmissrw" => my_event_handle_tlbmissrw_helper(va)
      /\ EventOf(cause) = "tlbmissx" => my_event_handle_tlbmissx_helper(va)
  <2>1. CASE EventOf(cause) = "tlbmissrw"
    BY <1>3, <2>1
  <2>2. CASE EventOf(cause) = "tlbmissx"
    BY <1>3, <2>2
  <2> QED
    BY <2>1, <2>2
<1>5. Replay
  BY <1>2 DEF AccessFaults, Replay, SameRest, mmEnv
<1> QED
  BY <1>4, <1>5

(* A translation added to a free slot, and a probe of one that is taken.     *)
LEMMA SlotAdd ==
  ASSUME MmNext, ~ mmDead, TlbTypeOK, Slotted, NEW k \in 1 .. 5, NEW e \in Entries,
         MmArg.op = "add_trans", MmArg.i = k, MmArg.e = e, e.vpn \in k * ONE_MB .. k * ONE_MB + 255, ~ tlb[k].V
  PROVE  /\ mmStep' = After /\ SameRest /\ Sound /\ my_exceptions' = my_exceptions /\ mmData' = mmData
         /\ TlbTypeOK' /\ tlb'[k] = e /\ (NoneFrom(6)' <=> NoneFrom(6))
         /\ \A j \in 1 .. 5 : j # k => tlb'[j] = tlb[j]
<1>1. \A asid : \A j \in Legacy : ~ Covers(tlb[j], asid, e.vpn)
  BY SlotFree
<1>2. Wrote(k, e) /\ mmStep' = After /\ SameRest /\ Sound /\ my_exceptions' = my_exceptions /\ mmData' = mmData
  BY <1>1, DoAdd
<1> QED
  BY <1>2, SlotWrite

LEMMA SlotFound ==
  ASSUME MmNext, ~ mmDead, ~ mmFail, TlbTypeOK, Slotted, NEW k \in 1 .. 5, NEW va \in k * ONE_MB .. k * ONE_MB + 255,
         MmArg = Probe(0, va, k), tlb[k].V, tlb[k].vpn = va
  PROVE  MmQuiet
BY SlotProbe, DoProbe

LEMMA PermissionsSetUp ==
  ASSUME TlbTypeOK, ~ mmFail, ~ mmDead, mmProg = "permissions", NEW at \in 1 .. 12,
         mmStep = [test |-> 1, at |-> at], PermissionsInv(at), MmNext
  PROVE  /\ TlbTypeOK' /\ ~ mmFail' /\ ~ mmDead' /\ mmProg' = mmProg
         /\ mmStep' = After /\ PermissionsInv(at + 1)'
<1> USE DEF Sound, SameRest
<1>0. MmArg = test_permissions[at]
  BY PermissionsCalls
<1>a. Slotted
  BY PermissionsSlots
<1>1. CASE at = 1
  <2>1. MmArg.op = "clear"
    BY <1>0, <1>1 DEF test_permissions, ClearExceptions
  <2> QED
    BY <1>1, <2>1, DoClear DEF PermissionsInv, HoldsAt, NoneFrom, TlbTypeOK, Granted
<1>2. CASE at = 2
  <2>1. MmArg.op = "data" /\ MmArg.v = "deadbeef"
    BY <1>0, <1>2 DEF test_permissions, Data
  <2> QED
    BY <1>2, <2>1, DoData DEF PermissionsInv, HoldsAt, NoneFrom, TlbTypeOK, Granted
<1>3. CASE at = 3
  <2> DEFINE e == PermEntry(1, XWRU \ {"R"})
  <2>1. MmArg.op = "add_trans" /\ MmArg.i = 1 /\ MmArg.e = e
    <3>1. DATA_PAGE + 1 * ONE_MB = DATA_PAGE + ONE_MB
      BY MmuAssumption DEF ONE_MB
    <3> QED
      BY <3>1, <1>0, <1>3 DEF test_permissions, AddTrans, PermEntry, GlobalPage
  <2>2. e \in Entries /\ e.vpn = DATA_PAGE + ONE_MB /\ e.vpn \in 1 * ONE_MB .. 1 * ONE_MB + 255 /\ ~ tlb[1].V
    BY <1>3, MmuAssumption DEF PermissionsInv, HoldsAt, PermEntry, GlobalPage, create_mmu_entry, Entries, XWRU, ONE_MB
  <2> HIDE DEF e
  <2>3. /\ mmStep' = After /\ SameRest /\ Sound /\ my_exceptions' = my_exceptions /\ mmData' = mmData
        /\ TlbTypeOK' /\ tlb'[1] = e /\ (NoneFrom(6)' <=> NoneFrom(6))
        /\ \A j \in 1 .. 5 : j # 1 => tlb'[j] = tlb[j]
    BY <1>a, <2>1, <2>2, SlotAdd
  <2> QED
    BY <1>3, <2>3 DEF e, PermissionsInv, HoldsAt, Granted
<1>4. CASE at = 4
  <2>1. MmArg = Probe(0, DATA_PAGE + ONE_MB, 1)
    BY <1>0, <1>4 DEF test_permissions
  <2>2. tlb[1].V /\ tlb[1].vpn = DATA_PAGE + ONE_MB /\ DATA_PAGE + ONE_MB \in 1 * ONE_MB .. 1 * ONE_MB + 255
    BY <1>4, MmuAssumption DEF PermissionsInv, HoldsAt, PermEntry, GlobalPage, create_mmu_entry, ONE_MB
  <2>3. MmQuiet
    BY <1>a, <2>1, <2>2, SlotFound
  <2> QED
    BY <1>4, <2>3 DEF MmQuiet, PermissionsInv, HoldsAt, NoneFrom, Granted, TlbTypeOK
<1>5. CASE at = 5
  <2> DEFINE e == PermEntry(2, XWRU \ {"U"})
  <2>1. MmArg.op = "add_trans" /\ MmArg.i = 2 /\ MmArg.e = e
    BY <1>0, <1>5 DEF test_permissions, AddTrans, PermEntry, GlobalPage
  <2>2. e \in Entries /\ e.vpn = DATA_PAGE + 2 * ONE_MB /\ e.vpn \in 2 * ONE_MB .. 2 * ONE_MB + 255 /\ ~ tlb[2].V
    BY <1>5, MmuAssumption DEF PermissionsInv, HoldsAt, PermEntry, GlobalPage, create_mmu_entry, Entries, XWRU, ONE_MB
  <2> HIDE DEF e
  <2>3. /\ mmStep' = After /\ SameRest /\ Sound /\ my_exceptions' = my_exceptions /\ mmData' = mmData
        /\ TlbTypeOK' /\ tlb'[2] = e /\ (NoneFrom(6)' <=> NoneFrom(6))
        /\ \A j \in 1 .. 5 : j # 2 => tlb'[j] = tlb[j]
    BY <1>a, <2>1, <2>2, SlotAdd
  <2> QED
    BY <1>5, <2>3 DEF e, PermissionsInv, HoldsAt, Granted
<1>6. CASE at = 6
  <2>1. MmArg = Probe(0, DATA_PAGE + 2 * ONE_MB, 2)
    BY <1>0, <1>6 DEF test_permissions
  <2>2. tlb[2].V /\ tlb[2].vpn = DATA_PAGE + 2 * ONE_MB /\ DATA_PAGE + 2 * ONE_MB \in 2 * ONE_MB .. 2 * ONE_MB + 255
    BY <1>6, MmuAssumption DEF PermissionsInv, HoldsAt, PermEntry, GlobalPage, create_mmu_entry, ONE_MB
  <2>3. MmQuiet
    BY <1>a, <2>1, <2>2, SlotFound
  <2> QED
    BY <1>6, <2>3 DEF MmQuiet, PermissionsInv, HoldsAt, NoneFrom, Granted, TlbTypeOK
<1>7. CASE at = 7
  <2> DEFINE e == PermEntry(3, XWRU \ {"W"})
  <2>1. MmArg.op = "add_trans" /\ MmArg.i = 3 /\ MmArg.e = e
    BY <1>0, <1>7 DEF test_permissions, AddTrans, PermEntry, GlobalPage
  <2>2. e \in Entries /\ e.vpn = DATA_PAGE + 3 * ONE_MB /\ e.vpn \in 3 * ONE_MB .. 3 * ONE_MB + 255 /\ ~ tlb[3].V
    BY <1>7, MmuAssumption DEF PermissionsInv, HoldsAt, PermEntry, GlobalPage, create_mmu_entry, Entries, XWRU, ONE_MB
  <2> HIDE DEF e
  <2>3. /\ mmStep' = After /\ SameRest /\ Sound /\ my_exceptions' = my_exceptions /\ mmData' = mmData
        /\ TlbTypeOK' /\ tlb'[3] = e /\ (NoneFrom(6)' <=> NoneFrom(6))
        /\ \A j \in 1 .. 5 : j # 3 => tlb'[j] = tlb[j]
    BY <1>a, <2>1, <2>2, SlotAdd
  <2> QED
    BY <1>7, <2>3 DEF e, PermissionsInv, HoldsAt, Granted
<1>8. CASE at = 8
  <2>1. MmArg = Probe(0, DATA_PAGE + 3 * ONE_MB, 3)
    BY <1>0, <1>8 DEF test_permissions
  <2>2. tlb[3].V /\ tlb[3].vpn = DATA_PAGE + 3 * ONE_MB /\ DATA_PAGE + 3 * ONE_MB \in 3 * ONE_MB .. 3 * ONE_MB + 255
    BY <1>8, MmuAssumption DEF PermissionsInv, HoldsAt, PermEntry, GlobalPage, create_mmu_entry, ONE_MB
  <2>3. MmQuiet
    BY <1>a, <2>1, <2>2, SlotFound
  <2> QED
    BY <1>8, <2>3 DEF MmQuiet, PermissionsInv, HoldsAt, NoneFrom, Granted, TlbTypeOK
<1>9. CASE at = 9
  <2> DEFINE e == PermEntry(4, XWRU \ {"U"})
  <2>1. MmArg.op = "add_trans" /\ MmArg.i = 4 /\ MmArg.e = e
    BY <1>0, <1>9 DEF test_permissions, AddTrans, PermEntry, GlobalPage
  <2>2. e \in Entries /\ e.vpn = DATA_PAGE + 4 * ONE_MB /\ e.vpn \in 4 * ONE_MB .. 4 * ONE_MB + 255 /\ ~ tlb[4].V
    BY <1>9, MmuAssumption DEF PermissionsInv, HoldsAt, PermEntry, GlobalPage, create_mmu_entry, Entries, XWRU, ONE_MB
  <2> HIDE DEF e
  <2>3. /\ mmStep' = After /\ SameRest /\ Sound /\ my_exceptions' = my_exceptions /\ mmData' = mmData
        /\ TlbTypeOK' /\ tlb'[4] = e /\ (NoneFrom(6)' <=> NoneFrom(6))
        /\ \A j \in 1 .. 5 : j # 4 => tlb'[j] = tlb[j]
    BY <1>a, <2>1, <2>2, SlotAdd
  <2> QED
    BY <1>9, <2>3 DEF e, PermissionsInv, HoldsAt, Granted
<1>10. CASE at = 10
  <2>1. MmArg = Probe(0, DATA_PAGE + 4 * ONE_MB, 4)
    BY <1>0, <1>10 DEF test_permissions
  <2>2. tlb[4].V /\ tlb[4].vpn = DATA_PAGE + 4 * ONE_MB /\ DATA_PAGE + 4 * ONE_MB \in 4 * ONE_MB .. 4 * ONE_MB + 255
    BY <1>10, MmuAssumption DEF PermissionsInv, HoldsAt, PermEntry, GlobalPage, create_mmu_entry, ONE_MB
  <2>3. MmQuiet
    BY <1>a, <2>1, <2>2, SlotFound
  <2> QED
    BY <1>10, <2>3 DEF MmQuiet, PermissionsInv, HoldsAt, NoneFrom, Granted, TlbTypeOK
<1>11. CASE at = 11
  <2> DEFINE e == FuncEntry({"W", "R"})
  <2>1. MmArg.op = "add_trans" /\ MmArg.i = 5 /\ MmArg.e = e
    BY <1>0, <1>11 DEF test_permissions, AddTrans, FuncEntry, GlobalPage
  <2>2. e \in Entries /\ e.vpn = FUNC_PAGE + 5 * ONE_MB /\ e.vpn \in 5 * ONE_MB .. 5 * ONE_MB + 255 /\ ~ tlb[5].V
    BY <1>11, MmuAssumption DEF PermissionsInv, HoldsAt, FuncEntry, GlobalPage, create_mmu_entry, Entries, XWRU, ONE_MB
  <2> HIDE DEF e
  <2>3. /\ mmStep' = After /\ SameRest /\ Sound /\ my_exceptions' = my_exceptions /\ mmData' = mmData
        /\ TlbTypeOK' /\ tlb'[5] = e /\ (NoneFrom(6)' <=> NoneFrom(6))
        /\ \A j \in 1 .. 5 : j # 5 => tlb'[j] = tlb[j]
    BY <1>a, <2>1, <2>2, SlotAdd
  <2> QED
    BY <1>11, <2>3 DEF e, PermissionsInv, HoldsAt, Granted
<1>12. CASE at = 12
  <2>1. MmArg = Probe(0, FUNC_PAGE + 5 * ONE_MB, 5)
    BY <1>0, <1>12 DEF test_permissions
  <2>2. tlb[5].V /\ tlb[5].vpn = FUNC_PAGE + 5 * ONE_MB /\ FUNC_PAGE + 5 * ONE_MB \in 5 * ONE_MB .. 5 * ONE_MB + 255
    BY <1>12, MmuAssumption DEF PermissionsInv, HoldsAt, FuncEntry, GlobalPage, create_mmu_entry, ONE_MB
  <2>3. MmQuiet
    BY <1>a, <2>1, <2>2, SlotFound
  <2> QED
    BY <1>12, <2>3 DEF MmQuiet, PermissionsInv, HoldsAt, NoneFrom, Granted, TlbTypeOK
<1> QED
  BY <1>1, <1>2, <1>3, <1>4, <1>5, <1>6, <1>7, <1>8, <1>9, <1>10, <1>11, <1>12

(* An entry with other permissions.                                          *)
WithPerm(e, perm) == [e EXCEPT !.perm = perm]
Widened(k, bit) == WithPerm(tlb[k], tlb[k].perm \cup {bit})
EntryOf(b, va, perm, pa) == [V |-> b, G |-> b, asid |-> 0, vpn |-> va, pa |-> pa, size |-> 1, perm |-> perm]

LEMMA WithPermIs ==
  ASSUME NEW va, NEW p, NEW q, NEW pa
  PROVE  \A b : WithPerm(EntryOf(b, va, p, pa), q) = EntryOf(b, va, q, pa)
BY SMT DEF WithPerm, EntryOf

LEMMA WithPermOfPage ==
  ASSUME NEW va, NEW p, NEW q, NEW pa
  PROVE  WithPerm(GlobalPage(va, p, pa), q) = GlobalPage(va, q, pa)
<1>0. \A b : WithPerm(EntryOf(b, va, p, pa), q) = EntryOf(b, va, q, pa)
  BY WithPermIs
<1>1. WithPerm(EntryOf(TRUE, va, p, pa), q) = EntryOf(TRUE, va, q, pa)
  BY <1>0, Zenon
<1>2. \A r : GlobalPage(va, r, pa) = EntryOf(TRUE, va, r, pa)
  BY Zenon DEF create_mmu_entry, EntryOf, GlobalPage
<1> QED
  BY <1>1, <1>2, Zenon

LEMMA WidenedIs ==
  ASSUME NEW k, NEW bit \in XWRU, NEW perm \in SUBSET XWRU, NEW va \in Nat, NEW pa \in Nat,
         tlb[k] = GlobalPage(va, perm, pa)
  PROVE  Widened(k, bit) = GlobalPage(va, perm \cup {bit}, pa) /\ Widened(k, bit) \in Entries
<1>0. PICK q \in SUBSET XWRU : q = perm \cup {bit}
  OBVIOUS
<1>1. tlb[k].perm = perm
  BY DEF create_mmu_entry, GlobalPage
<1>2. Widened(k, bit) = WithPerm(tlb[k], q)
  BY <1>0, <1>1 DEF Widened
<1>4. WithPerm(tlb[k], q) = GlobalPage(va, q, pa)
  BY WithPermOfPage
<1>5. GlobalPage(va, q, pa) \in Entries
  BY DEF create_mmu_entry, Entries, GlobalPage
<1> QED
  BY <1>0, <1>2, <1>4, <1>5

LEMMA Repaired ==
  ASSUME NEW k \in 1 .. 5, NEW va \in k * ONE_MB .. k * ONE_MB + 255, NEW cause,
         my_event_handle_error_helper(cause, va)
  PROVE  /\ cause = "PRIV_NO_READ" => Wrote(k, Widened(k, "R"))
         /\ cause = "PRIV_NO_WRITE" => Wrote(k, Widened(k, "W"))
         /\ cause = "FETCH_NO_XPAGE" => Wrote(k, Widened(k, "X"))
         /\ cause \in {"FETCH_NO_UPAGE", "PRIV_NO_UREAD", "PRIV_NO_UWRITE"} =>
              Wrote(k, Widened(k, "U"))
<1>1. tlb_entry_num(va) = k
  BY DEF tlb_entry_num, ONE_MB
<1> QED
  BY <1>1 DEF my_event_handle_error_helper, Wrote, Widened, WithPerm

(* The entry of slot k lets the access through, and what it reads, writes    *)
(* or runs is the page of the entry.                                         *)
LEMMA SlotPage ==
  ASSUME NEW k, NEW va \in Nat, tlb[k].size = 1, tlb[k].pa \in Nat
  PROVE  hex_tlb_phys_addr(tlb[k], va) = tlb[k].pa
BY DEF hex_tlb_phys_addr, page_start

LEMMA PermissionsAccess ==
  ASSUME TlbTypeOK, ~ mmFail, ~ mmDead, mmProg = "permissions", NEW at \in {15, 16, 17, 19},
         mmStep = [test |-> 1, at |-> at], PermissionsInv(at), MmNext
  PROVE  /\ TlbTypeOK' /\ ~ mmFail' /\ ~ mmDead' /\ mmProg' = mmProg
         /\ \/ mmStep' = After /\ PermissionsInv(at + 1)'
            \/ mmStep' = mmStep /\ PermissionsInv(at)'
<1>0. MmArg = test_permissions[at]
  BY PermissionsCalls
<1>a. Slotted
  BY PermissionsSlots
<1>b. Mine("error")
  BY DEF PermissionsInv, Mine, MyEvents
<1>15. CASE at = 15
  <2> DEFINE va == DATA_PAGE + ONE_MB
             p == (XWRU \ {"R"}) \cup Granted("PRIV_NO_READ", "R")
  <2>1. MmArg = Access("load", va, "deadbeef", TRUE)
    BY <1>0, <1>15 DEF test_permissions, Load
  <2>2. tlb[1] = PermEntry(1, p) /\ userMode /\ mmAsid = 0
    BY <1>15 DEF PermissionsInv, HoldsAt
  <2>3. /\ tlb[1].V /\ tlb[1].vpn = va /\ tlb[1].perm = p /\ tlb[1].size = 1 /\ tlb[1].pa = DATA_PAGE
        /\ va \in 1 * ONE_MB .. 1 * ONE_MB + 255 /\ DATA_PAGE \in Nat /\ va \in Nat
    BY <2>2, MmuAssumption DEF PermEntry, GlobalPage, create_mmu_entry, ONE_MB
  <2> HIDE DEF va
  <2>4. /\ Hits(Legacy, mmAsid, va) = {1} /\ Lowest(Hits(Legacy, mmAsid, va)) = 1
        /\ Cardinality(Hits(Legacy, mmAsid, va)) = 1 /\ tlbp(mmAsid, va) = 1
    BY <1>a, <2>3, SlotProbe
  <2>5. Causes("load", va) = IF "PRIV_NO_READ" \in my_exceptions THEN {} ELSE {"PRIV_NO_READ"}
    <3>1. Needs(1, "R", "PRIV_NO_READ") = IF "PRIV_NO_READ" \in my_exceptions THEN {} ELSE {"PRIV_NO_READ"}
      BY <2>3 DEF Needs, Granted, XWRU
    <3>2. User(1, "PRIV_NO_UREAD") = {}
      BY <2>2, <2>3 DEF User, Granted, XWRU
    <3>3. Causes("load", va) = Needs(1, "R", "PRIV_NO_READ") \cup User(1, "PRIV_NO_UREAD")
      BY <2>4, HitCauses
    <3> QED
      BY <3>1, <3>2, <3>3
  <2>6. CASE "PRIV_NO_READ" \in my_exceptions
    <3>1. hex_tlb_phys_addr(tlb[1], va) = DATA_PAGE
      BY <2>3, SlotPage
    <3>2. mmData = "deadbeef"
      BY <1>15 DEF PermissionsInv
    <3>3. /\ tlb' = tlb /\ mmStep' = After /\ SameRest /\ Sound /\ my_exceptions' = my_exceptions
          /\ mmData' = "deadbeef"
      BY <2>1, <2>4, <2>5, <2>6, <3>1, <3>2, DoAccess
    <3> QED
      BY <1>15, <2>6, <3>3 DEF PermissionsInv, HoldsAt, NoneFrom, Granted, TlbTypeOK, Sound, SameRest
  <2>7. CASE "PRIV_NO_READ" \notin my_exceptions
    <3>1. EventOf("PRIV_NO_READ") = "error"
      BY DEF EventOf
    <3>2. /\ my_exceptions' = my_exceptions \cup {"PRIV_NO_READ"} /\ my_event_handle_error_helper("PRIV_NO_READ", va)
          /\ Replay /\ (mmDead' <=> mmDead)
      BY <2>1, <2>5, <2>7, <3>1, <1>b, DoError, ZenonT(40)
    <3> DEFINE e == Widened(1, "R")
    <3>3. Wrote(1, e)
      BY <2>3, <3>2, Repaired
    <3>4. e = PermEntry(1, (XWRU \ {"R"}) \cup {"R"}) /\ e \in Entries
      <4>1. p = (XWRU \ {"R"}) /\ (XWRU \ {"R"}) \in SUBSET XWRU /\ "R" \in XWRU
        BY <2>7 DEF Granted, XWRU
      <4>2. DATA_PAGE + 1 * ONE_MB \in Nat
        BY MmuAssumption DEF ONE_MB
      <4> HIDE DEF p
      <4>3. tlb[1] = GlobalPage(DATA_PAGE + 1 * ONE_MB, p, DATA_PAGE)
        BY <2>2, Zenon DEF PermEntry
      <4>4. /\ Widened(1, "R") = GlobalPage(DATA_PAGE + 1 * ONE_MB, p \cup {"R"}, DATA_PAGE)
            /\ Widened(1, "R") \in Entries
        BY <2>3, <4>1, <4>2, <4>3, WidenedIs
      <4> QED
        BY <4>1, <4>4 DEF PermEntry
    <3> HIDE DEF e
    <3>5. /\ TlbTypeOK' /\ tlb'[1] = e /\ (NoneFrom(6)' <=> NoneFrom(6))
          /\ \A j \in 1 .. 5 : j # 1 => tlb'[j] = tlb[j]
      BY <3>3, <3>4, SlotWrite
    <3> QED
      BY <1>15, <3>2, <3>4, <3>5 DEF PermissionsInv, HoldsAt, Granted, Replay, SameRest, PermCauses
  <2> QED
    BY <2>6, <2>7
<1>16. CASE at = 16
  <2> DEFINE va == DATA_PAGE + 2 * ONE_MB
             p == (XWRU \ {"U"}) \cup Granted("PRIV_NO_UREAD", "U")
  <2>1. MmArg = Access("load", va, "deadbeef", TRUE)
    BY <1>0, <1>16 DEF test_permissions, Load
  <2>2. tlb[2] = PermEntry(2, p) /\ userMode /\ mmAsid = 0
    BY <1>16 DEF PermissionsInv, HoldsAt
  <2>3. /\ tlb[2].V /\ tlb[2].vpn = va /\ tlb[2].perm = p /\ tlb[2].size = 1 /\ tlb[2].pa = DATA_PAGE
        /\ va \in 2 * ONE_MB .. 2 * ONE_MB + 255 /\ DATA_PAGE \in Nat /\ va \in Nat
    BY <2>2, MmuAssumption DEF PermEntry, GlobalPage, create_mmu_entry, ONE_MB
  <2> HIDE DEF va
  <2>4. /\ Hits(Legacy, mmAsid, va) = {2} /\ Lowest(Hits(Legacy, mmAsid, va)) = 2
        /\ Cardinality(Hits(Legacy, mmAsid, va)) = 1 /\ tlbp(mmAsid, va) = 2
    BY <1>a, <2>3, SlotProbe
  <2>5. Causes("load", va) = IF "PRIV_NO_UREAD" \in my_exceptions THEN {} ELSE {"PRIV_NO_UREAD"}
    <3>1. Needs(2, "R", "PRIV_NO_READ") = {}
      BY <2>3 DEF Needs, Granted, XWRU
    <3>2. User(2, "PRIV_NO_UREAD") = IF "PRIV_NO_UREAD" \in my_exceptions THEN {} ELSE {"PRIV_NO_UREAD"}
      BY <2>2, <2>3 DEF User, Granted, XWRU
    <3>3. Causes("load", va) = Needs(2, "R", "PRIV_NO_READ") \cup User(2, "PRIV_NO_UREAD")
      BY <2>4, HitCauses
    <3> QED
      BY <3>1, <3>2, <3>3
  <2>6. CASE "PRIV_NO_UREAD" \in my_exceptions
    <3>1. hex_tlb_phys_addr(tlb[2], va) = DATA_PAGE
      BY <2>3, SlotPage
    <3>2. mmData = "deadbeef"
      BY <1>16 DEF PermissionsInv
    <3>3. /\ tlb' = tlb /\ mmStep' = After /\ SameRest /\ Sound /\ my_exceptions' = my_exceptions
          /\ mmData' = "deadbeef"
      BY <2>1, <2>4, <2>5, <2>6, <3>1, <3>2, DoAccess
    <3> QED
      BY <1>16, <2>6, <3>3 DEF PermissionsInv, HoldsAt, NoneFrom, Granted, TlbTypeOK, Sound, SameRest
  <2>7. CASE "PRIV_NO_UREAD" \notin my_exceptions
    <3>1. EventOf("PRIV_NO_UREAD") = "error"
      BY DEF EventOf
    <3>2. /\ my_exceptions' = my_exceptions \cup {"PRIV_NO_UREAD"} /\ my_event_handle_error_helper("PRIV_NO_UREAD", va)
          /\ Replay /\ (mmDead' <=> mmDead)
      BY <2>1, <2>5, <2>7, <3>1, <1>b, DoError, ZenonT(40)
    <3> DEFINE e == Widened(2, "U")
    <3>3. Wrote(2, e)
      BY <2>3, <3>2, Repaired
    <3>4. e = PermEntry(2, (XWRU \ {"U"}) \cup {"U"}) /\ e \in Entries
      <4>1. p = (XWRU \ {"U"}) /\ (XWRU \ {"U"}) \in SUBSET XWRU /\ "U" \in XWRU
        BY <2>7 DEF Granted, XWRU
      <4>2. DATA_PAGE + 2 * ONE_MB \in Nat
        BY MmuAssumption DEF ONE_MB
      <4> HIDE DEF p
      <4>3. tlb[2] = GlobalPage(DATA_PAGE + 2 * ONE_MB, p, DATA_PAGE)
        BY <2>2, Zenon DEF PermEntry
      <4>4. /\ Widened(2, "U") = GlobalPage(DATA_PAGE + 2 * ONE_MB, p \cup {"U"}, DATA_PAGE)
            /\ Widened(2, "U") \in Entries
        BY <2>3, <4>1, <4>2, <4>3, WidenedIs
      <4> QED
        BY <4>1, <4>4 DEF PermEntry
    <3> HIDE DEF e
    <3>5. /\ TlbTypeOK' /\ tlb'[2] = e /\ (NoneFrom(6)' <=> NoneFrom(6))
          /\ \A j \in 1 .. 5 : j # 2 => tlb'[j] = tlb[j]
      BY <3>3, <3>4, SlotWrite
    <3> QED
      BY <1>16, <3>2, <3>4, <3>5 DEF PermissionsInv, HoldsAt, Granted, Replay, SameRest, PermCauses
  <2> QED
    BY <2>6, <2>7
<1>17. CASE at = 17
  <2> DEFINE va == DATA_PAGE + 3 * ONE_MB
             p == (XWRU \ {"W"}) \cup Granted("PRIV_NO_WRITE", "W")
  <2>1. MmArg = Access("store", va, "c0ffee", TRUE)
    BY <1>0, <1>17 DEF test_permissions, Store
  <2>2. tlb[3] = PermEntry(3, p) /\ userMode /\ mmAsid = 0
    BY <1>17 DEF PermissionsInv, HoldsAt
  <2>3. /\ tlb[3].V /\ tlb[3].vpn = va /\ tlb[3].perm = p /\ tlb[3].size = 1 /\ tlb[3].pa = DATA_PAGE
        /\ va \in 3 * ONE_MB .. 3 * ONE_MB + 255 /\ DATA_PAGE \in Nat /\ va \in Nat
    BY <2>2, MmuAssumption DEF PermEntry, GlobalPage, create_mmu_entry, ONE_MB
  <2> HIDE DEF va
  <2>4. /\ Hits(Legacy, mmAsid, va) = {3} /\ Lowest(Hits(Legacy, mmAsid, va)) = 3
        /\ Cardinality(Hits(Legacy, mmAsid, va)) = 1 /\ tlbp(mmAsid, va) = 3
    BY <1>a, <2>3, SlotProbe
  <2>5. Causes("store", va) = IF "PRIV_NO_WRITE" \in my_exceptions THEN {} ELSE {"PRIV_NO_WRITE"}
    <3>1. Needs(3, "W", "PRIV_NO_WRITE") = IF "PRIV_NO_WRITE" \in my_exceptions THEN {} ELSE {"PRIV_NO_WRITE"}
      BY <2>3 DEF Needs, Granted, XWRU
    <3>2. User(3, "PRIV_NO_UWRITE") = {}
      BY <2>2, <2>3 DEF User, Granted, XWRU
    <3>3. Causes("store", va) = Needs(3, "W", "PRIV_NO_WRITE") \cup User(3, "PRIV_NO_UWRITE")
      BY <2>4, HitCauses
    <3> QED
      BY <3>1, <3>2, <3>3
  <2>6. CASE "PRIV_NO_WRITE" \in my_exceptions
    <3>1. hex_tlb_phys_addr(tlb[3], va) = DATA_PAGE
      BY <2>3, SlotPage
    <3>2. mmData = "deadbeef"
      BY <1>17 DEF PermissionsInv
    <3>3. /\ tlb' = tlb /\ mmStep' = After /\ SameRest /\ Sound /\ my_exceptions' = my_exceptions
          /\ mmData' = "c0ffee"
      BY <2>1, <2>4, <2>5, <2>6, <3>1, <3>2, DoAccess
    <3> QED
      BY <1>17, <2>6, <3>3 DEF PermissionsInv, HoldsAt, NoneFrom, Granted, TlbTypeOK, Sound, SameRest
  <2>7. CASE "PRIV_NO_WRITE" \notin my_exceptions
    <3>1. EventOf("PRIV_NO_WRITE") = "error"
      BY DEF EventOf
    <3>2. /\ my_exceptions' = my_exceptions \cup {"PRIV_NO_WRITE"} /\ my_event_handle_error_helper("PRIV_NO_WRITE", va)
          /\ Replay /\ (mmDead' <=> mmDead)
      BY <2>1, <2>5, <2>7, <3>1, <1>b, DoError, ZenonT(40)
    <3> DEFINE e == Widened(3, "W")
    <3>3. Wrote(3, e)
      BY <2>3, <3>2, Repaired
    <3>4. e = PermEntry(3, (XWRU \ {"W"}) \cup {"W"}) /\ e \in Entries
      <4>1. p = (XWRU \ {"W"}) /\ (XWRU \ {"W"}) \in SUBSET XWRU /\ "W" \in XWRU
        BY <2>7 DEF Granted, XWRU
      <4>2. DATA_PAGE + 3 * ONE_MB \in Nat
        BY MmuAssumption DEF ONE_MB
      <4> HIDE DEF p
      <4>3. tlb[3] = GlobalPage(DATA_PAGE + 3 * ONE_MB, p, DATA_PAGE)
        BY <2>2, Zenon DEF PermEntry
      <4>4. /\ Widened(3, "W") = GlobalPage(DATA_PAGE + 3 * ONE_MB, p \cup {"W"}, DATA_PAGE)
            /\ Widened(3, "W") \in Entries
        BY <2>3, <4>1, <4>2, <4>3, WidenedIs
      <4> QED
        BY <4>1, <4>4 DEF PermEntry
    <3> HIDE DEF e
    <3>5. /\ TlbTypeOK' /\ tlb'[3] = e /\ (NoneFrom(6)' <=> NoneFrom(6))
          /\ \A j \in 1 .. 5 : j # 3 => tlb'[j] = tlb[j]
      BY <3>3, <3>4, SlotWrite
    <3> QED
      BY <1>17, <3>2, <3>4, <3>5 DEF PermissionsInv, HoldsAt, Granted, Replay, SameRest, PermCauses
  <2> QED
    BY <2>6, <2>7
<1>19. CASE at = 19
  <2> DEFINE va == DATA_PAGE + 4 * ONE_MB
             p == (XWRU \ {"U"}) \cup Granted("PRIV_NO_UWRITE", "U")
  <2>1. MmArg = Access("store", va, "c0ffee", TRUE)
    BY <1>0, <1>19 DEF test_permissions, Store
  <2>2. tlb[4] = PermEntry(4, p) /\ userMode /\ mmAsid = 0
    BY <1>19 DEF PermissionsInv, HoldsAt
  <2>3. /\ tlb[4].V /\ tlb[4].vpn = va /\ tlb[4].perm = p /\ tlb[4].size = 1 /\ tlb[4].pa = DATA_PAGE
        /\ va \in 4 * ONE_MB .. 4 * ONE_MB + 255 /\ DATA_PAGE \in Nat /\ va \in Nat
    BY <2>2, MmuAssumption DEF PermEntry, GlobalPage, create_mmu_entry, ONE_MB
  <2> HIDE DEF va
  <2>4. /\ Hits(Legacy, mmAsid, va) = {4} /\ Lowest(Hits(Legacy, mmAsid, va)) = 4
        /\ Cardinality(Hits(Legacy, mmAsid, va)) = 1 /\ tlbp(mmAsid, va) = 4
    BY <1>a, <2>3, SlotProbe
  <2>5. Causes("store", va) = IF "PRIV_NO_UWRITE" \in my_exceptions THEN {} ELSE {"PRIV_NO_UWRITE"}
    <3>1. Needs(4, "W", "PRIV_NO_WRITE") = {}
      BY <2>3 DEF Needs, Granted, XWRU
    <3>2. User(4, "PRIV_NO_UWRITE") = IF "PRIV_NO_UWRITE" \in my_exceptions THEN {} ELSE {"PRIV_NO_UWRITE"}
      BY <2>2, <2>3 DEF User, Granted, XWRU
    <3>3. Causes("store", va) = Needs(4, "W", "PRIV_NO_WRITE") \cup User(4, "PRIV_NO_UWRITE")
      BY <2>4, HitCauses
    <3> QED
      BY <3>1, <3>2, <3>3
  <2>6. CASE "PRIV_NO_UWRITE" \in my_exceptions
    <3>1. hex_tlb_phys_addr(tlb[4], va) = DATA_PAGE
      BY <2>3, SlotPage
    <3>2. mmData = "c0ffee"
      BY <1>19 DEF PermissionsInv
    <3>3. /\ tlb' = tlb /\ mmStep' = After /\ SameRest /\ Sound /\ my_exceptions' = my_exceptions
          /\ mmData' = "c0ffee"
      BY <2>1, <2>4, <2>5, <2>6, <3>1, <3>2, DoAccess
    <3> QED
      BY <1>19, <2>6, <3>3 DEF PermissionsInv, HoldsAt, NoneFrom, Granted, TlbTypeOK, Sound, SameRest
  <2>7. CASE "PRIV_NO_UWRITE" \notin my_exceptions
    <3>1. EventOf("PRIV_NO_UWRITE") = "error"
      BY DEF EventOf
    <3>2. /\ my_exceptions' = my_exceptions \cup {"PRIV_NO_UWRITE"} /\ my_event_handle_error_helper("PRIV_NO_UWRITE", va)
          /\ Replay /\ (mmDead' <=> mmDead)
      BY <2>1, <2>5, <2>7, <3>1, <1>b, DoError, ZenonT(40)
    <3> DEFINE e == Widened(4, "U")
    <3>3. Wrote(4, e)
      BY <2>3, <3>2, Repaired
    <3>4. e = PermEntry(4, (XWRU \ {"U"}) \cup {"U"}) /\ e \in Entries
      <4>1. p = (XWRU \ {"U"}) /\ (XWRU \ {"U"}) \in SUBSET XWRU /\ "U" \in XWRU
        BY <2>7 DEF Granted, XWRU
      <4>2. DATA_PAGE + 4 * ONE_MB \in Nat
        BY MmuAssumption DEF ONE_MB
      <4> HIDE DEF p
      <4>3. tlb[4] = GlobalPage(DATA_PAGE + 4 * ONE_MB, p, DATA_PAGE)
        BY <2>2, Zenon DEF PermEntry
      <4>4. /\ Widened(4, "U") = GlobalPage(DATA_PAGE + 4 * ONE_MB, p \cup {"U"}, DATA_PAGE)
            /\ Widened(4, "U") \in Entries
        BY <2>3, <4>1, <4>2, <4>3, WidenedIs
      <4> QED
        BY <4>1, <4>4 DEF PermEntry
    <3> HIDE DEF e
    <3>5. /\ TlbTypeOK' /\ tlb'[4] = e /\ (NoneFrom(6)' <=> NoneFrom(6))
          /\ \A j \in 1 .. 5 : j # 4 => tlb'[j] = tlb[j]
      BY <3>3, <3>4, SlotWrite
    <3> QED
      BY <1>19, <3>2, <3>4, <3>5 DEF PermissionsInv, HoldsAt, Granted, Replay, SameRest, PermCauses
  <2> QED
    BY <2>6, <2>7
<1> QED
  BY <1>15, <1>16, <1>17, <1>19

(* The call: the page lacks the right to run and the right of the user, and  *)
(* the handler adds one after the other, in either order.                    *)
LEMMA PermissionsFetch ==
  ASSUME TlbTypeOK, ~ mmFail, ~ mmDead, mmProg = "permissions",
         mmStep = [test |-> 1, at |-> 21], PermissionsInv(21), MmNext
  PROVE  /\ TlbTypeOK' /\ ~ mmFail' /\ ~ mmDead' /\ mmProg' = mmProg
         /\ \/ mmStep' = After /\ PermissionsInv(22)'
            \/ mmStep' = mmStep /\ PermissionsInv(21)'
<1> DEFINE va == FUNC_PAGE + 5 * ONE_MB
           p == {"W", "R"} \cup Granted("FETCH_NO_XPAGE", "X") \cup Granted("FETCH_NO_UPAGE", "U")
<1>0. MmArg = test_permissions[21]
  BY PermissionsCalls
<1>1. PICK v : MmArg = Access("fetch", va, v, TRUE)
  BY <1>0, FetchIs DEF test_permissions
<1>2. tlb[5] = FuncEntry(p) /\ userMode /\ mmAsid = 0 /\ Mine("error")
  BY DEF PermissionsInv, HoldsAt, Mine, MyEvents
<1>3. /\ tlb[5].V /\ tlb[5].vpn = va /\ tlb[5].perm = p /\ tlb[5].size = 1 /\ tlb[5].pa = FUNC_PAGE
      /\ va \in 5 * ONE_MB .. 5 * ONE_MB + 255 /\ FUNC_PAGE \in Nat /\ va \in Nat
  BY <1>2, MmuAssumption DEF FuncEntry, GlobalPage, create_mmu_entry, ONE_MB
<1> HIDE DEF va
<1>4. /\ Hits(Legacy, mmAsid, va) = {5} /\ Lowest(Hits(Legacy, mmAsid, va)) = 5
      /\ Cardinality(Hits(Legacy, mmAsid, va)) = 1 /\ tlbp(mmAsid, va) = 5
  BY <1>3, PermissionsSlots, SlotProbe
<1>5. Causes("fetch", va) = {"FETCH_NO_XPAGE", "FETCH_NO_UPAGE"} \ my_exceptions
  <2>1. Needs(5, "X", "FETCH_NO_XPAGE") = IF "FETCH_NO_XPAGE" \in my_exceptions THEN {} ELSE {"FETCH_NO_XPAGE"}
    BY <1>3 DEF Needs, Granted, XWRU
  <2>2. User(5, "FETCH_NO_UPAGE") = IF "FETCH_NO_UPAGE" \in my_exceptions THEN {} ELSE {"FETCH_NO_UPAGE"}
    BY <1>2, <1>3 DEF User, Granted, XWRU
  <2>3. Causes("fetch", va) = Needs(5, "X", "FETCH_NO_XPAGE") \cup User(5, "FETCH_NO_UPAGE")
    BY <1>4, HitCauses
  <2> QED
    BY <2>1, <2>2, <2>3
<1>6. CASE Causes("fetch", va) = {}
  <2>1. hex_tlb_phys_addr(tlb[5], va) = FUNC_PAGE
    BY <1>3, SlotPage
  <2>2. /\ tlb' = tlb /\ mmStep' = After /\ SameRest /\ Sound /\ my_exceptions' = my_exceptions
        /\ mmData' = mmData
    BY <1>1, <1>4, <1>6, <2>1, DoFetch DEF MmQuiet
  <2>3. {"FETCH_NO_XPAGE", "FETCH_NO_UPAGE"} \subseteq my_exceptions
    BY <1>5, <1>6
  <2> QED
    BY <2>2, <2>3 DEF PermissionsInv, HoldsAt, NoneFrom, Granted, TlbTypeOK, Sound, SameRest
<1>7. CASE Causes("fetch", va) # {}
  <2>1. EventOf("FETCH_NO_XPAGE") = "error" /\ EventOf("FETCH_NO_UPAGE") = "error"
    BY DEF EventOf
  <2>2. PICK cause \in Causes("fetch", va) :
          /\ my_exceptions' = my_exceptions \cup {cause} /\ my_event_handle_error_helper(cause, va)
          /\ Replay /\ (mmDead' <=> mmDead)
    BY <1>1, <1>2, <1>5, <1>7, <2>1, DoError
  <2>3. PICK bit \in {"X", "U"} : /\ cause = IF bit = "X" THEN "FETCH_NO_XPAGE" ELSE "FETCH_NO_UPAGE"
                                  /\ Wrote(5, Widened(5, bit))
    BY <1>3, <1>5, <2>2, Repaired
  <2>4. Widened(5, bit) = FuncEntry(p \cup {bit}) /\ Widened(5, bit) \in Entries
    <3>1. p \in SUBSET XWRU /\ bit \in XWRU
      BY DEF Granted, XWRU
    <3> HIDE DEF p
    <3> QED
      BY <1>2, <1>3, <3>1, WidenedIs DEF FuncEntry, va
  <2>5. /\ TlbTypeOK' /\ tlb'[5] = FuncEntry(p \cup {bit}) /\ (NoneFrom(6)' <=> NoneFrom(6))
        /\ \A j \in 1 .. 5 : j # 5 => tlb'[j] = tlb[j]
    BY <2>3, <2>4, SlotWrite
  <2>6. p \cup {bit} = {"W", "R"} \cup Granted("FETCH_NO_XPAGE", "X")' \cup Granted("FETCH_NO_UPAGE", "U")'
    BY <2>2, <2>3 DEF Granted
  <2>7. cause \in PermCauses /\ cause \notin {"PRIV_NO_READ", "PRIV_NO_WRITE", "PRIV_NO_UREAD", "PRIV_NO_UWRITE"}
    BY <2>3 DEF PermCauses
  <2> HIDE DEF p
  <2> QED
    BY <2>2, <2>5, <2>6, <2>7 DEF PermissionsInv, HoldsAt, Granted, Replay, SameRest
<1> QED
  BY <1>6, <1>7

LEMMA PermissionsStep ==
  ASSUME TlbTypeOK, ~ mmFail, ~ mmDead, mmProg = "permissions", NEW at \in 1 .. 22,
         mmStep = [test |-> 1, at |-> at], PermissionsInv(at), MmNext
  PROVE  /\ TlbTypeOK' /\ ~ mmFail' /\ ~ mmDead' /\ mmProg' = mmProg
         /\ \/ mmStep' = After /\ PermissionsInv(at + 1)'
            \/ mmStep' = mmStep /\ PermissionsInv(at)'
<1> USE DEF Sound, SameRest
<1>0. MmArg = test_permissions[at]
  BY PermissionsCalls
<1>1. CASE at \in 1 .. 12
  BY <1>1, PermissionsSetUp
<1>2. CASE at \in {15, 16, 17, 19}
  BY <1>2, PermissionsAccess
<1>3. CASE at = 21
  BY <1>3, PermissionsFetch
<1>4. CASE at = 13
  <2>1. MmArg.op = "install"
    BY <1>0, <1>4 DEF test_permissions, Install
  <2> QED
    BY <1>4, <2>1, DoInstall DEF PermissionsInv, HoldsAt, NoneFrom, TlbTypeOK, Granted
<1>5. CASE at = 14
  <2>1. MmArg.op = "user_mode"
    BY <1>0, <1>5 DEF test_permissions, UserMode
  <2> QED
    BY <1>5, <2>1, DoUserMode DEF PermissionsInv, HoldsAt, NoneFrom, TlbTypeOK, Granted
<1>6. CASE at \in {18, 20}
  <2>1. MmArg = Expect("data", 0, "c0ffee")
    BY <1>0, <1>6 DEF test_permissions, Word
  <2>2. mmData = "c0ffee"
    BY <1>6 DEF PermissionsInv
  <2>3. MmQuiet
    BY <2>1, <2>2, DoExpect
  <2> QED
    BY <1>6, <2>3 DEF MmQuiet, PermissionsInv, HoldsAt, NoneFrom, Granted, TlbTypeOK
<1>7. CASE at = 22
  <2>1. MmArg = Expect("exceptions", 0, PermCauses)
    BY <1>0, <1>7 DEF test_permissions, Exceptions, PermCauses
  <2>2. my_exceptions = PermCauses
    <3>1. /\ "PRIV_NO_READ" \in my_exceptions /\ "PRIV_NO_WRITE" \in my_exceptions
          /\ "PRIV_NO_UREAD" \in my_exceptions /\ "PRIV_NO_UWRITE" \in my_exceptions
          /\ "FETCH_NO_XPAGE" \in my_exceptions /\ "FETCH_NO_UPAGE" \in my_exceptions
      BY <1>7 DEF PermissionsInv
    <3>2. my_exceptions \subseteq PermCauses
      BY DEF PermissionsInv
    <3> QED
      BY <3>1, <3>2 DEF PermCauses
  <2>3. MmQuiet
    BY <2>1, <2>2, DoExpect
  <2> QED
    BY <1>7, <2>3 DEF MmQuiet, PermissionsInv, HoldsAt, NoneFrom, Granted, TlbTypeOK
<1> QED
  BY <1>1, <1>2, <1>3, <1>4, <1>5, <1>6, <1>7

-----------------------------------------------------------------------------
(* mmu_cacheops.c.                                                           *)

LEMMA CacheCalls ==
  ASSUME mmProg = "cacheops", mmStep.test = 1
  PROVE  /\ MmTest = test_data_cache_ops /\ Len(MmTest) = 14 /\ MmArg = test_data_cache_ops[mmStep.at]
BY DEF MmTest, MmArg, Program, test_data_cache_ops

LEMMA CacheEntryIs ==
  ASSUME NEW n \in 1 .. 4, NEW perm \in SUBSET XWRU
  PROVE  LET e == CacheEntry(n, perm) IN
         /\ e.V /\ e.G /\ e.size = 1 /\ e.perm = perm /\ e.pa = DATA_PAGE
         /\ e.vpn = DATA_PAGE + n * ONE_MB /\ e.vpn \in n * ONE_MB .. n * ONE_MB + 255
         /\ e \in Entries
BY MmuAssumption DEF CacheEntry, GlobalPage, create_mmu_entry, ONE_MB, Entries

LEMMA CachePerms ==
  ASSUME NEW n \in 1 .. 4
  PROVE  MissPerm(n) \in SUBSET XWRU /\ {"U", "R"} \in SUBSET XWRU
BY DEF MissPerm, XWRU

LEMMA CacheSlots ==
  ASSUME TlbTypeOK, NEW at, CacheInv(at)
  PROVE  Slotted
<1> SUFFICES ASSUME NEW k \in Legacy, k # 0, tlb[k].V
             PROVE  tlb[k].G /\ tlb[k].size = 1 /\ tlb[k].vpn \in k * ONE_MB .. k * ONE_MB + 255
  BY DEF Slotted
<1>1. k \in 1 .. 4
  BY DEF CacheInv, NoneFrom, Legacy
<1>2. PICK perm \in SUBSET XWRU : tlb[k] = CacheEntry(k, perm)
  <2>1. at \in Int
    BY DEF CacheInv
  <2>2. tlb[k] = CacheEntry(k, MissPerm(k)) \/ tlb[k] = CacheEntry(k, {"U", "R"})
    BY <1>1, <2>1 DEF CacheInv, CacheDone
  <2> QED
    BY <1>1, <2>2, CachePerms
<1> QED
  BY <1>1, <1>2, CacheEntryIs

CacheKind(k) == IF k = 4 THEN "icop" ELSE "dcop"

LEMMA CacheAccess ==
  ASSUME TlbTypeOK, ~ mmFail, ~ mmDead, mmProg = "cacheops", NEW k \in 1 .. 4, NEW at, at = 3 * k + 1,
         mmStep = [test |-> 1, at |-> at], CacheInv(at), MmNext
  PROVE  /\ TlbTypeOK' /\ ~ mmFail' /\ ~ mmDead' /\ mmProg' = mmProg
         /\ \/ mmStep' = After /\ CacheInv(at + 1)'
            \/ mmStep' = mmStep /\ CacheInv(at)'
<1> DEFINE va == DATA_PAGE + k * ONE_MB
<1>0. MmArg = test_data_cache_ops[at]
  BY CacheCalls
<1>1. MmArg = CacheOp(CacheKind(k), va)
  <2>1. DATA_PAGE + 1 * ONE_MB = DATA_PAGE + ONE_MB
    BY MmuAssumption DEF ONE_MB
  <2>2. k = 1 \/ k = 2 \/ k = 3 \/ k = 4
    OBVIOUS
  <2> QED
    BY <1>0, <2>1, <2>2 DEF test_data_cache_ops, CacheKind
<1>2. PICK v : MmArg = Access(CacheKind(k), va, v, TRUE)
  BY <1>1, CacheOpIs
<1>3. va \in k * ONE_MB .. k * ONE_MB + 255 /\ va \in Nat /\ va - k * ONE_MB = DATA_PAGE
  BY MmuAssumption DEF ONE_MB
<1>a. Slotted /\ k \in 1 .. 5
  BY CacheSlots
<1>4. Slotted /\ k \in 1 .. 5 /\ userMode /\ evbMine /\ mmAsid = 0
  BY <1>a DEF CacheInv
<1>5. Mine("error") /\ Mine("tlbmissrw") /\ Mine("tlbmissx")
  BY <1>4 DEF Mine, MyEvents
<1>6. MissPerm(k) \in SUBSET XWRU /\ {"U", "R"} \in SUBSET XWRU
  BY CachePerms
<1>7. tlb_entry_num(va) = k
  BY <1>3 DEF tlb_entry_num, ONE_MB
<1> HIDE DEF va
<1>8. CASE ~ tlb[k].V
  <2>1. Hits(Legacy, mmAsid, va) = {}
    BY <1>3, <1>4, <1>8, SlotFree, HitNone
  <2>2. Causes(CacheKind(k), va) = {MissCause(k)}
    BY <2>1, MissCauses DEF CacheKind, MissCause
  <2>3. EventOf(MissCause(k)) = IF k = 4 THEN "tlbmissx" ELSE "tlbmissrw"
    BY DEF EventOf, MissCause
  <2>4. /\ my_exceptions' = my_exceptions \cup {MissCause(k)} /\ Replay /\ (mmDead' <=> mmDead)
        /\ IF k = 4 THEN my_event_handle_tlbmissx_helper(va) ELSE my_event_handle_tlbmissrw_helper(va)
    BY <1>2, <1>5, <2>2, <2>3, DoMiss
  <2>5. MissEntry(va, MissPerm(k)) = CacheEntry(k, MissPerm(k))
    BY <1>3, <1>7, Zenon DEF MissEntry, CacheEntry, GlobalPage, va
  <2>6. Wrote(k, CacheEntry(k, MissPerm(k)))
    BY <1>7, <2>4, <2>5 DEF my_event_handle_tlbmissx_helper, my_event_handle_tlbmissrw_helper, Wrote, MissPerm
  <2>7. /\ TlbTypeOK' /\ tlb'[k] = CacheEntry(k, MissPerm(k)) /\ (NoneFrom(5)' <=> NoneFrom(5))
        /\ \A j \in 1 .. 4 : j # k => tlb'[j] = tlb[j]
    BY <1>4, <1>6, <2>6, CacheEntryIs, SlotWrite
  <2>8. my_exceptions = {}
    BY <1>6, <1>8, CacheEntryIs DEF CacheInv, CacheDone
  <2> QED
    BY <2>4, <2>7, <2>8 DEF CacheInv, CacheDone, Replay, SameRest
<1>9. CASE tlb[k] = CacheEntry(k, IF k = 1 THEN {"U", "R"} ELSE MissPerm(k)) /\ (k = 1 => "PRIV_NO_READ" \in my_exceptions)
  <2> DEFINE p == IF k = 1 THEN {"U", "R"} ELSE MissPerm(k)
  <2>0. p \in SUBSET XWRU
    BY <1>6
  <2> HIDE DEF p
  <2>1. tlb[k].V /\ tlb[k].vpn = va /\ tlb[k].perm = p
    BY <1>9, <2>0, CacheEntryIs DEF va, p
  <2>2. /\ Hits(Legacy, mmAsid, va) = {k} /\ Lowest(Hits(Legacy, mmAsid, va)) = k
        /\ Cardinality(Hits(Legacy, mmAsid, va)) = 1 /\ tlbp(mmAsid, va) = k
    BY <1>3, <1>4, <2>1, SlotProbe
  <2>3. Causes(CacheKind(k), va) = {}
    BY <2>1, <2>2, HitCauses DEF CacheKind, Needs, p, MissPerm
  <2>4. CacheKind(k) # "load" /\ CacheKind(k) # "fetch" /\ CacheKind(k) # "store"
    BY DEF CacheKind
  <2>5. /\ tlb' = tlb /\ mmStep' = After /\ SameRest /\ Sound /\ my_exceptions' = my_exceptions
        /\ mmData' = mmData
    BY <1>2, <2>2, <2>3, <2>4, DoAccess
  <2>6. my_exceptions = {MissCause(k)} \cup IF k = 1 THEN {"PRIV_NO_READ"} ELSE {}
    BY <1>9, <2>1 DEF CacheInv, MissCause
  <2> QED
    BY <1>9, <2>5, <2>6 DEF CacheInv, CacheDone, SameRest, Sound, NoneFrom, TlbTypeOK
<1>10. CASE k = 1 /\ tlb[1] = CacheEntry(1, {"U"}) /\ my_exceptions = {"TLBMISSRW_READ"}
  <2>0. {"U"} \in SUBSET XWRU /\ CacheKind(k) = "dcop"
    BY <1>10 DEF XWRU, CacheKind
  <2>1. tlb[1].V /\ tlb[1].vpn = va /\ tlb[1].perm = {"U"}
    BY <1>10, <2>0, CacheEntryIs DEF va
  <2>2. /\ Hits(Legacy, mmAsid, va) = {1} /\ Lowest(Hits(Legacy, mmAsid, va)) = 1
        /\ Cardinality(Hits(Legacy, mmAsid, va)) = 1
    BY <1>3, <1>4, <1>10, <2>1, SlotProbe
  <2>3. Causes("dcop", va) = {"PRIV_NO_READ"} /\ EventOf("PRIV_NO_READ") = "error"
    BY <2>1, <2>2, HitCauses DEF Needs, EventOf
  <2>4. /\ my_exceptions' = my_exceptions \cup {"PRIV_NO_READ"} /\ my_event_handle_error_helper("PRIV_NO_READ", va)
        /\ Replay /\ (mmDead' <=> mmDead)
    BY <1>2, <1>5, <2>0, <2>3, DoError
  <2>5. Wrote(1, Widened(1, "R"))
    BY <1>3, <1>10, <2>4, Repaired
  <2>6. Widened(1, "R") = CacheEntry(1, {"U"} \cup {"R"}) /\ Widened(1, "R") \in Entries
    <3>1. "R" \in XWRU /\ DATA_PAGE + 1 * ONE_MB \in Nat /\ DATA_PAGE \in Nat
      BY MmuAssumption DEF XWRU, ONE_MB
    <3> QED
      BY <1>10, <2>0, <3>1, WidenedIs DEF CacheEntry
  <2>7. {"U"} \cup {"R"} = {"U", "R"}
    OBVIOUS
  <2>8. /\ TlbTypeOK' /\ tlb'[1] = CacheEntry(1, {"U", "R"}) /\ (NoneFrom(5)' <=> NoneFrom(5))
        /\ \A j \in 1 .. 4 : j # 1 => tlb'[j] = tlb[j]
    BY <2>5, <2>6, <2>7, SlotWrite
  <2> QED
    BY <1>10, <2>4, <2>8 DEF CacheInv, CacheDone, Replay, SameRest
<1>11. \/ ~ tlb[k].V
       \/ tlb[k] = CacheEntry(k, MissPerm(k)) /\ my_exceptions = {MissCause(k)}
       \/ k = 1 /\ CacheDone(1) /\ my_exceptions = {"TLBMISSRW_READ", "PRIV_NO_READ"}
  BY DEF CacheInv
<1>12. k = 1 => MissPerm(k) = {"U"} /\ MissCause(k) = "TLBMISSRW_READ"
  BY DEF MissPerm, MissCause
<1>13. CASE tlb[k] = CacheEntry(k, MissPerm(k)) /\ my_exceptions = {MissCause(k)} /\ k = 1
  BY <1>10, <1>12, <1>13
<1>14. CASE tlb[k] = CacheEntry(k, MissPerm(k)) /\ k # 1
  BY <1>9, <1>14
<1>15. CASE k = 1 /\ CacheDone(1) /\ my_exceptions = {"TLBMISSRW_READ", "PRIV_NO_READ"}
  BY <1>9, <1>15 DEF CacheDone
<1> QED
  BY <1>8, <1>11, <1>13, <1>14, <1>15

LEMMA CacheStep ==
  ASSUME TlbTypeOK, ~ mmFail, ~ mmDead, mmProg = "cacheops", NEW at \in 1 .. 14,
         mmStep = [test |-> 1, at |-> at], CacheInv(at), MmNext
  PROVE  /\ TlbTypeOK' /\ ~ mmFail' /\ ~ mmDead' /\ mmProg' = mmProg
         /\ \/ mmStep' = After /\ CacheInv(at + 1)'
            \/ mmStep' = mmStep /\ CacheInv(at)'
<1> USE DEF Sound, SameRest
<1>0. MmArg = test_data_cache_ops[at]
  BY CacheCalls
<1>1. CASE at = 1
  <2>1. MmArg.op = "install"
    BY <1>0, <1>1 DEF test_data_cache_ops, Install
  <2> QED
    BY <1>1, <2>1, DoInstall DEF CacheInv, CacheDone, NoneFrom, TlbTypeOK
<1>2. CASE at = 2
  <2>1. MmArg.op = "user_mode"
    BY <1>0, <1>2 DEF test_data_cache_ops, UserMode
  <2> QED
    BY <1>2, <2>1, DoUserMode DEF CacheInv, CacheDone, NoneFrom, TlbTypeOK
<1>3. CASE at \in {3, 6, 9, 12}
  <2>1. MmArg.op = "clear"
    BY <1>0, <1>3 DEF test_data_cache_ops, ClearExceptions
  <2>2. /\ tlb' = tlb /\ mmStep' = After /\ SameRest /\ Sound /\ my_exceptions' = {} /\ mmData' = mmData
    BY <2>1, DoClear
  <2> QED
    BY <1>3, <2>2 DEF CacheInv, CacheDone, NoneFrom, TlbTypeOK
<1>4. CASE at \in {4, 7, 10, 13}
  <2>1. PICK k \in 1 .. 4 : at = 3 * k + 1
    <3>1. 4 = 3 * 1 + 1 /\ 7 = 3 * 2 + 1 /\ 10 = 3 * 3 + 1 /\ 13 = 3 * 4 + 1
      OBVIOUS
    <3> QED
      BY <1>4, <3>1
  <2> QED
    BY <2>1, CacheAccess
<1>5. CASE at \in {5, 8, 11, 14}
  <2>1. PICK k \in 1 .. 4 : at = 3 * k + 2
    <3>1. 5 = 3 * 1 + 2 /\ 8 = 3 * 2 + 2 /\ 11 = 3 * 3 + 2 /\ 14 = 3 * 4 + 2
      OBVIOUS
    <3> QED
      BY <1>5, <3>1
  <2>2. MmArg = Exceptions({MissCause(k)} \cup IF k = 1 THEN {"PRIV_NO_READ"} ELSE {})
    <3>1. {"TLBMISSRW_READ"} \cup {"PRIV_NO_READ"} = {"TLBMISSRW_READ", "PRIV_NO_READ"} /\ \A S : S \cup {} = S
      OBVIOUS
    <3>2. k = 1 \/ k = 2 \/ k = 3 \/ k = 4
      OBVIOUS
    <3> QED
      BY <1>0, <2>1, <3>1, <3>2 DEF test_data_cache_ops, MissCause
  <2>3. my_exceptions = {MissCause(k)} \cup IF k = 1 THEN {"PRIV_NO_READ"} ELSE {}
    BY <2>1 DEF CacheInv
  <2>4. MmQuiet
    BY <2>2, <2>3, DoExpect DEF Exceptions
  <2> QED
    BY <2>1, <2>4 DEF MmQuiet, CacheInv, CacheDone, NoneFrom, TlbTypeOK
<1> QED
  BY <1>1, <1>2, <1>3, <1>4, <1>5

-----------------------------------------------------------------------------
(* mmu_multi_tlb.c.                                                          *)

LEMMA MultiCalls ==
  ASSUME mmProg = "multi_tlb", mmStep.test = 1
  PROVE  /\ MmTest = test_multi_tlb /\ Len(MmTest) = 13 /\ MmArg = test_multi_tlb[mmStep.at]
<1>1. MmTest = test_multi_tlb
  BY DEF MmTest, Program
<1>2. Len(test_multi_tlb) = 13
  BY DEF test_multi_tlb
<1> QED
  BY <1>1, <1>2 DEF MmArg

LEMMA MultiEntryIs ==
  /\ MultiEntry \in Entries /\ MultiEntry.V /\ MultiEntry.asid = 1 /\ ~ MultiEntry.G
  /\ Overlaps(MultiEntry, MultiEntry) /\ ~ Overlaps(Fixed, MultiEntry)
  /\ Covers(MultiEntry, 1, DATA_PAGE + ONE_MB) /\ ~ Covers(Fixed, 1, DATA_PAGE + ONE_MB)
<1>1. MultiEntry \in Entries
  BY MmuAssumption DEF MultiEntry, create_mmu_entry, Entries, XWRU, ONE_MB
<1>2. MultiEntry.V /\ MultiEntry.asid = 1 /\ ~ MultiEntry.G
  BY DEF MultiEntry, create_mmu_entry
<1>3. Overlaps(MultiEntry, MultiEntry)
  BY DEF Overlaps, MultiEntry, create_mmu_entry
<1>4. ~ Overlaps(Fixed, MultiEntry)
  BY MmuAssumption DEF Overlaps, MultiEntry, Fixed, create_mmu_entry, page_start, ONE_MB
<1>5. Covers(MultiEntry, 1, DATA_PAGE + ONE_MB)
  BY DEF Covers, MultiEntry, create_mmu_entry
<1>6. ~ Covers(Fixed, 1, DATA_PAGE + ONE_MB)
  BY MmuAssumption DEF Covers, Fixed, create_mmu_entry, page_start, ONE_MB
<1> QED
  BY <1>1, <1>2, <1>3, <1>4, <1>5, <1>6

(* What is not valid is not found.                                           *)
LEMMA InvalidHidden ==
  ASSUME NEW f, ~ f.V
  PROVE  (\A asid, va : ~ Covers(f, asid, va)) /\ \A e : ~ Overlaps(f, e) /\ ~ Overlaps(e, f)
BY DEF Covers, Overlaps

LEMMA MultiStep ==
  ASSUME TlbTypeOK, ~ mmFail, ~ mmDead, mmProg = "multi_tlb", NEW at \in 1 .. 13,
         mmStep = [test |-> 1, at |-> at], MultiInv(at), MmNext
  PROVE  /\ TlbTypeOK' /\ ~ mmFail' /\ ~ mmDead' /\ mmProg' = mmProg
         /\ mmStep' = After /\ MultiInv(at + 1)'
<1> USE DEF Sound, SameRest
<1> DEFINE va == DATA_PAGE + ONE_MB
<1>0. MmArg = test_multi_tlb[at]
  BY MultiCalls
<1>a. 0 \in Legacy /\ 1 \in Legacy /\ 2 \in Legacy /\ Legacy \subseteq Nat
  BY MmuAssumption DEF Legacy, TLB_FIXED_ENTRIES
<1>b. tlb[0] = Fixed /\ \A j \in Legacy : j \notin {0, 1, 2} => ~ tlb[j].V
  BY <1>a DEF TlbTypeOK, MultiInv, NoneFrom
<1>1. CASE at = 1
  <2>1. MmArg.op = "install"
    BY <1>0, <1>1 DEF test_multi_tlb, Install
  <2> QED
    BY <1>1, <2>1, DoInstall DEF MultiInv, HoldsAt, NoneFrom, TlbTypeOK
<1>2. CASE at = 2
  <2>1. MmArg.op = "clear"
    BY <1>0, <1>2 DEF test_multi_tlb, ClearExceptions
  <2> QED
    BY <1>2, <2>1, DoClear DEF MultiInv, HoldsAt, NoneFrom, TlbTypeOK
<1>3. CASE at = 3
  <2>1. MmArg.op = "set_asid" /\ MmArg.asid = 1
    BY <1>0, <1>3 DEF test_multi_tlb, SetAsid
  <2>2. /\ tlb' = tlb /\ mmStep' = After /\ mmProg' = mmProg /\ evbMine' = evbMine
        /\ Sound /\ my_exceptions' = my_exceptions
    BY <2>1, DoSetAsid
  <2> QED
    BY <1>3, <2>2 DEF MultiInv, HoldsAt, NoneFrom, TlbTypeOK
<1>4. CASE at = 4
  <2>1. MmArg.op = "invasid" /\ MmArg.asid = 0
    BY <1>0, <1>4 DEF test_multi_tlb, InvAsid
  <2>2. /\ tlb' = tlbinvasid(tlb, 0) /\ mmStep' = After
        /\ SameRest /\ Sound /\ my_exceptions' = my_exceptions /\ mmData' = mmData
    BY <2>1, DoInvAsid
  <2>3. TlbTypeOK' /\ \A i \in Legacy : ~ tlb'[i].V \/ tlb'[i] = tlb[i]
    BY <2>2, InvAsidIs
  <2> QED
    BY <1>4, <1>a, <2>2, <2>3 DEF MultiInv, HoldsAt, NoneFrom
<1>5. CASE at \in {5, 8}
  <2> DEFINE k == IF at = 5 THEN 1 ELSE 2
  <2>1. MmArg.op = "tlbw" /\ MmArg.i = k /\ MmArg.e = MultiEntry
    <3>1. CASE at = 5
      BY <1>0, <3>1 DEF test_multi_tlb, Tlbw, MultiEntry
    <3>2. CASE at = 8
      <4>1. MmArg = Tlbw(MultiEntry, 2)
        BY <1>0, <3>2 DEF test_multi_tlb, MultiEntry
      <4> QED
        BY <3>2, <4>1 DEF Tlbw
    <3> QED
      BY <1>5, <3>1, <3>2
  <2>2. /\ Wrote(k, MultiEntry) /\ mmStep' = After
        /\ SameRest /\ Sound /\ my_exceptions' = my_exceptions /\ mmData' = mmData
    BY <2>1, DoTlbw
  <2>3. k \in 1 .. 5 /\ MultiEntry \in Entries
    BY MultiEntryIs
  <2>4. TlbTypeOK' /\ tlb'[k] = MultiEntry /\ (\A j \in 1 .. 5 : j # k => tlb'[j] = tlb[j]) /\ (NoneFrom(3)' <=> NoneFrom(3))
    <3> HIDE DEF k
    <3>1. k \in {1, 2}
      BY DEF k
    <3> QED
      BY <2>2, <2>3, <3>1, SlotWrite
  <2> QED
    BY <1>5, <2>2, <2>4 DEF MultiInv, HoldsAt
<1>6. CASE at = 6
  <2>1. MmArg = Expect("tlboc", MultiEntry, 1)
    BY <1>0, <1>6 DEF test_multi_tlb, Overlap, MultiEntry
  <2>2. tlb[1] = MultiEntry /\ ~ tlb[2].V
    BY <1>6 DEF MultiInv, HoldsAt
  <2>3. Overlaps(tlb[1], MultiEntry) /\ \A j \in Legacy : j # 1 => ~ Overlaps(tlb[j], MultiEntry)
    BY <1>b, <2>2, MultiEntryIs, InvalidHidden
  <2>4. tlboc(MultiEntry) = 1
    BY <1>a, <2>3, OverlapOne
  <2>5. MmQuiet
    BY <2>1, <2>4, DoExpect
  <2> QED
    BY <1>6, <2>5 DEF MmQuiet, MultiInv, HoldsAt, NoneFrom, TlbTypeOK
<1>7. CASE at = 7
  <2>1. MmArg = Probe(1, va, 1)
    BY <1>0, <1>7 DEF test_multi_tlb
  <2>2. tlb[1] = MultiEntry /\ ~ tlb[2].V
    BY <1>7 DEF MultiInv, HoldsAt
  <2>3. Covers(tlb[1], 1, va) /\ \A j \in Legacy : j # 1 => ~ Covers(tlb[j], 1, va)
    BY <1>b, <2>2, MultiEntryIs, InvalidHidden
  <2> HIDE DEF va
  <2>4. tlbp(1, va) = 1 /\ Cardinality(Hits(Legacy, 1, va)) = 1
    BY <1>a, <2>3, HitOne
  <2>5. MmQuiet
    BY <2>1, <2>4, DoProbe
  <2> QED
    BY <1>7, <2>5 DEF MmQuiet, MultiInv, HoldsAt, NoneFrom, TlbTypeOK
<1>9. CASE at = 9
  <2>1. MmArg = Expect("tlboc", MultiEntry, SEVERAL)
    BY <1>0, <1>9 DEF test_multi_tlb, Overlap, MultiEntry
  <2>2. tlb[1] = MultiEntry /\ tlb[2] = MultiEntry
    BY <1>9 DEF MultiInv, HoldsAt
  <2>3. /\ Overlaps(tlb[1], MultiEntry) /\ Overlaps(tlb[2], MultiEntry)
        /\ \A j \in Legacy : j \notin {1, 2} => ~ Overlaps(tlb[j], MultiEntry)
    BY <1>b, <2>2, MultiEntryIs, InvalidHidden
  <2>4. tlboc(MultiEntry) = SEVERAL
    BY <1>a, <2>3, OverlapSeveral
  <2>5. MmQuiet
    BY <2>1, <2>4, DoExpect
  <2> QED
    BY <1>9, <2>5 DEF MmQuiet, MultiInv, HoldsAt, NoneFrom, TlbTypeOK
<1>10. CASE at = 10
  <2>1. MmArg = Probe(1, va, 1)
    BY <1>0, <1>10 DEF test_multi_tlb
  <2>2. tlb[1] = MultiEntry /\ tlb[2] = MultiEntry /\ Mine("nmi")
    BY <1>10 DEF MultiInv, HoldsAt, Mine, MyEvents
  <2>3. Hits(Legacy, 1, va) = {1, 2}
    BY <1>a, <1>b, <2>2, MultiEntryIs, InvalidHidden DEF Hits
  <2> HIDE DEF va
  <2>4. tlbp(1, va) = 1 /\ Cardinality(Hits(Legacy, 1, va)) > 1
    BY <2>3, PairIs DEF tlbp
  <2>5. MmCheck /\ MmArg.kind = "tlbp" /\ MmArg.arg.asid = 1 /\ MmArg.arg.va = va /\ MmArg.r = 1
    BY <2>1, Dispatch DEF Probe, Expect
  <2>6. /\ ~ mmFail' /\ ~ mmDead' /\ my_exceptions' = my_exceptions \cup {"MULTI_TLB_MATCH"}
        /\ mmStep' = After /\ SameRest /\ tlb' = tlb /\ mmData' = mmData
    BY <2>2, <2>4, <2>5 DEF MmCheck, MmCall, After, mmEnv
  <2> QED
    BY <1>10, <2>6 DEF MultiInv, HoldsAt, NoneFrom, TlbTypeOK
<1>11. CASE at = 11
  <2>1. MmArg = Expect("exceptions", 0, {"MULTI_TLB_MATCH"})
    BY <1>0, <1>11 DEF test_multi_tlb, Exceptions
  <2>2. MmQuiet
    BY <1>11, <2>1, DoExpect DEF MultiInv
  <2> QED
    BY <1>11, <2>2 DEF MmQuiet, MultiInv, HoldsAt, NoneFrom, TlbTypeOK
<1>12. CASE at \in {12, 13}
  <2> DEFINE k == IF at = 12 THEN 1 ELSE 2
  <2>1. MmArg.op = "remove" /\ MmArg.i = k
    BY <1>0, <1>12 DEF test_multi_tlb, Remove
  <2>2. k \in 1 .. 5 /\ k \in Legacy \cup Extended /\ k \in {1, 2}
    BY <1>a
  <2>3. k = 1 => at = 12
    OBVIOUS
  <2>4. k = 2 => at = 13
    BY <1>12
  <2> HIDE DEF k
  <2>5. /\ Wrote(k, Invalid(k)) /\ mmStep' = After
        /\ SameRest /\ Sound /\ my_exceptions' = my_exceptions /\ mmData' = mmData
    BY <2>1, <2>2, DoRemove DEF TlbTypeOK
  <2>6. /\ TlbTypeOK' /\ ~ tlb'[k].V /\ (\A j \in 1 .. 5 : j # k => tlb'[j] = tlb[j])
        /\ (NoneFrom(3)' <=> NoneFrom(3))
    BY <2>2, <2>5, InvalidIs, SlotWrite
  <2> QED
    BY <1>12, <2>2, <2>3, <2>4, <2>5, <2>6 DEF MultiInv, HoldsAt
<1> QED
  BY <1>1, <1>2, <1>3, <1>4, <1>5, <1>6, <1>7, <1>9, <1>10, <1>11, <1>12

-----------------------------------------------------------------------------
(* mmu_overlap.c.                                                            *)

ProbeEntry(v, size) == create_mmu_entry(TRUE, 0, v, XWRU \ {"U"}, 0, size)

LEMMA OverlapCalls ==
  ASSUME mmProg = "overlap", mmStep.test = 1
  PROVE  MmTest = test_overlap /\ Len(MmTest) = 11 /\ MmArg = test_overlap[mmStep.at]
<1>1. MmTest = test_overlap
  BY DEF MmTest, Program
<1>2. Len(test_overlap) = 11
  BY DEF test_overlap
<1> QED
  BY <1>1, <1>2 DEF MmArg

LEMMA OverlapCallsAre ==
  LET va == 5 * ONE_MB IN
  /\ test_overlap[1] = AddTrans(1, va, 0, ONE_MB, XWRU)
  /\ test_overlap[2] = Probe(0, DATA_PAGE + 5 * ONE_MB, 1)
  /\ test_overlap[3] = Expect("tlboc", ProbeEntry(va, 1), 1)
  /\ test_overlap[4] = WriteIfClear(ProbeEntry(va, 1), 2, 1)
  /\ test_overlap[5] = Expect("tlboc", ClearEntry, TLB_NOT_FOUND)
  /\ test_overlap[6] = WriteIfClear(ClearEntry, 2, TLB_NOT_FOUND)
  /\ test_overlap[7] = Expect("tlboc", ProbeEntry(va, 4 * ONE_MB), SEVERAL)
  /\ test_overlap[8] = Remove(1)
  /\ test_overlap[9] = Probe(0, DATA_PAGE + 5 * ONE_MB, TLB_NOT_FOUND)
  /\ test_overlap[10] = Remove(2)
  /\ test_overlap[11] = Probe(0, DATA_PAGE + 6 * ONE_MB, TLB_NOT_FOUND)
<1>1. page_start(DATA_PAGE, ONE_MB) + 5 * ONE_MB = 5 * ONE_MB
  BY MmuAssumption DEF page_start, ONE_MB
<1>2. 5 * ONE_MB + ONE_MB = 6 * ONE_MB
  BY DEF ONE_MB
<1> QED
  BY <1>1, <1>2 DEF test_overlap, ProbeEntry, ClearEntry, Overlap

LEMMA OverlapEntryIs ==
  /\ OverlapEntry \in Entries /\ ClearEntry \in Entries /\ OverlapEntry.V /\ ClearEntry.V
  /\ \A asid : \A v \in Nat : Covers(OverlapEntry, asid, v) <=> v \in 5 * ONE_MB .. 6 * ONE_MB - 1
  /\ \A asid : \A v \in Nat : Covers(ClearEntry, asid, v) <=> v = 6 * ONE_MB
  /\ Overlaps(OverlapEntry, ProbeEntry(5 * ONE_MB, 1)) /\ ~ Overlaps(Fixed, ProbeEntry(5 * ONE_MB, 1))
  /\ ~ Overlaps(OverlapEntry, ClearEntry) /\ ~ Overlaps(Fixed, ClearEntry)
  /\ Overlaps(OverlapEntry, ProbeEntry(5 * ONE_MB, 4 * ONE_MB))
  /\ Overlaps(ClearEntry, ProbeEntry(5 * ONE_MB, 4 * ONE_MB))
  /\ ~ Overlaps(Fixed, ProbeEntry(5 * ONE_MB, 4 * ONE_MB))
<1> USE DEF OverlapEntry, ClearEntry, ProbeEntry, Fixed, create_mmu_entry, ONE_MB
<1>1. OverlapEntry \in Entries /\ ClearEntry \in Entries /\ OverlapEntry.V /\ ClearEntry.V
  BY DEF Entries, XWRU
<1>2. \A asid : \A v \in Nat : Covers(OverlapEntry, asid, v) <=> v \in 5 * ONE_MB .. 6 * ONE_MB - 1
  BY DEF Covers, page_start
<1>3. \A asid : \A v \in Nat : Covers(ClearEntry, asid, v) <=> v = 6 * ONE_MB
  BY DEF Covers, page_start
<1>4. Overlaps(OverlapEntry, ProbeEntry(5 * ONE_MB, 1)) /\ ~ Overlaps(Fixed, ProbeEntry(5 * ONE_MB, 1))
  BY DEF Overlaps, page_start
<1>5. ~ Overlaps(OverlapEntry, ClearEntry) /\ ~ Overlaps(Fixed, ClearEntry)
  BY DEF Overlaps, page_start
<1>6. Overlaps(OverlapEntry, ProbeEntry(5 * ONE_MB, 4 * ONE_MB)) /\ ~ Overlaps(Fixed, ProbeEntry(5 * ONE_MB, 4 * ONE_MB))
  BY DEF Overlaps, page_start
<1>7. Overlaps(ClearEntry, ProbeEntry(5 * ONE_MB, 4 * ONE_MB))
  BY DEF Overlaps, page_start
<1> QED
  BY <1>1, <1>2, <1>3, <1>4, <1>5, <1>6, <1>7

LEMMA OverlapStep ==
  ASSUME TlbTypeOK, ~ mmFail, ~ mmDead, mmProg = "overlap", NEW at \in 1 .. 11,
         mmStep = [test |-> 1, at |-> at], OverlapInv(at), MmNext
  PROVE  /\ TlbTypeOK' /\ ~ mmFail' /\ ~ mmDead' /\ mmProg' = mmProg
         /\ mmStep' = After /\ OverlapInv(at + 1)'
<1> USE DEF Sound, SameRest
<1>0. MmArg = test_overlap[at]
  BY OverlapCalls
<1>a. 0 \in Legacy /\ 1 \in Legacy /\ 2 \in Legacy /\ Legacy \subseteq Nat
  BY MmuAssumption DEF Legacy, TLB_FIXED_ENTRIES
<1>b. tlb[0] = Fixed /\ \A j \in Legacy : j \notin {0, 1, 2} => ~ tlb[j].V
  BY <1>a DEF TlbTypeOK, OverlapInv, NoneFrom
<1>c. /\ DATA_PAGE + 5 * ONE_MB \in 5 * ONE_MB .. 6 * ONE_MB - 1 /\ DATA_PAGE + 5 * ONE_MB \in Nat
      /\ DATA_PAGE + 6 * ONE_MB \notin 5 * ONE_MB .. 6 * ONE_MB - 1 /\ DATA_PAGE + 6 * ONE_MB \in Nat
      /\ 5 * ONE_MB \in Nat /\ 5 * ONE_MB >= ONE_MB /\ DATA_PAGE + 5 * ONE_MB # 6 * ONE_MB
      /\ DATA_PAGE + 5 * ONE_MB >= ONE_MB /\ DATA_PAGE + 6 * ONE_MB >= ONE_MB
  BY MmuAssumption DEF ONE_MB
<1>d. \A asid : \A va \in Nat : va >= ONE_MB => ~ Covers(tlb[0], asid, va)
  BY <1>b, FixedCovers DEF ONE_MB
<1>1. CASE at = 1
  <2>1. MmArg = AddTrans(1, 5 * ONE_MB, 0, ONE_MB, XWRU)
    BY <1>0, <1>1, OverlapCallsAre
  <2>2. MmArg.op = "add_trans" /\ MmArg.i = 1 /\ MmArg.e = OverlapEntry
    BY <2>1 DEF AddTrans, OverlapEntry
  <2>3. ~ tlb[1].V /\ ~ tlb[2].V
    BY <1>1 DEF OverlapInv, HoldsAt
  <2>4. OverlapEntry.vpn = 5 * ONE_MB
    BY DEF OverlapEntry, create_mmu_entry
  <2>5. \A j \in Legacy : ~ Covers(tlb[j], OverlapEntry.asid, OverlapEntry.vpn) /\ ~ Covers(tlb[j], mmAsid, OverlapEntry.vpn)
    BY <1>b, <1>c, <1>d, <2>3, <2>4, InvalidHidden
  <2>6. /\ Wrote(1, OverlapEntry) /\ mmStep' = After
        /\ SameRest /\ Sound /\ my_exceptions' = my_exceptions /\ mmData' = mmData
    BY <2>2, <2>5, DoAdd
  <2>7. /\ TlbTypeOK' /\ tlb'[1] = OverlapEntry /\ (\A j \in 1 .. 5 : j # 1 => tlb'[j] = tlb[j])
        /\ (NoneFrom(3)' <=> NoneFrom(3))
    BY <2>6, OverlapEntryIs, SlotWrite
  <2> QED
    BY <1>1, <2>6, <2>7 DEF OverlapInv, HoldsAt
<1>2. CASE at = 2
  <2>1. MmArg = Probe(0, DATA_PAGE + 5 * ONE_MB, 1)
    BY <1>0, <1>2, OverlapCallsAre
  <2>2. tlb[1] = OverlapEntry /\ ~ tlb[2].V
    BY <1>2 DEF OverlapInv, HoldsAt
  <2>3. /\ Covers(tlb[1], 0, DATA_PAGE + 5 * ONE_MB)
        /\ \A j \in Legacy : j # 1 => ~ Covers(tlb[j], 0, DATA_PAGE + 5 * ONE_MB)
    BY <1>b, <1>c, <1>d, <2>2, OverlapEntryIs, InvalidHidden
  <2>4. tlbp(0, DATA_PAGE + 5 * ONE_MB) = 1 /\ Cardinality(Hits(Legacy, 0, DATA_PAGE + 5 * ONE_MB)) = 1
    BY <1>a, <2>3, HitOne
  <2>5. MmQuiet
    BY <2>1, <2>4, DoProbe
  <2> QED
    BY <1>2, <2>5 DEF MmQuiet, OverlapInv, HoldsAt, NoneFrom, TlbTypeOK
<1>3. CASE at \in {3, 4}
  <2>1. tlb[1] = OverlapEntry /\ ~ tlb[2].V
    BY <1>3 DEF OverlapInv, HoldsAt
  <2>2. /\ Overlaps(tlb[1], ProbeEntry(5 * ONE_MB, 1))
        /\ \A j \in Legacy : j # 1 => ~ Overlaps(tlb[j], ProbeEntry(5 * ONE_MB, 1))
    BY <1>b, <2>1, OverlapEntryIs, InvalidHidden
  <2>3. tlboc(ProbeEntry(5 * ONE_MB, 1)) = 1 /\ 1 # TLB_NOT_FOUND
    BY <1>a, <2>2, OverlapOne DEF TLB_NOT_FOUND
  <2>4. CASE at = 3
    <3>1. MmQuiet
      BY <1>0, <2>3, <2>4, OverlapCallsAre, DoExpect
    <3> QED
      BY <2>4, <3>1 DEF MmQuiet, OverlapInv, HoldsAt, NoneFrom, TlbTypeOK
  <2>5. CASE at = 4
    <3>0. MmArg = WriteIfClear(ProbeEntry(5 * ONE_MB, 1), 2, 1)
      BY <1>0, <2>5, OverlapCallsAre
    <3>1. MmQuiet
      BY <3>0, <2>3, DoWriteIfClear DEF MmQuiet
    <3> QED
      BY <2>5, <3>1 DEF MmQuiet, OverlapInv, HoldsAt, NoneFrom, TlbTypeOK
  <2> QED
    BY <1>3, <2>4, <2>5
<1>4. CASE at \in {5, 6}
  <2>1. tlb[1] = OverlapEntry /\ ~ tlb[2].V
    BY <1>4 DEF OverlapInv, HoldsAt
  <2>2. \A j \in Legacy : ~ Overlaps(tlb[j], ClearEntry)
    BY <1>b, <2>1, OverlapEntryIs, InvalidHidden
  <2>3. tlboc(ClearEntry) = TLB_NOT_FOUND
    BY <2>2, OverlapNone
  <2>4. CASE at = 5
    <3>1. MmQuiet
      BY <1>0, <2>3, <2>4, OverlapCallsAre, DoExpect
    <3> QED
      BY <2>4, <3>1 DEF MmQuiet, OverlapInv, HoldsAt, NoneFrom, TlbTypeOK
  <2>5. CASE at = 6
    <3>0. MmArg = WriteIfClear(ClearEntry, 2, TLB_NOT_FOUND)
      BY <1>0, <2>5, OverlapCallsAre
    <3>1. /\ Wrote(2, ClearEntry) /\ mmStep' = After
          /\ SameRest /\ Sound /\ my_exceptions' = my_exceptions /\ mmData' = mmData
      BY <3>0, <2>3, DoWriteIfClear
    <3>2. /\ TlbTypeOK' /\ tlb'[2] = ClearEntry /\ (\A j \in 1 .. 5 : j # 2 => tlb'[j] = tlb[j])
          /\ (NoneFrom(3)' <=> NoneFrom(3))
      BY <3>1, OverlapEntryIs, SlotWrite
    <3> QED
      BY <2>5, <3>1, <3>2 DEF OverlapInv, HoldsAt
  <2> QED
    BY <1>4, <2>4, <2>5
<1>7. CASE at = 7
  <2>1. tlb[1] = OverlapEntry /\ tlb[2] = ClearEntry
    BY <1>7 DEF OverlapInv, HoldsAt
  <2> DEFINE e == ProbeEntry(5 * ONE_MB, 4 * ONE_MB)
  <2>2. Overlaps(tlb[1], e) /\ Overlaps(tlb[2], e) /\ \A j \in Legacy : j \notin {1, 2} => ~ Overlaps(tlb[j], e)
    BY <1>b, <2>1, OverlapEntryIs, InvalidHidden
  <2>3. tlboc(e) = SEVERAL
    BY <1>a, <2>2, OverlapSeveral
  <2>4. MmQuiet
    BY <1>0, <1>7, <2>3, OverlapCallsAre, DoExpect
  <2> QED
    BY <1>7, <2>4 DEF MmQuiet, OverlapInv, HoldsAt, NoneFrom, TlbTypeOK
<1>8. CASE at \in {8, 10}
  <2>1. PICK k \in {1, 2} : k = IF at = 8 THEN 1 ELSE 2
    OBVIOUS
  <2>2. MmArg = Remove(k)
    BY <1>0, <1>8, <2>1, OverlapCallsAre
  <2>3. MmArg.op = "remove" /\ MmArg.i = k /\ k \in 1 .. 5 /\ k \in Legacy \cup Extended
    BY <1>a, <2>1, <2>2 DEF Remove
  <2>5. /\ Wrote(k, Invalid(k)) /\ mmStep' = After
        /\ SameRest /\ Sound /\ my_exceptions' = my_exceptions /\ mmData' = mmData
    BY <2>3, DoRemove DEF TlbTypeOK
  <2>6. /\ TlbTypeOK' /\ ~ tlb'[k].V /\ (\A j \in 1 .. 5 : j # k => tlb'[j] = tlb[j])
        /\ (NoneFrom(3)' <=> NoneFrom(3))
    BY <2>1, <2>3, <2>5, InvalidIs, SlotWrite
  <2> QED
    BY <1>8, <2>1, <2>5, <2>6 DEF OverlapInv, HoldsAt
<1>9. CASE at \in {9, 11}
  <2>1. PICK va \in Nat : va = IF at = 9 THEN DATA_PAGE + 5 * ONE_MB ELSE DATA_PAGE + 6 * ONE_MB
    BY <1>c
  <2>2. MmArg = Probe(0, va, TLB_NOT_FOUND)
    BY <1>0, <1>9, <2>1, OverlapCallsAre
  <2>3. ~ tlb[1].V /\ (~ tlb[2].V \/ (tlb[2] = ClearEntry /\ at = 9))
    BY <1>9 DEF OverlapInv, HoldsAt
  <2>4. \A j \in Legacy : ~ Covers(tlb[j], 0, va)
    BY <1>b, <1>c, <1>d, <2>1, <2>3, OverlapEntryIs, InvalidHidden
  <2>5. tlbp(0, va) = TLB_NOT_FOUND /\ Cardinality(Hits(Legacy, 0, va)) = 0
    BY <2>4, HitNone
  <2>6. MmQuiet
    BY <2>2, <2>5, DoProbe
  <2> QED
    BY <1>9, <2>6 DEF MmQuiet, OverlapInv, HoldsAt, NoneFrom, TlbTypeOK
<1> QED
  BY <1>1, <1>2, <1>3, <1>4, <1>7, <1>8, <1>9

-----------------------------------------------------------------------------
(* mmu_asids.c.                                                              *)

AsidVa == DATA_PAGE + 5 * ONE_MB

LEMMA AsidsCalls ==
  ASSUME mmProg = "asids", mmStep.test = 1
  PROVE  MmTest = test_asids /\ Len(MmTest) = 17 /\ MmArg = test_asids[mmStep.at]
<1>1. MmTest = test_asids
  BY DEF MmTest, Program
<1>2. Len(test_asids) = 17
  BY DEF test_asids
<1> QED
  BY <1>1, <1>2 DEF MmArg

LEMMA AsidsCallsAre ==
  /\ test_asids[1] = Tlbw(AsidEntry, 1)
  /\ test_asids[2] = Expect("tlboc", AsidEntry, 1)
  /\ test_asids[3] = InvAsid(1)
  /\ test_asids[4] = Expect("tlboc", AsidEntry, TLB_NOT_FOUND)
  /\ test_asids[5] = Data("deadbeef")
  /\ test_asids[6] = Tlbw(AsidEntry, 1)
  /\ test_asids[7] = SetAsid(1)
  /\ test_asids[8] = Access("load", AsidVa, "deadbeef", TRUE)
  /\ test_asids[9] = Access("store", AsidVa, "cafebabe", TRUE)
  /\ test_asids[10] = Expect("data", 0, "cafebabe")
  /\ test_asids[11] = SetAsid(2)
  /\ test_asids[12] = Data("deadbeef")
  /\ test_asids[13] = LoadOther(AsidVa, "deadbeef")
  /\ test_asids[14] = InvAsid(1)
  /\ test_asids[15] = SetAsid(1)
  /\ test_asids[16] = Data("cafebabe")
  /\ test_asids[17] = LoadOther(AsidVa, "cafebabe")
<1>1. AsidEntry.asid = 1
  BY DEF AsidEntry, create_mmu_entry
<1> QED
  BY <1>1 DEF test_asids, AsidEntry, AsidVa, Overlap, Load, Store, Word

LEMMA AsidEntryIs ==
  /\ AsidEntry \in Entries /\ AsidEntry.V /\ ~ AsidEntry.G /\ AsidEntry.asid = 1
  /\ Covers(AsidEntry, 1, AsidVa) /\ (\A asid, va : asid # 1 => ~ Covers(AsidEntry, asid, va))
  /\ Overlaps(AsidEntry, AsidEntry) /\ ~ Overlaps(Fixed, AsidEntry)
  /\ AsidEntry.perm = XWRU \ {"U"} /\ hex_tlb_phys_addr(AsidEntry, AsidVa) = DATA_PAGE
<1> USE DEF AsidEntry, Fixed, create_mmu_entry, ONE_MB
<1>1. AsidEntry \in Entries /\ AsidEntry.V /\ ~ AsidEntry.G /\ AsidEntry.asid = 1 /\ AsidEntry.perm = XWRU \ {"U"}
  BY MmuAssumption DEF Entries, XWRU
<1>2. Covers(AsidEntry, 1, AsidVa) /\ (\A asid, va : asid # 1 => ~ Covers(AsidEntry, asid, va))
  BY DEF Covers, AsidVa
<1>3. Overlaps(AsidEntry, AsidEntry)
  BY DEF Overlaps
<1>4. ~ Overlaps(Fixed, AsidEntry)
  BY MmuAssumption DEF Overlaps, page_start
<1>5. hex_tlb_phys_addr(AsidEntry, AsidVa) = DATA_PAGE
  BY MmuAssumption DEF hex_tlb_phys_addr, page_start, AsidVa
<1> QED
  BY <1>1, <1>2, <1>3, <1>4, <1>5

LEMMA RefilledIs ==
  /\ Refilled \in Entries /\ Refilled.V /\ Refilled.G /\ Refilled.perm = XWRU
  /\ \A asid : Covers(Refilled, asid, AsidVa)
  /\ hex_tlb_phys_addr(Refilled, AsidVa) = AsidVa /\ AsidVa # DATA_PAGE /\ AsidVa \in Nat
  /\ page_start(AsidVa, ONE_MB) = 5 * ONE_MB /\ AsidVa >= ONE_MB
<1> USE DEF Refilled, create_mmu_entry, ONE_MB
<1>1. Refilled \in Entries /\ Refilled.V /\ Refilled.G /\ Refilled.perm = XWRU
  BY DEF Entries, XWRU
<1>2. \A asid : Covers(Refilled, asid, AsidVa)
  BY MmuAssumption DEF Covers, page_start, AsidVa
<1>3. hex_tlb_phys_addr(Refilled, AsidVa) = AsidVa /\ AsidVa # DATA_PAGE /\ AsidVa \in Nat
  BY MmuAssumption DEF hex_tlb_phys_addr, page_start, AsidVa
<1>4. page_start(AsidVa, ONE_MB) = 5 * ONE_MB /\ AsidVa >= ONE_MB
  BY MmuAssumption DEF page_start, AsidVa
<1> QED
  BY <1>1, <1>2, <1>3, <1>4

(* A miss the runtime's refill repairs.                                      *)
LEMMA DoRefill ==
  ASSUME MmNext, NEW kind, NEW va, MmArg.op = "access", MmArg.kind = kind, MmArg.va = va, NEW cause,
         Causes(kind, va) = {cause}, EventOf(cause) \in {"tlbmissrw", "tlbmissx"}, ~ Mine(EventOf(cause)),
         tlbp(0, page_start(va, ONE_MB)) = TLB_NOT_FOUND
  PROVE  /\ my_exceptions' = my_exceptions /\ Replay /\ (mmDead' <=> mmDead)
         /\ \E i \in RefillIndex :
              Wrote(i, create_mmu_entry(TRUE, 0, page_start(va, ONE_MB), XWRU, page_start(va, ONE_MB), ONE_MB))
<1>2. AccessFaults
  BY Dispatch DEF AccessCompletes
<1>3. LET event == EventOf(cause) IN
         \/ /\ Mine(event)
            /\ my_exceptions' = my_exceptions \cup {cause}
            /\ CASE event = "error" -> my_event_handle_error_helper(cause, va)
                 [] event = "nmi" -> my_event_handle_nmi_helper
                 [] event = "tlbmissrw" -> my_event_handle_tlbmissrw_helper(va)
                 [] event = "tlbmissx" -> my_event_handle_tlbmissx_helper(va)
            /\ UNCHANGED mmDead
         \/ /\ ~ Mine(event)
            /\ UNCHANGED my_exceptions
            /\ IF event \in {"tlbmissrw", "tlbmissx"} THEN DefaultRefill(va)
               ELSE mmDead' = TRUE /\ UNCHANGED tlb
  BY <1>2, Zenon DEF AccessFaults
<1>4. my_exceptions' = my_exceptions /\ DefaultRefill(va)
  BY <1>3
<1>5. Replay
  BY <1>2 DEF AccessFaults, Replay, SameRest, mmEnv
<1> QED
  BY <1>4, <1>5 DEF DefaultRefill, RefillIndex, Wrote

(* A load that must not find the word: its entry translates elsewhere.       *)
LEMMA DoLoadOther ==
  ASSUME MmNext, ~ mmFail, NEW va, NEW v, NEW i,
         MmArg = LoadOther(va, v), tlbp(mmAsid, va) = i, Causes("load", va) = {},
         hex_tlb_phys_addr(tlb[i], va) # DATA_PAGE, v # "elsewhere"
  PROVE  /\ tlb' = tlb /\ mmStep' = After /\ SameRest /\ Sound /\ my_exceptions' = my_exceptions
         /\ mmData' = mmData
<1>1. MmArg.op = "access" /\ MmArg.kind = "load" /\ MmArg.va = va /\ MmArg.v = v
  BY DEF LoadOther, Access
<1>a. MmArg.same = FALSE
  BY Zenon DEF LoadOther, Access
<1>2. AccessCompletes
  BY <1>1, Dispatch DEF AccessFaults
<1>3. mmFail' = (mmFail \/ ("elsewhere" = v) # MmArg.same)
  BY <1>1, <1>2 DEF AccessCompletes
<1>4. ~ mmFail'
  <2>1. ("elsewhere" = v) = FALSE
    OBVIOUS
  <2> QED
    BY <1>a, <1>3, <2>1, Zenon
<1> QED
  BY <1>1, <1>2, <1>4 DEF AccessCompletes, MmCall, After, SameRest, Sound, mmEnv

(* The access under ASID 2, and the last one: only the entry of the refill   *)
(* is seen, and it maps the address to itself.                               *)
LEMMA AsidsOther ==
  ASSUME TlbTypeOK, ~ mmFail, ~ mmDead, mmProg = "asids", NEW at \in {13, 17},
         mmStep = [test |-> 1, at |-> at], AsidsInv(at), MmNext
  PROVE  /\ TlbTypeOK' /\ ~ mmFail' /\ ~ mmDead' /\ mmProg' = mmProg
         /\ \/ mmStep' = After /\ AsidsInv(at + 1)'
            \/ mmStep' = mmStep /\ AsidsInv(at)'
<1> USE DEF SameRest
<1>a. 0 \in Legacy /\ 1 \in Legacy /\ Legacy \subseteq Nat /\ RefillIndex \subseteq Legacy /\ 0 \notin RefillIndex
      /\ \A j \in Legacy : j \in {0, 1} \/ j \in 2 .. 5 \/ j \in RefillIndex
  BY MmuAssumption DEF Legacy, TLB_FIXED_ENTRIES, RefillIndex
<1>b. tlb[0] = Fixed /\ \A j \in 2 .. 5 : ~ tlb[j].V
  BY DEF TlbTypeOK, AsidsInv
<1>c. /\ at = 13 => mmAsid = 2 /\ tlb[1] = AsidEntry
      /\ at = 17 => mmAsid = 1 /\ ~ tlb[1].V
      /\ \A i \in RefillIndex : tlb[i].V => tlb[i] = Refilled
      /\ \A i, j \in RefillIndex : tlb[i].V /\ tlb[j].V => i = j
      /\ ~ userMode /\ ~ evbMine
  BY DEF AsidsInv, HoldsAt
<1>d. ~ Covers(tlb[0], mmAsid, AsidVa) /\ ~ Covers(tlb[1], mmAsid, AsidVa)
  BY <1>b, <1>c, RefilledIs, FixedCovers, AsidEntryIs, InvalidHidden DEF ONE_MB
<1>0. MmArg = test_asids[at]
  BY AsidsCalls
<1>1. PICK v \in {"deadbeef", "cafebabe"} : MmArg = LoadOther(AsidVa, v)
  BY <1>0, AsidsCallsAre
<1>e. MmArg.op = "access" /\ MmArg.kind = "load" /\ MmArg.va = AsidVa
  BY <1>1 DEF LoadOther, Access
<1>2. CASE \A i \in RefillIndex : ~ tlb[i].V
  <2>1. at = 13
    BY <1>2 DEF AsidsInv
  <2>2. \A j \in Legacy : ~ Covers(tlb[j], mmAsid, AsidVa)
    BY <1>a, <1>b, <1>d, <1>2, InvalidHidden
  <2>3. Causes("load", AsidVa) = {"TLBMISSRW_READ"}
    BY <2>2, HitNone, MissCauses
  <2>4. \A j \in Legacy : ~ Covers(tlb[j], 0, 5 * ONE_MB)
    <3>1. 5 * ONE_MB \in Nat /\ 5 * ONE_MB >= ONE_MB /\ ONE_MB \in Nat
      BY DEF ONE_MB
    <3>2. ~ Covers(tlb[0], 0, 5 * ONE_MB) /\ ~ Covers(tlb[1], 0, 5 * ONE_MB)
      BY <1>b, <1>c, <2>1, <3>1, FixedCovers, AsidEntryIs
    <3> QED
      BY <1>a, <1>b, <1>2, <3>2, InvalidHidden
  <2>5. tlbp(0, page_start(AsidVa, ONE_MB)) = TLB_NOT_FOUND
    BY <2>4, HitNone, RefilledIs
  <2>6. EventOf("TLBMISSRW_READ") = "tlbmissrw" /\ ~ Mine("tlbmissrw")
    BY <1>c DEF EventOf, Mine
  <2>7. /\ my_exceptions' = my_exceptions /\ Replay /\ (mmDead' <=> mmDead)
        /\ \E i \in RefillIndex :
             Wrote(i, create_mmu_entry(TRUE, 0, page_start(AsidVa, ONE_MB), XWRU, page_start(AsidVa, ONE_MB), ONE_MB))
    BY <1>e, <2>3, <2>5, <2>6, DoRefill
  <2>8. PICK i \in RefillIndex : Wrote(i, Refilled)
    BY <2>7, RefilledIs DEF Refilled
  <2>9. /\ TlbTypeOK' /\ tlb'[i] = Refilled
        /\ \A j \in Legacy \cup Extended : j # i => tlb'[j] = tlb[j]
    <3>1. i \in Legacy \cup Extended /\ i # 0 /\ Refilled \in Entries
      BY <1>a, RefilledIs
    <3> QED
      BY <2>8, <3>1, WriteIs
  <2>10. (\A j \in 1 .. 5 : tlb'[j] = tlb[j]) /\ \A j \in RefillIndex : j # i => tlb'[j] = tlb[j]
    <3>1. i \notin 1 .. 5 /\ 1 .. 5 \subseteq Legacy
      BY MmuAssumption DEF RefillIndex, Legacy, TLB_FIXED_ENTRIES
    <3> QED
      BY <1>a, <2>9, <3>1
  <2>11. AsidsInv(13)'
    BY <1>2, <2>1, <2>7, <2>9, <2>10, RefilledIs DEF AsidsInv, HoldsAt, Replay
  <2> QED
    BY <2>1, <2>7, <2>9, <2>11 DEF Replay
<1>3. CASE \E i \in RefillIndex : tlb[i].V
  <2>1. PICK i \in RefillIndex : tlb[i].V
    BY <1>3
  <2>2. tlb[i] = Refilled /\ \A j \in RefillIndex : j # i => ~ tlb[j].V
    BY <1>c, <2>1
  <2>3. Covers(tlb[i], mmAsid, AsidVa) /\ \A j \in Legacy : j # i => ~ Covers(tlb[j], mmAsid, AsidVa)
    BY <1>a, <1>b, <1>d, <2>2, RefilledIs, InvalidHidden
  <2>4. /\ Hits(Legacy, mmAsid, AsidVa) = {i} /\ tlbp(mmAsid, AsidVa) = i
        /\ Lowest(Hits(Legacy, mmAsid, AsidVa)) = i /\ Cardinality(Hits(Legacy, mmAsid, AsidVa)) = 1
    BY <1>a, <2>1, <2>3, HitOne
  <2>5. Causes("load", AsidVa) = {}
    <3>1. Causes("load", AsidVa) = Needs(i, "R", "PRIV_NO_READ") \cup User(i, "PRIV_NO_UREAD")
      BY <2>4, HitCauses
    <3>2. Needs(i, "R", "PRIV_NO_READ") = {} /\ User(i, "PRIV_NO_UREAD") = {}
      BY <2>2, RefilledIs DEF Needs, User, XWRU
    <3> QED
      BY <3>1, <3>2
  <2>6. hex_tlb_phys_addr(tlb[i], AsidVa) = AsidVa /\ AsidVa # DATA_PAGE
    BY <2>2, RefilledIs
  <2>7. /\ tlb' = tlb /\ mmStep' = After /\ SameRest /\ Sound /\ my_exceptions' = my_exceptions
        /\ mmData' = mmData
    BY <1>1, <2>4, <2>5, <2>6, DoLoadOther
  <2> QED
    BY <1>3, <2>7 DEF AsidsInv, HoldsAt, TlbTypeOK, Sound
<1> QED
  BY <1>2, <1>3

LEMMA AsidsStep ==
  ASSUME TlbTypeOK, ~ mmFail, ~ mmDead, mmProg = "asids", NEW at \in 1 .. 17,
         mmStep = [test |-> 1, at |-> at], AsidsInv(at), MmNext
  PROVE  /\ TlbTypeOK' /\ ~ mmFail' /\ ~ mmDead' /\ mmProg' = mmProg
         /\ \/ mmStep' = After /\ AsidsInv(at + 1)'
            \/ mmStep' = mmStep /\ AsidsInv(at)'
<1> USE DEF SameRest, Sound
<1>0. MmArg = test_asids[at]
  BY AsidsCalls
<1>a. 0 \in Legacy /\ 1 \in Legacy /\ Legacy \subseteq Nat /\ RefillIndex \subseteq Legacy /\ 1 \notin RefillIndex
      /\ \A j \in Legacy : j \in {0, 1} \/ j \in 2 .. 5 \/ j \in RefillIndex
  BY MmuAssumption DEF Legacy, TLB_FIXED_ENTRIES, RefillIndex
<1>b. tlb[0] = Fixed /\ (\A j \in 2 .. 5 : ~ tlb[j].V) /\ (at < 13 => \A j \in RefillIndex : ~ tlb[j].V)
  BY DEF TlbTypeOK, AsidsInv
<1>c. 2 .. 5 \subseteq Legacy /\ \A j \in RefillIndex : j \notin 1 .. 5
  BY MmuAssumption DEF Legacy, RefillIndex, TLB_FIXED_ENTRIES
<1>1. CASE at \in {1, 6}
  <2>1. MmArg = Tlbw(AsidEntry, 1)
    BY <1>0, <1>1, AsidsCallsAre
  <2>2. /\ Wrote(1, AsidEntry) /\ mmStep' = After
        /\ SameRest /\ Sound /\ my_exceptions' = my_exceptions /\ mmData' = mmData
    BY <2>1, DoTlbw DEF Tlbw
  <2>3. TlbTypeOK' /\ tlb'[1] = AsidEntry /\ \A j \in Legacy \cup Extended : j # 1 => tlb'[j] = tlb[j]
    BY <1>a, <2>2, AsidEntryIs, WriteIs
  <2>4. (\A j \in 2 .. 5 : tlb'[j] = tlb[j]) /\ \A j \in RefillIndex : tlb'[j] = tlb[j]
    <3>1. 2 .. 5 \subseteq Legacy /\ RefillIndex \subseteq Legacy /\ 1 \notin 2 .. 5 /\ 1 \notin RefillIndex
      BY MmuAssumption DEF Legacy, RefillIndex, TLB_FIXED_ENTRIES
    <3> QED
      BY <2>3, <3>1
  <2> QED
    BY <1>1, <2>2, <2>3, <2>4 DEF AsidsInv, HoldsAt
<1>2. CASE at = 2
  <2>1. tlb[1] = AsidEntry
    BY <1>2 DEF AsidsInv, HoldsAt
  <2>2. Overlaps(tlb[1], AsidEntry) /\ \A j \in Legacy : j # 1 => ~ Overlaps(tlb[j], AsidEntry)
    BY <1>a, <1>b, <1>2, <2>1, AsidEntryIs, InvalidHidden
  <2>3. tlboc(AsidEntry) = 1
    BY <1>a, <2>2, OverlapOne
  <2>4. MmQuiet
    BY <1>0, <1>2, <2>3, AsidsCallsAre, DoExpect
  <2> QED
    BY <1>2, <2>4 DEF MmQuiet, AsidsInv, HoldsAt, TlbTypeOK
<1>3. CASE at \in {3, 14}
  <2>1. MmArg = InvAsid(1)
    BY <1>0, <1>3, AsidsCallsAre
  <2>2. /\ tlb' = tlbinvasid(tlb, 1) /\ mmStep' = After
        /\ SameRest /\ Sound /\ my_exceptions' = my_exceptions /\ mmData' = mmData
    BY <2>1, DoInvAsid DEF InvAsid
  <2>3. tlb[1] = AsidEntry
    BY <1>3 DEF AsidsInv, HoldsAt
  <2>4. /\ TlbTypeOK'
        /\ \A i \in Legacy \cup Extended :
             IF ~ tlb[i].G /\ tlb[i].asid = 1 THEN ~ tlb'[i].V ELSE tlb'[i] = tlb[i]
    BY <2>2, InvAsidIs
  <2>5. ~ tlb'[1].V
    BY <1>a, <2>3, <2>4, AsidEntryIs
  <2>6. \A j \in 2 .. 5 : ~ tlb'[j].V
    BY <1>b, <1>c, <2>4
  <2>7. \A j \in RefillIndex : IF tlb[j].V THEN tlb'[j] = tlb[j] ELSE ~ tlb'[j].V
    <3> SUFFICES ASSUME NEW j \in RefillIndex PROVE IF tlb[j].V THEN tlb'[j] = tlb[j] ELSE ~ tlb'[j].V
      OBVIOUS
    <3>1. j \in Legacy \cup Extended /\ (tlb[j].V => tlb[j] = Refilled)
      BY <1>a DEF AsidsInv
    <3>2. CASE tlb[j].V
      BY <2>4, <3>1, <3>2, RefilledIs
    <3>3. CASE ~ tlb[j].V
      BY <2>4, <3>1, <3>3
    <3> QED
      BY <3>2, <3>3
  <2> QED
    BY <1>3, <2>2, <2>4, <2>5, <2>6, <2>7 DEF AsidsInv, HoldsAt
<1>4. CASE at = 4
  <2>1. \A j \in Legacy : ~ Overlaps(tlb[j], AsidEntry)
    <3>1. ~ tlb[1].V
      BY <1>4 DEF AsidsInv, HoldsAt
    <3> QED
      BY <1>a, <1>b, <1>4, <3>1, AsidEntryIs, InvalidHidden
  <2>3. tlboc(AsidEntry) = TLB_NOT_FOUND
    BY <2>1, OverlapNone
  <2>4. MmQuiet
    BY <1>0, <1>4, <2>3, AsidsCallsAre, DoExpect
  <2> QED
    BY <1>4, <2>4 DEF MmQuiet, AsidsInv, HoldsAt, TlbTypeOK
<1>5. CASE at \in {5, 12, 16}
  <2>1. PICK v : MmArg = Data(v) /\ (at = 5 => v = "deadbeef")
    BY <1>0, <1>5, AsidsCallsAre
  <2>2. /\ tlb' = tlb /\ mmStep' = After /\ SameRest /\ Sound
        /\ my_exceptions' = my_exceptions /\ mmData' = v
    BY <2>1, DoData DEF Data
  <2> QED
    BY <1>5, <2>1, <2>2 DEF AsidsInv, HoldsAt, TlbTypeOK
<1>7. CASE at \in {7, 11, 15}
  <2>1. PICK asid : MmArg = SetAsid(asid) /\ asid = IF at = 11 THEN 2 ELSE 1
    BY <1>0, <1>7, AsidsCallsAre
  <2>2. /\ tlb' = tlb /\ mmStep' = After /\ mmAsid' = asid
        /\ mmProg' = mmProg /\ evbMine' = evbMine /\ userMode' = userMode
        /\ Sound /\ my_exceptions' = my_exceptions /\ mmData' = mmData
    BY <2>1, DoSetAsid DEF SetAsid
  <2> QED
    BY <1>7, <2>1, <2>2 DEF AsidsInv, HoldsAt, TlbTypeOK
<1>8. CASE at \in {8, 9}
  <2>1. tlb[1] = AsidEntry /\ mmAsid = 1 /\ ~ userMode /\ mmData = "deadbeef"
    BY <1>8 DEF AsidsInv, HoldsAt
  <2>2. Covers(tlb[1], mmAsid, AsidVa) /\ \A j \in Legacy : j # 1 => ~ Covers(tlb[j], mmAsid, AsidVa)
    <3>1. ~ Covers(tlb[0], mmAsid, AsidVa)
      BY <1>b, RefilledIs, FixedCovers DEF ONE_MB
    <3> QED
      BY <1>a, <1>b, <1>8, <2>1, <3>1, AsidEntryIs, InvalidHidden
  <2>3. /\ Hits(Legacy, mmAsid, AsidVa) = {1} /\ tlbp(mmAsid, AsidVa) = 1
        /\ Lowest(Hits(Legacy, mmAsid, AsidVa)) = 1 /\ Cardinality(Hits(Legacy, mmAsid, AsidVa)) = 1
    BY <1>a, <2>2, HitOne
  <2>4. Causes("load", AsidVa) = {} /\ Causes("store", AsidVa) = {}
    <3>1. /\ Causes("load", AsidVa) = Needs(1, "R", "PRIV_NO_READ") \cup User(1, "PRIV_NO_UREAD")
          /\ Causes("store", AsidVa) = Needs(1, "W", "PRIV_NO_WRITE") \cup User(1, "PRIV_NO_UWRITE")
      BY <2>3, HitCauses
    <3>2. /\ Needs(1, "R", "PRIV_NO_READ") = {} /\ User(1, "PRIV_NO_UREAD") = {}
          /\ Needs(1, "W", "PRIV_NO_WRITE") = {} /\ User(1, "PRIV_NO_UWRITE") = {}
      BY <2>1, AsidEntryIs DEF Needs, User, XWRU
    <3> QED
      BY <3>1, <3>2
  <2>5. hex_tlb_phys_addr(tlb[1], AsidVa) = DATA_PAGE
    BY <2>1, AsidEntryIs
  <2>6. CASE at = 8
    <3>1. /\ tlb' = tlb /\ mmStep' = After /\ SameRest /\ Sound /\ my_exceptions' = my_exceptions
          /\ mmData' = mmData
      <4>1. MmArg = Access("load", AsidVa, "deadbeef", TRUE) /\ mmData = "deadbeef"
        BY <1>0, <2>1, <2>6, AsidsCallsAre
      <4> QED
        BY <2>3, <2>4, <2>5, <4>1, DoAccess
    <3> QED
      BY <2>6, <3>1 DEF AsidsInv, HoldsAt, TlbTypeOK
  <2>7. CASE at = 9
    <3>1. /\ tlb' = tlb /\ mmStep' = After /\ SameRest /\ Sound /\ my_exceptions' = my_exceptions
          /\ mmData' = "cafebabe"
      <4>1. MmArg = Access("store", AsidVa, "cafebabe", TRUE)
        BY <1>0, <2>7, AsidsCallsAre
      <4> QED
        BY <2>3, <2>4, <2>5, <4>1, DoAccess
    <3> QED
      BY <2>7, <3>1 DEF AsidsInv, HoldsAt, TlbTypeOK
  <2> QED
    BY <1>8, <2>6, <2>7
<1>10. CASE at = 10
  <2>1. mmData = "cafebabe"
    BY <1>10 DEF AsidsInv
  <2>2. MmQuiet
    BY <1>0, <1>10, <2>1, AsidsCallsAre, DoExpect
  <2> QED
    BY <1>10, <2>2 DEF MmQuiet, AsidsInv, HoldsAt, TlbTypeOK
<1>13. CASE at \in {13, 17}
  BY <1>13, AsidsOther
<1> QED
  BY <1>1, <1>2, <1>3, <1>4, <1>5, <1>7, <1>8, <1>10, <1>13

-----------------------------------------------------------------------------
(* mmu_page_size.c.                                                          *)

MmSizes == {1, 4, 16, 64, 256, 1024, 4096, 16384, 65536, 262144}

LEMMA SizeCases ==
  \A n \in 1 .. 10 : PageSizes[n] \in MmSizes
BY DEF PageSizes, MmSizes

(* A page's entry covers the page's address as the test computes it, and     *)
(* translates it to the page, whatever the size.                             *)
LEMMA SizeEntryIs ==
  ASSUME NEW size \in MmSizes, NEW page \in 1 .. 255
  PROVE  LET e == SizeEntry(page, size)
             va == page + SizeOffset(size)
         IN /\ e \in Entries /\ e.V /\ e.perm = XWRU /\ e.asid = 0 /\ e.vpn \in Nat /\ e.vpn >= ONE_MB
            /\ va \in Nat /\ va >= ONE_MB /\ hex_tlb_phys_addr(e, va) = page
            /\ \A asid : Covers(e, asid, va)
<1> DEFINE start == page_start(page, size)
           e == SizeEntry(page, size)
           va == page + SizeOffset(size)
<1>1. /\ start \in Nat /\ start <= page /\ page_start(start, size) = start
      /\ page_start(start + SizeOffset(size), size) = page_start(va, size)
      /\ start + (va % size) = page
      /\ SizeOffset(size) \in Nat /\ SizeOffset(size) >= ONE_MB
  <2>1. CASE size = 1
    BY <2>1 DEF page_start, SizeOffset, ONE_MB
  <2>2. CASE size = 4
    BY <2>2 DEF page_start, SizeOffset, ONE_MB
  <2>3. CASE size = 16
    BY <2>3 DEF page_start, SizeOffset, ONE_MB
  <2>4. CASE size = 64
    BY <2>4 DEF page_start, SizeOffset, ONE_MB
  <2>5. CASE size = 256
    BY <2>5 DEF page_start, SizeOffset, ONE_MB
  <2>6. CASE size = 1024
    BY <2>6 DEF page_start, SizeOffset, ONE_MB
  <2>7. CASE size = 4096
    BY <2>7 DEF page_start, SizeOffset, ONE_MB
  <2>8. CASE size = 16384
    BY <2>8 DEF page_start, SizeOffset, ONE_MB
  <2>9. CASE size = 65536
    BY <2>9 DEF page_start, SizeOffset, ONE_MB
  <2>10. CASE size = 262144
    BY <2>10 DEF page_start, SizeOffset, ONE_MB
  <2> QED
    BY <2>1, <2>2, <2>3, <2>4, <2>5, <2>6, <2>7, <2>8, <2>9, <2>10 DEF MmSizes
<1>2. size \in Nat \ {0}
  BY DEF MmSizes
<1> HIDE DEF start
<1>3. /\ e.V /\ e.G /\ e.perm = XWRU /\ e.asid = 0 /\ e.vpn = start + SizeOffset(size) /\ e.pa = start /\ e.size = size
      /\ e \in Entries
  BY <1>1, <1>2 DEF SizeEntry, create_mmu_entry, Entries, start
<1> HIDE DEF e, va
<1>4. \A asid : Covers(e, asid, va)
  BY <1>1, <1>3 DEF Covers
<1>5. hex_tlb_phys_addr(e, va) = page
  BY <1>1, <1>3 DEF hex_tlb_phys_addr
<1>6. va \in Nat /\ va >= ONE_MB /\ e.vpn \in Nat /\ e.vpn >= ONE_MB
  <2>1. PICK o \in Nat : o = SizeOffset(size) /\ o >= ONE_MB
    BY <1>1
  <2>2. PICK st \in Nat : st = start /\ e.vpn = st + o
    BY <1>1, <1>3, <2>1
  <2>3. va = page + o
    BY <2>1 DEF va
  <2> QED
    BY <2>1, <2>2, <2>3 DEF ONE_MB
<1> QED
  BY <1>3, <1>4, <1>5, <1>6 DEF e, va

LEMMA PageSizeCalls ==
  ASSUME mmProg = "page_size", NEW n \in 1 .. 10, mmStep.test = n
  PROVE  MmTest = test_page_size(PageSizes[n]) /\ Len(MmTest) = 13 /\ MmArg = test_page_size(PageSizes[n])[mmStep.at]
<1>1. MmTest = test_page_size(PageSizes[n])
  BY DEF MmTest, Program, page_size_main
<1>2. \A size : Len(test_page_size(size)) = 13
  BY DEF test_page_size
<1> QED
  BY <1>1, <1>2 DEF MmArg

LEMMA PageSizeCallsAre ==
  ASSUME NEW size
  PROVE  /\ test_page_size(size)[1] = Data("deadbeef")
         /\ test_page_size(size)[2] = [op |-> "add_trans", i |-> 1, e |-> SizeEntry(DATA_PAGE, size)]
         /\ test_page_size(size)[3] = Probe(0, DATA_PAGE + SizeOffset(size), 1)
         /\ test_page_size(size)[4] = Access("load", DATA_PAGE + SizeOffset(size), "deadbeef", TRUE)
         /\ test_page_size(size)[5] = Access("store", DATA_PAGE + SizeOffset(size), "cafebabe", TRUE)
         /\ test_page_size(size)[6] = Expect("data", 0, "cafebabe")
         /\ test_page_size(size)[7] = Remove(1)
         /\ test_page_size(size)[8] = Probe(0, DATA_PAGE + SizeOffset(size), TLB_NOT_FOUND)
         /\ test_page_size(size)[9] = [op |-> "add_trans", i |-> 2, e |-> SizeEntry(FUNC_PAGE, size)]
         /\ test_page_size(size)[10] = Probe(0, FUNC_PAGE + SizeOffset(size), 2)
         /\ test_page_size(size)[11] = CallFunc(FUNC_PAGE + SizeOffset(size))
         /\ test_page_size(size)[12] = Remove(2)
         /\ test_page_size(size)[13] = Probe(0, FUNC_PAGE + SizeOffset(size), TLB_NOT_FOUND)
<1> PICK offset : offset = SizeOffset(size)
  OBVIOUS
<1> QED
  BY DEF test_page_size, SizeEntry, SizeOffset, AddTrans, Load, Store, Word

(* A translation of a page in entry i, and nothing else but the fixed one.   *)
LEMMA SizeLookup ==
  ASSUME TlbTypeOK, NEW i \in {1, 2}, NEW size \in MmSizes,
         NEW page \in 1 .. 255, tlb[i] = SizeEntry(page, size), \A j \in Legacy : j \notin {0, i} => ~ tlb[j].V,
         mmAsid = 0, ~ userMode
  PROVE  LET va == page + SizeOffset(size) IN
         /\ tlbp(0, va) = i /\ Cardinality(Hits(Legacy, 0, va)) = 1 /\ hex_tlb_phys_addr(tlb[i], va) = page
         /\ Causes("load", va) = {} /\ Causes("store", va) = {} /\ Causes("fetch", va) = {}
<1>1. PICK va : va = page + SizeOffset(size)
  OBVIOUS
<1>2. /\ \A asid : Covers(tlb[i], asid, va) /\ ~ Covers(tlb[0], asid, va)
      /\ hex_tlb_phys_addr(tlb[i], va) = page /\ tlb[i].perm = XWRU
  <2>1. va \in Nat /\ va >= ONE_MB
    BY <1>1, SizeEntryIs
  <2>2. \A asid : ~ Covers(tlb[0], asid, va)
    BY <2>1, FixedCovers DEF TlbTypeOK, ONE_MB
  <2> QED
    BY <1>1, <2>2, SizeEntryIs, SMTT(30)
<1>3. i \in Legacy /\ i \in Nat
  BY MmuAssumption DEF Legacy, TLB_FIXED_ENTRIES
<1>4. Covers(tlb[i], 0, va) /\ \A j \in Legacy : j # i => ~ Covers(tlb[j], 0, va)
  BY <1>2, InvalidHidden
<1>5. /\ Hits(Legacy, 0, va) = {i} /\ tlbp(0, va) = i
      /\ Lowest(Hits(Legacy, 0, va)) = i /\ Cardinality(Hits(Legacy, 0, va)) = 1
  BY <1>3, <1>4, HitOne
<1>6. \A p, c : (p \in XWRU => Needs(i, p, c) = {}) /\ User(i, c) = {}
  BY <1>2 DEF Needs, User
<1>7. Causes("load", va) = {} /\ Causes("store", va) = {} /\ Causes("fetch", va) = {}
  <2>1. /\ Causes("load", va) = Needs(i, "R", "PRIV_NO_READ") \cup User(i, "PRIV_NO_UREAD")
        /\ Causes("store", va) = Needs(i, "W", "PRIV_NO_WRITE") \cup User(i, "PRIV_NO_UWRITE")
        /\ Causes("fetch", va) = Needs(i, "X", "FETCH_NO_XPAGE") \cup User(i, "FETCH_NO_UPAGE")
    BY <1>5, HitCauses
  <2>2. "R" \in XWRU /\ "W" \in XWRU /\ "X" \in XWRU
    BY DEF XWRU
  <2> QED
    BY <1>6, <2>1, <2>2
<1> QED
  BY <1>1, <1>2, <1>5, <1>7

(* No translation at all beyond the first megabyte.                          *)
LEMMA EmptyLookup ==
  ASSUME TlbTypeOK, \A j \in Legacy : j # 0 => ~ tlb[j].V, NEW va \in Nat, va >= ONE_MB
  PROVE  \A asid : /\ \A j \in Legacy : ~ Covers(tlb[j], asid, va)
                   /\ tlbp(asid, va) = TLB_NOT_FOUND /\ Cardinality(Hits(Legacy, asid, va)) = 0
<1> TAKE asid
<1>1. ~ Covers(tlb[0], asid, va)
  BY FixedCovers DEF TlbTypeOK, ONE_MB
<1>2. \A j \in Legacy : ~ Covers(tlb[j], asid, va)
  BY <1>1, InvalidHidden
<1> QED
  BY <1>2, HitNone

LEMMA PageSizeStep ==
  ASSUME TlbTypeOK, ~ mmFail, ~ mmDead, mmProg = "page_size", NEW n \in 1 .. 10, NEW at \in 1 .. 13,
         mmStep = [test |-> n, at |-> at], PageSizeInv(n, at), MmNext
  PROVE  /\ TlbTypeOK' /\ ~ mmFail' /\ ~ mmDead' /\ mmProg' = mmProg /\ mmStep' = After
         /\ IF at < 13 THEN PageSizeInv(n, at + 1)' ELSE PageSizeInv(n + 1, 1)'
<1> USE DEF SameRest, Sound
<1>1. PICK size \in MmSizes : size = PageSizes[n]
  BY SizeCases
<1>0. MmArg = test_page_size(size)[at]
  BY <1>1, PageSizeCalls
<1>a. 0 \in Legacy /\ 1 \in Legacy /\ 2 \in Legacy /\ Legacy \subseteq Nat /\ DATA_PAGE \in 1 .. 255 /\ FUNC_PAGE \in 1 .. 255
  BY MmuAssumption DEF Legacy, TLB_FIXED_ENTRIES, ONE_MB
<1>b. /\ tlb[0] = Fixed /\ (\A j \in Legacy : j \notin {0, 1, 2} => ~ tlb[j].V) /\ mmAsid = 0 /\ ~ userMode
      /\ NoneFrom(3)
  BY <1>a DEF TlbTypeOK, PageSizeInv, NoneFrom
<1>c. /\ IF at \in 3 .. 7 THEN tlb[1] = SizeEntry(DATA_PAGE, size) ELSE ~ tlb[1].V
      /\ IF at \in 10 .. 12 THEN tlb[2] = SizeEntry(FUNC_PAGE, size) ELSE ~ tlb[2].V
  BY <1>1 DEF PageSizeInv, HoldsAt
<1>d. \A page \in 1 .. 255 : /\ page + SizeOffset(size) \in Nat /\ page + SizeOffset(size) >= ONE_MB
                             /\ SizeEntry(page, size) \in Entries /\ SizeEntry(page, size).asid = 0
                             /\ SizeEntry(page, size).vpn \in Nat /\ SizeEntry(page, size).vpn >= ONE_MB
  BY SizeEntryIs, ZenonT(40)
<1>2. CASE at = 1
  <2>1. MmArg = Data("deadbeef")
    BY <1>0, <1>2, PageSizeCallsAre
  <2>2. /\ tlb' = tlb /\ mmStep' = After /\ SameRest /\ Sound
        /\ my_exceptions' = my_exceptions /\ mmData' = "deadbeef"
    BY <2>1, DoData DEF Data
  <2> QED
    BY <1>2, <2>2 DEF PageSizeInv, HoldsAt, NoneFrom, TlbTypeOK
<1>3. CASE at \in {2, 9}
  <2>1. PICK i \in {1, 2} : i = IF at = 2 THEN 1 ELSE 2
    OBVIOUS
  <2>2. PICK page \in 1 .. 255 : page = IF at = 2 THEN DATA_PAGE ELSE FUNC_PAGE
    BY <1>a
  <2>3. MmArg = [op |-> "add_trans", i |-> i, e |-> SizeEntry(page, size)]
    BY <1>0, <1>3, <2>1, <2>2, PageSizeCallsAre
  <2>4. PICK e \in Entries : e = SizeEntry(page, size) /\ e.asid = 0 /\ e.vpn \in Nat /\ e.vpn >= ONE_MB
    BY <1>d
  <2>5. \A j \in Legacy : j # 0 => ~ tlb[j].V
    BY <1>b, <1>c, <1>3
  <2>6. \A j \in Legacy : ~ Covers(tlb[j], e.asid, e.vpn) /\ ~ Covers(tlb[j], mmAsid, e.vpn)
    BY <2>4, <2>5, EmptyLookup
  <2>7. MmArg.op = "add_trans" /\ MmArg.i = i /\ MmArg.e = e /\ i \in 1 .. 5
    BY <2>3, <2>4
  <2>8. /\ Wrote(i, e) /\ mmStep' = After
        /\ SameRest /\ Sound /\ my_exceptions' = my_exceptions /\ mmData' = mmData
    BY <2>6, <2>7, DoAdd
  <2>9. /\ TlbTypeOK' /\ tlb'[i] = e /\ (\A j \in 1 .. 5 : j # i => tlb'[j] = tlb[j]) /\ (NoneFrom(3)' <=> NoneFrom(3))
    BY <2>7, <2>8, SlotWrite
  <2> QED
    BY <1>1, <1>3, <1>b, <1>c, <2>1, <2>2, <2>4, <2>8, <2>9 DEF PageSizeInv, HoldsAt
<1>4. CASE at \in {3, 10}
  <2>1. PICK i \in {1, 2} : i = IF at = 3 THEN 1 ELSE 2
    OBVIOUS
  <2>2. PICK page \in 1 .. 255 : page = IF at = 3 THEN DATA_PAGE ELSE FUNC_PAGE
    BY <1>a
  <2>3. MmArg = Probe(0, page + SizeOffset(size), i)
    BY <1>0, <1>4, <2>1, <2>2, PageSizeCallsAre
  <2>4. tlb[i] = SizeEntry(page, size) /\ \A j \in Legacy : j \notin {0, i} => ~ tlb[j].V
    BY <1>b, <1>c, <1>4, <2>1, <2>2
  <2>5. tlbp(0, page + SizeOffset(size)) = i /\ Cardinality(Hits(Legacy, 0, page + SizeOffset(size))) = 1
    BY <1>b, <2>4, SizeLookup, ZenonT(40)
  <2>6. MmQuiet
    BY <2>3, <2>5, DoProbe
  <2> QED
    BY <1>4, <2>6 DEF MmQuiet, PageSizeInv, HoldsAt, NoneFrom, TlbTypeOK
<1>5. CASE at \in {4, 5}
  <2> DEFINE va == DATA_PAGE + SizeOffset(size)
  <2>1. tlb[1] = SizeEntry(DATA_PAGE, size) /\ (\A j \in Legacy : j \notin {0, 1} => ~ tlb[j].V) /\ mmData = "deadbeef"
    BY <1>b, <1>c, <1>5 DEF PageSizeInv
  <2>2. tlbp(0, va) = 1 /\ hex_tlb_phys_addr(tlb[1], va) = DATA_PAGE /\ Causes("load", va) = {} /\ Causes("store", va) = {}
    BY <1>a, <1>b, <2>1, SizeLookup
  <2>a. at = 4 => MmArg = Access("load", va, "deadbeef", TRUE)
    BY <1>0, PageSizeCallsAre
  <2>b. at = 5 => MmArg = Access("store", va, "cafebabe", TRUE)
    BY <1>0, PageSizeCallsAre
  <2> HIDE DEF va
  <2>3. /\ tlb' = tlb /\ mmStep' = After /\ SameRest /\ Sound /\ my_exceptions' = my_exceptions
        /\ mmData' = IF at = 4 THEN "deadbeef" ELSE "cafebabe"
    <3>1. CASE at = 4
      BY <1>b, <2>1, <2>2, <2>a, <3>1, DoAccess
    <3>2. CASE at = 5
      <4>1. MmArg = Access("store", va, "cafebabe", TRUE) /\ tlbp(mmAsid, va) = 1
        BY <1>b, <2>2, <2>b, <3>2
      <4>2. /\ tlb' = tlb /\ mmStep' = After /\ SameRest /\ Sound /\ my_exceptions' = my_exceptions
            /\ mmData' = "cafebabe"
        BY <4>1, <2>2, DoAccess
      <4> QED
        BY <3>2, <4>2
    <3> QED
      BY <1>5, <3>1, <3>2
  <2> QED
    BY <1>5, <2>3 DEF PageSizeInv, HoldsAt, NoneFrom, TlbTypeOK
<1>6. CASE at = 6
  <2>1. MmArg = Expect("data", 0, "cafebabe") /\ mmData = "cafebabe"
    BY <1>0, <1>6, PageSizeCallsAre DEF PageSizeInv
  <2>2. MmQuiet
    BY <2>1, DoExpect
  <2> QED
    BY <1>6, <2>2 DEF MmQuiet, PageSizeInv, HoldsAt, NoneFrom, TlbTypeOK
<1>7. CASE at \in {7, 12}
  <2>1. PICK i \in {1, 2} : i = IF at = 7 THEN 1 ELSE 2
    OBVIOUS
  <2>2. MmArg = Remove(i)
    BY <1>0, <1>7, <2>1, PageSizeCallsAre
  <2>3. MmArg.op = "remove" /\ MmArg.i = i /\ i \in 1 .. 5 /\ i \in Legacy \cup Extended
    BY <1>a, <2>1, <2>2 DEF Remove
  <2>5. /\ Wrote(i, Invalid(i)) /\ mmStep' = After
        /\ SameRest /\ Sound /\ my_exceptions' = my_exceptions /\ mmData' = mmData
    BY <2>3, DoRemove DEF TlbTypeOK
  <2>6. /\ TlbTypeOK' /\ ~ tlb'[i].V /\ (\A j \in 1 .. 5 : j # i => tlb'[j] = tlb[j])
        /\ (NoneFrom(3)' <=> NoneFrom(3))
    BY <2>1, <2>3, <2>5, InvalidIs, SlotWrite
  <2> QED
    BY <1>7, <1>b, <1>c, <2>1, <2>5, <2>6 DEF PageSizeInv, HoldsAt
<1>8. CASE at \in {8, 13}
  <2>1. PICK page \in 1 .. 255 : page = IF at = 8 THEN DATA_PAGE ELSE FUNC_PAGE
    BY <1>a
  <2>2. MmArg = Probe(0, page + SizeOffset(size), TLB_NOT_FOUND)
    BY <1>0, <1>8, <2>1, PageSizeCallsAre
  <2>3. \A j \in Legacy : j # 0 => ~ tlb[j].V
    BY <1>b, <1>c, <1>8
  <2>4. tlbp(0, page + SizeOffset(size)) = TLB_NOT_FOUND /\ Cardinality(Hits(Legacy, 0, page + SizeOffset(size))) = 0
    BY <1>d, <2>3, EmptyLookup
  <2>5. MmQuiet
    BY <2>2, <2>4, DoProbe
  <2> QED
    BY <1>8, <2>5 DEF MmQuiet, PageSizeInv, HoldsAt, NoneFrom, TlbTypeOK
<1>9. CASE at = 11
  <2> DEFINE va == FUNC_PAGE + SizeOffset(size)
  <2>1. tlb[2] = SizeEntry(FUNC_PAGE, size) /\ \A j \in Legacy : j \notin {0, 2} => ~ tlb[j].V
    BY <1>b, <1>c, <1>9
  <2>2. tlbp(0, va) = 2 /\ hex_tlb_phys_addr(tlb[2], va) = FUNC_PAGE /\ Causes("fetch", va) = {}
    BY <1>a, <1>b, <2>1, SizeLookup
  <2>3. PICK v : MmArg = Access("fetch", va, v, TRUE)
    BY <1>0, <1>9, PageSizeCallsAre, FetchIs
  <2> HIDE DEF va
  <2>4. MmQuiet
    BY <1>b, <2>2, <2>3, DoFetch
  <2> QED
    BY <1>9, <2>4 DEF MmQuiet, PageSizeInv, HoldsAt, NoneFrom, TlbTypeOK
<1> QED
  BY <1>2, <1>3, <1>4, <1>5, <1>6, <1>7, <1>8, <1>9

-----------------------------------------------------------------------------
(* hsv39_tlb.c.                                                              *)

LEMMA HighCases ==
  \A n \in 1 .. 8 : Hsv39Sizes[n] \in {1, 4, 16, 256, 1024, 4096, 16384, 65536}
BY DEF Hsv39Sizes

LEMMA HighEntryIs ==
  ASSUME NEW n \in 1 .. 8, NEW page \in 1 .. 255
  PROVE  HighEntry(page, n) \in Entries /\ HighEntry(page, n).V /\ Covers(HighEntry(page, n), 1, page + FOUR_GB)
<1>1. PICK m \in {1, 4, 16, 256, 1024, 4096, 16384, 65536} : m = Hsv39Sizes[n]
  BY HighCases
<1>2. PICK size : size = ONE_MB * m
  OBVIOUS
<1>3. /\ size \in Nat \ {0} /\ page_start(page, size) = 0
      /\ page_start(FOUR_GB, size) = page_start(page + FOUR_GB, size)
  <2>1. CASE m = 1
    BY <1>2, <2>1 DEF page_start, ONE_MB, FOUR_GB
  <2>2. CASE m = 4
    BY <1>2, <2>2 DEF page_start, ONE_MB, FOUR_GB
  <2>3. CASE m = 16
    BY <1>2, <2>3 DEF page_start, ONE_MB, FOUR_GB
  <2>4. CASE m = 256
    BY <1>2, <2>4 DEF page_start, ONE_MB, FOUR_GB
  <2>5. CASE m = 1024
    BY <1>2, <2>5 DEF page_start, ONE_MB, FOUR_GB
  <2>6. CASE m = 4096
    BY <1>2, <2>6 DEF page_start, ONE_MB, FOUR_GB
  <2>7. CASE m = 16384
    BY <1>2, <2>7 DEF page_start, ONE_MB, FOUR_GB
  <2>8. CASE m = 65536
    BY <1>2, <2>8 DEF page_start, ONE_MB, FOUR_GB
  <2> QED
    BY <2>1, <2>2, <2>3, <2>4, <2>5, <2>6, <2>7, <2>8
<1>4. PICK e : e = HighEntry(page, n)
  OBVIOUS
<1>5. e = hsv39_entry(page_start(page, size) + FOUR_GB, page_start(page, size), size)
  BY <1>1, <1>2, <1>4 DEF HighEntry
<1>6. /\ e.V /\ e.G /\ e.vpn = FOUR_GB /\ e.size = size /\ e \in Entries
  <2>1. 0 + FOUR_GB = FOUR_GB /\ FOUR_GB \in Nat
    BY DEF FOUR_GB
  <2>2. e = hsv39_entry(FOUR_GB, 0, size)
    BY <1>3, <1>5, <2>1
  <2> QED
    BY <1>3, <2>1, <2>2 DEF hsv39_entry, create_mmu_entry, Entries
<1> QED
  BY <1>3, <1>4, <1>6 DEF Covers

LEMMA Hsv39Calls ==
  ASSUME mmProg = "hsv39", NEW n \in 1 .. 10, mmStep.test = n
  PROVE  /\ n <= 8 => MmTest = hsv39_test_page_size(ONE_MB * Hsv39Sizes[n]) /\ Len(MmTest) = 13
         /\ n = 9 => MmTest = test_tlbp /\ Len(MmTest) = 4
         /\ n = 10 => MmTest = test_tlbr /\ Len(MmTest) = 6
         /\ MmArg = MmTest[mmStep.at]
<1>1. /\ n <= 8 => MmTest = hsv39_test_page_size(ONE_MB * Hsv39Sizes[n])
      /\ n = 9 => MmTest = test_tlbp
      /\ n = 10 => MmTest = test_tlbr
  BY DEF MmTest, Program, hsv39_main
<1>2. \A size : Len(hsv39_test_page_size(size)) = 13
  BY DEF hsv39_test_page_size
<1>3. Len(test_tlbp) = 4
  BY DEF test_tlbp
<1>4. Len(test_tlbr) = 6
  BY DEF test_tlbr
<1> QED
  BY <1>1, <1>2, <1>3, <1>4 DEF MmArg

Hsv39Text(t, n) ==
    /\ t[1] = AddHsv39(512, HighEntry(DATA_PAGE, n))
    /\ t[2] = Probe64(1, DATA_PAGE + FOUR_GB, 512)
    /\ t[3] = Data("deadbeef")
    /\ t[4] = Access("load", DATA_PAGE, "deadbeef", TRUE)
    /\ t[5] = Access("store", DATA_PAGE, "cafebabe", TRUE)
    /\ t[6] = Expect("data", 0, "cafebabe")
    /\ t[7] = Remove(512)
    /\ t[8] = Probe64(1, DATA_PAGE + FOUR_GB, TLB_NOT_FOUND)
    /\ t[9] = AddHsv39(513, HighEntry(FUNC_PAGE, n))
    /\ t[10] = Probe64(1, FUNC_PAGE + FOUR_GB, 513)
    /\ t[11] = CallFunc(FUNC_PAGE)
    /\ t[12] = Remove(513)
    /\ t[13] = Probe64(1, FUNC_PAGE + FOUR_GB, TLB_NOT_FOUND)

LEMMA Hsv39CallsAre ==
  ASSUME NEW n \in 1 .. 8
  PROVE  Hsv39Text(hsv39_test_page_size(ONE_MB * Hsv39Sizes[n]), n)
<1>1. Pointer(DATA_PAGE + FOUR_GB) = DATA_PAGE /\ Pointer(FUNC_PAGE + FOUR_GB) = FUNC_PAGE
  BY MmuAssumption DEF Pointer, FOUR_GB, ONE_MB
<1> QED
  BY <1>1 DEF Hsv39Text, hsv39_test_page_size, HighEntry, Load, Store, Word

(* The extended entries.                                                     *)
LEMMA HighLookup ==
  ASSUME NEW i \in {512, 513}, NEW asid, NEW va, Covers(tlb[i], asid, va), \A j \in {512, 513} : j # i => ~ tlb[j].V
  PROVE  tlbp64(asid, va) = i
<1>1. Hits(Extended, asid, va) = {i}
  BY InvalidHidden DEF Hits, Extended
<1>2. Lowest({i}) = i
  BY Singles
<1> QED
  BY <1>1, <1>2 DEF tlbp64

LEMMA HighNone ==
  ASSUME NoExtended
  PROVE  \A asid, va : tlbp64(asid, va) = TLB_NOT_FOUND
BY InvalidHidden DEF tlbp64, Hits, Extended, NoExtended

LEMMA HighWrite ==
  ASSUME TlbTypeOK, NEW i \in {512, 513}, NEW e \in Entries, Wrote(i, e)
  PROVE  /\ TlbTypeOK' /\ tlb'[i] = e /\ (\A j \in {512, 513} : j # i => tlb'[j] = tlb[j])
         /\ tlb'[1] = tlb[1] /\ (NoneFrom(2)' <=> NoneFrom(2))
<1>1. i \in Legacy \cup Extended /\ i # 0 /\ i \notin Legacy /\ 1 \in Legacy /\ {512, 513} \subseteq Extended
  BY MmuAssumption DEF Legacy, Extended, TLB_FIXED_ENTRIES
<1>2. TlbTypeOK' /\ tlb'[i] = e /\ \A j \in Legacy \cup Extended : j # i => tlb'[j] = tlb[j]
  BY <1>1, WriteIs
<1>3. \A j \in Legacy : tlb'[j] = tlb[j]
  BY <1>1, <1>2
<1>4. \A j \in {512, 513} : j # i => tlb'[j] = tlb[j]
  BY <1>1, <1>2
<1>5. NoneFrom(2)' <=> NoneFrom(2)
  BY <1>3 DEF NoneFrom
<1> QED
  BY <1>1, <1>2, <1>3, <1>4, <1>5

(* An address of the first megabyte, reached through the fixed entry.        *)
LEMMA FixedLookup ==
  ASSUME TlbTypeOK, NoneFrom(2), ~ tlb[1].V, ~ userMode, NEW va \in 1 .. 255
  PROVE  /\ tlbp(mmAsid, va) = 0 /\ hex_tlb_phys_addr(tlb[0], va) = va
         /\ Causes("load", va) = {} /\ Causes("store", va) = {} /\ Causes("fetch", va) = {}
<1>1. 0 \in Legacy /\ Legacy \subseteq Nat /\ tlb[0] = Fixed
  BY MmuAssumption DEF Legacy, TlbTypeOK
<1>2. Covers(tlb[0], mmAsid, va)
  BY <1>1, FixedCovers DEF ONE_MB
<1>3. \A j \in Legacy : j # 0 => ~ tlb[j].V
  BY <1>1 DEF NoneFrom
<1>4. /\ Hits(Legacy, mmAsid, va) = {0} /\ tlbp(mmAsid, va) = 0
      /\ Lowest(Hits(Legacy, mmAsid, va)) = 0 /\ Cardinality(Hits(Legacy, mmAsid, va)) = 1
  BY <1>1, <1>2, <1>3, InvalidHidden, HitOne
<1>5. hex_tlb_phys_addr(tlb[0], va) = va /\ tlb[0].perm = XWRU
  BY <1>1 DEF hex_tlb_phys_addr, page_start, Fixed, create_mmu_entry, ONE_MB
<1>6. \A p, c : (p \in XWRU => Needs(0, p, c) = {}) /\ User(0, c) = {}
  BY <1>5 DEF Needs, User
<1>7. Causes("load", va) = {} /\ Causes("store", va) = {} /\ Causes("fetch", va) = {}
  <2>1. /\ Causes("load", va) = Needs(0, "R", "PRIV_NO_READ") \cup User(0, "PRIV_NO_UREAD")
        /\ Causes("store", va) = Needs(0, "W", "PRIV_NO_WRITE") \cup User(0, "PRIV_NO_UWRITE")
        /\ Causes("fetch", va) = Needs(0, "X", "FETCH_NO_XPAGE") \cup User(0, "FETCH_NO_UPAGE")
    BY <1>4, HitCauses
  <2>2. "R" \in XWRU /\ "W" \in XWRU /\ "X" \in XWRU
    BY DEF XWRU
  <2> QED
    BY <1>6, <2>1, <2>2
<1> QED
  BY <1>4, <1>5, <1>7

(* A write to the core's first entry leaves the extended ones alone.         *)
LEMMA LowWrite ==
  ASSUME TlbTypeOK, NEW e \in Entries, Wrote(1, e)
  PROVE  /\ TlbTypeOK' /\ tlb'[1] = e /\ tlb'[512] = tlb[512] /\ tlb'[513] = tlb[513]
         /\ (NoneFrom(2)' <=> NoneFrom(2))
<1>1. 1 \in Legacy \cup Extended /\ 512 \in Legacy \cup Extended /\ 513 \in Legacy \cup Extended /\ Legacy \subseteq Nat
  BY MmuAssumption DEF Legacy, Extended, TLB_FIXED_ENTRIES
<1>2. TlbTypeOK' /\ tlb'[1] = e /\ \A j \in Legacy \cup Extended : j # 1 => tlb'[j] = tlb[j]
  <2>1. PICK i \in Legacy \cup Extended : i = 1
    BY <1>1
  <2>2. i # 0 /\ Wrote(i, e)
    BY <2>1
  <2> QED
    BY <2>1, <2>2, WriteIs
<1>3. NoneFrom(2)' <=> NoneFrom(2)
  BY <1>1, <1>2 DEF NoneFrom
<1> QED
  BY <1>1, <1>2, <1>3

LEMMA Hsv39Page ==
  ASSUME TlbTypeOK, ~ mmFail, ~ mmDead, mmProg = "hsv39", NEW n \in 1 .. 8, NEW at \in 1 .. 13,
         mmStep = [test |-> n, at |-> at], Hsv39Inv(n, at), MmNext
  PROVE  /\ TlbTypeOK' /\ ~ mmFail' /\ ~ mmDead' /\ mmProg' = mmProg /\ mmStep' = After
         /\ IF at < 13 THEN Hsv39Inv(n, at + 1)' ELSE Hsv39Inv(n + 1, 1)'
<1> USE DEF SameRest, Sound
<1>1. PICK t : Hsv39Text(t, n) /\ MmArg = t[at]
  BY Hsv39Calls, Hsv39CallsAre
<1>a. /\ DATA_PAGE \in 1 .. 255 /\ FUNC_PAGE \in 1 .. 255 /\ 512 \in Legacy \cup Extended /\ 513 \in Legacy \cup Extended
  BY MmuAssumption DEF Extended, ONE_MB
<1>b. mmAsid = 0 /\ ~ userMode /\ NoneFrom(2) /\ ~ tlb[1].V
  BY DEF Hsv39Inv
<1>c. /\ IF at \in 2 .. 7 THEN tlb[512] = HighEntry(DATA_PAGE, n) ELSE ~ tlb[512].V
      /\ IF at \in 10 .. 12 THEN tlb[513] = HighEntry(FUNC_PAGE, n) ELSE ~ tlb[513].V
  BY DEF Hsv39Inv, HoldsAt
<1>d. \A page \in 1 .. 255 : /\ HighEntry(page, n) \in Entries /\ Covers(HighEntry(page, n), 1, page + FOUR_GB)
  BY HighEntryIs
<1>2. CASE at \in {1, 9}
  <2>1. PICK i \in {512, 513} : i = IF at = 1 THEN 512 ELSE 513
    OBVIOUS
  <2>2. PICK page \in 1 .. 255 : page = IF at = 1 THEN DATA_PAGE ELSE FUNC_PAGE
    BY <1>a
  <2>3. PICK e \in Entries : e = HighEntry(page, n)
    BY <1>d
  <2>4. MmArg = AddHsv39(i, e)
    BY <1>1, <1>2, <2>1, <2>2, <2>3 DEF Hsv39Text
  <2>5. MmArg.op = "add_hsv39" /\ MmArg.i = i /\ MmArg.e = e /\ NoExtended
    BY <1>2, <1>c, <2>4 DEF AddHsv39, NoExtended
  <2>6. /\ Wrote(i, e) /\ mmStep' = After
        /\ SameRest /\ Sound /\ my_exceptions' = my_exceptions /\ mmData' = mmData
    BY <2>5, DoAddHsv39
  <2>7. /\ TlbTypeOK' /\ tlb'[i] = e /\ (\A j \in {512, 513} : j # i => tlb'[j] = tlb[j])
        /\ tlb'[1] = tlb[1] /\ (NoneFrom(2)' <=> NoneFrom(2))
    BY <2>6, HighWrite
  <2> QED
    BY <1>2, <1>b, <1>c, <2>1, <2>2, <2>3, <2>6, <2>7 DEF Hsv39Inv, HoldsAt
<1>3. CASE at \in {2, 10}
  <2>1. PICK i \in {512, 513} : i = IF at = 2 THEN 512 ELSE 513
    OBVIOUS
  <2>2. PICK page \in 1 .. 255 : page = IF at = 2 THEN DATA_PAGE ELSE FUNC_PAGE
    BY <1>a
  <2>3. PICK va : va = page + FOUR_GB
    OBVIOUS
  <2>4. MmArg = Probe64(1, va, i)
    BY <1>1, <1>3, <2>1, <2>2, <2>3 DEF Hsv39Text
  <2>5. Covers(tlb[i], 1, va) /\ \A j \in {512, 513} : j # i => ~ tlb[j].V
    BY <1>3, <1>c, <1>d, <2>1, <2>2, <2>3
  <2>6. tlbp64(1, va) = i
    BY <2>5, HighLookup
  <2>7. MmQuiet
    BY <2>4, <2>6, DoExpect DEF Probe64
  <2> QED
    BY <1>3, <2>7 DEF MmQuiet, Hsv39Inv, HoldsAt, NoneFrom, TlbTypeOK
<1>4. CASE at = 3
  <2>1. MmArg = Data("deadbeef")
    BY <1>1, <1>4 DEF Hsv39Text
  <2>2. /\ tlb' = tlb /\ mmStep' = After /\ SameRest /\ Sound
        /\ my_exceptions' = my_exceptions /\ mmData' = "deadbeef"
    BY <2>1, DoData DEF Data
  <2> QED
    BY <1>4, <2>2 DEF Hsv39Inv, HoldsAt, NoneFrom, TlbTypeOK
<1>5. CASE at \in {4, 5}
  <2>1. mmData = "deadbeef"
    BY <1>5 DEF Hsv39Inv
  <2>2. /\ tlbp(mmAsid, DATA_PAGE) = 0 /\ hex_tlb_phys_addr(tlb[0], DATA_PAGE) = DATA_PAGE
        /\ Causes("load", DATA_PAGE) = {} /\ Causes("store", DATA_PAGE) = {}
    BY <1>a, <1>b, FixedLookup
  <2>3. /\ tlb' = tlb /\ mmStep' = After /\ SameRest /\ Sound /\ my_exceptions' = my_exceptions
        /\ mmData' = IF at = 4 THEN "deadbeef" ELSE "cafebabe"
    <3>1. CASE at = 4
      <4>1. MmArg = Access("load", DATA_PAGE, "deadbeef", TRUE)
        BY <1>1, <3>1 DEF Hsv39Text
      <4> QED
        BY <2>1, <2>2, <3>1, <4>1, DoAccess
    <3>2. CASE at = 5
      <4>1. MmArg = Access("store", DATA_PAGE, "cafebabe", TRUE)
        BY <1>1, <3>2 DEF Hsv39Text
      <4>2. /\ tlb' = tlb /\ mmStep' = After /\ SameRest /\ Sound /\ my_exceptions' = my_exceptions
            /\ mmData' = "cafebabe"
        BY <4>1, <2>2, DoAccess
      <4> QED
        BY <3>2, <4>2
    <3> QED
      BY <1>5, <3>1, <3>2
  <2> QED
    BY <1>5, <2>3 DEF Hsv39Inv, HoldsAt, NoneFrom, TlbTypeOK
<1>6. CASE at = 6
  <2>1. MmArg = Expect("data", 0, "cafebabe") /\ mmData = "cafebabe"
    BY <1>1, <1>6 DEF Hsv39Text, Hsv39Inv
  <2>2. MmQuiet
    BY <2>1, DoExpect
  <2> QED
    BY <1>6, <2>2 DEF MmQuiet, Hsv39Inv, HoldsAt, NoneFrom, TlbTypeOK
<1>7. CASE at \in {7, 12}
  <2>1. PICK i \in {512, 513} : i = IF at = 7 THEN 512 ELSE 513
    OBVIOUS
  <2>2. MmArg = Remove(i)
    BY <1>1, <1>7, <2>1 DEF Hsv39Text
  <2>3. MmArg.op = "remove" /\ MmArg.i = i /\ i \in Legacy \cup Extended
    BY <1>a, <2>1, <2>2 DEF Remove
  <2>5. /\ Wrote(i, Invalid(i)) /\ mmStep' = After
        /\ SameRest /\ Sound /\ my_exceptions' = my_exceptions /\ mmData' = mmData
    BY <2>3, DoRemove DEF TlbTypeOK
  <2>6. /\ TlbTypeOK' /\ ~ tlb'[i].V /\ (\A j \in {512, 513} : j # i => tlb'[j] = tlb[j])
        /\ tlb'[1] = tlb[1] /\ (NoneFrom(2)' <=> NoneFrom(2))
    BY <2>3, <2>5, InvalidIs, HighWrite
  <2> QED
    BY <1>7, <1>b, <1>c, <2>1, <2>5, <2>6 DEF Hsv39Inv, HoldsAt
<1>8. CASE at \in {8, 13}
  <2>1. PICK va : MmArg = Probe64(1, va, TLB_NOT_FOUND)
    BY <1>1, <1>8 DEF Hsv39Text
  <2>2. NoExtended
    BY <1>8, <1>c DEF NoExtended
  <2>3. tlbp64(1, va) = TLB_NOT_FOUND
    BY <2>2, HighNone
  <2>4. MmQuiet
    BY <2>1, <2>3, DoExpect DEF Probe64
  <2>5. CASE at = 8
    BY <2>5, <2>4 DEF MmQuiet, Hsv39Inv, HoldsAt, NoneFrom, TlbTypeOK
  <2>6. CASE at = 13
    <3>1. TlbTypeOK' /\ NoExtended' /\ ~ tlb'[1].V /\ NoneFrom(2)' /\ mmAsid' = 0 /\ userMode' = FALSE
      BY <1>b, <2>2, <2>4 DEF MmQuiet, NoExtended, NoneFrom, TlbTypeOK, Hsv39Inv
    <3>2. Hsv39Inv(n + 1, 1)'
      BY <3>1 DEF Hsv39Inv, HoldsAt, NoExtended
    <3> QED
      BY <2>4, <2>6, <3>1, <3>2 DEF MmQuiet
  <2> QED
    BY <1>8, <2>5, <2>6
<1>9. CASE at = 11
  <2>a. MmArg = CallFunc(FUNC_PAGE)
    BY <1>1, <1>9 DEF Hsv39Text
  <2>1. PICK v : MmArg = Access("fetch", FUNC_PAGE, v, TRUE)
    BY <2>a, FetchIs
  <2>2. tlbp(mmAsid, FUNC_PAGE) = 0 /\ hex_tlb_phys_addr(tlb[0], FUNC_PAGE) = FUNC_PAGE /\ Causes("fetch", FUNC_PAGE) = {}
    BY <1>a, <1>b, FixedLookup
  <2>3. MmQuiet
    BY <2>1, <2>2, DoFetch
  <2> QED
    BY <1>9, <2>3 DEF MmQuiet, Hsv39Inv, HoldsAt, NoneFrom, TlbTypeOK
<1> QED
  BY <1>2, <1>3, <1>4, <1>5, <1>6, <1>7, <1>8, <1>9

LEMMA Hsv39EntriesAre ==
  /\ ProbedEntry \in Entries /\ ReadExt \in Entries /\ ReadLegacy \in Entries
  /\ ProbedEntry.V /\ ProbedEntry.vpn = DATA_PAGE + ONE_MB
  /\ Covers(ProbedEntry, 1, DATA_PAGE + ONE_MB)
<1>1. DATA_PAGE \in Nat /\ ONE_MB \in Nat \ {0} /\ FOUR_GB \in Nat /\ 1024 * ONE_MB \in Nat \ {0}
  BY MmuAssumption DEF ONE_MB, FOUR_GB
<1>2. ReadExt \in Entries
  BY <1>1 DEF ReadExt, hsv39_entry, create_mmu_entry, Entries
<1>3. ReadLegacy \in Entries
  BY <1>1 DEF ReadLegacy, create_mmu_entry, Entries
<1>4. /\ ProbedEntry \in Entries /\ ProbedEntry.V /\ ProbedEntry.vpn = DATA_PAGE + ONE_MB
      /\ Covers(ProbedEntry, 1, DATA_PAGE + ONE_MB)
  <2>1. ProbedEntry \in Entries
    BY <1>1 DEF ProbedEntry, create_mmu_entry, Entries
  <2>2. ProbedEntry.V /\ ProbedEntry.G /\ ProbedEntry.vpn = DATA_PAGE + ONE_MB
    BY DEF ProbedEntry, create_mmu_entry
  <2> QED
    BY <2>1, <2>2 DEF Covers
<1> QED
  BY <1>2, <1>3, <1>4

LEMMA Hsv39Probe ==
  ASSUME TlbTypeOK, ~ mmFail, ~ mmDead, mmProg = "hsv39", NEW at \in 1 .. 4,
         mmStep = [test |-> 9, at |-> at], Hsv39Inv(9, at), MmNext
  PROVE  /\ TlbTypeOK' /\ ~ mmFail' /\ ~ mmDead' /\ mmProg' = mmProg /\ mmStep' = After
         /\ IF at < 4 THEN Hsv39Inv(9, at + 1)' ELSE Hsv39Inv(10, 1)'
<1> USE DEF SameRest, Sound
<1>1. MmArg = test_tlbp[at]
  BY Hsv39Calls
<1>2. PICK va : va = DATA_PAGE + ONE_MB
  OBVIOUS
<1>3. /\ test_tlbp[1] = [op |-> "extended", i |-> 1, e |-> ProbedEntry]
      /\ test_tlbp[2] = Probe(1, va, 1)
      /\ test_tlbp[3] = Probe64(1, va, TLB_NOT_FOUND)
      /\ test_tlbp[4] = Remove(1)
  BY <1>2 DEF test_tlbp, Extend, ProbedEntry
<1>a. /\ 0 \in Legacy /\ 1 \in Legacy /\ Legacy \subseteq Nat /\ va \in Nat /\ va >= ONE_MB
  BY <1>2, MmuAssumption DEF Legacy, TLB_FIXED_ENTRIES, ONE_MB
<1>b. /\ mmAsid = 0 /\ ~ userMode /\ NoneFrom(2) /\ NoExtended
      /\ IF at > 1 THEN tlb[1] = ProbedEntry ELSE ~ tlb[1].V
  BY DEF Hsv39Inv, HoldsAt
<1>4. CASE at = 1
  <2>1. \A j \in Legacy : j # 0 => ~ tlb[j].V
    BY <1>4, <1>a, <1>b DEF NoneFrom
  <2>2. PICK e \in Entries : e = ProbedEntry /\ e.vpn = va
    BY <1>2, Hsv39EntriesAre
  <2>3. \A j \in Legacy : ~ Covers(tlb[j], mmAsid, e.vpn)
    BY <1>a, <2>1, <2>2, EmptyLookup
  <2>4. MmArg.op = "extended" /\ MmArg.i = 1 /\ MmArg.e = e /\ 1 \in 1 .. 5
    BY <1>1, <1>3, <1>4, <2>2
  <2>5. /\ Wrote(1, e) /\ mmStep' = After
        /\ SameRest /\ Sound /\ my_exceptions' = my_exceptions /\ mmData' = mmData
    BY <2>3, <2>4, DoExtend
  <2>6. /\ TlbTypeOK' /\ tlb'[1] = e /\ tlb'[512] = tlb[512] /\ tlb'[513] = tlb[513]
        /\ (NoneFrom(2)' <=> NoneFrom(2))
    BY <2>5, LowWrite
  <2> QED
    BY <1>4, <1>b, <2>2, <2>5, <2>6 DEF Hsv39Inv, HoldsAt, NoExtended
<1>5. CASE at = 2
  <2>1. Covers(tlb[1], 1, va)
    BY <1>2, <1>5, <1>b, Hsv39EntriesAre
  <2>2. ~ Covers(tlb[0], 1, va)
    BY <1>a, FixedCovers DEF TlbTypeOK, ONE_MB
  <2>3. \A j \in Legacy : j # 1 => ~ Covers(tlb[j], 1, va)
    BY <1>a, <1>b, <2>2, InvalidHidden DEF NoneFrom
  <2>4. tlbp(1, va) = 1 /\ Cardinality(Hits(Legacy, 1, va)) = 1
    BY <1>a, <2>1, <2>3, HitOne
  <2>5. MmArg = Probe(1, va, 1)
    BY <1>1, <1>3, <1>5
  <2>6. MmQuiet
    BY <2>4, <2>5, DoProbe
  <2> QED
    BY <1>5, <2>6 DEF MmQuiet, Hsv39Inv, HoldsAt, NoneFrom, TlbTypeOK, NoExtended
<1>6. CASE at = 3
  <2>1. MmArg = Probe64(1, va, TLB_NOT_FOUND)
    BY <1>1, <1>3, <1>6
  <2>2. tlbp64(1, va) = TLB_NOT_FOUND
    BY <1>b, HighNone
  <2>3. MmQuiet
    BY <2>1, <2>2, DoExpect DEF Probe64
  <2> QED
    BY <1>6, <2>3 DEF MmQuiet, Hsv39Inv, HoldsAt, NoneFrom, TlbTypeOK, NoExtended
<1>7. CASE at = 4
  <2>1. MmArg.op = "remove" /\ MmArg.i = 1 /\ 1 \in Legacy \cup Extended
    BY <1>1, <1>3, <1>7, <1>a DEF Remove
  <2>2. /\ Wrote(1, Invalid(1)) /\ mmStep' = After
        /\ SameRest /\ Sound /\ my_exceptions' = my_exceptions /\ mmData' = mmData
    BY <2>1, DoRemove DEF TlbTypeOK
  <2>3. Invalid(1) \in Entries /\ ~ Invalid(1).V
    BY <2>1, InvalidIs
  <2>4. /\ TlbTypeOK' /\ ~ tlb'[1].V /\ tlb'[512] = tlb[512] /\ tlb'[513] = tlb[513]
        /\ (NoneFrom(2)' <=> NoneFrom(2))
    BY <2>2, <2>3, LowWrite
  <2> QED
    BY <1>7, <1>b, <2>2, <2>4 DEF Hsv39Inv, HoldsAt, NoExtended
<1> QED
  BY <1>4, <1>5, <1>6, <1>7

LEMMA Hsv39Read ==
  ASSUME TlbTypeOK, ~ mmFail, ~ mmDead, mmProg = "hsv39", NEW at \in 1 .. 6,
         mmStep = [test |-> 10, at |-> at], Hsv39Inv(10, at), MmNext
  PROVE  /\ TlbTypeOK' /\ ~ mmFail' /\ ~ mmDead' /\ mmProg' = mmProg /\ mmStep' = After
         /\ IF at < 6 THEN Hsv39Inv(10, at + 1)' ELSE Hsv39Inv(11, 1)'
<1> USE DEF SameRest, Sound
<1>1. MmArg = test_tlbr[at]
  BY Hsv39Calls
<1>3. /\ test_tlbr[1] = AddHsv39(512, ReadExt) /\ test_tlbr[2] = Tlbw(ReadLegacy, 1)
      /\ test_tlbr[3] = ReadEntry(512, ReadExt) /\ test_tlbr[4] = ReadEntry(1, ReadLegacy)
      /\ test_tlbr[5] = Remove(512) /\ test_tlbr[6] = Remove(1)
  BY DEF test_tlbr, ReadExt, ReadLegacy
<1>a. 1 \in Legacy \cup Extended /\ 512 \in Legacy \cup Extended
  BY MmuAssumption DEF Legacy, Extended, TLB_FIXED_ENTRIES
<1>b. /\ mmAsid = 0 /\ ~ userMode /\ NoneFrom(2) /\ ~ tlb[513].V
      /\ IF at \in 2 .. 5 THEN tlb[512] = ReadExt ELSE ~ tlb[512].V
      /\ IF at > 2 THEN tlb[1] = ReadLegacy ELSE ~ tlb[1].V
  BY DEF Hsv39Inv, HoldsAt
<1>c. ReadExt \in Entries /\ ReadLegacy \in Entries
  BY Hsv39EntriesAre
<1>4. CASE at = 1
  <2>1. MmArg.op = "add_hsv39" /\ MmArg.i = 512 /\ MmArg.e = ReadExt /\ NoExtended
    BY <1>1, <1>3, <1>4, <1>b DEF AddHsv39, NoExtended
  <2>2. /\ Wrote(512, ReadExt) /\ mmStep' = After
        /\ SameRest /\ Sound /\ my_exceptions' = my_exceptions /\ mmData' = mmData
    BY <2>1, DoAddHsv39
  <2>3. /\ TlbTypeOK' /\ tlb'[512] = ReadExt /\ tlb'[513] = tlb[513]
        /\ tlb'[1] = tlb[1] /\ (NoneFrom(2)' <=> NoneFrom(2))
    BY <1>c, <2>2, HighWrite
  <2> QED
    BY <1>4, <1>b, <2>2, <2>3 DEF Hsv39Inv, HoldsAt
<1>5. CASE at = 2
  <2>1. MmArg.op = "tlbw" /\ MmArg.i = 1 /\ MmArg.e = ReadLegacy
    BY <1>1, <1>3, <1>5 DEF Tlbw
  <2>2. /\ Wrote(1, ReadLegacy) /\ mmStep' = After
        /\ SameRest /\ Sound /\ my_exceptions' = my_exceptions /\ mmData' = mmData
    BY <2>1, DoTlbw
  <2>3. /\ TlbTypeOK' /\ tlb'[1] = ReadLegacy /\ tlb'[512] = tlb[512] /\ tlb'[513] = tlb[513]
        /\ (NoneFrom(2)' <=> NoneFrom(2))
    BY <1>c, <2>2, LowWrite
  <2> QED
    BY <1>5, <1>b, <2>2, <2>3 DEF Hsv39Inv, HoldsAt
<1>6. CASE at \in {3, 4}
  <2>1. PICK i, e : MmArg = Expect("tlbr", i, e) /\ tlb[i] = e
    <3>1. CASE at = 3
      BY <1>1, <1>3, <1>b, <3>1 DEF ReadEntry
    <3>2. CASE at = 4
      BY <1>1, <1>3, <1>b, <3>2 DEF ReadEntry
    <3> QED
      BY <1>6, <3>1, <3>2
  <2>2. MmQuiet
    BY <2>1, DoExpect
  <2> QED
    BY <1>6, <2>2 DEF MmQuiet, Hsv39Inv, HoldsAt, NoneFrom, TlbTypeOK
<1>7. CASE at = 5
  <2>1. MmArg.op = "remove" /\ MmArg.i = 512
    BY <1>1, <1>3, <1>7 DEF Remove
  <2>2. /\ Wrote(512, Invalid(512)) /\ mmStep' = After
        /\ SameRest /\ Sound /\ my_exceptions' = my_exceptions /\ mmData' = mmData
    BY <1>a, <2>1, DoRemove DEF TlbTypeOK
  <2>3. Invalid(512) \in Entries /\ ~ Invalid(512).V
    BY <1>a, InvalidIs
  <2>4. /\ TlbTypeOK' /\ ~ tlb'[512].V /\ tlb'[513] = tlb[513]
        /\ tlb'[1] = tlb[1] /\ (NoneFrom(2)' <=> NoneFrom(2))
    BY <2>2, <2>3, HighWrite
  <2> QED
    BY <1>7, <1>b, <2>2, <2>4 DEF Hsv39Inv, HoldsAt
<1>8. CASE at = 6
  <2>1. MmArg.op = "remove" /\ MmArg.i = 1
    BY <1>1, <1>3, <1>8 DEF Remove
  <2>2. /\ Wrote(1, Invalid(1)) /\ mmStep' = After
        /\ SameRest /\ Sound /\ my_exceptions' = my_exceptions /\ mmData' = mmData
    BY <1>a, <2>1, DoRemove DEF TlbTypeOK
  <2>3. Invalid(1) \in Entries /\ ~ Invalid(1).V
    BY <1>a, InvalidIs
  <2>4. /\ TlbTypeOK' /\ ~ tlb'[1].V /\ tlb'[512] = tlb[512] /\ tlb'[513] = tlb[513]
        /\ (NoneFrom(2)' <=> NoneFrom(2))
    BY <2>2, <2>3, LowWrite
  <2> QED
    BY <1>8, <1>b, <2>2, <2>4 DEF Hsv39Inv, HoldsAt, NoExtended
<1> QED
  BY <1>4, <1>5, <1>6, <1>7, <1>8

-----------------------------------------------------------------------------
(* No two translations of one page.                                          *)

(* An entry of a page of 4K or of a megabyte, in megabyte k.                 *)
Mega(e, k) == e.size \in {1, ONE_MB} /\ e.vpn \in k * ONE_MB .. k * ONE_MB + 255

LEMMA MegaApart ==
  ASSUME NEW e, NEW f, NEW k \in Nat, NEW m \in Nat, k # m, Mega(e, k), Mega(f, m)
  PROVE  ~ Overlaps(e, f)
<1>1. PICK a \in 0 .. 255 : e.vpn = k * 256 + a
  BY DEF Mega, ONE_MB
<1>2. PICK b \in 0 .. 255 : f.vpn = m * 256 + b
  BY DEF Mega, ONE_MB
<1>3. PICK size \in {1, 256} : size = IF e.size > f.size THEN e.size ELSE f.size
  BY DEF Mega, ONE_MB
<1>4. page_start(e.vpn, size) # page_start(f.vpn, size)
  <2>1. CASE size = 1
    BY <1>1, <1>2, <2>1 DEF page_start
  <2>2. CASE size = 256
    <3>1. page_start(e.vpn, 256) = k * 256 /\ page_start(f.vpn, 256) = m * 256
      BY <1>1, <1>2 DEF page_start
    <3> QED
      BY <2>2, <3>1
  <2> QED
    BY <2>1, <2>2
<1> QED
  BY <1>3, <1>4 DEF Overlaps

LEMMA FixedMega == Mega(Fixed, 0)
BY DEF Mega, Fixed, create_mmu_entry, ONE_MB

(* Only entry i is valid besides the fixed one.                              *)
LEMMA OneApart ==
  ASSUME TlbTypeOK, NEW i \in Nat, \A j \in Legacy : j \notin {0, i} => ~ tlb[j].V,
         tlb[i].V => ~ Overlaps(Fixed, tlb[i]) /\ ~ Overlaps(tlb[i], Fixed)
  PROVE  MmApart
BY DEF MmApart, TlbTypeOK, Overlaps

LEMMA SlottedApart ==
  ASSUME TlbTypeOK, Slotted
  PROVE  MmApart
<1> SUFFICES ASSUME NEW i \in Legacy, NEW j \in Legacy, i # j, tlb[i].V, tlb[j].V PROVE ~ Overlaps(tlb[i], tlb[j])
  BY DEF MmApart, Overlaps
<1>1. ASSUME NEW k \in Legacy, tlb[k].V PROVE k \in Nat /\ Mega(tlb[k], k)
  <2>1. CASE k = 0
    BY <2>1, FixedMega DEF TlbTypeOK
  <2>2. CASE k # 0
    BY <1>1, <2>2 DEF Slotted, Mega, Legacy
  <2> QED
    BY <2>1, <2>2
<1> QED
  BY <1>1, MegaApart

LEMMA SizeApart ==
  ASSUME NEW size \in MmSizes, NEW page \in 1 .. 255
  PROVE  ~ Overlaps(Fixed, SizeEntry(page, size)) /\ ~ Overlaps(SizeEntry(page, size), Fixed)
<1>1. CASE size \in {1, 4, 16, 64, 256}
  <2>1. PICK v : v = page_start(page, size) + 5 * 256
    OBVIOUS
  <2>2. /\ v \in Nat /\ page_start(v, 256) # 0
    <3>1. CASE size = 1
      BY <2>1, <3>1 DEF page_start
    <3>2. CASE size = 4
      BY <2>1, <3>2 DEF page_start
    <3>3. CASE size = 16
      BY <2>1, <3>3 DEF page_start
    <3>4. CASE size = 64
      BY <2>1, <3>4 DEF page_start
    <3>5. CASE size = 256
      BY <2>1, <3>5 DEF page_start
    <3> QED
      BY <1>1, <3>1, <3>2, <3>3, <3>4, <3>5
  <2>3. PICK e : e = SizeEntry(page, size)
    OBVIOUS
  <2>4. e.vpn = v /\ e.size = size
    BY <1>1, <2>1, <2>3 DEF SizeEntry, SizeOffset, create_mmu_entry, ONE_MB
  <2>5. Fixed.vpn = 0 /\ Fixed.size = 256 /\ page_start(0, 256) = 0
    BY DEF Fixed, create_mmu_entry, ONE_MB, page_start
  <2> QED
    BY <1>1, <2>2, <2>3, <2>4, <2>5 DEF Overlaps
<1>2. CASE size \in {1024, 4096, 16384, 65536, 262144}
  <2>1. page_start(page, size) = 0 /\ page_start(0, size) = 0 /\ page_start(size, size) = size /\ size \in Nat /\ size > 256
    BY <1>2 DEF page_start
  <2>3. PICK e : e = SizeEntry(page, size)
    OBVIOUS
  <2>4. e.vpn = size /\ e.size = size
    BY <2>1, <2>3 DEF SizeEntry, SizeOffset, create_mmu_entry, ONE_MB
  <2>5. Fixed.vpn = 0 /\ Fixed.size = 256
    BY DEF Fixed, create_mmu_entry, ONE_MB
  <2> QED
    BY <2>1, <2>3, <2>4, <2>5 DEF Overlaps
<1> QED
  BY <1>1, <1>2 DEF MmSizes

LEMMA PageSizeApart ==
  ASSUME TlbTypeOK, NEW n, NEW at, PageSizeInv(n, at)
  PROVE  MmApart
<1>a. DATA_PAGE \in 1 .. 255 /\ FUNC_PAGE \in 1 .. 255 /\ Legacy \subseteq Nat
  BY MmuAssumption DEF Legacy, ONE_MB
<1>b. \A j \in Legacy : j \notin {0, 1, 2} => ~ tlb[j].V
  BY <1>a DEF PageSizeInv, NoneFrom
<1>1. CASE at \in 3 .. 7
  <2>1. n \in 1 .. 10 /\ tlb[1] = SizeEntry(DATA_PAGE, PageSizes[n]) /\ ~ tlb[2].V
    BY <1>1 DEF PageSizeInv, HoldsAt
  <2>2. ~ Overlaps(Fixed, tlb[1]) /\ ~ Overlaps(tlb[1], Fixed)
    BY <1>a, <2>1, SizeCases, SizeApart
  <2>3. \A j \in Legacy : j \notin {0, 1} => ~ tlb[j].V
    BY <1>b, <2>1
  <2> QED
    BY <2>2, <2>3, OneApart
<1>2. CASE at \in 10 .. 12
  <2>1. n \in 1 .. 10 /\ tlb[2] = SizeEntry(FUNC_PAGE, PageSizes[n]) /\ ~ tlb[1].V
    BY <1>2 DEF PageSizeInv, HoldsAt
  <2>2. ~ Overlaps(Fixed, tlb[2]) /\ ~ Overlaps(tlb[2], Fixed)
    BY <1>a, <2>1, SizeCases, SizeApart
  <2>3. \A j \in Legacy : j \notin {0, 2} => ~ tlb[j].V
    BY <1>b, <2>1
  <2> QED
    BY <2>2, <2>3, OneApart
<1>3. CASE at \notin 3 .. 7 /\ at \notin 10 .. 12
  <2>1. ~ tlb[1].V /\ \A j \in Legacy : j \notin {0, 1} => ~ tlb[j].V
    BY <1>3, <1>b DEF PageSizeInv, HoldsAt
  <2> QED
    BY <2>1, OneApart
<1> QED
  BY <1>1, <1>2, <1>3

LEMMA OverlapApart ==
  ASSUME TlbTypeOK, NEW at, OverlapInv(at)
  PROVE  MmApart
<1>1. Mega(OverlapEntry, 5) /\ Mega(ClearEntry, 6)
  BY DEF Mega, OverlapEntry, ClearEntry, create_mmu_entry, ONE_MB
<1>2. Legacy \subseteq Nat
  BY DEF Legacy
<1>3. \A k \in Legacy : tlb[k].V => /\ k \in {0, 1, 2} /\ (k = 0 => Mega(tlb[k], 0))
                                    /\ (k = 1 => Mega(tlb[k], 5)) /\ (k = 2 => Mega(tlb[k], 6))
  BY <1>1, <1>2, FixedMega DEF OverlapInv, HoldsAt, NoneFrom, TlbTypeOK
<1> SUFFICES ASSUME NEW i \in Legacy, NEW j \in Legacy, i # j, tlb[i].V, tlb[j].V PROVE ~ Overlaps(tlb[i], tlb[j])
  BY DEF MmApart, Overlaps
<1>4. PICK k \in Nat : Mega(tlb[i], k) /\ k = IF i = 0 THEN 0 ELSE i + 4
  BY <1>3
<1>5. PICK m \in Nat : Mega(tlb[j], m) /\ m = IF j = 0 THEN 0 ELSE j + 4
  BY <1>3
<1> QED
  BY <1>2, <1>4, <1>5, MegaApart

LEMMA AsidsApart ==
  ASSUME TlbTypeOK, NEW at, AsidsInv(at)
  PROVE  MmApart
<1>a. Legacy \subseteq Nat /\ (\A j \in Legacy : j \in {0, 1} \/ j \in 2 .. 5 \/ j \in RefillIndex)
  BY MmuAssumption DEF Legacy, RefillIndex, TLB_FIXED_ENTRIES
<1>1. Mega(AsidEntry, 5) /\ Mega(Refilled, 5)
  BY MmuAssumption DEF Mega, AsidEntry, Refilled, create_mmu_entry, ONE_MB
<1>2. \A e : Mega(e, 5) => ~ Overlaps(Fixed, e) /\ ~ Overlaps(e, Fixed)
  BY FixedMega, MegaApart
<1>3. CASE at >= 13 /\ at \in 1 .. 18
  <2>1. tlb[1].V => ~ Sees(mmAsid, tlb[1])
    <3>1. tlb[1].V => tlb[1] = AsidEntry /\ at \in 13 .. 14
      BY <1>3 DEF AsidsInv, HoldsAt
    <3>2. at \in 13 .. 14 => mmAsid = 2
      BY DEF AsidsInv
    <3> QED
      BY <3>1, <3>2, AsidEntryIs DEF Sees
  <2>2. ASSUME NEW k \in Legacy, Sees(mmAsid, tlb[k]), k # 0 PROVE k \in RefillIndex /\ tlb[k] = Refilled
    <3>1. k # 1 /\ tlb[k].V
      BY <2>1, <2>2 DEF Sees
    <3> QED
      BY <1>a, <2>2, <3>1 DEF AsidsInv
  <2> SUFFICES ASSUME NEW i \in Legacy, NEW j \in Legacy, i # j, Sees(mmAsid, tlb[i]), Sees(mmAsid, tlb[j])
               PROVE  ~ Overlaps(tlb[i], tlb[j])
    BY DEF MmApart
  <2>3. i = 0 \/ j = 0
    BY <2>2 DEF AsidsInv, Sees
  <2> QED
    BY <1>1, <1>2, <2>2, <2>3 DEF TlbTypeOK
<1>4. CASE at < 13 /\ at \in 1 .. 18
  <2>1. \A j \in Legacy : j \notin {0, 1} => ~ tlb[j].V
    BY <1>4, <1>a DEF AsidsInv
  <2>2. tlb[1].V => tlb[1] = AsidEntry
    BY DEF AsidsInv, HoldsAt
  <2> QED
    BY <1>1, <1>2, <2>1, <2>2, OneApart
<1> QED
  BY <1>3, <1>4 DEF AsidsInv

LEMMA Hsv39Apart ==
  ASSUME TlbTypeOK, NEW n, NEW at, Hsv39Inv(n, at)
  PROVE  MmApart
<1>1. Mega(ProbedEntry, 1) /\ Mega(ReadLegacy, 1)
  BY MmuAssumption DEF Mega, ProbedEntry, ReadLegacy, create_mmu_entry, ONE_MB
<1>2. tlb[1].V => Mega(tlb[1], 1)
  BY <1>1 DEF Hsv39Inv, HoldsAt
<1>3. \A j \in Legacy : j \notin {0, 1} => ~ tlb[j].V
  BY DEF Hsv39Inv, NoneFrom, Legacy
<1>4. tlb[1].V => ~ Overlaps(Fixed, tlb[1]) /\ ~ Overlaps(tlb[1], Fixed)
  BY <1>2, FixedMega, MegaApart
<1> QED
  BY <1>3, <1>4, OneApart

LEMMA PlaceApart == MmTypeOK /\ MmPlace => MmApart
<1> SUFFICES ASSUME MmTypeOK, MmPlace PROVE MmApart
  OBVIOUS
<1>1. CASE mmProg = "permissions"
  BY <1>1, PermissionsSlots, SlottedApart DEF MmPlace, MmTypeOK
<1>2. CASE mmProg = "page_size"
  BY <1>2, PageSizeApart DEF MmPlace, MmTypeOK
<1>3. CASE mmProg = "asids"
  BY <1>3, AsidsApart DEF MmPlace, MmTypeOK
<1>4. CASE mmProg = "multi_tlb"
  BY <1>4 DEF MmApart
<1>5. CASE mmProg = "overlap"
  BY <1>5, OverlapApart DEF MmPlace, MmTypeOK
<1>6. CASE mmProg = "cacheops"
  BY <1>6, CacheSlots, SlottedApart DEF MmPlace, MmTypeOK
<1>7. CASE mmProg = "hsv39"
  BY <1>7, Hsv39Apart DEF MmPlace, MmTypeOK
<1> QED
  BY <1>1, <1>2, <1>3, <1>4, <1>5, <1>6, <1>7 DEF MmTypeOK, MmPrograms

-----------------------------------------------------------------------------
LEMMA MmInitInv == MmInit => MmInv
<1> SUFFICES ASSUME MmInit PROVE MmInv
  OBVIOUS
<1>1. mmProg \in MmPrograms
  BY DEF MmInit, Program, MmPrograms
<1>2. /\ 0 \in Legacy \cup Extended /\ 1 .. 5 \subseteq Legacy /\ Extended = {512, 513} /\ Legacy \subseteq Nat
      /\ RefillIndex \subseteq Legacy /\ (\A i \in RefillIndex : i # 0)
  BY MmuAssumption DEF Legacy, Extended, TLB_FIXED_ENTRIES, RefillIndex
<1>3. NoEntry \in Entries /\ ~ NoEntry.V /\ Fixed \in Entries
  <2>1. Fixed \in Entries
    BY DEF Fixed, create_mmu_entry, Entries, ONE_MB
  <2>2. PICK e : e = create_mmu_entry(FALSE, 0, 0, {}, 0, 1)
    OBVIOUS
  <2>3. e \in Entries
    BY <2>2 DEF create_mmu_entry, Entries
  <2>4. NoEntry = [e EXCEPT !.V = FALSE]
    BY <2>2, Zenon DEF NoEntry
  <2> QED
    BY <2>1, <2>3, <2>4 DEF Entries
<1>4. TlbTypeOK /\ \A i \in Legacy \cup Extended : i # 0 => ~ tlb[i].V
  <2>1. tlb = [i \in Legacy \cup Extended |-> IF i = 0 THEN Fixed ELSE NoEntry]
    BY Zenon DEF MmInit, Fixed
  <2> QED
    BY <1>2, <1>3, <2>1 DEF TlbTypeOK
<1>5. /\ (\A i \in 1 .. 5 : ~ tlb[i].V) /\ NoExtended /\ (\A n \in Nat \ {0} : NoneFrom(n))
      /\ \A i \in RefillIndex : ~ tlb[i].V
  BY <1>2, <1>4 DEF NoneFrom, NoExtended
<1>6. ~ mmFail /\ ~ mmDead /\ mmAsid = 0 /\ userMode = FALSE /\ evbMine = FALSE /\ my_exceptions = {} /\ mmStep = [test |-> 1, at |-> 1]
  BY DEF MmInit
<1>7. PermissionsInv(1)
  BY <1>5, <1>6 DEF PermissionsInv, HoldsAt
<1>8. PageSizeInv(1, 1)
  BY <1>5, <1>6 DEF PageSizeInv, HoldsAt
<1>9. AsidsInv(1)
  BY <1>5, <1>6 DEF AsidsInv, HoldsAt
<1>10. MultiInv(1) /\ OverlapInv(1)
  BY <1>5, <1>6 DEF MultiInv, OverlapInv, HoldsAt
<1>11. CacheInv(1)
  BY <1>5, <1>6 DEF CacheInv
<1>12. Hsv39Inv(1, 1)
  BY <1>5, <1>6 DEF Hsv39Inv, HoldsAt, NoExtended
<1>13. MmAtTest(1, 1) /\ AtCall(1, 22) /\ AtCall(1, 17) /\ AtCall(1, 13) /\ AtCall(1, 11) /\ AtCall(1, 14)
  BY <1>6 DEF MmAtTest, AtCall
<1>14. MmPlace
  BY <1>7, <1>8, <1>9, <1>10, <1>11, <1>12, <1>13 DEF MmPlace
<1> QED
  BY <1>1, <1>4, <1>6, <1>14 DEF MmInv, MmTypeOK

LEMMA ProgramLengths ==
  /\ \A p \in {"permissions", "asids", "multi_tlb", "overlap", "cacheops"} : Len(Program[p]) = 1
  /\ Len(Program["page_size"]) = 10 /\ Len(Program["hsv39"]) = 10
<1>1. \A p \in {"permissions", "asids", "multi_tlb", "overlap", "cacheops"} : Len(Program[p]) = 1
  BY DEF Program
<1>2. Program["page_size"] = page_size_main /\ Program["hsv39"] = hsv39_main
  BY DEF Program
<1>3. Len(page_size_main) = 10
  BY DEF page_size_main
<1>4. Len(hsv39_main) = 10
  BY DEF hsv39_main
<1> QED
  BY <1>1, <1>2, <1>3, <1>4

(* A call of a program of one test.                                          *)
LEMMA OneTest ==
  ASSUME NEW len \in Nat, NEW at \in 1 .. len + 1, AtCall(at, len), MmRunning, Len(Program[mmProg]) = 1
  PROVE  at \in 1 .. len /\ mmStep = [test |-> 1, at |-> at]
BY DEF AtCall, MmRunning

LEMMA OneTestAfter ==
  ASSUME NEW len \in Nat, NEW at \in 1 .. len, mmStep = [test |-> 1, at |-> at], Len(MmTest) = len
  PROVE  /\ mmStep' = After => AtCall(at + 1, len)'
         /\ mmStep' = mmStep => AtCall(at, len)'
<1>1. ASSUME mmStep' = After PROVE mmStep' = IF at < len THEN [test |-> 1, at |-> at + 1] ELSE [test |-> 1 + 1, at |-> 1]
  BY <1>1, AfterIs
<1> QED
  BY <1>1 DEF AtCall

(* A call of one of several tests.                                           *)
LEMMA TestAfter ==
  ASSUME NEW n \in Nat, NEW at \in Nat, MmAtTest(n, at), NEW len \in Nat, Len(MmTest) = len, mmStep' = After
  PROVE  IF at < len THEN MmAtTest(n, at + 1)' ELSE MmAtTest(n + 1, 1)'
BY AfterIs DEF MmAtTest

LEMMA MmStepInv == MmInv /\ [MmNext]_mmVars => MmInv'
<1> SUFFICES ASSUME MmInv, [MmNext]_mmVars PROVE MmInv'
  OBVIOUS
<1>1. CASE UNCHANGED mmVars
  <2>1. /\ mmProg' = mmProg /\ evbMine' = evbMine /\ mmAsid' = mmAsid /\ userMode' = userMode /\ mmStep' = mmStep
        /\ tlb' = tlb /\ my_exceptions' = my_exceptions /\ mmData' = mmData /\ mmDead' = mmDead /\ mmFail' = mmFail
    BY <1>1 DEF mmVars, mmEnv
  <2>2. ASSUME NEW at, PermissionsInv(at) PROVE PermissionsInv(at)'
    BY <2>1, <2>2, Zenon DEF PermissionsInv, NoneFrom, HoldsAt, Granted
  <2>3. ASSUME NEW n, NEW at, PageSizeInv(n, at) PROVE PageSizeInv(n, at)'
    BY <2>1, <2>3, Zenon DEF PageSizeInv, NoneFrom, HoldsAt
  <2>4. ASSUME NEW at, AsidsInv(at) PROVE AsidsInv(at)'
    BY <2>1, <2>4, Zenon DEF AsidsInv, HoldsAt
  <2>5. ASSUME NEW at, MultiInv(at) PROVE MultiInv(at)'
    BY <2>1, <2>5, Zenon DEF MultiInv, NoneFrom, HoldsAt
  <2>6. ASSUME NEW at, OverlapInv(at) PROVE OverlapInv(at)'
    BY <2>1, <2>6, Zenon DEF OverlapInv, NoneFrom, HoldsAt
  <2>7. ASSUME NEW at, CacheInv(at) PROVE CacheInv(at)'
    BY <2>1, <2>7, Zenon DEF CacheInv, CacheDone, NoneFrom
  <2>8. ASSUME NEW n, NEW at, Hsv39Inv(n, at) PROVE Hsv39Inv(n, at)'
    <3>1. NoneFrom(2)' = NoneFrom(2) /\ NoExtended' = NoExtended
      BY <2>1, Zenon DEF NoneFrom, NoExtended
    <3>2. \A i, e, here : HoldsAt(i, e, here)' = HoldsAt(i, e, here)
      BY <2>1, Zenon DEF HoldsAt
    <3> QED
      BY <2>1, <2>8, <3>1, <3>2, ZenonT(40) DEF Hsv39Inv
  <2>9. /\ \A at, len : AtCall(at, len) => AtCall(at, len)'
        /\ \A n, at : MmAtTest(n, at) => MmAtTest(n, at)'
    BY <2>1, Zenon DEF AtCall, MmAtTest
  <2>10. MmPlace'
    <3>0. MmPlace
      BY DEF MmInv
    <3>1. ASSUME mmProg = "permissions" PROVE \E at \in 1 .. 23 : AtCall(at, 22)' /\ PermissionsInv(at)'
      BY <2>2, <2>9, <3>0, <3>1 DEF MmPlace
    <3>2. ASSUME mmProg = "page_size" PROVE \E n \in 1 .. 11, at \in 1 .. 13 : MmAtTest(n, at)' /\ PageSizeInv(n, at)'
      BY <2>3, <2>9, <3>0, <3>2 DEF MmPlace
    <3>3. ASSUME mmProg = "asids" PROVE \E at \in 1 .. 18 : AtCall(at, 17)' /\ AsidsInv(at)'
      BY <2>4, <2>9, <3>0, <3>3 DEF MmPlace
    <3>4. ASSUME mmProg = "multi_tlb" PROVE \E at \in 1 .. 14 : AtCall(at, 13)' /\ MultiInv(at)'
      BY <2>5, <2>9, <3>0, <3>4 DEF MmPlace
    <3>5. ASSUME mmProg = "overlap" PROVE \E at \in 1 .. 12 : AtCall(at, 11)' /\ OverlapInv(at)'
      BY <2>6, <2>9, <3>0, <3>5 DEF MmPlace
    <3>6. ASSUME mmProg = "cacheops" PROVE \E at \in 1 .. 15 : AtCall(at, 14)' /\ CacheInv(at)'
      BY <2>7, <2>9, <3>0, <3>6 DEF MmPlace
    <3>7. ASSUME mmProg = "hsv39" PROVE \E n \in 1 .. 11, at \in 1 .. 13 : MmAtTest(n, at)' /\ Hsv39Inv(n, at)'
      BY <2>8, <2>9, <3>0, <3>7 DEF MmPlace
    <3> QED
      BY <2>1, <3>1, <3>2, <3>3, <3>4, <3>5, <3>6, <3>7 DEF MmPlace
  <2> QED
    BY <2>1, <2>10 DEF MmInv, MmTypeOK, TlbTypeOK
<1>2. CASE MmNext
  <2>1. MmRunning
    BY <1>2, Dispatch
  <2>2. MmTypeOK /\ TlbTypeOK /\ ~ mmFail /\ ~ mmDead /\ MmPlace
    BY DEF MmInv, MmTypeOK
  <2>3. CASE mmProg = "permissions"
    <3>1. PICK at \in 1 .. 23 : AtCall(at, 22) /\ PermissionsInv(at)
      BY <2>2, <2>3 DEF MmPlace
    <3>2. at \in 1 .. 22 /\ mmStep = [test |-> 1, at |-> at]
      BY <2>1, <2>3, <3>1, OneTest, ProgramLengths
    <3>3. /\ TlbTypeOK' /\ ~ mmFail' /\ ~ mmDead' /\ mmProg' = mmProg
          /\ \/ mmStep' = After /\ PermissionsInv(at + 1)'
             \/ mmStep' = mmStep /\ PermissionsInv(at)'
      BY <1>2, <2>2, <2>3, <3>1, <3>2, PermissionsStep
    <3>4. (mmStep' = After => AtCall(at + 1, 22)') /\ (mmStep' = mmStep => AtCall(at, 22)')
      BY <2>3, <3>2, PermissionsCalls, OneTestAfter
    <3>5. \E x \in 1 .. 23 : AtCall(x, 22)' /\ PermissionsInv(x)'
      BY <3>2, <3>3, <3>4
    <3> QED
      BY <2>2, <2>3, <3>3, <3>5 DEF MmInv, MmTypeOK, MmPlace
  <2>4. CASE mmProg = "asids"
    <3>1. PICK at \in 1 .. 18 : AtCall(at, 17) /\ AsidsInv(at)
      BY <2>2, <2>4 DEF MmPlace
    <3>2. at \in 1 .. 17 /\ mmStep = [test |-> 1, at |-> at]
      BY <2>1, <2>4, <3>1, OneTest, ProgramLengths
    <3>3. /\ TlbTypeOK' /\ ~ mmFail' /\ ~ mmDead' /\ mmProg' = mmProg
          /\ \/ mmStep' = After /\ AsidsInv(at + 1)'
             \/ mmStep' = mmStep /\ AsidsInv(at)'
      BY <1>2, <2>2, <2>4, <3>1, <3>2, AsidsStep
    <3>4. (mmStep' = After => AtCall(at + 1, 17)') /\ (mmStep' = mmStep => AtCall(at, 17)')
      BY <2>4, <3>2, AsidsCalls, OneTestAfter
    <3>5. \E x \in 1 .. 18 : AtCall(x, 17)' /\ AsidsInv(x)'
      BY <3>2, <3>3, <3>4
    <3> QED
      BY <2>2, <2>4, <3>3, <3>5 DEF MmInv, MmTypeOK, MmPlace
  <2>5. CASE mmProg = "multi_tlb"
    <3>1. PICK at \in 1 .. 14 : AtCall(at, 13) /\ MultiInv(at)
      BY <2>2, <2>5 DEF MmPlace
    <3>2. at \in 1 .. 13 /\ mmStep = [test |-> 1, at |-> at]
      BY <2>1, <2>5, <3>1, OneTest, ProgramLengths
    <3>3. /\ TlbTypeOK' /\ ~ mmFail' /\ ~ mmDead' /\ mmProg' = mmProg
          /\ mmStep' = After /\ MultiInv(at + 1)'
      BY <1>2, <2>2, <2>5, <3>1, <3>2, MultiStep
    <3>4. AtCall(at + 1, 13)'
      BY <2>5, <3>2, <3>3, MultiCalls, OneTestAfter
    <3>5. \E x \in 1 .. 14 : AtCall(x, 13)' /\ MultiInv(x)'
      BY <3>2, <3>3, <3>4
    <3> QED
      BY <2>2, <2>5, <3>3, <3>5 DEF MmInv, MmTypeOK, MmPlace
  <2>6. CASE mmProg = "overlap"
    <3>1. PICK at \in 1 .. 12 : AtCall(at, 11) /\ OverlapInv(at)
      BY <2>2, <2>6 DEF MmPlace
    <3>2. at \in 1 .. 11 /\ mmStep = [test |-> 1, at |-> at]
      BY <2>1, <2>6, <3>1, OneTest, ProgramLengths
    <3>3. /\ TlbTypeOK' /\ ~ mmFail' /\ ~ mmDead' /\ mmProg' = mmProg
          /\ mmStep' = After /\ OverlapInv(at + 1)'
      BY <1>2, <2>2, <2>6, <3>1, <3>2, OverlapStep
    <3>4. AtCall(at + 1, 11)'
      BY <2>6, <3>2, <3>3, OverlapCalls, OneTestAfter
    <3>5. \E x \in 1 .. 12 : AtCall(x, 11)' /\ OverlapInv(x)'
      BY <3>2, <3>3, <3>4
    <3> QED
      BY <2>2, <2>6, <3>3, <3>5 DEF MmInv, MmTypeOK, MmPlace
  <2>7. CASE mmProg = "cacheops"
    <3>1. PICK at \in 1 .. 15 : AtCall(at, 14) /\ CacheInv(at)
      BY <2>2, <2>7 DEF MmPlace
    <3>2. at \in 1 .. 14 /\ mmStep = [test |-> 1, at |-> at]
      BY <2>1, <2>7, <3>1, OneTest, ProgramLengths
    <3>3. /\ TlbTypeOK' /\ ~ mmFail' /\ ~ mmDead' /\ mmProg' = mmProg
          /\ \/ mmStep' = After /\ CacheInv(at + 1)'
             \/ mmStep' = mmStep /\ CacheInv(at)'
      BY <1>2, <2>2, <2>7, <3>1, <3>2, CacheStep
    <3>4. (mmStep' = After => AtCall(at + 1, 14)') /\ (mmStep' = mmStep => AtCall(at, 14)')
      BY <2>7, <3>2, CacheCalls, OneTestAfter
    <3>5. \E x \in 1 .. 15 : AtCall(x, 14)' /\ CacheInv(x)'
      BY <3>2, <3>3, <3>4
    <3> QED
      BY <2>2, <2>7, <3>3, <3>5 DEF MmInv, MmTypeOK, MmPlace
  <2>8. CASE mmProg = "page_size"
    <3>1. PICK n \in 1 .. 11, at \in 1 .. 13 : MmAtTest(n, at) /\ PageSizeInv(n, at)
      BY <2>2, <2>8 DEF MmPlace
    <3>2. n \in 1 .. 10 /\ mmStep = [test |-> n, at |-> at]
      BY <2>1, <2>8, <3>1, ProgramLengths DEF MmRunning, MmAtTest
    <3>3. /\ TlbTypeOK' /\ ~ mmFail' /\ ~ mmDead' /\ mmProg' = mmProg /\ mmStep' = After
          /\ IF at < 13 THEN PageSizeInv(n, at + 1)' ELSE PageSizeInv(n + 1, 1)'
      BY <1>2, <2>2, <2>8, <3>1, <3>2, PageSizeStep
    <3>4. Len(MmTest) = 13
      BY <2>8, <3>2, PageSizeCalls
    <3>5. IF at < 13 THEN MmAtTest(n, at + 1)' ELSE MmAtTest(n + 1, 1)'
      BY <3>1, <3>3, <3>4, TestAfter
    <3>6. \E x \in 1 .. 11, y \in 1 .. 13 : MmAtTest(x, y)' /\ PageSizeInv(x, y)'
      BY <3>2, <3>3, <3>5
    <3> QED
      BY <2>2, <2>8, <3>3, <3>6 DEF MmInv, MmTypeOK, MmPlace
  <2>9. CASE mmProg = "hsv39"
    <3>1. PICK n \in 1 .. 11, at \in 1 .. 13 : MmAtTest(n, at) /\ Hsv39Inv(n, at)
      BY <2>2, <2>9 DEF MmPlace
    <3>2. n \in 1 .. 10 /\ mmStep = [test |-> n, at |-> at]
      BY <2>1, <2>9, <3>1, ProgramLengths DEF MmRunning, MmAtTest
    <3>3. PICK len \in {13, 4, 6} : len = (IF n <= 8 THEN 13 ELSE IF n = 9 THEN 4 ELSE 6) /\ Len(MmTest) = len
      BY <2>9, <3>2, Hsv39Calls
    <3>4. /\ TlbTypeOK' /\ ~ mmFail' /\ ~ mmDead' /\ mmProg' = mmProg /\ mmStep' = After
          /\ IF at < len THEN Hsv39Inv(n, at + 1)' ELSE Hsv39Inv(n + 1, 1)'
      <4>1. CASE n \in 1 .. 8
        <5>1. len = 13
          BY <3>3, <4>1
        <5>2. /\ TlbTypeOK' /\ ~ mmFail' /\ ~ mmDead' /\ mmProg' = mmProg /\ mmStep' = After
              /\ IF at < 13 THEN Hsv39Inv(n, at + 1)' ELSE Hsv39Inv(n + 1, 1)'
          BY <1>2, <2>2, <2>9, <3>1, <3>2, <4>1, Hsv39Page
        <5> QED
          BY <5>1, <5>2
      <4>2. CASE n = 9
        <5>1. at \in 1 .. 4
          BY <3>1, <4>2 DEF Hsv39Inv
        <5> QED
          BY <1>2, <2>2, <2>9, <3>1, <3>2, <3>3, <4>2, <5>1, Hsv39Probe
      <4>3. CASE n = 10
        <5>1. at \in 1 .. 6
          BY <3>1, <4>3 DEF Hsv39Inv
        <5> QED
          BY <1>2, <2>2, <2>9, <3>1, <3>2, <3>3, <4>3, <5>1, Hsv39Read
      <4> QED
        BY <3>2, <4>1, <4>2, <4>3
    <3>5. IF at < len THEN MmAtTest(n, at + 1)' ELSE MmAtTest(n + 1, 1)'
      BY <3>1, <3>3, <3>4, TestAfter
    <3>6. \E x \in 1 .. 11, y \in 1 .. 13 : MmAtTest(x, y)' /\ Hsv39Inv(x, y)'
      BY <3>2, <3>3, <3>4, <3>5
    <3> QED
      BY <2>2, <2>9, <3>4, <3>6 DEF MmInv, MmTypeOK, MmPlace
  <2> QED
    BY <2>2, <2>3, <2>4, <2>5, <2>6, <2>7, <2>8, <2>9 DEF MmTypeOK, MmPrograms
<1> QED
  BY <1>1, <1>2

-----------------------------------------------------------------------------
(* The composition.  A program that does not run keeps its variables, and    *)
(* the program that runs is chosen once.                                     *)

SysInv ==
    /\ system = "qtimer" => QtInv
    /\ system = "memfile" => MfInv
    /\ system = "l2vic" => LvInv
    /\ system = "badva" => BvInv
    /\ system = "pcycle" => PcInv
    /\ system = "scatter" => SgInv
    /\ system = "mmu" => MmInv

LEMMA SysInitInv == SysInit => SysInv
BY QtInitInv, MfInitInv, LvInitInv, BvInitInv, PcInitInv, SgInitInv, MmInitInv DEF SysInit, SysInv

(* Every step is one of the program that runs and leaves the variables of    *)
(* the others as they were.                                                  *)
LEMMA OthersKeep ==
  ASSUME [SysNext]_sysVars
  PROVE  /\ UNCHANGED system
         /\ UNCHANGED qtVars \/ (system = "qtimer" /\ QtNext)
         /\ UNCHANGED mfVars \/ (system = "memfile" /\ MfNext)
         /\ UNCHANGED lvVars \/ (system = "l2vic" /\ LvNext)
         /\ UNCHANGED bvVars \/ (system = "badva" /\ BvNext)
         /\ UNCHANGED pcVars \/ (system = "pcycle" /\ PcNext)
         /\ UNCHANGED sgVars \/ (system = "scatter" /\ SgNext)
         /\ UNCHANGED mmVars \/ (system = "mmu" /\ MmNext)
<1>1. CASE Scatter
  BY <1>1, Zenon DEF Scatter
<1>2. CASE Pmu
  BY <1>2, Zenon DEF Pmu
<1>3. CASE Mmu
  BY <1>3, Zenon DEF Mmu
<1>4. CASE BadvaStep
  BY <1>4, Zenon DEF BadvaStep
<1>5. CASE Pcycle
  BY <1>5, Zenon DEF Pcycle
<1>6. CASE L2vic
  BY <1>6, Zenon DEF L2vic
<1>7. CASE Qtimer
  BY <1>7, Zenon DEF Qtimer
<1>8. CASE Libc
  BY <1>8, Zenon DEF Libc
<1>9. CASE MemFiles
  BY <1>9, Zenon DEF MemFiles
<1>10. CASE UNCHANGED sysVars
  BY <1>10, Zenon DEF sysVars
<1> QED
  BY <1>1, <1>2, <1>3, <1>4, <1>5, <1>6, <1>7, <1>8, <1>9, <1>10 DEF SysNext

LEMMA SysStepInv == SysInv /\ [SysNext]_sysVars => SysInv'
<1> SUFFICES ASSUME SysInv, [SysNext]_sysVars PROVE SysInv'
  OBVIOUS
<1>1. (system = "qtimer" => QtInv')
  BY OthersKeep, QtStepInv DEF SysInv
<1>2. (system = "memfile" => MfInv')
  BY OthersKeep, MfStepInv DEF SysInv
<1>3. (system = "l2vic" => LvInv')
  BY OthersKeep, LvStepInv DEF SysInv
<1>4. (system = "badva" => BvInv')
  BY OthersKeep, BvStepInv DEF SysInv
<1>5. (system = "pcycle" => PcInv')
  BY OthersKeep, PcStepInv DEF SysInv
<1>6. (system = "scatter" => SgInv')
  BY OthersKeep, SgStepInv DEF SysInv
<1>7. (system = "mmu" => MmInv')
  BY OthersKeep, MmStepInv DEF SysInv
<1> QED
  BY <1>1, <1>2, <1>3, <1>4, <1>5, <1>6, <1>7, OthersKeep DEF SysInv

LEMMA SystemInv == SysSpec => []SysInv
BY SysInitInv, SysStepInv, PTL DEF SysSpec

(* qtimer.c and qtimer.h, in the composition: neither timer is ever left     *)
(* neither running nor pending nor in the hands of a handler.                *)
THEOREM SystemTimersNeverSilent == SysSpec => []NoTimerSilent
<1>1. SysInv => NoTimerSilent
  BY DEF SysInv, QtInv, NoTimerSilent
<1> QED
  BY SystemInv, <1>1, PTL

(* util.c, in the composition: no position outside its file and no file      *)
(* outside its buffer, unless a transfer is asked to end beyond INT_MAX.     *)
THEOREM SystemFilesStayInBuffers == SysSpec => []NoFileOverrun
<1>1. SysInv => NoFileOverrun
  BY DEF SysInv, MfInv, NoFileOverrun
<1> QED
  BY SystemInv, <1>1, PTL

(* int_range.c and the other L2VIC tests: no check fails, whatever order the *)
(* interrupts take, but int_range.c's of ENABLE_CLEAR where that register    *)
(* does not read as 0.                                                       *)
THEOREM L2vicTestsNeverFail == SysSpec => [](system = "l2vic" => LvPasses)
<1>1. SysInv => (system = "l2vic" => LvPasses)
  BY DEF SysInv, LvInv
<1> QED
  BY SystemInv, <1>1, PTL

LEMMA BadvaInvGives == BvInv => BadvaChecksPass /\ TableAgrees
BY DEF BvInv, BvFailInv, PagesInv, BadvaChecksPass, TableAgrees

(* badva.c: only badva_write's check can fail, and that only when the last   *)
(* miss left V1 set; the translation table and the TLB never disagree.       *)
THEOREM BadvaOnlyWriteFails == SysSpec => [](system = "badva" => BadvaChecksPass /\ TableAgrees)
<1>1. SysInv => (system = "badva" => BadvaChecksPass /\ TableAgrees)
  BY BadvaInvGives DEF SysInv
<1> QED
  BY SystemInv, <1>1, PTL

(* The cycle counter test: a check fails only where the low word of the      *)
(* count wraps in it, or the bound it computes from a low word is too small. *)
THEOREM CycleChecksOnlyFailAtWrap == SysSpec => [](system = "pcycle" => CycleChecksPass)
<1>1. SysInv => (system = "pcycle" => CycleChecksPass)
  BY DEF SysInv, PcInv
<1> QED
  BY SystemInv, <1>1, PTL

(* standalone_vec.c: the matrix the vector operations leave is the one the   *)
(* scalar functions leave, in whatever order the unit does its accesses.     *)
THEOREM ScatterMatchesScalar == SysSpec => [](system = "scatter" => ~ sgFail)
<1>1. SysInv => (system = "scatter" => ~ sgFail)
  BY DEF SysInv, SgInv
<1> QED
  BY SystemInv, <1>1, PTL

(* The MMU tests: no check fails and no test ends in a core dump or in the   *)
(* refill handler's dead loop, wherever the runtime's refill puts its entry  *)
(* and in whatever order an access reports what its entry lacks.             *)
THEOREM MmuTestsNeverFail == SysSpec => [](system = "mmu" => ~ mmFail /\ ~ mmDead)
<1>1. SysInv => (system = "mmu" => ~ mmFail /\ ~ mmDead)
  BY DEF SysInv, MmInv
<1> QED
  BY SystemInv, <1>1, PTL

(* No check of a program ever fails, with the exceptions the property names, *)
(* in any program but the PMU tests.                                         *)
THEOREM SystemTestsNeverFail == SysSpec => [](system # "pmu" => SystemChecksPass)
<1>1. SysInv => (system # "pmu" => SystemChecksPass)
  BY BadvaInvGives DEF SysInv, LvInv, PcInv, SgInv, MmInv, SystemChecksPass
<1> QED
  BY SystemInv, <1>1, PTL

(* No two entries the current ASID sees translate the same page, except in   *)
(* mmu_multi_tlb.c, and a translation badva.c adds meets no older entry of   *)
(* its page.                                                                 *)
THEOREM MappingsAlwaysAgree == SysSpec => []MappingsAgree
<1>1. MmInv => MmApart
  BY PlaceApart DEF MmInv
<1>2. ASSUME SysInv, system = "mmu", mmProg # "multi_tlb", NEW i \in Legacy, NEW j \in Legacy,
             i # j, Overlaps(tlb[i], tlb[j])
      PROVE  ~ (Visible(tlb[i]) /\ Visible(tlb[j]))
  <2>1. ~ (Sees(mmAsid, tlb[i]) /\ Sees(mmAsid, tlb[j]))
    BY <1>1, <1>2, Zenon DEF SysInv, MmApart
  <2> QED
    BY <2>1 DEF Sees, Visible
<1>3. SysInv => (system = "badva" => TableAgrees)
  BY BadvaInvGives DEF SysInv
<1>4. SysInv => MappingsAgree
  BY <1>2, <1>3 DEF MappingsAgree
<1> QED
  BY SystemInv, <1>4, PTL
=============================================================================
