-------------------------------- MODULE MemFile --------------------------------
(* util.c: files in memory, in a table of MAX_DESC descriptors.  The buffers  *)
(* and their contents are left out, and so are the calls that change nothing: *)
(* fsize_mem, and every call that a pointer outside the table, a closed file  *)
(* or a missing right makes return early.                                     *)
(*                                                                            *)
(* Lengths and positions are C ints.  A product that leaves int is what the   *)
(* multiplication instruction leaves of it.  A sum that leaves int has two    *)
(* outcomes: the compiler may keep the addition, which wraps, or compare      *)
(* without it.                                                                *)
EXTENDS Integers

CONSTANTS
    MAX_DESC,
    INT_MAX,
    Sizes,              \* buffer sizes
    Args                \* the arguments max and nmemb of a transfer

Desc == 0 .. MAX_DESC - 1

ASSUME MemFileAssumption ==
    /\ MAX_DESC \in Nat \ {0}
    /\ INT_MAX \in Nat
    /\ Sizes \subseteq 0 .. INT_MAX
    /\ Args \subseteq Int

Modes == {"r", "w", "r+", "w+", "+", ""}

VARIABLES
    is_open, fmode,     \* fmode: a subset of {"READ_OK", "WRITE_OK"}
    buf_maxsize, crnt_filesize, pos,
    overrun,            \* a memcpy has gone past the end of its buffer
    tooLong             \* bookkeeping: the last transfer was asked to end beyond INT_MAX

mfMemory == <<overrun, tooLong>>
mfVars == <<is_open, fmode, buf_maxsize, crnt_filesize, pos, mfMemory>>

MfTypeOK ==
    /\ is_open \in [Desc -> BOOLEAN]
    /\ fmode \in [Desc -> SUBSET {"READ_OK", "WRITE_OK"}]
    /\ buf_maxsize \in [Desc -> 0 .. INT_MAX]
    /\ crnt_filesize \in [Desc -> Int]
    /\ pos \in [Desc -> Int]
    /\ overrun \in BOOLEAN /\ tooLong \in BOOLEAN

MfInit ==
    /\ is_open = [d \in Desc |-> FALSE]
    /\ fmode = [d \in Desc |-> {}]
    /\ buf_maxsize = [d \in Desc |-> 0]
    /\ crnt_filesize = [d \in Desc |-> 0]
    /\ pos = [d \in Desc |-> 0]
    /\ overrun = FALSE /\ tooLong = FALSE

(* parse_mode.  '+' gives both rights and leaves the size alone.             *)
ModeOf(m) ==
    CASE m = "r" -> {"READ_OK"}
      [] m = "w" -> {"WRITE_OK"}
      [] m = "" -> {}
      [] OTHER -> {"READ_OK", "WRITE_OK"}
SizeOf(m, max, old) ==
    CASE m \in {"r", "r+"} -> max
      [] m \in {"w", "w+"} -> 0
      [] OTHER -> old

find_free(d) == ~ is_open[d] /\ \A e \in 0 .. d - 1 : is_open[e]

(* With every descriptor open the call returns NULL.                         *)
fmemopen_mem(max, m) ==
    \E d \in Desc :
        /\ find_free(d)
        /\ is_open' = [is_open EXCEPT ![d] = TRUE]
        /\ fmode' = [fmode EXCEPT ![d] = ModeOf(m)]
        /\ buf_maxsize' = [buf_maxsize EXCEPT ![d] = max]
        /\ crnt_filesize' = [crnt_filesize EXCEPT ![d] = SizeOf(m, max, @)]
        /\ pos' = [pos EXCEPT ![d] = 0]
        /\ UNCHANGED mfMemory

(* memset of the whole descriptor: what '+' leaves alone is zero.            *)
fclose_mem(f) ==
    /\ f \in Desc /\ is_open[f]
    /\ is_open' = [is_open EXCEPT ![f] = FALSE]
    /\ fmode' = [fmode EXCEPT ![f] = {}]
    /\ buf_maxsize' = [buf_maxsize EXCEPT ![f] = 0]
    /\ crnt_filesize' = [crnt_filesize EXCEPT ![f] = 0]
    /\ pos' = [pos EXCEPT ![f] = 0]
    /\ UNCHANGED mfMemory

(* What 32 bits hold of n.                                                   *)
Int32(n) == ((n + INT_MAX + 1) % (2 * (INT_MAX + 1))) - (INT_MAX + 1)

(* do_xfer: the number of bytes moved, when sum stands for pos + xferbytes.  *)
(* The wrong variant forgets the position.                                   *)
ClampedToMax(at, bytes, sum, checkmax) ==
    LET n == IF sum > checkmax THEN checkmax ELSE bytes IN IF n > 0 THEN n ELSE 0
Clamped(at, bytes, sum, checkmax) ==
    LET n == IF sum > checkmax THEN checkmax - at ELSE bytes IN IF n > 0 THEN n ELSE 0

do_xfer(f, bytes, checkmax) ==
    \E sum \in {pos[f] + bytes, Int32(pos[f] + bytes)} :
        LET n == Clamped(pos[f], bytes, sum, checkmax)
        IN /\ pos' = [pos EXCEPT ![f] = Int32(@ + n)]
           /\ overrun' = (pos[f] + n > buf_maxsize[f])
           /\ tooLong' = (pos[f] + bytes > INT_MAX)

fread_mem(f, max, nmemb) ==
    /\ f \in Desc /\ is_open[f] /\ "READ_OK" \in fmode[f]
    /\ do_xfer(f, Int32(max * nmemb), crnt_filesize[f])
    /\ UNCHANGED <<is_open, fmode, buf_maxsize, crnt_filesize>>

fgetc_mem(f) ==
    /\ f \in Desc /\ is_open[f] /\ "READ_OK" \in fmode[f]
    /\ pos[f] < crnt_filesize[f]
    /\ pos' = [pos EXCEPT ![f] = @ + 1]
    /\ UNCHANGED <<is_open, fmode, buf_maxsize, crnt_filesize, mfMemory>>

fwrite_mem(f, max, nmemb) ==
    /\ f \in Desc /\ is_open[f] /\ "WRITE_OK" \in fmode[f]
    /\ do_xfer(f, Int32(max * nmemb), buf_maxsize[f])
    /\ crnt_filesize' = [crnt_filesize EXCEPT ![f] = IF pos'[f] > @ THEN pos'[f] ELSE @]
    /\ UNCHANGED <<is_open, fmode, buf_maxsize>>

frewind_mem(f) ==
    /\ f \in Desc /\ is_open[f]
    /\ pos' = [pos EXCEPT ![f] = 0]
    /\ UNCHANGED <<is_open, fmode, buf_maxsize, crnt_filesize, mfMemory>>

(* Nothing is said of a program whose memory has been overwritten.           *)
MfNext ==
    /\ ~ overrun
    /\ \/ \E max \in Sizes, m \in Modes : fmemopen_mem(max, m)
       \/ \E f \in Desc :
            \/ fclose_mem(f) \/ fgetc_mem(f) \/ frewind_mem(f)
            \/ \E max, nmemb \in Args : fread_mem(f, max, nmemb) \/ fwrite_mem(f, max, nmemb)

MfSpec == MfInit /\ [][MfNext]_mfVars

-----------------------------------------------------------------------------
(* Every position is inside its file and every file inside its buffer, for   *)
(* any arguments: the clamp of do_xfer is against another bound for a read   *)
(* than for a write, and the '+' of parse_mode relies on fclose_mem having   *)
(* zeroed the size of the file before.  The one way past the end of a buffer *)
(* is a transfer asked to end beyond INT_MAX, whose sum wraps below the      *)
(* bound of the clamp; nothing in the repository asks for one.               *)
FilesInBuffers ==
    /\ overrun => tooLong
    /\ ~ overrun => \A d \in Desc :
         /\ 0 <= pos[d] /\ pos[d] <= crnt_filesize[d] /\ crnt_filesize[d] <= buf_maxsize[d]
         /\ ~ is_open[d] => crnt_filesize[d] = 0 /\ fmode[d] = {}
=============================================================================
