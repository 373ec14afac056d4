-------------------------------- MODULE MinLibc --------------------------------
(* min_libc.c, the C library of the bare metal tests (three copies of one     *)
(* file): printf with its number conversion, whose digits come out of two     *)
(* nested loops over a divider, and getcmdline, which counts the arguments    *)
(* and then splits the line in place.  A format is a sequence of directives,  *)
(* of which "text" is a character that is printed as it is; a string or a     *)
(* character is known by the value of its argument.                           *)
EXTENDS Integers, Sequences, FiniteSets

CONSTANTS
    MlWidth,            \* 2^64: uint64_t wraps here
    MlIntMax,           \* the largest int
    MlNumbers,          \* arguments of %016llx
    MlInts,             \* arguments of the other conversions, as va_arg reads them
    Lines,              \* command lines: sequences of "c" and " "
    MAX_ARGS

ASSUME LibcAssumption ==
    /\ MlIntMax \in Nat /\ MlWidth \in Nat /\ MlWidth > 2 * MlIntMax + 1
    /\ MlNumbers \subseteq 0 .. MlWidth - 1
    /\ MlInts \subseteq -(MlIntMax + 1) .. MlIntMax
    /\ MAX_ARGS \in Nat \ {0}

IntDirectives == {"%d", "%x", "%p"}
Conversions == IntDirectives \cup {"%016llx", "%s", "%c"}      \* each takes an argument
Supported == Conversions \cup {"text", "%%"}

Calls ==
    {[fmt |-> <<"text", d, "text">>, args |-> <<i>>] : d \in IntDirectives, i \in MlInts}
    \cup {[fmt |-> <<"%016llx", "text">>, args |-> <<n>>] : n \in MlNumbers}
    \cup {[fmt |-> <<"%s", "%%", "%d", "%c", "%x">>, args |-> <<1, i, 2, j>>] : i, j \in MlInts}
    \cup {[fmt |-> <<"text", bad, "text">>, args |-> <<1>>] : bad \in {"%016x", "%u", "%"}}

VARIABLES
    mlAt,               \* the loop we are in
    mlCall,             \* the format and the arguments
    mlPtr, mlVa,        \* the directive and the argument that are next
    mlOut,              \* what each directive has printed
    mlNum, mlDiv,       \* num and divider of num_to_s
    mlDigits,           \* its buffer
    mlLine, mlArgc, mlArgs, mlC     \* getcmdline: buf, *argc, args and c

mlPrintf == <<mlCall, mlPtr, mlVa, mlOut, mlNum, mlDiv, mlDigits>>
mlCmd == <<mlLine, mlArgc, mlArgs, mlC>>
mlVars == <<mlAt, mlPrintf, mlCmd>>

MlInit ==
    /\ mlAt = "count" /\ mlLine \in Lines
    /\ mlArgc = 0 /\ mlArgs = <<>> /\ mlC = 1
    /\ mlCall \in Calls
    /\ mlPtr = 1 /\ mlVa = 1 /\ mlOut = <<>>
    /\ mlNum = 0 /\ mlDiv = 1 /\ mlDigits = <<>>

-----------------------------------------------------------------------------
(* getcmdline, before main.                                                  *)

Spaces(line) == {n \in DOMAIN line : line[n] = " "}

getcmdline_count ==
    /\ mlAt = "count"
    /\ mlArgc' = 1 + Cardinality(Spaces(mlLine) \ {Len(mlLine)})
    /\ IF mlArgc' <= MAX_ARGS THEN mlArgs' = <<1>> /\ mlAt' = "split"
       ELSE mlAt' = "abort" /\ UNCHANGED mlArgs
    /\ UNCHANGED <<mlLine, mlC, mlPrintf>>

getcmdline_split ==
    /\ mlAt = "split"
    /\ IF mlC <= Len(mlLine)
         THEN /\ mlC' = mlC + 1
              /\ mlLine' = [mlLine EXCEPT ![mlC] = IF @ = " " THEN "0" ELSE @]
              /\ mlArgs' = IF mlLine[mlC] = " " /\ Len(mlArgs) < mlArgc THEN Append(mlArgs, mlC + 1) ELSE mlArgs
              /\ UNCHANGED mlAt
         ELSE /\ mlAt' = "parsed"
              /\ UNCHANGED <<mlC, mlLine, mlArgs>>
    /\ UNCHANGED <<mlArgc, mlPrintf>>

(* The return to _start_main and the call of main.  buf is automatic: main   *)
(* has its bytes for its own frame, while args still points at them.         *)
getcmdline_return ==
    /\ mlAt = "parsed"
    /\ mlAt' = "printf"
    /\ mlLine' \in {mlLine, [n \in DOMAIN mlLine |-> "?"]}
    /\ UNCHANGED <<mlArgc, mlArgs, mlC, mlPrintf>>

-----------------------------------------------------------------------------
(* printf: one step per directive that is no number.                         *)

Directive == mlCall.fmt[mlPtr]
HasDirective == mlAt = "printf" /\ mlPtr <= Len(mlCall.fmt)
va_arg == mlCall.args[mlVa]

Puts(what, value) == mlOut' = Append(mlOut, [what |-> what, value |-> value])

(* What follows "%0" is "16llx", and no shorter part of it.                  *)
advance_prefix(d) == d = "%016llx"

printf_char ==
    /\ HasDirective /\ Directive \in {"text", "%%"}
    /\ Puts(Directive, <<>>)
    /\ mlPtr' = mlPtr + 1
    /\ UNCHANGED <<mlAt, mlCall, mlVa, mlNum, mlDiv, mlDigits, mlCmd>>

printf_string ==
    /\ HasDirective /\ Directive \in {"%s", "%c"}
    /\ Puts(Directive, <<va_arg>>)
    /\ mlPtr' = mlPtr + 1 /\ mlVa' = mlVa + 1
    /\ UNCHANGED <<mlAt, mlCall, mlNum, mlDiv, mlDigits, mlCmd>>

(* An int becomes a uint64_t by sign extension.                              *)
printf_number ==
    /\ HasDirective
    /\ Directive \in IntDirectives \/ advance_prefix(Directive)
    /\ mlNum' = va_arg % MlWidth /\ mlVa' = mlVa + 1
    /\ mlDiv' = 1 /\ mlDigits' = IF va_arg = 0 THEN <<0>> ELSE <<>>
    /\ mlAt' = IF va_arg = 0 THEN "return" ELSE "divider"
    /\ UNCHANGED <<mlCall, mlPtr, mlOut, mlCmd>>

printf_fatal ==
    /\ HasDirective /\ Directive \notin Supported
    /\ Puts("fatal", <<>>)
    /\ mlAt' = "exit"
    /\ UNCHANGED <<mlCall, mlPtr, mlVa, mlNum, mlDiv, mlDigits, mlCmd>>

printf_return ==
    /\ mlAt = "printf" /\ ~ HasDirective
    /\ mlAt' = "done"
    /\ UNCHANGED <<mlPrintf, mlCmd>>

-----------------------------------------------------------------------------
(* num_to_s.  signed_num is a uint64_t: the branch that prints a '-' is      *)
(* never taken.                                                              *)

Base == IF Directive = "%d" THEN 10 ELSE 16

num_to_s_divider ==
    /\ mlAt = "divider"
    /\ IF mlNum \div mlDiv >= Base
         THEN mlDiv' = (mlDiv * Base) % MlWidth /\ UNCHANGED mlAt
         ELSE mlAt' = "digits" /\ UNCHANGED mlDiv
    /\ UNCHANGED <<mlCall, mlPtr, mlVa, mlOut, mlNum, mlDigits, mlCmd>>

(* while (num): a digit, then the zeros up to the next one.                  *)
ZeroRun(num, div) ==
    LET run[d \in 0 .. div] == IF num < d THEN 1 + run[d \div Base] ELSE 0
    IN run[div]
Shift(div, n) == div \div Base^n

num_to_s_digits ==
    /\ mlAt = "digits" /\ mlNum # 0
    /\ LET digit == mlNum \div mlDiv
           num == mlNum % mlDiv
           div == mlDiv \div Base
           zeros == ZeroRun(num, div)
       IN IF digit # 0
            THEN /\ mlDigits' = mlDigits \o <<digit>> \o [i \in 1 .. zeros |-> 0]
                 /\ mlNum' = num
                 /\ mlDiv' = Shift(div, zeros)
            ELSE /\ mlDiv' = div
                 /\ UNCHANGED <<mlDigits, mlNum>>
    /\ UNCHANGED <<mlAt, mlCall, mlPtr, mlVa, mlOut, mlCmd>>

num_to_s_end ==
    /\ mlAt = "digits" /\ mlNum = 0
    /\ mlAt' = "return"
    /\ UNCHANGED <<mlPrintf, mlCmd>>

(* The wrong variant keeps a place for the terminator.                       *)
PadForNul(digits, n) == [i \in 1 .. n - 1 - Len(digits) |-> 0] \o digits
pad0(digits, n) == [i \in 1 .. n - Len(digits) |-> 0] \o digits

(* fputs of the buffer, padded for %016llx.                                  *)
printf_puts ==
    /\ mlAt = "return"
    /\ Puts("number", IF advance_prefix(Directive) THEN pad0(mlDigits, 16) ELSE mlDigits)
    /\ mlPtr' = mlPtr + 1
    /\ mlAt' = "printf"
    /\ UNCHANGED <<mlCall, mlVa, mlNum, mlDiv, mlDigits, mlCmd>>

MlNext ==
    \/ getcmdline_count \/ getcmdline_split \/ getcmdline_return
    \/ printf_char \/ printf_string \/ printf_number \/ printf_fatal \/ printf_return
    \/ num_to_s_divider \/ num_to_s_digits \/ num_to_s_end \/ printf_puts
MlDone == mlAt \in {"done", "exit", "abort"}

-----------------------------------------------------------------------------
ValueOf(digits, base) ==
    LET value[n \in 0 .. Len(digits)] == IF n = 0 THEN 0 ELSE base * value[n - 1] + digits[n]
    IN value[Len(digits)]

(* The argument a directive is meant to take.                                *)
OwnArg(k) == mlCall.args[1 + Cardinality({j \in 1 .. k - 1 : mlCall.fmt[j] \in Conversions})]

(* What directive k should print.  The exception of %d, %x and %p: a         *)
(* negative int (for %x and %p an unsigned with the top bit) prints the      *)
(* unsigned value it has after sign extension to 64 bits, with no '-'.       *)
PrintsRight(k, item) ==
    LET d == mlCall.fmt[k]
    IN CASE d \in {"text", "%%"} -> item = [what |-> d, value |-> <<>>]
         [] d \in {"%s", "%c"} -> item = [what |-> d, value |-> <<OwnArg(k)>>]
         [] d \in IntDirectives ->
              /\ item.what = "number"
              /\ ValueOf(item.value, IF d = "%d" THEN 10 ELSE 16)
                   = IF OwnArg(k) >= 0 THEN OwnArg(k) ELSE MlWidth + OwnArg(k)
              /\ item.value[1] # 0 \/ item.value = <<0>>
         [] d = "%016llx" ->
              /\ item.what = "number" /\ Len(item.value) = 16
              /\ ValueOf(item.value, 16) = OwnArg(k)
         [] OTHER -> item.what = "fatal"

(* printf prints every directive in order, each with its own argument:       *)
(* numbers have the digits of their value and no zero in front that was not  *)
(* asked for, but for negative ints (above); an unknown conversion stops the *)
(* program where it stands, and nothing else does.                           *)
PrintedExactly ==
    mlAt \in {"done", "exit"} =>
        /\ \A k \in DOMAIN mlOut : PrintsRight(k, mlOut[k])
        /\ IF mlAt = "done" THEN Len(mlOut) = Len(mlCall.fmt)
           ELSE mlCall.fmt[Len(mlOut)] \notin Supported

(* The two passes of getcmdline agree when it returns: every argument        *)
(* counted has its start, just behind a separator that is now a terminator,  *)
(* and never more of them than args holds.  What main finds behind these     *)
(* pointers is another matter: see getcmdline_return.                        *)
ArgumentsAgree ==
    /\ mlAt = "parsed" =>
         /\ \A i \in 2 .. Len(mlArgs) : mlLine[mlArgs[i] - 1] = "0" /\ mlArgs[i] > mlArgs[i - 1]
         /\ Spaces(mlLine) = {}
    /\ mlAt \notin {"count", "split", "abort"} => Len(mlArgs) = mlArgc /\ mlArgc <= MAX_ARGS
=============================================================================
