---------------------------- MODULE MCSystemTests ----------------------------
(* Instance: matrices of 6 halfwords, four threads for the PMU, words of 64   *)
(* and 65536 values, ints of 8 bits for printf and of 4 for the files, two    *)
(* file descriptors, six interrupt sources.                                   *)
EXTENDS SystemTests

MCStart == 0 .. 63
MCNumbers == {0, 1, 9, 10, 15, 16, 99, 100, 101, 255, 256, 1000, 1001, 4096, 65535}
MCLines == (UNION {[1 .. n -> {"c", " "}] : n \in 0 .. 3})
           \cup {<<"c", " ", "c", " ", " ", "c", " ">>}
MCInts == {0, 1, 9, 10, 99, 100, 101, 127, -1, -100, -128}
MCSizes == {0, 1, 3}
MCArgs == {-1, 0, 1, 3, 7}
=============================================================================
