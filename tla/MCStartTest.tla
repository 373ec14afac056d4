------------------------------ MODULE MCStartTest ------------------------------
(* The four hardware threads and the three masks of start.c, unreduced.      *)
EXTENDS StartTest
=============================================================================
