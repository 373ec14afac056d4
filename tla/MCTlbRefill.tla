------------------------------ MODULE MCTlbRefill ------------------------------
(* Two threads, the boot page and two more, two fixed entries (one of them   *)
(* free for a translation) and two that the handlers replace in turn.  Page  *)
(* p is remapped to a frame of its own, or only invalidated, so that misses  *)
(* never stop and each refill may evict the other page.                      *)
EXTENDS TlbRefill

CONSTANTS t0, t1, b, p, q, g
MCRemaps == {<<p, g>>}
=============================================================================
