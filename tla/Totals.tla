--------------------------------- MODULE Totals ---------------------------------
(* The sum over an array of counters, which the test programs add up in a     *)
(* loop before their asserts: the number of counts it holds.  Unlike a fold   *)
(* it can be reasoned about: one more count is one more element.              *)
EXTENDS Naturals, FiniteSets

(* A count, by the counter it is in and its number there.                    *)
Units(f) == UNION {{x} \X (1 .. f[x]) : x \in DOMAIN f}

Total(f) == Cardinality(Units(f))
=============================================================================
