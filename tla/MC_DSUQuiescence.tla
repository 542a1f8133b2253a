------------------------- MODULE MC_DSUQuiescence -------------------------
(* Two application threads, class C with two methods and class D with one, two requests that *)
(* change one method each.                                                 *)
EXTENDS DSUQuiescence, TLC

CONSTANTS t1, t2, C, D, ma, mb, md

MCThreads == {t1, t2}
MCHolder == [m \in Methods |-> IF m = md THEN D ELSE C]
MCUpdates == << {ma}, {mb} >>
MCSymmetry == Permutations(MCThreads)
====
