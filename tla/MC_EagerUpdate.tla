---------------------------- MODULE MC_EagerUpdate ----------------------------
(* Model values and bounds for EagerUpdate. *)
EXTENDS EagerUpdate, TLC

CONSTANTS t1, t2, t3, o1, o2

MCThreads == {t1, t2, t3}
MCObjects == {o1, o2}

(* Threads are interchangeable; objects are not, as the candidate array   *)
(* lists them in a fixed heap order.                                       *)
MCSymmetry == Permutations(MCThreads)
====
