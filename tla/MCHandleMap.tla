---------------------------- MODULE MCHandleMap -----------------------------
(* Model values for HandleMap: threads and objects are interchangeable.      *)
EXTENDS HandleMap, TLC

CONSTANTS t1, t2, o1, o2, o3, o4

MCThreads == {t1, t2}
MCObjects == {o1, o2, o3, o4}

Symmetry == Permutations(Threads) \cup Permutations(Objects)

=============================================================================
