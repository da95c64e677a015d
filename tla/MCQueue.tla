------------------------------ MODULE MCQueue -------------------------------
(* Model values for Queue: two threads push, pop and test; two values show   *)
(* the order.                                                                *)
EXTENDS Queue, TLC

CONSTANTS t1, t2, a, b

MCThreads == {t1, t2}
MCValues == {a, b}

=============================================================================
