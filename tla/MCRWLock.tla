------------------------------ MODULE MCRWLock ------------------------------
(* Model values for RWLock: three threads, any of them reader or writer.   *)
EXTENDS RWLock, TLC

CONSTANTS t1, t2, t3

MCThreads == {t1, t2, t3}

=============================================================================
