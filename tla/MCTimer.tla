------------------------------ MODULE MCTimer ------------------------------
\* Six events are the fewest with which timer_del's siftup has anything to do:
\* the last event can then be earlier than the parent of the hole.
EXTENDS Timer

CONSTANTS e1, e2, e3, e4, e5, e6

MCEvents == {e1, e2, e3, e4, e5, e6}
MCPeriod == [e \in MCEvents |-> IF e = e1 THEN 1 ELSE 0]
MCTimes == 0 .. 1
=============================================================================
