---------------------------- MODULE MCEventLoop ----------------------------
\* Three peers share two descriptors, so that one is used again while the other
\* is open, and one peer finds none free.  One peer sends two bytes, so that its
\* queue's tables are swapped twice; the kernel takes one byte at a time.
EXTENDS EventLoop

CONSTANTS p1, p2, p3

MCPeers == {p1, p2, p3}
MCMaxSent == [p \in MCPeers |-> IF p = p1 THEN 2 ELSE IF p = p2 THEN 1 ELSE 0]
MCEnds == [p \in MCPeers |->
  IF p = p1 THEN {"fin", "rst", "err"} ELSE IF p = p2 THEN {"fin"} ELSE {}]
=============================================================================
