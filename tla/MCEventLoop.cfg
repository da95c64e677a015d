SPECIFICATION Spec
CONSTANTS
  p1 = p1
  p2 = p2
  p3 = p3
  Peers <- MCPeers
  NoPeer = NoPeer
  MaxFd = 2
  MaxSent <- MCMaxSent
  Ends <- MCEnds
  Room = 1
INVARIANTS OnceInOrder OwnDescriptor FlushedOrWatched
PROPERTIES EndsOnShortWrite Serves
CHECK_DEADLOCK FALSE
