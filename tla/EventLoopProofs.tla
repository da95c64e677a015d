-------------------------- MODULE EventLoopProofs --------------------------
(***************************************************************************)
(* Proofs about the event loop, for any finite set of peers, any number of *)
(* descriptors and of bytes.  No event or handler is misled by a           *)
(* descriptor that is used again; the loop ends only at a connection that  *)
(* has ended or is slow; under epoll nothing is ever written.  No byte is  *)
(* written twice, lost or overtaken, through the two tables of a           *)
(* BufferQueue too, and what is still to be written is watched.            *)
(***************************************************************************)
EXTENDS EventLoop, FiniteSetTheorems, SequenceTheorems, WellFoundedInduction, TLAPS

Handling == {"read", "onread", "pop", "write"}

Types ==
  /\ link \in [Peers -> {"out", "up", "fin", "rst", "err"}]
  /\ backlog \in Seq(Peers)
  /\ owner \in [Fds -> Peers \cup {NoPeer}] /\ handler \in [Fds -> Peers \cup {NoPeer}]
  /\ fdof \in [Peers -> Fds \cup {0}]
  /\ batch \in Seq(Fds \cup {Listen})
  /\ cur \in Peers \cup {NoPeer}

\* A connection waits once, and has no descriptor yet; the listener is dispatched
\* only for one that waits.
Waiting ==
  /\ \A i, j \in 1 .. Len(backlog) : backlog[i] = backlog[j] => i = j
  /\ \A i \in 1 .. Len(backlog) : fdof[backlog[i]] = 0 /\ link[backlog[i]] # "out"
  /\ \A p \in Peers : link[p] = "out" => fdof[p] = 0
  /\ pc = "accept" \/ (\E i \in 1 .. Len(batch) : batch[i] = Listen) => backlog # <<>>

\* An open descriptor, its owner and its handler belong together.
Owned == \A fd \in Fds : owner[fd] # NoPeer => handler[fd] = owner[fd] /\ fdof[owner[fd]] = fd

\* A batch names open descriptors, each once.
Events ==
  /\ \A i, j \in 1 .. Len(batch) : batch[i] = batch[j] => i = j
  /\ \A i \in 1 .. Len(batch) : batch[i] # Listen => owner[batch[i]] # NoPeer
  /\ pc = "accept" => \A i \in 1 .. Len(batch) : batch[i] # Listen

\* The descriptor of the current connection is its own or closed, and no longer
\* in the batch.
Current ==
  /\ pc \in Handling => cur # NoPeer
  /\ pc \in {"wait", "accept"} => cur = NoPeer
  /\ cur # NoPeer =>
       /\ fdof[cur] \in Fds /\ owner[fdof[cur]] \in {cur, NoPeer}
       /\ \A i \in 1 .. Len(batch) : batch[i] # fdof[cur]

\* A descriptor is closed when its connection has ended; and under epoll a read
\* that has returned found the end.
Ended ==
  /\ \A p \in Peers : fdof[p] # 0 /\ owner[fdof[p]] # p => link[p] \in {"fin", "rst"}
  /\ ~kqueue /\ pc \in {"onread", "pop", "write"} =>
       owner[fdof[cur]] = NoPeer \/ link[cur] = "rst"

IInv == Types /\ Waiting /\ Owned /\ Events /\ Current /\ Ended

LEMMA InitIInv == Init => IInv
BY Bounds DEF Init, IInv, Types, Waiting, Owned, Events, Current, Ended, Handling, Fds, Listen

\* What a peer does changes its connection, and at most appends it to the backlog.
LEMMA PeerIInv == ASSUME IInv, Peer PROVE IInv'
<1> USE DEF IInv, Types, Waiting, Owned, Events, Current, Ended, Handling, kernel, conns, local
<1>1. PICK p \in Peers : \/ Connect(p) \/ Send(p) \/ Receive(p)
                         \/ \E how \in Ends[p] : Leave(p, how)
  BY DEF Peer
<1>2. CASE Connect(p)
  <2>1. /\ UNCHANGED <<kqueue, owner, handler, fdof, pc, batch, cur>>
        /\ link[p] = "out" /\ link' = [link EXCEPT ![p] = "up"]
        /\ backlog' = Append(backlog, p)
    BY <1>2 DEF Connect
  <2>2. backlog' \in Seq(Peers) /\ Len(backlog') = Len(backlog) + 1 /\ backlog' # <<>>
    BY SMTT(20), <2>1
  <2>3. \A i \in 1 .. Len(backlog) : backlog[i] # p /\ backlog'[i] = backlog[i]
    BY <2>1
  <2>4. backlog'[Len(backlog) + 1] = p
    BY <2>1
  <2>5. Waiting'
    BY <2>1, <2>2, <2>3, <2>4
  <2> QED
    BY <2>1, <2>2, <2>5
<1>3. CASE Send(p) \/ Receive(p)
  <2>1. UNCHANGED <<kqueue, link, backlog, owner, handler, fdof, pc, batch, cur>>
    BY <1>3 DEF Send, Receive
  <2> QED
    BY <2>1
<1>4. ASSUME NEW how \in Ends[p], Leave(p, how) PROVE IInv'
  <2>1. /\ UNCHANGED <<kqueue, backlog, owner, handler, fdof, pc, batch, cur>>
        /\ link[p] = "up" \/ (link[p] = "fin" /\ how = "rst")
        /\ link' = [link EXCEPT ![p] = how]
    BY <1>4 DEF Leave
  <2>2. how \in {"fin", "rst", "err"}
    BY <1>4, EndsKnown
  <2> QED
    BY <2>1, <2>2
<1> QED
  BY <1>1, <1>2, <1>3, <1>4

\* There are finitely many descriptors, so a batch is a finite sequence.
LEMMA FdsFinite == IsFiniteSet(Fds \cup {Listen})
<1>1. MaxFd \in Nat
  BY Bounds
<1>2. IsFiniteSet(1 .. MaxFd)
  BY <1>1, FS_Interval
<1> QED
  BY <1>2, FS_AddElement DEF Fds

\* The events of a batch are ready, so they are of open descriptors.
LEMMA WaitIInv == ASSUME IInv, Wait PROVE IInv'
<1> USE DEF IInv, Types, Waiting, Owned, Events, Current, Ended, Handling
<1>1. /\ UNCHANGED <<kqueue, link, backlog, owner, handler, fdof, cur>>
      /\ pc = "wait" /\ pc' = "dispatch" /\ batch' \in SetToSeqs(Ready)
  BY DEF Wait, net, kernel, conns
<1>2. IsFiniteSet(Ready) /\ Ready \subseteq Fds \cup {Listen}
  <2>1. Ready \subseteq Fds \cup {Listen}
    BY DEF Ready, Open
  <2> QED
    BY <2>1, FdsFinite, FS_Subset
<1>3. PICK n \in Nat : /\ batch' \in [1 .. n -> Ready]
                       /\ \A i, j \in 1 .. n : i # j => batch'[i] # batch'[j]
  BY <1>1, <1>2, FS_CardinalityType DEF SetToSeqs
<1>4. Len(batch') = n /\ batch' \in Seq(Fds \cup {Listen})
  BY <1>2, <1>3
<1>5. \A i \in 1 .. n : batch'[i] \in Ready
  BY <1>3
<1>6. \A fd \in Ready : IF fd = Listen THEN backlog # <<>> ELSE owner[fd] # NoPeer
  BY DEF Ready, Open, Fds, Listen
<1> QED
  BY <1>1, <1>3, <1>4, <1>5, <1>6

\* The event taken from the batch is of an open descriptor, whose handler is its
\* owner's; no later event is of the same.
LEMMA DispatchIInv == ASSUME IInv, Dispatch PROVE IInv'
<1> USE DEF IInv, Types, Waiting, Owned, Events, Current, Ended, Handling
<1>1. UNCHANGED <<kqueue, link, backlog, owner, handler, fdof>> /\ pc = "dispatch"
  BY DEF Dispatch, net, kernel, conns
<1>2. CASE batch = <<>>
  BY <1>1, <1>2 DEF Dispatch
<1>3. CASE batch # <<>>
  <2>1. batch' = Tail(batch)
    BY <1>3 DEF Dispatch
  <2>2. /\ batch' \in Seq(Fds \cup {Listen}) /\ Len(batch') = Len(batch) - 1
        /\ \A i \in 1 .. Len(batch') : i + 1 \in 1 .. Len(batch) /\ batch'[i] = batch[i + 1]
        /\ 1 \in 1 .. Len(batch) /\ Head(batch) = batch[1]
    BY <1>3, <2>1
  <2>3. \A i \in 1 .. Len(batch') : batch'[i] # Head(batch)
    BY <2>2
  <2>4. /\ \A i, j \in 1 .. Len(batch') : batch'[i] = batch'[j] => i = j
        /\ \A i \in 1 .. Len(batch') : batch'[i] # Listen => owner[batch'[i]] # NoPeer
        /\ (\E i \in 1 .. Len(batch) : batch[i] = Listen) => backlog # <<>>
        /\ (\E i \in 1 .. Len(batch') : batch'[i] = Listen) => backlog # <<>>
    <3>1. \A i, j \in 1 .. Len(batch') : batch'[i] = batch'[j] => i = j
      <4> TAKE i, j \in 1 .. Len(batch')
      <4> HAVE batch'[i] = batch'[j]
      <4>1. batch[i + 1] = batch[j + 1] /\ i + 1 \in 1 .. Len(batch) /\ j + 1 \in 1 .. Len(batch)
        BY <2>2
      <4>2. i + 1 = j + 1
        BY <4>1
      <4> QED
        BY <4>2
    <3>2. ASSUME NEW i \in 1 .. Len(batch')
          PROVE  /\ batch'[i] # Listen => owner[batch'[i]] # NoPeer
                 /\ batch'[i] = Listen => backlog # <<>>
      <4>1. i + 1 \in 1 .. Len(batch) /\ batch'[i] = batch[i + 1]
        BY <2>2
      <4> QED
        BY <4>1
    <3> QED
      BY <3>1, <3>2
  <2>5. CASE Head(batch) = Listen
    <3>1. pc' = "accept" /\ cur' = NoPeer /\ backlog # <<>>
      BY <1>3, <2>2, <2>4, <2>5 DEF Dispatch
    <3> QED
      BY <1>1, <2>2, <2>3, <2>4, <2>5, <3>1
  <2>6. CASE Head(batch) # Listen
    <3>1. pc' = "read" /\ cur' = handler[Head(batch)]
      BY <1>3, <2>6 DEF Dispatch
    <3>2. Head(batch) \in Fds /\ owner[Head(batch)] # NoPeer
      BY <2>2, <2>6
    <3>3. cur' \in Peers /\ fdof[cur'] = Head(batch) /\ owner[Head(batch)] = cur'
      BY <3>1, <3>2
    <3>4. cur' # NoPeer
      BY <3>3, PeersFinite
    <3> QED
      BY <1>1, <2>2, <2>3, <2>4, <3>1, <3>2, <3>3, <3>4
  <2> QED
    BY <2>5, <2>6
<1> QED
  BY <1>2, <1>3

\* The connection accepted had no descriptor; the one it gets was closed.
LEMMA AcceptIInv == ASSUME IInv, Accept PROVE IInv'
<1> USE DEF IInv, Types, Waiting, Owned, Events, Current, Ended, Handling
<1>1. /\ UNCHANGED <<kqueue, link, batch, cur>> /\ pc = "accept" /\ pc' = "dispatch"
      /\ cur = NoPeer
  BY DEF Accept, local
<1>2. CASE Open = Fds
  BY <1>1, <1>2 DEF Accept, kernel, conns
<1>3. CASE Open # Fds
  <2> DEFINE p == Head(backlog)
  <2>1. PICK fd \in Fds \ Open :
             /\ backlog' = Tail(backlog)
             /\ owner' = [owner EXCEPT ![fd] = p]
             /\ handler' = [handler EXCEPT ![fd] = p]
             /\ fdof' = [fdof EXCEPT ![p] = fd]
    BY <1>3 DEF Accept, Add
  <2>2. owner[fd] = NoPeer /\ fd \in Fds /\ fd # 0
    BY <2>1 DEF Open, Fds
  <2>3. /\ backlog # <<>> /\ p \in Peers /\ p = backlog[1] /\ 1 \in 1 .. Len(backlog)
        /\ backlog' \in Seq(Peers) /\ Len(backlog') = Len(backlog) - 1
        /\ \A i \in 1 .. Len(backlog') : i + 1 \in 1 .. Len(backlog) /\ backlog'[i] = backlog[i + 1]
    BY <1>1, <2>1
  <2>4. fdof[p] = 0 /\ link[p] # "out" /\ p # NoPeer
    BY <2>3, PeersFinite
  <2>5. \A i \in 1 .. Len(backlog') : backlog'[i] # p
    BY <2>3
  <2>6. \A g \in Fds : owner[g] # p
    BY <2>4 DEF Fds
  <2> HIDE DEF p
  <2>7. Types'
    BY <1>1, <2>1, <2>2, <2>3
  <2>8. Waiting'
    <3>1. /\ \A i, j \in 1 .. Len(backlog') : backlog'[i] = backlog'[j] => i = j
          /\ \A i \in 1 .. Len(backlog') : fdof[backlog'[i]] = 0 /\ link[backlog'[i]] # "out"
      <4>1. ASSUME NEW i \in 1 .. Len(backlog'), NEW j \in 1 .. Len(backlog'), backlog'[i] = backlog'[j]
            PROVE  i = j
        <5>1. backlog[i + 1] = backlog[j + 1] /\ i + 1 \in 1 .. Len(backlog) /\ j + 1 \in 1 .. Len(backlog)
          BY <2>3, <4>1
        <5>2. i + 1 = j + 1
          BY <5>1
        <5> QED
          BY <5>2
      <4>2. ASSUME NEW i \in 1 .. Len(backlog')
            PROVE  fdof[backlog'[i]] = 0 /\ link[backlog'[i]] # "out"
        <5>1. i + 1 \in 1 .. Len(backlog) /\ backlog'[i] = backlog[i + 1]
          BY <2>3
        <5> QED
          BY <5>1
      <4> QED
        BY <4>1, <4>2
    <3>2. \A q \in Peers : q # p => fdof'[q] = fdof[q]
      BY <2>1, <2>3
    <3>3. \A i \in 1 .. Len(backlog') : backlog'[i] \in Peers
      BY <2>3
    <3>4. \A i \in 1 .. Len(backlog') : fdof'[backlog'[i]] = 0
      BY <2>5, <3>1, <3>2, <3>3
    <3> QED
      BY <1>1, <2>4, <3>1, <3>2, <3>4
  <2>9. Owned'
    <3>1. \A g \in Fds : g # fd => owner'[g] = owner[g] /\ handler'[g] = handler[g]
      BY <2>1
    <3>2. owner'[fd] = p /\ handler'[fd] = p /\ fdof'[p] = fd
      BY <2>1, <2>2, <2>3
    <3>3. \A g \in Fds : g # fd /\ owner[g] # NoPeer => owner[g] \in Peers /\ fdof'[owner[g]] = g
      BY <2>1, <2>6
    <3> QED
      BY <3>1, <3>2, <3>3
  <2>10. Events'
    <3>1. \A g \in Fds : owner[g] # NoPeer => owner'[g] # NoPeer
      BY <2>1, <2>2
    <3>2. \A i \in 1 .. Len(batch) : batch[i] \in Fds \cup {Listen}
      OBVIOUS
    <3> QED
      BY <1>1, <3>1, <3>2
  <2>11. Current'
    BY <1>1
  <2>12. Ended'
    <3>1. ASSUME NEW q \in Peers, fdof'[q] # 0, owner'[fdof'[q]] # q
          PROVE  link[q] \in {"fin", "rst"}
      <4>1. q # p
        BY <2>1, <2>2, <2>3, <3>1
      <4>2. fdof'[q] = fdof[q] /\ fdof[q] \in Fds
        BY <2>1, <2>3, <3>1, <4>1
      <4>3. owner[fdof[q]] # q
        <5>1. CASE fdof[q] = fd
          BY <2>2, <5>1, PeersFinite
        <5>2. CASE fdof[q] # fd
          BY <2>1, <3>1, <4>2, <5>2
        <5> QED
          BY <5>1, <5>2
      <4> QED
        BY <3>1, <4>2, <4>3
    <3> QED
      BY <1>1, <3>1
  <2> QED
    BY <2>7, <2>8, <2>9, <2>10, <2>11, <2>12
<1> QED
  BY <1>2, <1>3

\* Of the reads, one closes the current descriptor, whose connection has ended.
LEMMA ReadsIInv == ASSUME IInv, Reads PROVE IInv'
<1> USE DEF IInv, Types, Waiting, Owned, Events, Current, Ended, Handling
<1>1. CASE ReadBytes \/ ReadAgain
  <2>1. UNCHANGED <<kqueue, link, backlog, owner, handler, fdof, batch, cur>> /\ pc = "read"
    BY <1>1 DEF ReadBytes, ReadAgain, Finds, net, kernel, conns, local
  <2>2. CASE ReadBytes
    <3>1. pc' = pc
      BY <2>2 DEF ReadBytes
    <3> QED
      BY <2>1, <3>1
  <2>3. CASE ReadAgain
    <3>1. kqueue /\ pc' = "onread"
      BY <2>3 DEF ReadAgain, NonBlocking
    <3> QED
      BY <2>1, <3>1
  <2> QED
    BY <1>1, <2>2, <2>3
<1>2. CASE ReadError
  <2>1. /\ UNCHANGED <<kqueue, backlog, owner, handler, fdof, batch, cur>>
        /\ pc = "read" /\ pc' = "onread" /\ owner[fdof[cur]] # NoPeer
        /\ link' = [link EXCEPT ![owner[fdof[cur]]] = "rst"]
        /\ link[owner[fdof[cur]]] = "err" \/ inbox[owner[fdof[cur]]] # <<>>
    BY <1>2 DEF ReadError, Finds, kernel, conns, local
  <2>2. link[owner[fdof[cur]]] = "err"
    BY <1>2 DEF ReadError, Finds
  <2>3. owner[fdof[cur]] = cur /\ cur \in Peers
    BY <2>1
  <2> QED
    BY <2>1, <2>2, <2>3
<1>3. CASE ReadEnd
  <2> DEFINE fd == fdof[cur]
  <2>1. /\ UNCHANGED <<kqueue, link, backlog, handler, fdof, batch, cur>>
        /\ pc = "read" /\ pc' = "onread" /\ owner[fd] # NoPeer
        /\ owner' = [owner EXCEPT ![fd] = NoPeer]
        /\ link[owner[fd]] \in {"fin", "rst"}
    BY <1>3 DEF ReadEnd, Finds, CloseFd, net, conns
  <2>2. cur \in Peers /\ cur # NoPeer /\ owner[fd] = cur /\ fd \in Fds
    BY <2>1
  <2>3. \A i \in 1 .. Len(batch) : batch[i] # fd /\ batch[i] \in Fds \cup {Listen}
    BY <2>2
  <2>4. \A p \in Peers : p # cur /\ owner[fd] = cur => owner[fd] # p
    BY <2>2
  <2> HIDE DEF fd
  <2>5. owner'[fd] = NoPeer /\ \A g \in Fds : g # fd => owner'[g] = owner[g]
    BY <2>1, <2>2
  <2>6. Types' /\ Waiting' /\ Owned'
    BY <2>1, <2>2, <2>5
  <2>7. Events'
    BY <2>1, <2>3, <2>5
  <2>8. Current'
    BY <2>1, <2>2, <2>3, <2>5 DEF fd
  <2>9. Ended'
    BY <2>1, <2>2, <2>5 DEF fd
  <2> QED
    BY <2>6, <2>7, <2>8, <2>9
<1> QED
  BY <1>1, <1>2, <1>3 DEF Reads

\* The other steps leave descriptors, connections and the batch alone.
LEMMA RestIInv == ASSUME IInv, (\E q \in Peers : OnRead(q)) \/ Writes PROVE IInv'
<1>1. /\ UNCHANGED <<kqueue, link, backlog, owner, handler, fdof, batch, cur>>
      /\ \/ pc \in {"onread", "pop", "write"} /\ pc' \in {"pop", "write", "dispatch", "dead"}
  BY DEF OnRead, Writes, TakeChunk, Written, Write, WriteShort, net, kernel, conns, local
<1> QED
  BY <1>1 DEF IInv, Types, Waiting, Owned, Events, Current, Ended, Handling

\* The invariant is inductive.
LEMMA StepIInv == IInv /\ [Next]_vars => IInv'
<1> SUFFICES ASSUME IInv, [Next]_vars PROVE IInv'
  OBVIOUS
<1>1. CASE UNCHANGED vars
  BY <1>1 DEF vars, net, kernel, conns, local, IInv, Types, Waiting, Owned, Events, Current, Ended
<1> QED
  BY <1>1, PeerIInv, WaitIInv, DispatchIInv, AcceptIInv, ReadsIInv, RestIInv DEF Next, Loop

LEMMA AlwaysIInv == Spec => []IInv
BY InitIInv, StepIInv, PTL DEF Spec

\* Events and handlers meet the descriptors of their own connections, however
\* descriptors are closed and used again.
THEOREM DescriptorsOwned == Spec => []OwnDescriptor
<1>1. IInv => OwnDescriptor
  BY DEF IInv, Types, Owned, Events, Current, OwnDescriptor, Open, ToSet
<1> QED
  BY <1>1, AlwaysIInv, PTL

\* The loop ends only at a connection that has ended or is slow: a connection
\* whose peer stays and reads is closed by nobody and takes every write.
THEOREM EndsForACause == Spec => EndsOnShortWrite
<1>1. IInv /\ [Next]_vars =>
        [pc' = "dead" /\ pc # "dead" => link[cur] # "up" \/ (kqueue /\ ~Writable(cur))]_vars
  <2> SUFFICES ASSUME IInv, Next, pc' = "dead", pc # "dead"
               PROVE  link[cur] # "up" \/ (kqueue /\ ~Writable(cur))
    BY DEF vars
  <2>1. WriteShort
    BY DEF Next, Loop, Peer, Connect, Send, Receive, Leave, Wait, Dispatch, Accept, Reads, ReadBytes, ReadEnd,
           ReadError, ReadAgain, OnRead, Writes, TakeChunk, Written, Write
  <2>2. cur \in Peers /\ fdof[cur] \in Fds /\ Taker \in {cur, NoPeer}
    BY <2>1 DEF WriteShort, Taker, IInv, Types, Current, Handling
  <2>3. CASE Taker = NoPeer
    BY <2>2, <2>3, PeersFinite DEF Taker, IInv, Ended, Fds
  <2>4. CASE Taker = cur /\ cur # NoPeer
    BY <2>1, <2>4 DEF WriteShort, NonBlocking
  <2> QED
    BY <2>2, <2>3, <2>4
<1> QED
  BY <1>1, AlwaysIInv, PTL DEF Spec, EndsOnShortWrite

\* What the blocking read (socket.c:98) comes to under epoll, also in the echo
\* server of async_demo.lua: no byte is written to anybody.
EpollSilence == ~kqueue => \A p \in Peers : outbox[p] = <<>> /\ got[p] = <<>>

\* No accepted descriptor is non-blocking, so that when a read returns the
\* connection has ended, and nothing can be written to it.
LEMMA EpollIsSilent == Spec => []EpollSilence
<1>1. Init => EpollSilence
  BY DEF Init, EpollSilence
<1>2. IInv /\ EpollSilence /\ [Next]_vars => EpollSilence'
  <2> SUFFICES ASSUME IInv, EpollSilence, [Next]_vars, ~kqueue'
               PROVE  \A p \in Peers : outbox'[p] = <<>> /\ got'[p] = <<>>
    BY DEF EpollSilence
  <2>0. ~kqueue
    BY DEF Next, Loop, Peer, Connect, Send, Receive, Leave, Wait, Dispatch, Accept, Reads, ReadBytes, ReadEnd,
           ReadError, ReadAgain, OnRead, Writes, TakeChunk, Written, Write, WriteShort, vars
  <2>1. ~Write
    <3> SUFFICES ASSUME Write PROVE FALSE
      OBVIOUS
    <3>1. Taker # NoPeer /\ link[Taker] \in {"up", "fin"} /\ pc = "write"
      BY DEF Write
    <3>2. Taker = cur
      BY <3>1 DEF Taker, IInv, Current, Handling
    <3> QED
      BY <2>0, <3>1, <3>2 DEF Taker, IInv, Ended
  <2>2. \A p \in Peers : ~Receive(p)
    BY <2>0 DEF Receive, EpollSilence
  <2>3. UNCHANGED <<outbox, got>>
    BY <2>1, <2>2 DEF Next, Loop, Peer, Connect, Send, Leave, Wait, Dispatch, Accept, Reads, ReadBytes, ReadEnd,
           ReadError, ReadAgain, OnRead, Writes, TakeChunk, Written, WriteShort, vars, net
  <2> QED
    BY <2>0, <2>3 DEF EpollSilence
<1> QED
  BY <1>1, <1>2, AlwaysIInv, PTL DEF Spec

-----------------------------------------------------------------------------
(* Induction over the natural numbers, and FlattenSeq                      *)

\* Induction, about a set of numbers: its complement has no least element.
LEMMA Induction ==
  ASSUME NEW S, 0 \in S, \A n \in Nat : n \in S => n + 1 \in S
  PROVE  Nat \subseteq S
<1> DEFINE T == Nat \ S
           R == {p \in Nat \X Nat : p[1] < p[2]}
<1>1. SUFFICES ASSUME T # {} PROVE FALSE
  OBVIOUS
<1>2. IsWellFoundedOn(R, Nat)
  BY NatLessThanWellFounded DEF OpToRel
<1>3. PICK x \in T : \A y \in T : ~ (<<y, x>> \in R)
  <2> HIDE DEF R
  <2> QED
    BY <1>1, <1>2, WFMin
<1>4. x # 0 /\ x \in Nat /\ x - 1 \in Nat /\ <<x - 1, x>> \in R
  OBVIOUS
<1>5. x - 1 \in S
  BY <1>3, <1>4
<1>6. x - 1 + 1 = x
  BY <1>4
<1> QED
  BY <1>3, <1>4, <1>5, <1>6

\* f holds the concatenations of the beginnings of s.
Flattens(f, s) ==
  f = [i \in 1 .. Len(s) |-> IF i = 1 THEN s[i] ELSE f[i - 1] \o s[i]]

\* s is a beginning of t.
Begins(s, t) == Len(s) <= Len(t) /\ \A i \in 1 .. Len(s) : s[i] = t[i]

\* Two functions that hold the concatenations agree on a common beginning.
LEMMA FlattensAgree ==
  ASSUME NEW S, NEW s \in Seq(Seq(S)), NEW t \in Seq(Seq(S)), Begins(s, t),
         NEW f, Flattens(f, s), NEW g, Flattens(g, t)
  PROVE  \A i \in 1 .. Len(s) : f[i] \in Seq(S) /\ f[i] = g[i]
<1> DEFINE Agree(n) == f[n] \in Seq(S) /\ f[n] = g[n]
           T == {n \in Nat : n \in 1 .. Len(s) => Agree(n)}
<1>1. 0 \in T
  OBVIOUS
<1>2. ASSUME NEW n \in Nat, n \in T PROVE n + 1 \in T
  <2>1. SUFFICES ASSUME n + 1 \in 1 .. Len(s) PROVE Agree(n + 1)
    <3> HIDE DEF Agree
    <3> QED
      OBVIOUS
  <2>2. n + 1 \in 1 .. Len(t) /\ s[n + 1] \in Seq(S) /\ s[n + 1] = t[n + 1]
    BY <2>1 DEF Begins
  <2>3. /\ f[n + 1] = IF n + 1 = 1 THEN s[n + 1] ELSE f[n] \o s[n + 1]
        /\ g[n + 1] = IF n + 1 = 1 THEN t[n + 1] ELSE g[n] \o t[n + 1]
    <3>1. \A i \in 1 .. Len(s) : f[i] = IF i = 1 THEN s[i] ELSE f[i - 1] \o s[i]
      BY DEF Flattens
    <3>2. \A i \in 1 .. Len(t) : g[i] = IF i = 1 THEN t[i] ELSE g[i - 1] \o t[i]
      BY DEF Flattens
    <3>3. n + 1 - 1 = n
      OBVIOUS
    <3> QED
      BY <2>1, <2>2, <3>1, <3>2, <3>3
  <2>4. CASE n = 0
    BY <2>2, <2>3, <2>4
  <2>5. CASE n # 0
    <3>1. n \in 1 .. Len(s)
      BY <2>1, <2>5
    <3>2. f[n] \in Seq(S) /\ f[n] = g[n]
      BY <1>2, <3>1
    <3>3. n + 1 # 1
      BY <2>5
    <3>4. f[n + 1] = f[n] \o s[n + 1] /\ g[n + 1] = f[n] \o s[n + 1]
      BY <2>2, <2>3, <3>2, <3>3
    <3> QED
      BY <2>2, <3>2, <3>4
  <2> QED
    BY <2>4, <2>5
<1> HIDE DEF Agree
<1>3. Nat \subseteq T
  <2> HIDE DEF T
  <2> QED
    BY <1>1, <1>2, Induction
<1>4. \A i \in 1 .. Len(s) : Agree(i)
  BY <1>3
<1> QED
  BY <1>4 DEF Agree

\* The recursive function in FlattenSeq exists.
LEMMA FlattensExists ==
  ASSUME NEW S, NEW s \in Seq(Seq(S))
  PROVE  \E f : Flattens(f, s)
<1> DEFINE Upto(f, n) == f = [i \in 1 .. n |-> IF i = 1 THEN s[i] ELSE f[i - 1] \o s[i]]
           T == {n \in Nat : \E f : Upto(f, n)}
<1>1. 0 \in T
  <2> DEFINE e == [i \in 1 .. 0 |-> <<>>]
  <2>1. Upto(e, 0)
    OBVIOUS
  <2> HIDE DEF e, Upto
  <2> QED
    BY <2>1
<1>2. ASSUME NEW n \in Nat, n \in T PROVE n + 1 \in T
  <2>1. PICK f : Upto(f, n)
    <3> HIDE DEF Upto
    <3> QED
      BY <1>2
  <2> DEFINE g == [i \in 1 .. n + 1 |-> IF i = 1 THEN s[i] ELSE f[i - 1] \o s[i]]
  <2>2. \A i \in 1 .. n : f[i] = g[i]
    <3>1. \A i \in 1 .. n : f[i] = IF i = 1 THEN s[i] ELSE f[i - 1] \o s[i]
      BY <2>1
    <3>2. \A i \in 1 .. n : i \in 1 .. n + 1
      OBVIOUS
    <3> QED
      BY <3>1, <3>2
  <2>3. \A i \in 1 .. n + 1 : i # 1 => i - 1 \in 1 .. n
    OBVIOUS
  <2>4. Upto(g, n + 1)
    BY <2>2, <2>3
  <2> HIDE DEF g, Upto
  <2> QED
    BY <2>4
<1> HIDE DEF Upto
<1>3. Nat \subseteq T
  <2> HIDE DEF T
  <2> QED
    BY <1>1, <1>2, Induction
<1>4. PICK f : Upto(f, Len(s))
  BY <1>3
<1> QED
  BY <1>4 DEF Upto, Flattens

LEMMA FlattenIs ==
  ASSUME NEW S, NEW s \in Seq(Seq(S)), s # <<>>
  PROVE  \E f : Flattens(f, s) /\ FlattenSeq(s) = f[Len(s)]
<1> DEFINE flatten[i \in 1 .. Len(s)] == IF i = 1 THEN s[i] ELSE flatten[i - 1] \o s[i]
<1>1. FlattenSeq(s) = flatten[Len(s)]
  BY DEF FlattenSeq
<1>2. flatten = CHOOSE f : Flattens(f, s)
  BY DEF flatten, Flattens
<1> HIDE DEF flatten
<1>3. Flattens(flatten, s)
  BY <1>2, FlattensExists
<1> QED
  BY <1>1, <1>3

LEMMA FlattenEmpty == FlattenSeq(<<>>) = <<>>
BY DEF FlattenSeq

LEMMA FlattenType ==
  ASSUME NEW S, NEW s \in Seq(Seq(S))
  PROVE  FlattenSeq(s) \in Seq(S)
<1>1. CASE s = <<>>
  <2>1. FlattenSeq(s) = <<>>
    BY <1>1, FlattenEmpty
  <2> QED
    BY <2>1, EmptySeq
<1>2. CASE s # <<>>
  <2>1. PICK f : Flattens(f, s) /\ FlattenSeq(s) = f[Len(s)]
    BY <1>2, FlattenIs
  <2>2. Len(s) \in 1 .. Len(s)
    BY <1>2
  <2>3. Begins(s, s)
    BY DEF Begins
  <2> QED
    BY <2>1, <2>2, <2>3, FlattensAgree
<1> QED
  BY <1>1, <1>2

\* FlattenSeq goes on at the end of what it has concatenated.
LEMMA FlattenAppend ==
  ASSUME NEW S, NEW s \in Seq(Seq(S)), NEW x \in Seq(S)
  PROVE  FlattenSeq(Append(s, x)) = FlattenSeq(s) \o x
<1> DEFINE t == Append(s, x)
           n == Len(s)
<1>1. /\ t \in Seq(Seq(S)) /\ Len(t) = n + 1 /\ t # <<>>
      /\ \A i \in 1 .. n : t[i] = s[i]
      /\ t[n + 1] = x
  BY AppendProperties
<1> HIDE DEF t
<1>2. PICK g : Flattens(g, t) /\ FlattenSeq(t) = g[n + 1]
  BY <1>1, FlattenIs
<1>3. g[n + 1] = IF n + 1 = 1 THEN x ELSE g[n] \o x
  <2>1. \A i \in 1 .. Len(t) : g[i] = IF i = 1 THEN t[i] ELSE g[i - 1] \o t[i]
    BY <1>2 DEF Flattens
  <2>2. n + 1 \in 1 .. Len(t) /\ n + 1 - 1 = n
    BY <1>1
  <2> QED
    BY <1>1, <2>1, <2>2
<1>4. CASE s = <<>>
  <2>1. FlattenSeq(s) \o x = x /\ n = 0
    BY <1>4, FlattenEmpty
  <2> QED
    BY <1>2, <1>3, <2>1 DEF t
<1>5. CASE s # <<>>
  <2>1. PICK f : Flattens(f, s) /\ FlattenSeq(s) = f[n]
    BY <1>5, FlattenIs
  <2>2. n \in 1 .. n
    BY <1>5
  <2>3. Begins(s, t)
    BY <1>1 DEF Begins
  <2>4. \A i \in 1 .. Len(s) : f[i] = g[i]
    BY <1>1, <1>2, <2>1, <2>3, FlattensAgree
  <2>5. n + 1 # 1 /\ f[n] = g[n]
    BY <2>2, <2>4
  <2> QED
    BY <1>2, <1>3, <2>1, <2>5 DEF t
<1> QED
  BY <1>4, <1>5

\* Induction over sequences that grow at their end.
LEMMA SeqInduction ==
  ASSUME NEW S, NEW T, <<>> \in T, \A s \in Seq(S), e \in S : s \in T => Append(s, e) \in T
  PROVE  Seq(S) \subseteq T
<1> DEFINE U == {n \in Nat : \A s \in Seq(S) : Len(s) = n => s \in T}
<1>1. 0 \in U
  <2>1. \A s \in Seq(S) : Len(s) = 0 => s = <<>>
    BY EmptySeq
  <2> QED
    BY <2>1
<1>2. ASSUME NEW n \in Nat, n \in U PROVE n + 1 \in U
  <2> SUFFICES ASSUME NEW s \in Seq(S), Len(s) = n + 1 PROVE s \in T
    OBVIOUS
  <2>1. s # <<>>
    BY EmptySeq
  <2>2. PICK r \in Seq(S), e \in S : s = Append(r, e)
    BY <2>1, SequenceEmptyOrAppend
  <2>3. Len(r) = n
    <3>1. Len(Append(r, e)) = Len(r) + 1 /\ Len(r) \in Nat
      BY AppendProperties, LenProperties
    <3> QED
      BY <2>2, <3>1
  <2> QED
    BY <1>2, <2>2, <2>3
<1>3. Nat \subseteq U
  <2> HIDE DEF U
  <2> QED
    BY <1>1, <1>2, Induction
<1> QED
  BY <1>3, LenProperties

\* and at their beginning.
LEMMA FlattenCons ==
  ASSUME NEW S, NEW x \in Seq(S), NEW s \in Seq(Seq(S))
  PROVE  FlattenSeq(<<x>> \o s) = x \o FlattenSeq(s)
<1> DEFINE T == {r \in Seq(Seq(S)) : FlattenSeq(<<x>> \o r) = x \o FlattenSeq(r)}
<1>1. <<>> \in T
  <2>1. <<>> \in Seq(Seq(S)) /\ <<x>> \o <<>> = Append(<<>>, x)
    BY EmptySeq
  <2>2. FlattenSeq(Append(<<>>, x)) = FlattenSeq(<<>>) \o x
    BY <2>1, FlattenAppend
  <2>3. <<>> \o x = x /\ x \o <<>> = x
    BY ConcatEmptySeq
  <2> QED
    BY <2>1, <2>2, <2>3, FlattenEmpty
<1>2. ASSUME NEW r \in Seq(Seq(S)), NEW e \in Seq(S), r \in T PROVE Append(r, e) \in T
  <2>1. <<x>> \in Seq(Seq(S)) /\ <<x>> \o r \in Seq(Seq(S)) /\ Append(r, e) \in Seq(Seq(S))
    OBVIOUS
  <2>2. <<x>> \o Append(r, e) = Append(<<x>> \o r, e)
    <3>1. Append(r, e) = r \o <<e>> /\ Append(<<x>> \o r, e) = (<<x>> \o r) \o <<e>> /\ <<e>> \in Seq(Seq(S))
      BY <2>1, AppendIsConcat
    <3> QED
      BY SMTT(20), <2>1, <3>1, ConcatAssociative
  <2>3. FlattenSeq(<<x>> \o Append(r, e)) = FlattenSeq(<<x>> \o r) \o e
    BY <2>1, <2>2, FlattenAppend
  <2>4. FlattenSeq(Append(r, e)) = FlattenSeq(r) \o e
    BY FlattenAppend
  <2>5. (x \o FlattenSeq(r)) \o e = x \o (FlattenSeq(r) \o e)
    <3>1. FlattenSeq(r) \in Seq(S)
      BY FlattenType
    <3> QED
      BY <3>1, ConcatAssociative
  <2> QED
    BY <1>2, <2>1, <2>3, <2>4, <2>5
<1> HIDE DEF T
<1>3. Seq(Seq(S)) \subseteq T
  BY <1>1, <1>2, SeqInduction
<1> QED
  BY <1>3 DEF T

-----------------------------------------------------------------------------
(* What sequences hold                                                     *)

LEMMA ToSetOf ==
  ASSUME NEW S, NEW s \in Seq(S)
  PROVE  /\ ToSet(s) = {s[i] : i \in 1 .. Len(s)} /\ ToSet(s) \subseteq S
         /\ IsInjective(s) <=> \A i, j \in 1 .. Len(s) : s[i] = s[j] => i = j
<1>1. DOMAIN s = 1 .. Len(s) /\ \A i \in 1 .. Len(s) : s[i] \in S
  BY LenProperties, ElementOfSeq
<1> QED
  BY <1>1 DEF ToSet, IsInjective

LEMMA ToSetEmpty == ToSet(<<>>) = {} /\ IsInjective(<<>>)
BY DEF ToSet, IsInjective

LEMMA ToSetOne ==
  ASSUME NEW S, NEW x \in S
  PROVE  <<x>> \in Seq(S) /\ ToSet(<<x>>) = {x}
<1>1. <<x>> \in Seq(S) /\ Len(<<x>>) = 1 /\ <<x>>[1] = x
  OBVIOUS
<1>2. ToSet(<<x>>) = {<<x>>[i] : i \in 1 .. 1}
  BY <1>1, ToSetOf
<1> QED
  BY <1>1, <1>2

\* A concatenation holds what its parts hold, and each element once when they do.
LEMMA ToSetConcat ==
  ASSUME NEW S, NEW s \in Seq(S), NEW t \in Seq(S)
  PROVE  /\ ToSet(s \o t) = ToSet(s) \cup ToSet(t)
         /\ IsInjective(s) /\ IsInjective(t) /\ ToSet(s) \cap ToSet(t) = {} => IsInjective(s \o t)
<1> DEFINE u == s \o t
<1>1. /\ u \in Seq(S) /\ Len(s) \in Nat /\ Len(t) \in Nat /\ Len(u) = Len(s) + Len(t)
      /\ \A i \in 1 .. Len(u) : u[i] = IF i <= Len(s) THEN s[i] ELSE t[i - Len(s)]
  BY ConcatProperties, LenProperties
<1> HIDE DEF u
<1>2. /\ ToSet(u) = {u[i] : i \in 1 .. Len(u)}
      /\ IsInjective(u) <=> \A i, j \in 1 .. Len(u) : u[i] = u[j] => i = j
  BY <1>1, ToSetOf
<1>3. /\ ToSet(s) = {s[i] : i \in 1 .. Len(s)} /\ ToSet(t) = {t[i] : i \in 1 .. Len(t)}
      /\ IsInjective(s) <=> \A i, j \in 1 .. Len(s) : s[i] = s[j] => i = j
      /\ IsInjective(t) <=> \A i, j \in 1 .. Len(t) : t[i] = t[j] => i = j
  BY ToSetOf
<1>4. \A i \in 1 .. Len(u) : IF i <= Len(s) THEN i \in 1 .. Len(s) /\ u[i] = s[i]
                             ELSE i - Len(s) \in 1 .. Len(t) /\ u[i] = t[i - Len(s)]
  BY <1>1
<1>5. /\ \A i \in 1 .. Len(s) : i \in 1 .. Len(u) /\ u[i] = s[i]
      /\ \A i \in 1 .. Len(t) : i + Len(s) \in 1 .. Len(u) /\ u[i + Len(s)] = t[i]
  <2>1. \A i \in 1 .. Len(t) : ~(i + Len(s) <= Len(s)) /\ i + Len(s) - Len(s) = i
    BY <1>1
  <2> QED
    BY <1>1, <2>1
<1>6. ToSet(u) = ToSet(s) \cup ToSet(t)
  <2>1. ToSet(u) \subseteq ToSet(s) \cup ToSet(t)
    BY <1>2, <1>3, <1>4
  <2>2. ToSet(s) \subseteq ToSet(u)
    BY <1>2, <1>3, <1>5
  <2>3. ToSet(t) \subseteq ToSet(u)
    BY <1>2, <1>3, <1>5
  <2> QED
    BY <2>1, <2>2, <2>3
<1>7. ASSUME IsInjective(s), IsInjective(t), ToSet(s) \cap ToSet(t) = {} PROVE IsInjective(u)
  <2> SUFFICES ASSUME NEW i \in 1 .. Len(u), NEW j \in 1 .. Len(u), u[i] = u[j] PROVE i = j
    BY <1>2
  <2>1. CASE i <= Len(s) <=> j <= Len(s)
    <3>1. CASE i <= Len(s)
      BY <1>3, <1>4, <1>7, <2>1, <3>1
    <3>2. CASE ~(i <= Len(s))
      <4>1. i - Len(s) \in 1 .. Len(t) /\ j - Len(s) \in 1 .. Len(t) /\ t[i - Len(s)] = t[j - Len(s)]
        BY <1>4, <2>1, <3>2
      <4>2. i - Len(s) = j - Len(s)
        BY <1>3, <1>7, <4>1
      <4> QED
        BY <1>1, <4>2
    <3> QED
      BY <3>1, <3>2
  <2>2. CASE ~(i <= Len(s) <=> j <= Len(s))
    <3>1. \/ u[i] \in ToSet(s) /\ u[j] \in ToSet(t)
          \/ u[j] \in ToSet(s) /\ u[i] \in ToSet(t)
      BY <1>3, <1>4, <2>2
    <3> QED
      BY <1>7, <3>1
  <2> QED
    BY <2>1, <2>2
<1> QED
  BY <1>6, <1>7 DEF u

\* The same of FlattenSeq, whose parts are many.
LEMMA ToSetFlatten ==
  ASSUME NEW S, NEW s \in Seq(Seq(S))
  PROVE  ToSet(FlattenSeq(s)) = UNION {ToSet(s[i]) : i \in 1 .. Len(s)}
<1> DEFINE All(r) == UNION {ToSet(r[i]) : i \in 1 .. Len(r)}
           T == {r \in Seq(Seq(S)) : ToSet(FlattenSeq(r)) = All(r)}
<1>1. <<>> \in T
  <2>1. <<>> \in Seq(Seq(S)) /\ Len(<<>>) = 0
    BY EmptySeq
  <2> QED
    BY <2>1, FlattenEmpty, ToSetEmpty
<1>2. ASSUME NEW r \in Seq(Seq(S)), NEW e \in Seq(S), r \in T PROVE Append(r, e) \in T
  <2>1. /\ Append(r, e) \in Seq(Seq(S)) /\ Len(r) \in Nat /\ Len(Append(r, e)) = Len(r) + 1
        /\ \A i \in 1 .. Len(r) : Append(r, e)[i] = r[i]
        /\ Append(r, e)[Len(r) + 1] = e
    BY AppendProperties, LenProperties
  <2>2. ToSet(FlattenSeq(Append(r, e))) = ToSet(FlattenSeq(r)) \cup ToSet(e)
    <3>1. FlattenSeq(r) \in Seq(S) /\ FlattenSeq(Append(r, e)) = FlattenSeq(r) \o e
      BY FlattenAppend, FlattenType
    <3> QED
      BY <3>1, ToSetConcat
  <2>3. All(Append(r, e)) = All(r) \cup ToSet(e)
    <3>1. /\ Len(r) + 1 \in 1 .. Len(r) + 1
          /\ \A i \in 1 .. Len(r) + 1 : i \in 1 .. Len(r) \/ i = Len(r) + 1
          /\ \A i \in 1 .. Len(r) : i \in 1 .. Len(r) + 1
      BY <2>1
    <3>2. \A b : b \in All(Append(r, e)) <=> \E i \in 1 .. Len(r) + 1 : b \in ToSet(Append(r, e)[i])
      BY <2>1
    <3>3. \A b : b \in All(r) <=> \E i \in 1 .. Len(r) : b \in ToSet(r[i])
      OBVIOUS
    <3> HIDE DEF All
    <3>4. \A b : b \in All(Append(r, e)) <=> b \in All(r) \/ b \in ToSet(e)
      BY <2>1, <3>1, <3>2, <3>3
    <3> QED
      BY <3>4
  <2> QED
    BY <1>2, <2>1, <2>2, <2>3
<1> HIDE DEF T
<1>3. Seq(Seq(S)) \subseteq T
  BY <1>1, <1>2, SeqInduction
<1> QED
  BY <1>3 DEF T

LEMMA FlattenInjective ==
  ASSUME NEW S, NEW s \in Seq(Seq(S)), \A i \in 1 .. Len(s) : IsInjective(s[i]),
         \A i, j \in 1 .. Len(s) : i # j => ToSet(s[i]) \cap ToSet(s[j]) = {}
  PROVE  IsInjective(FlattenSeq(s))
<1> DEFINE Apart(r) == /\ \A i \in 1 .. Len(r) : IsInjective(r[i])
                       /\ \A i, j \in 1 .. Len(r) : i # j => ToSet(r[i]) \cap ToSet(r[j]) = {}
           T == {r \in Seq(Seq(S)) : Apart(r) => IsInjective(FlattenSeq(r))}
<1>1. <<>> \in T
  BY EmptySeq, FlattenEmpty, ToSetEmpty
<1>2. ASSUME NEW r \in Seq(Seq(S)), NEW e \in Seq(S), r \in T PROVE Append(r, e) \in T
  <2>1. /\ Append(r, e) \in Seq(Seq(S)) /\ Len(r) \in Nat /\ Len(Append(r, e)) = Len(r) + 1
        /\ \A i \in 1 .. Len(r) : Append(r, e)[i] = r[i]
        /\ Append(r, e)[Len(r) + 1] = e
    BY AppendProperties, LenProperties
  <2>2. SUFFICES ASSUME Apart(Append(r, e)) PROVE IsInjective(FlattenSeq(Append(r, e)))
    <3> HIDE DEF Apart
    <3> QED
      BY <2>1
  <2>3. \A i \in 1 .. Len(r) + 1 : i \in 1 .. Len(Append(r, e))
    BY <2>1
  <2>4. IsInjective(e)
    <3>1. Len(r) + 1 \in 1 .. Len(Append(r, e))
      BY <2>1
    <3>2. IsInjective(Append(r, e)[Len(r) + 1])
      BY <2>2, <3>1
    <3> QED
      BY <2>1, <3>2
  <2>5. /\ \A i \in 1 .. Len(r) : i \in 1 .. Len(Append(r, e)) /\ i # Len(r) + 1
        /\ Len(r) + 1 \in 1 .. Len(Append(r, e))
    BY <2>1
  <2>6. \A i \in 1 .. Len(r) : IsInjective(r[i])
    BY <2>1, <2>2, <2>5
  <2>7. \A i, j \in 1 .. Len(r) : i # j => ToSet(r[i]) \cap ToSet(r[j]) = {}
    BY <2>1, <2>2, <2>5
  <2>8. \A i \in 1 .. Len(r) : ToSet(r[i]) \cap ToSet(e) = {}
    BY <2>1, <2>2, <2>5
  <2>9. IsInjective(FlattenSeq(r))
    <3>1. Apart(r)
      BY <2>6, <2>7
    <3> HIDE DEF Apart
    <3> QED
      BY <1>2, <3>1
  <2>10. ToSet(FlattenSeq(r)) \cap ToSet(e) = {}
    <3>1. ToSet(FlattenSeq(r)) = UNION {ToSet(r[i]) : i \in 1 .. Len(r)}
      BY ToSetFlatten
    <3>2. \A b \in ToSet(FlattenSeq(r)) : \E i \in 1 .. Len(r) : b \in ToSet(r[i])
      BY <3>1
    <3> QED
      BY <2>8, <3>2
  <2>11. FlattenSeq(r) \in Seq(S) /\ FlattenSeq(Append(r, e)) = FlattenSeq(r) \o e
    BY FlattenAppend, FlattenType
  <2> QED
    BY <2>4, <2>9, <2>10, <2>11, ToSetConcat
<1> HIDE DEF T
<1>3. Seq(Seq(S)) \subseteq T
  BY <1>1, <1>2, SeqInduction
<1> QED
  BY <1>3 DEF T

-----------------------------------------------------------------------------
(* BufferQueue: what Push and Pop do to the bytes in the two tables        *)

Byte == Peers \X Nat

\* An entry of a table: a chunk, or the nil of an entry that was read.
Full == {{d} : d \in Seq(Byte)}
Entry == Full \cup {{}}

\* The table that is read holds chunks from head to tail and nothing else; the
\* one that is written has no nil, or was read to its end and is all nil.
RepOK(b) ==
  /\ b \in [head : Nat, tail : Nat, deque : Seq(Entry), enque : Seq(Entry)]
  /\ 1 <= b.head /\ b.head <= b.tail /\ b.tail <= Len(b.deque) + 1
  /\ \A i \in 1 .. Len(b.deque) : b.deque[i] = {} <=> ~(b.head <= i /\ i < b.tail)
  /\ \/ \A i \in 1 .. Len(b.enque) : b.enque[i] = {}
     \/ \A i \in 1 .. Len(b.enque) : b.enque[i] # {}

\* The chunks in the queue, and what they are without the braces.
Entries(b) == SubSeq(b.deque, b.head, b.tail - 1) \o SubSeq(b.enque, 1, Border(b.enque))
Chunk(x) == CHOOSE d \in x : TRUE
Chunks(s) == [i \in DOMAIN s |-> Chunk(s[i])]

LEMMA BytesInIs == ASSUME NEW b PROVE BytesIn(b) = FlattenSeq(Chunks(Entries(b)))
BY DEF BytesIn, Chunks, Chunk, Entries

LEMMA FullIs == ASSUME NEW x \in Entry, x # {} PROVE x \in Full /\ Chunk(x) \in Seq(Byte) /\ x = {Chunk(x)}
BY DEF Full, Entry, Chunk

LEMMA ChunkIs == ASSUME NEW d PROVE Chunk({d}) = d
BY DEF Chunk

LEMMA BorderIs ==
  ASSUME NEW s \in Seq(Entry)
  PROVE  /\ (\A i \in 1 .. Len(s) : s[i] = {}) => Border(s) = 0
         /\ (\A i \in 1 .. Len(s) : s[i] # {}) => Border(s) = Len(s)
<1> DEFINE Is(n) == (n < Len(s) => s[n + 1] = {}) /\ \A i \in 1 .. n : s[i] # {}
<1>0. Len(s) \in Nat
  OBVIOUS
<1>1. ASSUME \A i \in 1 .. Len(s) : s[i] = {} PROVE Border(s) = 0
  <2>1. 0 \in 0 .. Len(s) /\ Is(0)
    BY <1>0, <1>1
  <2>2. \A n \in 0 .. Len(s) : Is(n) => n = 0
    BY <1>0, <1>1
  <2> HIDE DEF Is
  <2>3. Border(s) = CHOOSE n \in 0 .. Len(s) : Is(n)
    BY DEF Border, Is
  <2> QED
    BY <2>1, <2>2, <2>3
<1>2. ASSUME \A i \in 1 .. Len(s) : s[i] # {} PROVE Border(s) = Len(s)
  <2>1. Len(s) \in 0 .. Len(s) /\ Is(Len(s))
    BY <1>0, <1>2
  <2>2. ASSUME NEW n \in 0 .. Len(s), Is(n) PROVE n = Len(s)
    <3>1. CASE n < Len(s)
      <4>1. n + 1 \in 1 .. Len(s)
        BY <1>0, <3>1
      <4> QED
        BY <1>2, <2>2, <3>1, <4>1
    <3> QED
      BY <1>0, <3>1
  <2> HIDE DEF Is
  <2>3. Border(s) = CHOOSE n \in 0 .. Len(s) : Is(n)
    BY DEF Border, Is
  <2> QED
    BY <2>1, <2>2, <2>3
<1> QED
  BY <1>1, <1>2

\* The chunks of the entries of a table, of all of them and one by one.
LEMMA ChunksType ==
  ASSUME NEW s \in Seq(Full)
  PROVE  Chunks(s) \in Seq(Seq(Byte)) /\ Len(Chunks(s)) = Len(s)
<1>1. \A x \in Full : Chunk(x) \in Seq(Byte)
  BY FullIs DEF Full, Entry
<1>2. \A i \in 1 .. Len(s) : s[i] \in Full
  OBVIOUS
<1>3. DOMAIN s = 1 .. Len(s) /\ Len(s) \in Nat
  OBVIOUS
<1>4. Chunks(s) \in [1 .. Len(s) -> Seq(Byte)]
  BY <1>1, <1>2, <1>3 DEF Chunks
<1> QED
  BY <1>3, <1>4

LEMMA ChunksAppend ==
  ASSUME NEW s \in Seq(Full), NEW d \in Seq(Byte)
  PROVE  Append(s, {d}) \in Seq(Full) /\ Chunks(Append(s, {d})) = Append(Chunks(s), d)
<1>1. {d} \in Full /\ Chunk({d}) = d
  BY ChunkIs DEF Full
<1> DEFINE t == Append(s, {d})
<1>2. /\ t \in Seq(Full) /\ Len(t) = Len(s) + 1 /\ Len(s) \in Nat
      /\ \A i \in 1 .. Len(s) : t[i] = s[i]
      /\ t[Len(s) + 1] = {d}
  BY <1>1, AppendProperties, LenProperties
<1>3. /\ DOMAIN t = 1 .. Len(s) + 1 /\ DOMAIN s = 1 .. Len(s)
      /\ Chunks(s) \in Seq(Seq(Byte)) /\ Len(Chunks(s)) = Len(s)
  BY <1>2, ChunksType
<1> DEFINE u == Append(Chunks(s), d)
<1>4. /\ u \in Seq(Seq(Byte)) /\ Len(u) = Len(s) + 1
      /\ \A i \in 1 .. Len(s) : u[i] = Chunks(s)[i]
      /\ u[Len(s) + 1] = d
  BY <1>3, AppendProperties
<1>5. Chunks(t) \in Seq(Seq(Byte)) /\ Len(Chunks(t)) = Len(s) + 1
  BY <1>2, ChunksType
<1>6. \A i \in 1 .. Len(s) + 1 : Chunks(t)[i] = Chunk(t[i])
  BY <1>3 DEF Chunks
<1>7. \A i \in 1 .. Len(s) : Chunks(s)[i] = Chunk(s[i])
  BY <1>3 DEF Chunks
<1> HIDE DEF t, u
<1>8. \A i \in 1 .. Len(s) + 1 : Chunks(t)[i] = u[i]
  <2>1. \A i \in 1 .. Len(s) : Chunks(t)[i] = u[i]
    BY <1>2, <1>4, <1>6, <1>7
  <2>2. Chunks(t)[Len(s) + 1] = u[Len(s) + 1]
    <3>1. Len(s) + 1 \in 1 .. Len(s) + 1
      BY <1>2
    <3> QED
      BY <1>1, <1>2, <1>4, <1>6, <3>1
  <2> QED
    BY <1>2, <2>1, <2>2
<1>9. Chunks(t) = u
  BY <1>2, <1>4, <1>5, <1>8, SeqEqual
<1> QED
  BY <1>2, <1>9 DEF t, u

LEMMA ChunksCons ==
  ASSUME NEW s \in Seq(Full), NEW d \in Seq(Byte)
  PROVE  Chunks(<<{d}>> \o s) = <<d>> \o Chunks(s)
<1>1. {d} \in Full /\ Chunk({d}) = d /\ <<{d}>> \in Seq(Full) /\ <<d>> \in Seq(Seq(Byte))
  <2>1. {d} \in Full /\ Chunk({d}) = d
    BY ChunkIs DEF Full
  <2> QED
    BY <2>1
<1> DEFINE t == <<{d}>> \o s
           u == <<d>> \o Chunks(s)
<1>2. /\ t \in Seq(Full) /\ Len(t) = Len(s) + 1 /\ Len(s) \in Nat
      /\ t[1] = {d} /\ \A i \in 2 .. Len(s) + 1 : t[i] = s[i - 1]
  BY <1>1
<1>3. /\ DOMAIN t = 1 .. Len(s) + 1 /\ DOMAIN s = 1 .. Len(s)
      /\ Chunks(s) \in Seq(Seq(Byte)) /\ Len(Chunks(s)) = Len(s)
  BY <1>2, ChunksType
<1>4. /\ u \in Seq(Seq(Byte)) /\ Len(u) = Len(s) + 1
      /\ u[1] = d /\ \A i \in 2 .. Len(s) + 1 : u[i] = Chunks(s)[i - 1]
  BY <1>1, <1>3
<1>5. Chunks(t) \in Seq(Seq(Byte)) /\ Len(Chunks(t)) = Len(s) + 1
  BY <1>2, ChunksType
<1>6. \A i \in 1 .. Len(s) + 1 : Chunks(t)[i] = Chunk(t[i])
  BY <1>3 DEF Chunks
<1>7. \A i \in 1 .. Len(s) : Chunks(s)[i] = Chunk(s[i])
  BY <1>3 DEF Chunks
<1> HIDE DEF t, u
<1>8. ASSUME NEW i \in 1 .. Len(s) + 1 PROVE Chunks(t)[i] = u[i]
  <2>1. CASE i = 1
    BY <1>1, <1>2, <1>4, <1>6, <2>1
  <2>2. CASE i # 1
    <3>1. i \in 2 .. Len(s) + 1 /\ i - 1 \in 1 .. Len(s)
      BY <1>2, <2>2
    <3> QED
      BY <1>2, <1>4, <1>6, <1>7, <3>1
  <2> QED
    BY <2>1, <2>2
<1>9. Chunks(t) = u
  BY <1>2, <1>4, <1>5, <1>8, SeqEqual
<1> QED
  BY <1>9 DEF t, u

\* The part of a table that is read, and the entries of the one that is written.
LEMMA EntriesType ==
  ASSUME NEW b, RepOK(b)
  PROVE  /\ SubSeq(b.deque, b.head, b.tail - 1) \in Seq(Full)
         /\ SubSeq(b.enque, 1, Border(b.enque)) \in Seq(Full)
         /\ Entries(b) \in Seq(Full)
<1>1. /\ b.head \in Nat /\ b.tail \in Nat /\ b.deque \in Seq(Entry) /\ b.enque \in Seq(Entry)
      /\ 1 <= b.head /\ b.head <= b.tail /\ b.tail <= Len(b.deque) + 1
      /\ \A i \in 1 .. Len(b.deque) : b.deque[i] = {} <=> ~(b.head <= i /\ i < b.tail)
  BY DEF RepOK
<1>2. SubSeq(b.deque, b.head, b.tail - 1) \in Seq(Full)
  <2> DEFINE t == SubSeq(b.deque, b.head, b.tail - 1)
  <2>1. \A i \in b.head .. b.tail - 1 : i \in 1 .. Len(b.deque) /\ b.deque[i] \in Entry /\ b.deque[i] # {}
    BY <1>1
  <2>2. \A i \in b.head .. b.tail - 1 : b.deque[i] \in Full
    BY <2>1, FullIs
  <2>3. b.head \in Int /\ b.tail - 1 \in Int
    BY <1>1
  <2> QED
    BY <2>2, <2>3, SubSeqProperties
<1>3. SubSeq(b.enque, 1, Border(b.enque)) \in Seq(Full)
  <2>1. CASE \A i \in 1 .. Len(b.enque) : b.enque[i] = {}
    <3>1. Border(b.enque) = 0
      BY <1>1, <2>1, BorderIs
    <3> QED
      BY <1>1, <3>1
  <2>2. CASE \A i \in 1 .. Len(b.enque) : b.enque[i] # {}
    <3>1. Border(b.enque) = Len(b.enque)
      BY <1>1, <2>2, BorderIs
    <3>2. \A i \in 1 .. Len(b.enque) : b.enque[i] \in Full
      BY <1>1, <2>2, FullIs
    <3>3. SubSeq(b.enque, 1, Len(b.enque)) = b.enque
      BY <1>1
    <3> QED
      BY <1>1, <3>1, <3>2, <3>3
  <2> QED
    BY <2>1, <2>2 DEF RepOK
<1> QED
  BY <1>2, <1>3, ConcatProperties DEF Entries

LEMMA RepNew == RepOK(NewBufferQueue) /\ BytesIn(NewBufferQueue) = <<>>
<1>1. RepOK(NewBufferQueue)
  BY DEF RepOK, NewBufferQueue
<1>2. Border(<<>>) = 0
  <2>1. <<>> \in Seq(Entry) /\ Len(<<>>) = 0
    BY EmptySeq
  <2>2. ASSUME NEW s \in Seq(Entry), Len(s) = 0 PROVE Border(s) = 0
    <3>1. \A i \in 1 .. Len(s) : s[i] = {}
      BY <2>2
    <3> QED
      BY <3>1, BorderIs
  <2> QED
    BY <2>1, <2>2
<1>3. Entries(NewBufferQueue) = <<>>
  BY <1>2 DEF Entries, NewBufferQueue
<1>4. Chunks(<<>>) = <<>>
  BY DEF Chunks
<1> QED
  BY <1>1, <1>3, <1>4, BytesInIs, FlattenEmpty

LEMMA BytesInType ==
  ASSUME NEW b, RepOK(b)
  PROVE  BytesIn(b) \in Seq(Byte)
BY EntriesType, ChunksType, FlattenType, BytesInIs

\* A chunk pushed is the last of the queue.
LEMMA PushIs ==
  ASSUME NEW b, RepOK(b), NEW d \in Seq(Byte)
  PROVE  /\ RepOK(Push(b, {d})) /\ BytesIn(Push(b, {d})) = BytesIn(b) \o d
         /\ Push(b, {}) = b
<1> DEFINE c == Push(b, {d})
           half == SubSeq(b.enque, 1, Border(b.enque))
<1>1. /\ b \in [head : Nat, tail : Nat, deque : Seq(Entry), enque : Seq(Entry)]
      /\ half \in Seq(Full) /\ {d} \in Full /\ {d} # {}
  BY EntriesType DEF RepOK, Full
<1>2. /\ c = [b EXCEPT !.enque = Append(half, {d})]
      /\ Push(b, {}) = b
  <2>1. b.enque = b.enque /\ [b EXCEPT !.enque = b.enque] = b
    BY <1>1
  <2> QED
    BY <1>1, <2>1 DEF Push
<1> HIDE DEF half
<1>3. Append(half, {d}) \in Seq(Full)
  BY <1>1
<1>4. /\ Append(half, {d}) \in Seq(Entry)
      /\ \A i \in 1 .. Len(Append(half, {d})) : Append(half, {d})[i] # {}
  <2>1. \A x \in Full : x \in Entry /\ x # {}
    BY DEF Full, Entry
  <2>2. \A i \in 1 .. Len(Append(half, {d})) : Append(half, {d})[i] \in Full
    BY <1>3
  <2> HIDE DEF c
  <2> QED
    BY <1>3, <2>1, <2>2
<1>5. /\ c \in [head : Nat, tail : Nat, deque : Seq(Entry), enque : Seq(Entry)]
      /\ c.head = b.head /\ c.tail = b.tail /\ c.deque = b.deque /\ c.enque = Append(half, {d})
  BY <1>1, <1>2, <1>4
<1> HIDE DEF c
<1>6. RepOK(c)
  BY <1>4, <1>5 DEF RepOK
<1>7. Border(c.enque) = Len(c.enque)
  BY <1>4, <1>5, BorderIs
<1>8. SubSeq(c.enque, 1, Border(c.enque)) = c.enque
  BY <1>4, <1>5, <1>7, SubSeqFull
<1> DEFINE front == SubSeq(b.deque, b.head, b.tail - 1)
<1>9. /\ Entries(b) = front \o half /\ front \in Seq(Full)
      /\ Entries(c) = front \o Append(half, {d})
  BY <1>5, <1>8, EntriesType DEF Entries, half
<1> HIDE DEF front
<1>10. Entries(c) = Append(Entries(b), {d})
  <2>1. Append(half, {d}) = half \o <<{d}>> /\ <<{d}>> \in Seq(Full)
    <3>1. <<{d}>> \in Seq(Full)
      BY <1>1
    <3> QED
      BY <1>1, <3>1, AppendIsConcat
  <2>2. front \o (half \o <<{d}>>) = (front \o half) \o <<{d}>>
    BY SMTT(20), <1>1, <1>9, <2>1, ConcatAssociative
  <2>3. front \o half \in Seq(Full)
    BY <1>1, <1>9
  <2>4. (front \o half) \o <<{d}>> = Append(front \o half, {d})
    BY <1>1, <2>3, AppendIsConcat
  <2> QED
    BY <1>9, <2>1, <2>2, <2>4
<1>11. Entries(b) \in Seq(Full)
  BY EntriesType
<1>12. Chunks(Entries(c)) = Append(Chunks(Entries(b)), d) /\ Chunks(Entries(b)) \in Seq(Seq(Byte))
  BY <1>10, <1>11, ChunksAppend, ChunksType
<1>13. BytesIn(c) = BytesIn(b) \o d
  BY <1>12, FlattenAppend, BytesInIs
<1> QED
  BY <1>2, <1>6, <1>13 DEF c

\* Swapping the tables, once the one read is used up, changes nothing of the queue.
LEMMA TurnedIs ==
  ASSUME NEW b, RepOK(b)
  PROVE  /\ RepOK(Turned(b)) /\ Entries(Turned(b)) = Entries(b)
         /\ Turned(b).head = Turned(b).tail => Entries(b) = <<>>
<1> DEFINE c == Turned(b)
<1>1. CASE b.head # b.tail
  BY <1>1 DEF Turned
<1>2. CASE b.head = b.tail
  <2>1. /\ b \in [head : Nat, tail : Nat, deque : Seq(Entry), enque : Seq(Entry)]
        /\ 1 <= b.head /\ b.tail <= Len(b.deque) + 1
        /\ \A i \in 1 .. Len(b.deque) : b.deque[i] = {}
    BY <1>2 DEF RepOK
  <2>2. /\ c = [head |-> 1, tail |-> Border(b.enque) + 1, deque |-> b.enque, enque |-> b.deque]
        /\ c.head = 1 /\ c.tail = Border(b.enque) + 1 /\ c.deque = b.enque /\ c.enque = b.deque
    BY <1>2 DEF Turned
  <2>3. Border(b.deque) = 0
    BY <2>1, BorderIs
  <2>4. /\ Border(b.enque) \in Nat /\ Border(b.enque) <= Len(b.enque)
        /\ \A i \in 1 .. Len(b.enque) : b.enque[i] = {} <=> ~(i < Border(b.enque) + 1)
    <3>1. CASE \A i \in 1 .. Len(b.enque) : b.enque[i] = {}
      <4>1. Border(b.enque) = 0
        BY <2>1, <3>1, BorderIs
      <4> QED
        BY <2>1, <3>1, <4>1
    <3>2. CASE \A i \in 1 .. Len(b.enque) : b.enque[i] # {}
      <4>1. Border(b.enque) = Len(b.enque)
        BY <2>1, <3>2, BorderIs
      <4> QED
        BY <2>1, <3>2, <4>1
    <3> QED
      BY <3>1, <3>2 DEF RepOK
  <2> HIDE DEF c
  <2>5. RepOK(c)
    <3>1. c \in [head : Nat, tail : Nat, deque : Seq(Entry), enque : Seq(Entry)]
      BY <2>1, <2>2, <2>4
    <3> QED
      BY <2>1, <2>2, <2>4, <3>1 DEF RepOK
  <2> DEFINE half == SubSeq(b.enque, 1, Border(b.enque))
  <2>6. half \in Seq(Full)
    BY EntriesType
  <2>7. Entries(b) = half
    <3>1. SubSeq(b.deque, b.head, b.tail - 1) = <<>>
      <4>1. b.head \in Int /\ b.tail - 1 \in Int /\ b.tail - 1 < b.head
        BY <1>2, <2>1
      <4> QED
        BY <4>1, SubSeqEmpty
    <3>2. Entries(b) = SubSeq(b.deque, b.head, b.tail - 1) \o half
      BY DEF Entries
    <3> HIDE DEF half
    <3> QED
      BY <2>6, <3>1, <3>2, ConcatEmptySeq
  <2>8. Entries(c) = half
    <3>1. SubSeq(c.enque, 1, Border(c.enque)) = <<>>
      BY <2>1, <2>2, <2>3
    <3>2. SubSeq(c.deque, c.head, c.tail - 1) = half
      BY <2>2, <2>4
    <3>3. Entries(c) = SubSeq(c.deque, c.head, c.tail - 1) \o SubSeq(c.enque, 1, Border(c.enque))
      BY DEF Entries
    <3> HIDE DEF half
    <3> QED
      BY <2>6, <3>1, <3>2, <3>3, ConcatEmptySeq
  <2>9. c.head = c.tail => half = <<>>
    BY <2>1, <2>2, <2>4
  <2> QED
    BY <2>5, <2>7, <2>8, <2>9 DEF c
<1> QED
  BY <1>1, <1>2

\* What Pop gives was the first of the queue, and nil only when there was none.
LEMMA PopIs ==
  ASSUME NEW b, RepOK(b)
  PROVE  /\ RepOK(Pop(b).rest)
         /\ Pop(b).val = {} => BytesIn(b) = <<>> /\ BytesIn(Pop(b).rest) = <<>>
         /\ Pop(b).val # {} => /\ Chunk(Pop(b).val) \in Seq(Byte)
                               /\ BytesIn(b) = Chunk(Pop(b).val) \o BytesIn(Pop(b).rest)
<1> DEFINE c == Turned(b)
<1>1. RepOK(c) /\ Entries(c) = Entries(b) /\ (c.head = c.tail => Entries(b) = <<>>) /\ Pop(b) = Popped(c)
  BY TurnedIs DEF Pop
<1> HIDE DEF c
<1>2. /\ c \in [head : Nat, tail : Nat, deque : Seq(Entry), enque : Seq(Entry)]
      /\ 1 <= c.head /\ c.head <= c.tail /\ c.tail <= Len(c.deque) + 1
      /\ \A i \in 1 .. Len(c.deque) : c.deque[i] = {} <=> ~(c.head <= i /\ i < c.tail)
      /\ Entries(b) \in Seq(Full)
  BY <1>1, EntriesType DEF RepOK
<1>3. CASE c.head = c.tail
  <2>1. Pop(b).val = {} /\ Pop(b).rest = c
    BY <1>1, <1>2, <1>3 DEF Popped
  <2>2. Chunks(<<>>) = <<>>
    BY DEF Chunks
  <2>3. BytesIn(b) = <<>> /\ BytesIn(c) = <<>>
    BY <1>1, <1>3, <2>2, BytesInIs, FlattenEmpty
  <2> QED
    BY <1>1, <2>1, <2>3
<1>4. CASE c.head < c.tail
  <2> DEFINE r == [c EXCEPT !.deque[c.head] = {}, !.head = @ + 1]
             d == Chunk(c.deque[c.head])
             front == SubSeq(c.deque, c.head, c.tail - 1)
             half == SubSeq(c.enque, 1, Border(c.enque))
  <2>1. Pop(b).val = c.deque[c.head] /\ Pop(b).rest = r
    BY <1>1, <1>4 DEF Popped
  <2>2. c.head \in 1 .. Len(c.deque) /\ c.deque[c.head] \in Entry /\ c.deque[c.head] # {}
    BY <1>2, <1>4
  <2>3. c.deque[c.head] \in Full /\ d \in Seq(Byte) /\ c.deque[c.head] = {d}
    BY <2>2, FullIs
  <2>4. /\ r.head = c.head + 1 /\ r.tail = c.tail /\ r.enque = c.enque
        /\ r.deque = [c.deque EXCEPT ![c.head] = {}]
        /\ DOMAIN r = {"head", "tail", "deque", "enque"}
        /\ r = [x \in DOMAIN r |-> r[x]]
    <3>1. DOMAIN c = {"head", "tail", "deque", "enque"}
      BY <1>2
    <3> QED
      BY <3>1
  <2>5. /\ r.deque \in Seq(Entry) /\ Len(r.deque) = Len(c.deque)
        /\ \A i \in 1 .. Len(c.deque) : r.deque[i] = IF i = c.head THEN {} ELSE c.deque[i]
    <3>1. {} \in Entry
      BY DEF Entry
    <3> HIDE DEF r
    <3> QED
      BY <1>2, <2>2, <2>4, <3>1
  <2> HIDE DEF r
  <2>6. RepOK(r)
    <3>1. r \in [head : Nat, tail : Nat, deque : Seq(Entry), enque : Seq(Entry)]
      <4>1. c.head + 1 \in Nat
        BY <1>2
      <4> QED
        BY <1>2, <2>4, <2>5, <4>1
    <3>2. \A i \in 1 .. Len(r.deque) : r.deque[i] = {} <=> ~(r.head <= i /\ i < r.tail)
      BY <1>2, <1>4, <2>4, <2>5
    <3>3. 1 <= r.head /\ r.head <= r.tail /\ r.tail <= Len(r.deque) + 1
      BY <1>2, <1>4, <2>4, <2>5
    <3> QED
      BY <1>1, <2>4, <3>1, <3>2, <3>3 DEF RepOK
  <2> DEFINE back == SubSeq(r.deque, r.head, r.tail - 1)
  <2>7. /\ front \in Seq(Full) /\ half \in Seq(Full) /\ back \in Seq(Full)
        /\ Entries(c) = front \o half /\ Entries(r) = back \o half /\ Entries(r) \in Seq(Full)
    BY <1>1, <2>4, <2>6, EntriesType DEF Entries
  <2>8. front = <<{d}>> \o back
    <3> DEFINE t == SubSeq(c.deque, c.head + 1, c.tail - 1)
    <3>1. c.head + 1 \in Int /\ c.tail - 1 \in c.head .. Len(c.deque)
      BY <1>2, <1>4
    <3>2. front = <<c.deque[c.head]>> \o t
      <4>1. c.deque \in Seq(Entry) /\ c.tail - 1 \in c.head .. Len(c.deque)
        BY <1>2, <3>1
      <4> QED
        BY ONLY <2>2, <4>1, SubSeqRecursiveFirst DEF front, t
    <3>3. \A i \in c.head + 1 .. c.tail - 1 :
            /\ i \in 1 .. Len(c.deque) /\ r.deque[i] = c.deque[i]
            /\ r.deque[i] \in Entry /\ c.deque[i] \in Entry
      BY <1>2, <1>4, <2>5
    <3>4. t = back
      <4> DEFINE n == c.tail - 1 - (c.head + 1) + 1
      <4>1. /\ t \in Seq(Entry) /\ Len(t) = IF c.head + 1 <= c.tail - 1 THEN n ELSE 0
            /\ \A i \in 1 .. n : t[i] = c.deque[c.head + 1 + i - 1]
        BY SMTT(20), <3>1, <3>3, SubSeqProperties
      <4>2. /\ back \in Seq(Entry) /\ Len(back) = IF c.head + 1 <= c.tail - 1 THEN n ELSE 0
            /\ \A i \in 1 .. n : back[i] = r.deque[c.head + 1 + i - 1]
        <5>1. back = SubSeq(r.deque, c.head + 1, c.tail - 1)
          BY <2>4
        <5> HIDE DEF back
        <5> QED
          BY <3>1, <3>3, <5>1, SubSeqProperties
      <4> HIDE DEF t, back
      <4>3. \A i \in 1 .. n : c.head + 1 + i - 1 \in c.head + 1 .. c.tail - 1
        BY <1>2
      <4>4. \A i \in 1 .. Len(t) : i \in 1 .. n
        BY <1>2, <4>1
      <4>5. \A i \in 1 .. Len(t) : t[i] = back[i]
        BY <3>3, <4>1, <4>2, <4>3, <4>4
      <4> QED
        BY <4>1, <4>2, <4>5, SeqEqual
    <3> QED
      BY <2>3, <3>2, <3>4
  <2> HIDE DEF front, back, half, d
  <2>9. Entries(c) = <<{d}>> \o Entries(r)
    <3>1. <<{d}>> \in Seq(Full)
      BY <2>3
    <3> QED
      BY <2>7, <2>8, <3>1, ConcatAssociative
  <2>10. Chunks(Entries(c)) = <<d>> \o Chunks(Entries(r)) /\ Chunks(Entries(r)) \in Seq(Seq(Byte))
    BY <2>3, <2>7, <2>9, ChunksCons, ChunksType
  <2>11. BytesIn(b) = d \o BytesIn(r)
    BY <1>1, <2>3, <2>10, FlattenCons, BytesInIs
  <2> QED
    BY <2>1, <2>2, <2>3, <2>6, <2>11 DEF d
<1> QED
  BY <1>2, <1>3, <1>4

-----------------------------------------------------------------------------
(* Where the bytes are: S[p] on their way to p, T[p] of p's read so far, D *)
(* what l_read has of connection c's, L the links.                         *)

\* The bytes of s were read; those of t were sent after those of s.
Read(s, T) == \A b \in ToSet(s) : b[2] \in 1 .. T[b[1]]
Before(s, t) == \A b \in ToSet(s), e \in ToSet(t) : b[1] = e[1] => b[2] < e[2]

\* What is on its way is in order and in one place only; what l_read has comes
\* after it; and between them they have all that was read off a connection, as
\* long as its peer has not ended it.
Flow(S, T, D, c, L) ==
  /\ S \in [Peers -> Seq(Byte)] /\ T \in [Peers -> Nat]
  /\ D = {} \/ \E d \in Seq(Byte) : D = {d}
  /\ \A p \in Peers : Ordered(S[p]) /\ Read(S[p], T)
  /\ \A p, q \in Peers : p # q => ToSet(S[p]) \cap ToSet(S[q]) = {}
  /\ \A d \in D : /\ Ordered(d) /\ Read(d, T) /\ \A b \in ToSet(d) : b[1] = c
                  /\ \A p \in Peers : Before(S[p], d)
  /\ \A p \in Peers : L[p] \in {"out", "up"} =>
       \A k \in 1 .. T[p] : \/ \E q \in Peers : <<p, k>> \in ToSet(S[q])
                            \/ \E d \in D : <<p, k>> \in ToSet(d)

LEMMA OrderedConcat ==
  ASSUME NEW s \in Seq(Byte), NEW t \in Seq(Byte), Ordered(s), Ordered(t), Before(s, t)
  PROVE  Ordered(s \o t)
<1> DEFINE u == s \o t
<1>1. /\ Len(s) \in Nat /\ Len(t) \in Nat /\ Len(u) = Len(s) + Len(t)
      /\ \A i \in 1 .. Len(u) : u[i] = IF i <= Len(s) THEN s[i] ELSE t[i - Len(s)]
  OBVIOUS
<1>2. /\ \A i \in 1 .. Len(s) : s[i] \in ToSet(s)
      /\ \A i \in 1 .. Len(t) : t[i] \in ToSet(t)
  BY ToSetOf
<1> HIDE DEF u
<1>3. SUFFICES ASSUME NEW i \in 1 .. Len(u), NEW j \in 1 .. Len(u), i < j, u[i][1] = u[j][1]
               PROVE  u[i][2] < u[j][2]
  BY DEF Ordered, u
<1>4. CASE j <= Len(s)
  <2>1. i \in 1 .. Len(s) /\ j \in 1 .. Len(s) /\ u[i] = s[i] /\ u[j] = s[j]
    BY <1>1, <1>3, <1>4
  <2> QED
    BY <1>3, <2>1 DEF Ordered
<1>5. CASE i > Len(s)
  <2>1. /\ i - Len(s) \in 1 .. Len(t) /\ j - Len(s) \in 1 .. Len(t) /\ i - Len(s) < j - Len(s)
        /\ u[i] = t[i - Len(s)] /\ u[j] = t[j - Len(s)]
    BY <1>1, <1>3, <1>5
  <2> QED
    BY <1>3, <2>1 DEF Ordered
<1>6. CASE i <= Len(s) /\ j > Len(s)
  <2>1. /\ i \in 1 .. Len(s) /\ j - Len(s) \in 1 .. Len(t)
        /\ u[i] = s[i] /\ u[j] = t[j - Len(s)]
    BY <1>1, <1>3, <1>6
  <2>2. u[i] \in ToSet(s) /\ u[j] \in ToSet(t)
    BY <1>2, <2>1
  <2> QED
    BY <1>3, <2>2 DEF Before
<1> QED
  BY <1>1, <1>4, <1>5, <1>6

LEMMA OrderedInjective ==
  ASSUME NEW s \in Seq(Byte), Ordered(s)
  PROVE  IsInjective(s)
<1>1. ASSUME NEW i \in 1 .. Len(s), NEW j \in 1 .. Len(s), s[i] = s[j] PROVE i = j
  <2>1. s[i] \in Byte /\ s[i][2] \in Nat /\ s[j] \in Byte
    BY DEF Byte
  <2>2. ~(i < j) /\ ~(j < i)
    BY <1>1, <2>1 DEF Ordered
  <2> QED
    BY <2>2
<1> QED
  BY <1>1, ToSetOf

\* The bytes of the parts of a sequence, each with its type.
LEMMA BytesOf ==
  ASSUME NEW s \in Seq(Byte)
  PROVE  \A b \in ToSet(s) : b[1] \in Peers /\ b[2] \in Nat /\ b = <<b[1], b[2]>>
<1>1. \A b \in ToSet(s) : b \in Byte
  BY ToSetOf
<1> QED
  BY <1>1 DEF Byte

\* A peer that ends its connection takes the duty to keep its bytes with it.
LEMMA FlowLink ==
  ASSUME NEW S, NEW T, NEW D, NEW c, NEW L, NEW M, Flow(S, T, D, c, L),
         \A p \in Peers : M[p] \in {"out", "up"} => L[p] \in {"out", "up"}
  PROVE  Flow(S, T, D, c, M)
BY DEF Flow

\* l_read takes the next byte of its connection.
LEMMA FlowRead ==
  ASSUME NEW S, NEW T, NEW d \in Seq(Byte), NEW c \in Peers, NEW L, Flow(S, T, {d}, c, L)
  PROVE  Flow(S, [T EXCEPT ![c] = @ + 1], {d \o <<<<c, T[c] + 1>>>>}, c, L)
<1> DEFINE U == [T EXCEPT ![c] = @ + 1]
           y == <<c, T[c] + 1>>
           e == d \o <<y>>
<1>1. /\ T \in [Peers -> Nat] /\ U \in [Peers -> Nat] /\ T[c] \in Nat /\ U[c] = T[c] + 1
      /\ \A p \in Peers : p # c => U[p] = T[p]
      /\ \A p \in Peers : T[p] \in Nat /\ U[p] \in Nat /\ T[p] <= U[p]
  BY DEF Flow
<1> HIDE DEF U
<1>2. y \in Byte /\ y[1] = c /\ y[2] = T[c] + 1
  BY <1>1 DEF Byte
<1> HIDE DEF y
<1>3. <<y>> \in Seq(Byte) /\ ToSet(<<y>>) = {y}
  BY <1>2, ToSetOne
<1>4. e \in Seq(Byte) /\ ToSet(e) = ToSet(d) \cup {y}
  <2>1. ToSet(e) = ToSet(d) \cup ToSet(<<y>>)
    BY <1>3, ToSetConcat
  <2> QED
    BY <1>3, <2>1, ConcatProperties
<1>5. \A s \in Seq(Byte) : Read(s, T) => Read(s, U) /\ Before(s, <<y>>)
  <2> SUFFICES ASSUME NEW s \in Seq(Byte), Read(s, T) PROVE Read(s, U) /\ Before(s, <<y>>)
    OBVIOUS
  <2>1. \A b \in ToSet(s) : b[1] \in Peers /\ b[2] \in 1 .. T[b[1]]
    BY BytesOf DEF Read
  <2>2. \A b \in ToSet(s) : b[2] \in 1 .. U[b[1]]
    BY <1>1, <2>1
  <2>3. \A b \in ToSet(s) : b[1] = y[1] => b[2] < y[2]
    BY <1>1, <1>2, <2>1
  <2> QED
    BY <1>3, <2>2, <2>3 DEF Read, Before
<1>6. /\ Ordered(d) /\ Read(d, T) /\ \A b \in ToSet(d) : b[1] = c
      /\ \A p \in Peers : Before(S[p], d) /\ Ordered(S[p]) /\ Read(S[p], T) /\ S[p] \in Seq(Byte)
  BY DEF Flow
<1>7. Ordered(e)
  <2>1. Ordered(<<y>>)
    BY DEF Ordered
  <2> QED
    BY <1>3, <1>5, <1>6, <2>1, OrderedConcat
<1> HIDE DEF e
<1>8. Read(e, U) /\ \A b \in ToSet(e) : b[1] = c
  BY <1>1, <1>2, <1>4, <1>5, <1>6 DEF Read
<1>9. \A p \in Peers : Before(S[p], e) /\ Read(S[p], U)
  <2> SUFFICES ASSUME NEW p \in Peers PROVE Before(S[p], e) /\ Read(S[p], U)
    OBVIOUS
  <2>1. Before(S[p], d) /\ Before(S[p], <<y>>) /\ Read(S[p], U)
    BY <1>5, <1>6
  <2> QED
    BY <1>3, <1>4, <2>1 DEF Before
<1>10. ASSUME NEW p \in Peers, L[p] \in {"out", "up"}, NEW k \in 1 .. U[p]
       PROVE  \/ \E q \in Peers : <<p, k>> \in ToSet(S[q])
              \/ <<p, k>> \in ToSet(e)
  <2>1. CASE k \in 1 .. T[p]
    <3>1. \/ \E q \in Peers : <<p, k>> \in ToSet(S[q])
          \/ \E x \in {d} : <<p, k>> \in ToSet(x)
      BY <1>10, <2>1 DEF Flow
    <3> QED
      BY <1>4, <3>1
  <2>2. CASE k \notin 1 .. T[p]
    <3>1. p = c /\ k = T[c] + 1
      BY <1>1, <1>10, <2>2
    <3>2. <<p, k>> = y
      BY <3>1 DEF y
    <3> QED
      BY <1>4, <3>2
  <2> QED
    BY <2>1, <2>2
<1> HIDE DEF Read, Before, Ordered
<1>11. S \in [Peers -> Seq(Byte)] /\ \A p, q \in Peers : p # q => ToSet(S[p]) \cap ToSet(S[q]) = {}
  BY DEF Flow
<1>12. Flow(S, U, {e}, c, L)
  BY <1>1, <1>4, <1>6, <1>7, <1>8, <1>9, <1>10, <1>11 DEF Flow
<1> QED
  BY <1>12 DEF U, e, y

\* Between two reads l_read has nothing, for whatever connection.
LEMMA FlowNone ==
  ASSUME NEW S, NEW T, NEW D, NEW c, NEW L, Flow(S, T, D, c, L), D \subseteq {<<>>},
         NEW E, E \subseteq {<<>>}, NEW e
  PROVE  Flow(S, T, E, e, L)
<1>1. ToSet(<<>>) = {} /\ Ordered(<<>>) /\ <<>> \in Seq(Byte)
  BY ToSetEmpty DEF Ordered
<1>2. E = {} \/ E = {<<>>}
  OBVIOUS
<1>3. /\ \A d \in D : ToSet(d) = {}
      /\ \A d \in E : ToSet(d) = {} /\ Ordered(d)
  BY <1>1
<1>4. \A d \in E : Read(d, T) /\ (\A b \in ToSet(d) : b[1] = e) /\ \A p \in Peers : Before(S[p], d)
  BY <1>3 DEF Read, Before
<1>5. \A p \in Peers : L[p] \in {"out", "up"} =>
        \A k \in 1 .. T[p] : \E q \in Peers : <<p, k>> \in ToSet(S[q])
  BY <1>3 DEF Flow
<1>6. E = {} \/ \E d \in Seq(Byte) : E = {d}
  BY <1>1, <1>2
<1> QED
  BY <1>3, <1>4, <1>5, <1>6 DEF Flow

\* What was read of a connection that has ended may be dropped.
LEMMA FlowDrop ==
  ASSUME NEW S, NEW T, NEW D, NEW c, NEW L, Flow(S, T, D, c, L), L[c] \notin {"out", "up"}
  PROVE  Flow(S, T, {}, c, L)
<1>1. ASSUME NEW p \in Peers, L[p] \in {"out", "up"}, NEW k \in 1 .. T[p]
      PROVE  \E q \in Peers : <<p, k>> \in ToSet(S[q])
  <2>1. \A d \in D : <<p, k>> \notin ToSet(d)
    <3> SUFFICES ASSUME NEW d \in D, <<p, k>> \in ToSet(d) PROVE FALSE
      OBVIOUS
    <3>1. <<p, k>>[1] = c
      BY DEF Flow
    <3> QED
      BY <1>1, <3>1
  <2> QED
    BY <1>1, <2>1 DEF Flow
<1> QED
  BY <1>1 DEF Flow

\* What was read goes to the end of a connection's stream.
LEMMA FlowWrite ==
  ASSUME NEW S, NEW T, NEW d \in Seq(Byte), NEW c, NEW L, Flow(S, T, {d}, c, L), NEW q \in Peers
  PROVE  Flow([S EXCEPT ![q] = @ \o d], T, {}, c, L)
<1> DEFINE R == [S EXCEPT ![q] = @ \o d]
<1>1. /\ S \in [Peers -> Seq(Byte)] /\ T \in [Peers -> Nat] /\ S[q] \in Seq(Byte)
      /\ \A p \in Peers : S[p] \in Seq(Byte) /\ Ordered(S[p]) /\ Read(S[p], T) /\ Before(S[p], d)
      /\ Ordered(d) /\ Read(d, T)
  BY DEF Flow
<1>2. /\ R \in [Peers -> Seq(Byte)] /\ R[q] = S[q] \o d
      /\ \A p \in Peers : p # q => R[p] = S[p]
  BY <1>1
<1> HIDE DEF R
<1>3. ToSet(R[q]) = ToSet(S[q]) \cup ToSet(d)
  BY <1>1, <1>2, ToSetConcat
<1>4. Ordered(R[q])
  BY <1>1, <1>2, OrderedConcat
<1>5. Read(R[q], T)
  BY <1>1, <1>3 DEF Read
<1>6. \A p \in Peers : ToSet(S[p]) \cap ToSet(d) = {}
  <2> SUFFICES ASSUME NEW p \in Peers, NEW b \in ToSet(S[p]), b \in ToSet(d) PROVE FALSE
    OBVIOUS
  <2>1. b[2] < b[2] /\ b[2] \in Nat
    BY <1>1, BytesOf DEF Before
  <2> QED
    BY <2>1
<1>7. \A p, r \in Peers : p # r => ToSet(R[p]) \cap ToSet(R[r]) = {}
  <2> SUFFICES ASSUME NEW p \in Peers, NEW r \in Peers, p # r PROVE ToSet(R[p]) \cap ToSet(R[r]) = {}
    OBVIOUS
  <2>1. ToSet(S[p]) \cap ToSet(S[r]) = {}
    BY DEF Flow
  <2>2. \A x \in Peers : ToSet(R[x]) = IF x = q THEN ToSet(S[x]) \cup ToSet(d) ELSE ToSet(S[x])
    BY <1>2, <1>3
  <2>3. ToSet(S[p]) \cap ToSet(d) = {} /\ ToSet(S[r]) \cap ToSet(d) = {}
    BY <1>6
  <2> QED
    BY <2>1, <2>2, <2>3
<1>8. ASSUME NEW p \in Peers, L[p] \in {"out", "up"}, NEW k \in 1 .. T[p]
      PROVE  \E x \in Peers : <<p, k>> \in ToSet(R[x])
  <2>1. (\E x \in Peers : <<p, k>> \in ToSet(S[x])) \/ <<p, k>> \in ToSet(d)
    BY <1>8 DEF Flow
  <2>2. \A x \in Peers : x # q => ToSet(R[x]) = ToSet(S[x])
    BY <1>2
  <2> QED
    BY <1>3, <2>1, <2>2
<1>9. \A p \in Peers : Ordered(R[p]) /\ Read(R[p], T)
  BY <1>1, <1>2, <1>4, <1>5
<1>10. Flow(R, T, {}, c, L)
  BY <1>1, <1>2, <1>7, <1>8, <1>9 DEF Flow
<1> QED
  BY <1>10 DEF R

-----------------------------------------------------------------------------
(* The inductive invariant: IInv, and where every byte is                  *)

Streams == [p \in Peers |-> Stream(p)]
Taken == [p \in Peers |-> sent[p] - Len(inbox[p])]

Boxes ==
  /\ sent \in [Peers -> Nat] /\ inbox \in [Peers -> Seq(Byte)]
  /\ outbox \in [Peers -> Seq(Byte)] /\ got \in [Peers -> Seq(Byte)]
  /\ chunk \in Seq(Byte) /\ (chunk # <<>> => pc \in {"write", "dead"})
  /\ DOMAIN buffer = Peers /\ \A p \in Peers : RepOK(buffer[p])

\* What was sent and not read is in the inbox, in order.
Arrived ==
  \A p \in Peers :
    /\ Len(inbox[p]) <= sent[p] /\ sent[p] <= MaxSent[p]
    /\ \A i \in 1 .. Len(inbox[p]) : inbox[p][i] = <<p, Taken[p] + i>>

Flowing == Flow(Streams, Taken, data, cur, link)

Reading ==
  /\ pc = "read" => data # {}
  /\ pc \notin {"read", "onread"} => data \subseteq {<<>>}

\* A connection that was not accepted is in the backlog and has nothing to write.
Fresh ==
  \A p \in Peers : fdof[p] = 0 =>
    /\ buffer[p] = NewBufferQueue
    /\ link[p] # "out" => p \in ToSet(backlog)

\* What a connection has to write is watched, in the middle of a handler too; its
\* own bytes it has only while its handler runs.
Watched ==
  \A p \in Peers : fdof[p] # 0 /\ owner[fdof[p]] = p /\ BytesIn(buffer[p]) # <<>> =>
    kqueue \/ fdof[p] \in interest

OwnWritten ==
  \A p \in Peers : p # cur \/ pc \notin {"pop", "write", "dead"} =>
    \A b \in ToSet(BytesIn(buffer[p])) : b[1] # p

Control ==
  /\ kqueue \in BOOLEAN /\ interest \subseteq Open
  /\ pc \in {"wait", "dispatch", "accept", "read", "onread", "pop", "write", "dead"}

OInv ==
  Boxes /\ Arrived /\ Flowing /\ Reading /\ Fresh /\ Watched /\ OwnWritten /\ Control

LEMMA StreamsSame == UNCHANGED <<got, outbox, cur, chunk, buffer>> => Streams' = Streams
BY DEF Streams, Stream

LEMMA TakenSame == UNCHANGED <<sent, inbox>> => Taken' = Taken
BY DEF Taken

\* Each part of a stream is a sequence of bytes.
LEMMA PartsType ==
  ASSUME Boxes, NEW p \in Peers
  PROVE  /\ got[p] \in Seq(Byte) /\ outbox[p] \in Seq(Byte) /\ inbox[p] \in Seq(Byte)
         /\ (IF cur = p THEN chunk ELSE <<>>) \in Seq(Byte)
         /\ BytesIn(buffer[p]) \in Seq(Byte)
<1>1. RepOK(buffer[p])
  BY DEF Boxes
<1> QED
  BY <1>1, BytesInType DEF Boxes

LEMMA InitOInv == Init => OInv
<1> SUFFICES ASSUME Init PROVE OInv
  OBVIOUS
<1>0. <<>> \in Seq(Byte) /\ Len(<<>>) = 0 /\ ToSet(<<>>) = {}
  BY EmptySeq, ToSetEmpty
<1>1. RepOK(NewBufferQueue) /\ BytesIn(NewBufferQueue) = <<>>
  BY RepNew
<1>2. /\ sent = [p \in Peers |-> 0] /\ inbox = [p \in Peers |-> <<>>]
      /\ outbox = [p \in Peers |-> <<>>] /\ got = [p \in Peers |-> <<>>]
      /\ buffer = [p \in Peers |-> NewBufferQueue] /\ chunk = <<>> /\ data = {}
      /\ link = [p \in Peers |-> "out"] /\ pc = "wait" /\ interest = {} /\ kqueue \in BOOLEAN
  BY DEF Init
<1>3. Boxes
  BY <1>0, <1>1, <1>2 DEF Boxes
<1>4. Arrived
  <2>1. \A p \in Peers : Len(inbox[p]) = 0 /\ sent[p] = 0 /\ MaxSent[p] \in Nat
    BY <1>0, <1>2, Bounds
  <2> QED
    BY <2>1 DEF Arrived
<1>5. Flowing
  <2>1. Streams = [p \in Peers |-> <<>>]
    <3> SUFFICES ASSUME NEW p \in Peers PROVE Stream(p) = <<>>
      BY DEF Streams
    <3>1. Stream(p) = <<>> \o <<>> \o <<>> \o <<>>
      BY <1>1, <1>2 DEF Stream
    <3>2. <<>> \o <<>> = <<>>
      BY <1>0, ConcatEmptySeq
    <3> QED
      BY <3>1, <3>2
  <2>2. Taken = [p \in Peers |-> 0]
    BY <1>0, <1>2 DEF Taken
  <2>3. \A s : s = <<>> => ToSet(s) = {} /\ Ordered(s) /\ Read(s, Taken)
    BY <1>0 DEF Ordered, Read
  <2>4. Streams \in [Peers -> Seq(Byte)] /\ Taken \in [Peers -> Nat]
    BY <1>0, <2>1, <2>2
  <2>5. \A p \in Peers : Streams[p] = <<>> /\ Taken[p] = 0
    BY <2>1, <2>2
  <2> QED
    BY <1>2, <2>3, <2>4, <2>5 DEF Flowing, Flow
<1>6. Reading /\ Fresh /\ Control
  BY <1>2 DEF Reading, Fresh, Control
<1>7. Watched /\ OwnWritten
  BY <1>0, <1>1, <1>2 DEF Watched, OwnWritten
<1> QED
  BY <1>3, <1>4, <1>5, <1>6, <1>7 DEF OInv

\* Peers and network: a byte is sent, or goes from the outbox to its reader.
LEMMA PeerOInv == ASSUME IInv, OInv, Peer PROVE OInv'
<1>0. Boxes /\ Arrived /\ Flowing /\ Reading /\ Fresh /\ Watched /\ OwnWritten /\ Control
  BY DEF OInv
<1>1. PICK p \in Peers : \/ Connect(p) \/ Send(p) \/ Receive(p)
                         \/ \E how \in Ends[p] : Leave(p, how)
  BY DEF Peer
<1>2. UNCHANGED <<kqueue, owner, interest, handler, fdof, buffer, pc, batch, cur, data, chunk>>
  BY <1>1 DEF Connect, Send, Receive, Leave, kernel, conns, local
<1>3. Reading' /\ Watched' /\ OwnWritten' /\ Control'
  BY <1>0, <1>2 DEF Reading, Watched, OwnWritten, Control, Open
<1>4. CASE Connect(p) \/ \E how \in Ends[p] : Leave(p, how)
  <2>1. UNCHANGED <<sent, inbox, outbox, got>>
    BY <1>4 DEF Connect, Leave
  <2>2. Boxes' /\ Streams' = Streams /\ Taken' = Taken
    BY <1>0, <1>2, <2>1, StreamsSame, TakenSame DEF Boxes
  <2>3. Arrived'
    BY <1>0, <2>1, <2>2 DEF Arrived
  <2>4. /\ link' \in [Peers -> {"out", "up", "fin", "rst", "err"}]
        /\ \A q \in Peers : q # p => link'[q] = link[q]
        /\ \A q \in Peers : link'[q] \in {"out", "up"} => link[q] \in {"out", "up"}
    BY <1>4, EndsKnown DEF Connect, Leave, IInv, Types
  <2>5. Flowing'
    BY <1>0, <1>2, <2>2, <2>4, FlowLink DEF Flowing
  <2>6. Fresh'
    <3>1. CASE Connect(p)
      <4>1. backlog' = Append(backlog, p) /\ backlog \in Seq(Peers)
        BY <3>1 DEF Connect, IInv, Types
      <4>2. backlog' = backlog \o <<p>>
        BY <4>1, AppendIsConcat
      <4>3. <<p>> \in Seq(Peers) /\ ToSet(<<p>>) = {p}
        BY ToSetOne
      <4>4. ToSet(backlog') = ToSet(backlog) \cup {p}
        <5>1. ToSet(backlog \o <<p>>) = ToSet(backlog) \cup ToSet(<<p>>)
          BY ONLY <4>1, <4>3, ToSetConcat
        <5> QED
          BY <4>2, <4>3, <5>1
      <4> QED
        BY <1>0, <1>2, <2>4, <4>4 DEF Fresh
    <3>2. ASSUME NEW how \in Ends[p], Leave(p, how) PROVE Fresh'
      <4>1. backlog' = backlog /\ link[p] # "out"
        BY <3>2 DEF Leave
      <4> QED
        BY <1>0, <1>2, <2>4, <4>1 DEF Fresh
    <3> QED
      BY <1>4, <3>1, <3>2
  <2> QED
    BY <1>3, <2>2, <2>3, <2>5, <2>6 DEF OInv
<1>5. CASE Send(p)
  <2>1. /\ sent[p] < MaxSent[p] /\ UNCHANGED <<link, backlog, outbox, got>>
        /\ sent' = [sent EXCEPT ![p] = @ + 1]
        /\ inbox' = [inbox EXCEPT ![p] = Append(@, <<p, sent[p] + 1>>)]
    BY <1>5 DEF Send
  <2>2. /\ sent \in [Peers -> Nat] /\ inbox \in [Peers -> Seq(Byte)]
        /\ sent[p] \in Nat /\ inbox[p] \in Seq(Byte) /\ <<p, sent[p] + 1>> \in Byte
    <3>1. sent \in [Peers -> Nat] /\ inbox \in [Peers -> Seq(Byte)]
      BY <1>0 DEF Boxes
    <3>2. sent[p] \in Nat /\ inbox[p] \in Seq(Byte)
      BY <3>1
    <3> QED
      BY <3>1, <3>2 DEF Byte
  <2>3. /\ sent' \in [Peers -> Nat] /\ inbox' \in [Peers -> Seq(Byte)]
        /\ sent'[p] = sent[p] + 1 /\ inbox'[p] = Append(inbox[p], <<p, sent[p] + 1>>)
        /\ \A q \in Peers : q # p => sent'[q] = sent[q] /\ inbox'[q] = inbox[q]
    BY <2>1, <2>2, AppendProperties
  <2>4. Boxes'
    BY <1>0, <1>2, <2>1, <2>3 DEF Boxes
  <2>5. /\ inbox'[p] \in Seq(Byte) /\ Len(inbox'[p]) = Len(inbox[p]) + 1 /\ Len(inbox[p]) \in Nat
        /\ \A i \in 1 .. Len(inbox[p]) : inbox'[p][i] = inbox[p][i]
        /\ inbox'[p][Len(inbox[p]) + 1] = <<p, sent[p] + 1>>
    BY <2>2, <2>3, AppendProperties, LenProperties
  <2>6. Taken' = Taken
    <3>1. \A q \in Peers : sent'[q] - Len(inbox'[q]) = sent[q] - Len(inbox[q])
      <4>1. sent'[p] - Len(inbox'[p]) = sent[p] - Len(inbox[p])
        BY <2>2, <2>3, <2>5
      <4> QED
        BY <2>3, <4>1
    <3> QED
      BY <3>1 DEF Taken
  <2>7. Arrived'
    <3>1. ASSUME NEW q \in Peers, q # p
          PROVE  /\ Len(inbox'[q]) <= sent'[q] /\ sent'[q] <= MaxSent[q]
                 /\ \A i \in 1 .. Len(inbox'[q]) : inbox'[q][i] = <<q, Taken[q] + i>>
      BY <1>0, <2>3, <3>1 DEF Arrived
    <3>2. Len(inbox'[p]) <= sent'[p] /\ sent'[p] <= MaxSent[p]
      <4>1. MaxSent[p] \in Nat /\ Len(inbox[p]) <= sent[p]
        BY <1>0, Bounds DEF Arrived
      <4> QED
        BY <2>1, <2>2, <2>3, <2>5, <4>1
    <3>3. ASSUME NEW i \in 1 .. Len(inbox'[p]) PROVE inbox'[p][i] = <<p, Taken[p] + i>>
      <4>1. CASE i \in 1 .. Len(inbox[p])
        BY <1>0, <2>5, <4>1 DEF Arrived
      <4>2. CASE i \notin 1 .. Len(inbox[p])
        <5>1. i = Len(inbox[p]) + 1 /\ Taken[p] + i = sent[p] + 1
          BY <2>2, <2>5, <4>2 DEF Taken
        <5> QED
          BY <2>5, <5>1
      <4> QED
        BY <4>1, <4>2
    <3> QED
      BY <2>6, <3>1, <3>2, <3>3 DEF Arrived
  <2>8. Flowing' /\ Fresh'
    <3>1. Streams' = Streams
      BY <1>2, <2>1, StreamsSame
    <3> QED
      BY <1>0, <1>2, <2>1, <2>6, <3>1 DEF Flowing, Fresh
  <2> QED
    BY <1>3, <2>4, <2>7, <2>8 DEF OInv
<1>6. CASE Receive(p)
  <2>1. /\ UNCHANGED <<link, backlog, sent, inbox>>
        /\ got' = [got EXCEPT ![p] = @ \o outbox[p]]
        /\ outbox' = [outbox EXCEPT ![p] = <<>>]
    BY <1>6 DEF Receive
  <2>2. got \in [Peers -> Seq(Byte)] /\ outbox \in [Peers -> Seq(Byte)] /\ <<>> \in Seq(Byte)
    BY <1>0, EmptySeq DEF Boxes
  <2>3. got[p] \o outbox[p] \in Seq(Byte)
    BY <2>2, ConcatProperties
  <2>4. /\ got' \in [Peers -> Seq(Byte)] /\ outbox' \in [Peers -> Seq(Byte)]
        /\ got'[p] = got[p] \o outbox[p] /\ outbox'[p] = <<>>
        /\ \A q \in Peers : q # p => got'[q] = got[q] /\ outbox'[q] = outbox[q]
    BY <2>1, <2>2, <2>3
  <2>5. Boxes' /\ Taken' = Taken
    BY <1>0, <1>2, <2>1, <2>4, TakenSame DEF Boxes
  <2>6. \A q \in Peers : got'[q] \o outbox'[q] = got[q] \o outbox[q]
    <3>1. got'[p] \o outbox'[p] = got[p] \o outbox[p]
      BY <2>3, <2>4, ConcatEmptySeq
    <3> QED
      BY <2>4, <3>1
  <2>7. Streams' = Streams
    BY <1>2, <2>6 DEF Streams, Stream
  <2>8. Arrived' /\ Flowing' /\ Fresh'
    BY <1>0, <1>2, <2>1, <2>5, <2>7 DEF Arrived, Flowing, Fresh
  <2> QED
    BY <1>3, <2>5, <2>8 DEF OInv
<1> QED
  BY <1>1, <1>4, <1>5, <1>6

\* The loop waits, dispatches or goes on: no byte moves, and no handler runs.
LEMMA TurnOInv == ASSUME IInv, OInv, Wait \/ Dispatch PROVE OInv'
<1>0. Boxes /\ Arrived /\ Flowing /\ Reading /\ Fresh /\ Watched /\ OwnWritten /\ Control
  BY DEF OInv
<1>1. /\ UNCHANGED <<kqueue, link, backlog, sent, inbox, outbox, got>>
      /\ UNCHANGED <<owner, interest, handler, fdof, buffer, chunk>>
      /\ pc \in {"wait", "dispatch"} /\ chunk = <<>>
  BY <1>0 DEF Wait, Dispatch, net, kernel, conns, Boxes
<1>2. /\ pc' \in {"wait", "dispatch", "accept", "read"} /\ (pc' = "read" => data' # {})
      /\ data' \subseteq {<<>>}
  BY <1>0, <1>1 DEF Wait, Dispatch, Reading
<1>3. Boxes' /\ Taken' = Taken
  BY <1>0, <1>1, TakenSame DEF Boxes
<1>4. Streams' = Streams
  BY <1>1 DEF Streams, Stream
<1>5. Flowing'
  <2>1. Flow(Streams, Taken, data, cur, link) /\ data \subseteq {<<>>}
    BY <1>0, <1>1 DEF Flowing, Reading
  <2>2. Flow(Streams, Taken, data', cur', link)
    BY <1>2, <2>1, FlowNone
  <2> QED
    BY <1>1, <1>3, <1>4, <2>2 DEF Flowing
<1>6. Arrived' /\ Reading' /\ Fresh' /\ Watched' /\ Control'
  BY <1>0, <1>1, <1>2, <1>3 DEF Arrived, Reading, Fresh, Watched, Control, Open
<1>7. OwnWritten'
  BY <1>0, <1>1 DEF OwnWritten
<1> QED
  BY <1>3, <1>5, <1>6, <1>7 DEF OInv

\* A connection accepted leaves the backlog with nothing to write, and watched
\* is nothing of its descriptor.
LEMMA AcceptOInv == ASSUME IInv, OInv, Accept PROVE OInv'
<1>0. Boxes /\ Arrived /\ Flowing /\ Reading /\ Fresh /\ Watched /\ OwnWritten /\ Control
  BY DEF OInv
<1>1. /\ UNCHANGED <<kqueue, link, sent, inbox, outbox, got, batch, cur, data, chunk>>
      /\ pc = "accept" /\ pc' = "dispatch"
  BY DEF Accept, local
<1>2. Reading' /\ Taken' = Taken
  BY <1>0, <1>1, TakenSame DEF Reading
<1>3. CASE Open = Fds
  <2>1. UNCHANGED <<backlog, owner, interest, handler, fdof, buffer>>
    BY <1>3 DEF Accept, kernel, conns
  <2>2. Streams' = Streams /\ Boxes'
    BY <1>0, <1>1, <2>1, StreamsSame DEF Boxes
  <2>3. Arrived' /\ Flowing' /\ Fresh' /\ Watched' /\ OwnWritten' /\ Control'
    BY <1>0, <1>1, <1>2, <2>1, <2>2 DEF Arrived, Flowing, Fresh, Watched, OwnWritten, Control, Open
  <2> QED
    BY <1>2, <2>2, <2>3 DEF OInv
<1>4. CASE Open # Fds
  <2> DEFINE p == Head(backlog)
  <2>1. PICK fd \in Fds \ Open :
             /\ backlog' = Tail(backlog)
             /\ owner' = [owner EXCEPT ![fd] = p]
             /\ interest' = interest \ {fd}
             /\ fdof' = [fdof EXCEPT ![p] = fd]
             /\ buffer' = [buffer EXCEPT ![p] = NewBufferQueue]
    BY <1>4 DEF Accept
  <2>2. fd \in Fds /\ fd # 0 /\ owner[fd] = NoPeer
    BY <2>1 DEF Open, Fds
  <2>3. backlog \in Seq(Peers) /\ backlog # <<>> /\ p \in Peers /\ p # NoPeer /\ fdof[p] = 0
    <3>1. backlog \in Seq(Peers) /\ backlog # <<>>
      BY <1>1 DEF IInv, Types, Waiting
    <3>2. 1 \in 1 .. Len(backlog) /\ p = backlog[1] /\ p \in Peers
      BY <3>1
    <3>3. fdof[p] = 0
      BY <3>2 DEF IInv, Waiting
    <3> QED
      BY <3>1, <3>2, <3>3, PeersFinite
  <2>4. ToSet(backlog) \subseteq {p} \cup ToSet(backlog')
    <3>1. backlog' \in Seq(Peers) /\ backlog = <<p>> \o backlog' /\ <<p>> \in Seq(Peers)
      BY <2>1, <2>3
    <3>2. ToSet(<<p>>) = {p}
      BY <2>3, ToSetOne
    <3>3. ToSet(<<p>> \o backlog') = ToSet(<<p>>) \cup ToSet(backlog')
      BY <3>1, ToSetConcat
    <3> HIDE DEF p
    <3> QED
      BY <3>1, <3>2, <3>3
  <2> HIDE DEF p
  <2>5. buffer[p] = NewBufferQueue
    BY <1>0, <2>3 DEF Fresh
  <2>6. DOMAIN buffer = Peers
    BY <1>0 DEF Boxes
  <2>7. DOMAIN buffer' = Peers /\ \A q \in Peers : buffer'[q] = buffer[q]
    BY <2>1, <2>3, <2>5, <2>6
  <2>8. Streams' = Streams
    BY <1>1, <2>7 DEF Streams, Stream
  <2>9. Boxes' /\ Arrived' /\ Flowing'
    BY <1>0, <1>1, <1>2, <2>7, <2>8 DEF Boxes, Arrived, Flowing
  <2>10. /\ fdof'[p] = fd /\ \A q \in Peers : q # p => fdof'[q] = fdof[q]
         /\ owner'[fd] = p /\ \A g \in Fds : g # fd => owner'[g] = owner[g]
         /\ \A q \in Peers : fdof[q] \in Fds \cup {0}
    BY <2>1, <2>2, <2>3 DEF IInv, Types
  <2>11. Fresh'
    BY <1>0, <1>1, <2>2, <2>4, <2>7, <2>10 DEF Fresh
  <2>12. Watched'
    <3> SUFFICES ASSUME NEW q \in Peers, fdof'[q] # 0, owner'[fdof'[q]] = q, BytesIn(buffer'[q]) # <<>>
                 PROVE  kqueue' \/ fdof'[q] \in interest'
      BY DEF Watched
    <3>1. BytesIn(buffer[p]) = <<>>
      BY <2>5, RepNew
    <3>2. q # p
      BY <2>7, <3>1
    <3>3. fdof'[q] = fdof[q] /\ fdof[q] \in Fds /\ fdof[q] # fd
      BY <2>10, <3>2
    <3>4. kqueue \/ fdof[q] \in interest
      BY <1>0, <2>7, <2>10, <3>3 DEF Watched
    <3> QED
      BY <1>1, <2>1, <3>3, <3>4
  <2>13. OwnWritten'
    BY <1>0, <1>1, <2>7 DEF OwnWritten
  <2>14. Control'
    <3>1. \A g \in Open : owner'[g] # NoPeer
      BY <2>2, <2>3, <2>10 DEF Open
    <3>2. interest' \subseteq Open'
      BY <1>0, <2>1, <3>1 DEF Control, Open
    <3> QED
      BY <1>0, <1>1, <3>2 DEF Control
  <2> QED
    BY <1>2, <2>9, <2>11, <2>12, <2>13, <2>14 DEF OInv
<1> QED
  BY <1>3, <1>4

\* l_read takes the bytes of its connection one by one, and drops them when the
\* connection has ended.
LEMMA ReadsOInv == ASSUME IInv, OInv, Reads PROVE OInv'
<1>0. Boxes /\ Arrived /\ Flowing /\ Reading /\ Fresh /\ Watched /\ OwnWritten /\ Control
  BY DEF OInv
<1>1. /\ UNCHANGED <<kqueue, backlog, sent, outbox, got, handler, fdof, buffer, batch, cur, chunk>>
      /\ pc = "read" /\ owner[fdof[cur]] # NoPeer /\ chunk = <<>>
  BY <1>0 DEF Reads, ReadBytes, ReadEnd, ReadError, ReadAgain, Finds, net, kernel, conns, local, Boxes
<1>2. cur \in Peers /\ owner[fdof[cur]] = cur /\ fdof[cur] \in Fds /\ fdof[cur] # 0
  BY <1>1 DEF IInv, Types, Current, Handling, Fds
<1>3. PICK d \in Seq(Byte) : data = {d}
  BY <1>0, <1>1 DEF Reading, Flowing, Flow
<1>4. Streams' = Streams
  BY <1>1, StreamsSame
<1>5. CASE ReadBytes
  <2>1. /\ UNCHANGED <<link, owner, interest, pc>>
        /\ data' = {x \o <<Head(inbox[cur])>> : x \in data}
        /\ inbox' = [inbox EXCEPT ![cur] = Tail(@)]
    BY <1>2, <1>5 DEF ReadBytes, kernel
  <2>2. inbox[cur] # <<>>
    BY <1>2, <1>5 DEF ReadBytes, Finds, IInv, Types
  <2>3. inbox \in [Peers -> Seq(Byte)] /\ sent \in [Peers -> Nat] /\ inbox[cur] \in Seq(Byte) /\ sent[cur] \in Nat
    BY <1>0, <1>2 DEF Boxes
  <2>4. /\ inbox' \in [Peers -> Seq(Byte)] /\ inbox'[cur] = Tail(inbox[cur])
        /\ \A q \in Peers : q # cur => inbox'[q] = inbox[q]
    BY <1>2, <2>1, <2>2, <2>3, HeadTailProperties
  <2>5. /\ Len(inbox'[cur]) = Len(inbox[cur]) - 1 /\ Len(inbox[cur]) \in Nat
        /\ 1 \in 1 .. Len(inbox[cur]) /\ Head(inbox[cur]) = inbox[cur][1]
        /\ \A i \in 1 .. Len(inbox'[cur]) : i + 1 \in 1 .. Len(inbox[cur]) /\ inbox'[cur][i] = inbox[cur][i + 1]
    BY <2>2, <2>3, <2>4
  <2>6. Taken \in [Peers -> Nat] /\ Taken[cur] = sent[cur] - Len(inbox[cur])
    BY <1>0, <1>2 DEF Flowing, Flow, Taken
  <2>7. Taken' = [Taken EXCEPT ![cur] = @ + 1]
    <3>1. \A q \in Peers : q # cur => sent[q] - Len(inbox'[q]) = sent[q] - Len(inbox[q])
      BY <2>4
    <3>2. sent[cur] - Len(inbox'[cur]) = sent[cur] - Len(inbox[cur]) + 1
      BY <2>3, <2>5
    <3>3. Taken' = [q \in Peers |-> sent[q] - Len(inbox'[q])]
      BY <1>1 DEF Taken
    <3>4. \A q \in Peers : Taken[q] = sent[q] - Len(inbox[q])
      BY DEF Taken
    <3> QED
      BY <1>2, <2>6, <3>1, <3>2, <3>3, <3>4
  <2>8. Head(inbox[cur]) = <<cur, Taken[cur] + 1>>
    BY <1>0, <1>2, <2>5 DEF Arrived
  <2>9. data' = {d \o <<<<cur, Taken[cur] + 1>>>>}
    BY <1>3, <2>1, <2>8
  <2>10. Flowing'
    <3>1. Flow(Streams, Taken, {d}, cur, link)
      BY <1>0, <1>3 DEF Flowing
    <3>2. Flow(Streams, Taken', data', cur, link)
      BY <1>2, <2>7, <2>9, <3>1, FlowRead
    <3> QED
      BY <1>1, <1>4, <2>1, <3>2 DEF Flowing
  <2>11. Arrived'
    <3>1. ASSUME NEW q \in Peers, q # cur
          PROVE  /\ Len(inbox'[q]) <= sent'[q] /\ sent'[q] <= MaxSent[q]
                 /\ \A i \in 1 .. Len(inbox'[q]) : inbox'[q][i] = <<q, Taken'[q] + i>>
      <4>1. inbox'[q] = inbox[q] /\ Taken'[q] = Taken[q] /\ sent'[q] = sent[q]
        BY <1>1, <2>4, <2>6, <2>7, <3>1
      <4> QED
        BY <1>0, <4>1 DEF Arrived
    <3>2. Len(inbox'[cur]) <= sent'[cur] /\ sent'[cur] <= MaxSent[cur]
      <4>1. Len(inbox[cur]) <= sent[cur] /\ sent[cur] <= MaxSent[cur]
        BY <1>0, <1>2 DEF Arrived
      <4> QED
        BY <1>1, <2>3, <2>5, <4>1
    <3>3. ASSUME NEW i \in 1 .. Len(inbox'[cur]) PROVE inbox'[cur][i] = <<cur, Taken'[cur] + i>>
      <4>1. inbox'[cur][i] = <<cur, Taken[cur] + (i + 1)>>
        BY <1>0, <1>2, <2>5 DEF Arrived
      <4>2. Taken'[cur] = Taken[cur] + 1 /\ Taken[cur] \in Nat /\ i \in Nat
        BY <1>2, <2>5, <2>6, <2>7
      <4> QED
        BY SMTT(20), <4>1, <4>2
    <3> QED
      BY <3>1, <3>2, <3>3 DEF Arrived
  <2>12. Boxes' /\ Reading' /\ Fresh' /\ Watched' /\ OwnWritten' /\ Control'
    BY <1>0, <1>1, <2>1, <2>4, <2>9 DEF Boxes, Reading, Fresh, Watched, OwnWritten, Control, Open
  <2> QED
    BY <2>10, <2>11, <2>12 DEF OInv
<1>6. CASE ReadEnd
  <2>1. /\ UNCHANGED <<link, sent, inbox>> /\ data' = {} /\ pc' = "onread"
        /\ owner' = [owner EXCEPT ![fdof[cur]] = NoPeer]
        /\ interest' = interest \ {fdof[cur]}
    BY <1>6 DEF ReadEnd, CloseFd, net
  <2>2. link[cur] \in {"fin", "rst"}
    BY <1>2, <1>6 DEF ReadEnd, Finds
  <2>3. Flowing' /\ Arrived' /\ Boxes'
    <3>1. Taken' = Taken
      BY <2>1, TakenSame
    <3>2. Flow(Streams, Taken, {}, cur, link)
      BY <1>0, <2>2, FlowDrop DEF Flowing
    <3> QED
      BY <1>0, <1>1, <1>4, <2>1, <3>1, <3>2 DEF Flowing, Arrived, Boxes
  <2>4. owner'[fdof[cur]] = NoPeer /\ \A g \in Fds : g # fdof[cur] => owner'[g] = owner[g]
    BY <1>2, <2>1 DEF IInv, Types
  <2>5. Watched'
    <3> SUFFICES ASSUME NEW q \in Peers, fdof[q] # 0, owner'[fdof[q]] = q, BytesIn(buffer[q]) # <<>>
                 PROVE  kqueue \/ fdof[q] \in interest'
      BY <1>1 DEF Watched
    <3>1. fdof[q] \in Fds /\ fdof[q] # fdof[cur]
      BY <2>4, PeersFinite DEF IInv, Types
    <3> QED
      BY <1>0, <2>1, <2>4, <3>1 DEF Watched
  <2>6. Reading' /\ Fresh' /\ OwnWritten'
    BY <1>0, <1>1, <2>1 DEF Reading, Fresh, OwnWritten
  <2>7. Control'
    <3>1. interest' \subseteq Open'
      BY <1>0, <2>1, <2>4 DEF Control, Open
    <3> QED
      BY <1>0, <1>1, <2>1, <3>1 DEF Control
  <2> QED
    BY <2>3, <2>5, <2>6, <2>7 DEF OInv
<1>7. CASE ReadError \/ ReadAgain
  <2>1. UNCHANGED <<sent, inbox, owner, interest, data>> /\ pc' = "onread"
    BY <1>7 DEF ReadError, ReadAgain, net, kernel, local
  <2>2. link' = link \/ link' = [link EXCEPT ![cur] = "rst"]
    BY <1>2, <1>7 DEF ReadError, ReadAgain, net
  <2>3. \A q \in Peers : /\ link'[q] \in {"out", "up"} => link[q] \in {"out", "up"}
                         /\ q # cur => link'[q] = link[q]
    BY <2>2 DEF IInv, Types
  <2>4. Flowing' /\ Arrived' /\ Boxes'
    <3>1. Taken' = Taken
      BY <2>1, TakenSame
    <3>2. Flow(Streams, Taken, data, cur, link')
      BY <1>0, <2>3, FlowLink DEF Flowing
    <3> QED
      BY <1>0, <1>1, <1>4, <2>1, <3>1, <3>2 DEF Flowing, Arrived, Boxes
  <2>5. Fresh'
    BY <1>0, <1>1, <1>2, <2>3 DEF Fresh
  <2>6. Reading' /\ Watched' /\ OwnWritten' /\ Control'
    BY <1>0, <1>1, <2>1 DEF Reading, Watched, OwnWritten, Control, Open
  <2> QED
    BY <2>4, <2>5, <2>6 DEF OInv
<1> QED
  BY <1>5, <1>6, <1>7 DEF Reads

LEMMA StreamsAlike == (\A p \in Peers : Stream(p)' = Stream(p)) => Streams' = Streams
BY DEF Streams

\* on_read pushes what was read, and watches the connection it pushes to.
LEMMA OnReadOInv == ASSUME IInv, OInv, NEW q \in Peers, OnRead(q) PROVE OInv'
<1>0. Boxes /\ Arrived /\ Flowing /\ Reading /\ Fresh /\ Watched /\ OwnWritten /\ Control
  BY DEF OInv
<1>1. /\ UNCHANGED <<kqueue, link, backlog, sent, inbox, outbox, got>>
      /\ UNCHANGED <<owner, handler, fdof, batch, cur, chunk>>
      /\ pc = "onread" /\ pc' = "pop" /\ data' = {} /\ chunk = <<>> /\ q \in Conns
      /\ buffer' = [buffer EXCEPT ![q] = Push(@, data)]
      /\ CtlWrite(fdof[q], TRUE)
  BY <1>0 DEF OnRead, net, Boxes
<1>2. fdof[q] # 0 /\ RepOK(buffer[q]) /\ DOMAIN buffer = Peers
  BY <1>0, <1>1 DEF Conns, Boxes
<1>3. /\ DOMAIN buffer' = Peers /\ buffer'[q] = Push(buffer[q], data)
      /\ \A p \in Peers : p # q => buffer'[p] = buffer[p]
  BY <1>1, <1>2
<1>4. PICK d \in Seq(Byte) : /\ data = {d} \/ (data = {} /\ d = <<>>)
                             /\ \A b \in ToSet(d) : b[1] = cur
  <2>1. <<>> \in Seq(Byte) /\ ToSet(<<>>) = {}
    BY EmptySeq, ToSetEmpty
  <2>2. /\ data = {} \/ \E d \in Seq(Byte) : data = {d}
        /\ \A d \in data : \A b \in ToSet(d) : b[1] = cur
    BY <1>0 DEF Flowing, Flow
  <2>3. CASE data = {}
    BY <2>1, <2>3
  <2>4. ASSUME NEW d \in Seq(Byte), data = {d} PROVE \A b \in ToSet(d) : b[1] = cur
    BY <2>2, <2>4
  <2> QED
    BY <2>2, <2>3, <2>4
<1>5. RepOK(buffer'[q]) /\ BytesIn(buffer'[q]) = BytesIn(buffer[q]) \o d
  <2>1. CASE data = {d}
    BY <1>2, <1>3, <2>1, PushIs
  <2>2. CASE data = {} /\ d = <<>>
    <3>1. buffer'[q] = buffer[q]
      BY <1>2, <1>3, <1>4, <2>2, PushIs
    <3> QED
      BY <1>2, <2>2, <3>1, BytesInType, ConcatEmptySeq
  <2> QED
    BY <1>4, <2>1, <2>2
<1>6. Taken' = Taken
  BY <1>1, TakenSame
<1>7. Streams' = [Streams EXCEPT ![q] = @ \o d]
  <2>1. \A p \in Peers : p # q => Stream(p)' = Stream(p)
    BY <1>1, <1>3 DEF Stream
  <2>2. Stream(q)' = Stream(q) \o d
    <3> DEFINE front == got[q] \o outbox[q] \o (IF cur = q THEN chunk ELSE <<>>)
    <3>1. Stream(q) = front \o BytesIn(buffer[q]) /\ Stream(q)' = front \o (BytesIn(buffer[q]) \o d)
      BY <1>1, <1>5 DEF Stream
    <3>2. front \in Seq(Byte) /\ BytesIn(buffer[q]) \in Seq(Byte)
      BY <1>0, PartsType, ConcatProperties
    <3> HIDE DEF front
    <3> QED
      BY <3>1, <3>2, ConcatAssociative
  <2>3. /\ Streams' = [p \in Peers |-> Stream(p)']
        /\ Streams = [p \in Peers |-> Stream(p)]
    BY DEF Streams
  <2> QED
    BY <2>1, <2>2, <2>3
<1>8. Flowing'
  <2>1. Flow(Streams, Taken, data, cur, link)
    BY <1>0 DEF Flowing
  <2>2. Flow(Streams', Taken, {}, cur, link)
    <3>1. CASE data = {d}
      BY <1>7, <2>1, <3>1, FlowWrite
    <3>2. CASE data = {} /\ d = <<>>
      <4>1. Streams \in [Peers -> Seq(Byte)]
        BY <2>1 DEF Flow
      <4>2. Streams[q] \o d = Streams[q]
        BY <3>2, <4>1, ConcatEmptySeq
      <4>3. Streams' = Streams
        BY <1>7, <4>1, <4>2
      <4> QED
        BY <2>1, <3>2, <4>3
    <3> QED
      BY <1>4, <3>1, <3>2
  <2> QED
    BY <1>1, <1>6, <2>2 DEF Flowing
<1>9. Boxes'
  BY <1>0, <1>1, <1>3, <1>5 DEF Boxes
<1>10. Arrived' /\ Reading' /\ Fresh'
  BY <1>0, <1>1, <1>2, <1>3, <1>6 DEF Arrived, Reading, Fresh
<1>11. interest \subseteq interest' /\ (kqueue \/ fdof[q] \notin Open \/ fdof[q] \in interest')
  BY <1>1 DEF CtlWrite, EpollWrite, KqueueWrite
<1>12. Watched'
  <2> SUFFICES ASSUME NEW p \in Peers, fdof[p] # 0, owner[fdof[p]] = p, BytesIn(buffer'[p]) # <<>>
               PROVE  kqueue \/ fdof[p] \in interest'
    BY <1>1 DEF Watched
  <2>1. CASE p = q
    <3>1. fdof[p] \in Open
      BY PeersFinite DEF Open, IInv, Types
    <3> QED
      BY <1>11, <2>1, <3>1
  <2>2. CASE p # q
    BY <1>0, <1>3, <1>11, <2>2 DEF Watched
  <2> QED
    BY <2>1, <2>2
<1>13. OwnWritten'
  <2> SUFFICES ASSUME NEW p \in Peers, p # cur, NEW b \in ToSet(BytesIn(buffer'[p]))
               PROVE  b[1] # p
    BY <1>1 DEF OwnWritten
  <2>1. \A x \in ToSet(BytesIn(buffer[p])) : x[1] # p
    BY <1>0 DEF OwnWritten
  <2>2. CASE p = q
    <3>1. BytesIn(buffer[q]) \in Seq(Byte)
      BY <1>0, PartsType
    <3>2. ToSet(BytesIn(buffer[q]) \o d) = ToSet(BytesIn(buffer[q])) \cup ToSet(d)
      BY <3>1, ToSetConcat
    <3> QED
      BY <1>4, <1>5, <2>1, <2>2, <3>2
  <2>3. CASE p # q
    BY <1>3, <2>1, <2>3
  <2> QED
    BY <2>2, <2>3
<1>14. Control'
  <2>1. \A fd \in interest' : fd \in interest \/ (fd = fdof[q] /\ fd \in Open)
    BY <1>1 DEF CtlWrite, EpollWrite, KqueueWrite
  <2> QED
    BY <1>0, <1>1, <2>1 DEF Control, Open
<1> QED
  BY <1>8, <1>9, <1>10, <1>12, <1>13, <1>14 DEF OInv

\* on_writeable takes the oldest chunk of the queue; when there is none left, the
\* queue is empty, and the write interest ends.
LEMMA TakeOInv == ASSUME IInv, OInv, TakeChunk PROVE OInv'
<1>0. Boxes /\ Arrived /\ Flowing /\ Reading /\ Fresh /\ Watched /\ OwnWritten /\ Control
  BY DEF OInv
<1> DEFINE b == Pop(buffer[cur])
<1>1. /\ UNCHANGED <<kqueue, link, backlog, sent, inbox, outbox, got>>
      /\ UNCHANGED <<owner, handler, fdof, batch, cur, data>>
      /\ pc = "pop" /\ chunk = <<>>
      /\ buffer' = [buffer EXCEPT ![cur] = b.rest]
      /\ \/ b.val = {} /\ CtlWrite(fdof[cur], FALSE) /\ pc' = "dispatch" /\ chunk' = chunk
         \/ b.val # {} /\ chunk' = Chunk(b.val) /\ pc' = "write" /\ interest' = interest
  BY <1>0 DEF TakeChunk, net, Boxes, Chunk
<1>2. /\ cur \in Peers /\ fdof[cur] \in Fds /\ fdof[cur] # 0 /\ owner[fdof[cur]] \in {cur, NoPeer}
      /\ RepOK(buffer[cur]) /\ DOMAIN buffer = Peers
  BY <1>0, <1>1 DEF IInv, Types, Current, Handling, Fds, Boxes
<1>3. /\ RepOK(b.rest)
      /\ b.val = {} => BytesIn(buffer[cur]) = <<>> /\ BytesIn(b.rest) = <<>>
      /\ b.val # {} => /\ Chunk(b.val) \in Seq(Byte)
                       /\ BytesIn(buffer[cur]) = Chunk(b.val) \o BytesIn(b.rest)
  BY <1>2, PopIs
<1> HIDE DEF b
<1>4. /\ DOMAIN buffer' = Peers /\ buffer'[cur] = b.rest
      /\ \A p \in Peers : p # cur => buffer'[p] = buffer[p]
  BY <1>1, <1>2
<1>5. BytesIn(buffer[cur]) = chunk' \o BytesIn(buffer'[cur]) /\ chunk' \in Seq(Byte)
  <2>1. CASE b.val = {}
    <3>1. chunk' = <<>> /\ BytesIn(buffer[cur]) = <<>> /\ BytesIn(buffer'[cur]) = <<>>
      BY <1>1, <1>3, <1>4, <2>1
    <3>2. <<>> \in Seq(Byte) /\ <<>> \o <<>> = <<>>
      BY EmptySeq, ConcatEmptySeq
    <3> QED
      BY <3>1, <3>2
  <2>2. CASE b.val # {}
    BY <1>1, <1>3, <1>4, <2>2
  <2> QED
    BY <2>1, <2>2
<1>6. BytesIn(buffer'[cur]) \in Seq(Byte) /\ RepOK(buffer'[cur])
  BY <1>3, <1>4, BytesInType
<1>7. Taken' = Taken
  BY <1>1, TakenSame
<1>8. Streams' = Streams
  <2>1. \A p \in Peers : p # cur => Stream(p)' = Stream(p)
    BY <1>1, <1>4 DEF Stream
  <2>2. ASSUME NEW p \in Peers, p = cur PROVE Stream(p)' = Stream(p)
    <3> DEFINE front == got[cur] \o outbox[cur]
    <3>1. /\ Stream(p) = front \o <<>> \o BytesIn(buffer[cur])
          /\ Stream(p)' = front \o chunk' \o BytesIn(buffer'[cur])
      BY <1>1, <2>2 DEF Stream
    <3>2. front \in Seq(Byte)
      BY <1>0, <1>2, PartsType, ConcatProperties
    <3> HIDE DEF front
    <3>3. front \o <<>> = front
      BY <3>2, ConcatEmptySeq
    <3>4. front \o chunk' \o BytesIn(buffer'[cur]) = front \o (chunk' \o BytesIn(buffer'[cur]))
      BY <1>5, <1>6, <3>2, ConcatAssociative
    <3> QED
      BY <1>5, <3>1, <3>3, <3>4
  <2> QED
    BY <2>1, <2>2, StreamsAlike
<1>9. Boxes' /\ Arrived' /\ Flowing'
  BY <1>0, <1>1, <1>4, <1>5, <1>6, <1>7, <1>8 DEF Boxes, Arrived, Flowing
<1>10. Reading' /\ Fresh'
  BY <1>0, <1>1, <1>2, <1>4 DEF Reading, Fresh
<1>11. ToSet(BytesIn(buffer'[cur])) \subseteq ToSet(BytesIn(buffer[cur]))
  <2>1. ToSet(chunk' \o BytesIn(buffer'[cur])) = ToSet(chunk') \cup ToSet(BytesIn(buffer'[cur]))
    BY <1>5, <1>6, ToSetConcat
  <2> QED
    BY <1>5, <2>1
<1>12. interest' \subseteq interest /\ \A fd \in interest : fd # fdof[cur] \/ b.val # {} => fd \in interest'
  BY <1>1 DEF CtlWrite, EpollWrite, KqueueWrite
<1>13. Watched'
  <2> SUFFICES ASSUME NEW p \in Peers, fdof[p] # 0, owner[fdof[p]] = p, BytesIn(buffer'[p]) # <<>>
               PROVE  kqueue \/ fdof[p] \in interest'
    BY <1>1 DEF Watched
  <2>1. CASE p = cur
    <3>1. b.val # {}
      BY <1>3, <1>4, <2>1
    <3>2. BytesIn(buffer[cur]) # <<>>
      <4> SUFFICES ASSUME BytesIn(buffer[cur]) = <<>> PROVE FALSE
        OBVIOUS
      <4>1. chunk' \o BytesIn(buffer'[cur]) = <<>>
        BY <1>5
      <4>2. Len(chunk' \o BytesIn(buffer'[cur])) = Len(chunk') + Len(BytesIn(buffer'[cur]))
        BY <1>5, <1>6
      <4> QED
        BY <1>5, <1>6, <2>1, <4>1, <4>2
    <3> QED
      BY <1>0, <1>12, <2>1, <3>1, <3>2 DEF Watched
  <2>2. CASE p # cur
    <3>1. fdof[p] # fdof[cur]
      BY <1>2, <2>2, PeersFinite
    <3> QED
      BY <1>0, <1>4, <1>12, <2>2, <3>1 DEF Watched
  <2> QED
    BY <2>1, <2>2
<1>14. OwnWritten'
  <2> SUFFICES ASSUME NEW p \in Peers, p # cur \/ pc' \notin {"pop", "write", "dead"},
                      NEW x \in ToSet(BytesIn(buffer'[p]))
               PROVE  x[1] # p
    BY <1>1 DEF OwnWritten
  <2>1. CASE p # cur
    BY <1>0, <1>4, <2>1 DEF OwnWritten
  <2>2. CASE p = cur
    <3>1. b.val = {}
      BY <1>1, <2>2
    <3> QED
      BY <1>3, <1>4, <2>2, <3>1, ToSetEmpty
  <2> QED
    BY <2>1, <2>2
<1>15. Control'
  BY <1>0, <1>1, <1>12 DEF Control, Open
<1> QED
  BY <1>9, <1>10, <1>13, <1>14, <1>15 DEF OInv

\* l_write moves its chunk to the outbox of the connection, byte by byte.
LEMMA WriteOInv == ASSUME IInv, OInv, Written \/ Write \/ WriteShort PROVE OInv'
<1>0. Boxes /\ Arrived /\ Flowing /\ Reading /\ Fresh /\ Watched /\ OwnWritten /\ Control
  BY DEF OInv
<1>1. /\ UNCHANGED <<kqueue, link, backlog, sent, inbox, got>>
      /\ UNCHANGED <<owner, interest, handler, fdof, buffer, batch, cur, data>>
      /\ pc = "write" /\ pc' \in {"pop", "write", "dead"}
  BY DEF Written, Write, WriteShort, net, kernel, conns, local
<1>2. Taken' = Taken
  BY <1>1, TakenSame
<1>3. Boxes' /\ Streams' = Streams
  <2>1. CASE Written \/ WriteShort
    <3>1. UNCHANGED <<outbox, chunk>> /\ (chunk # <<>> => pc' \in {"write", "dead"})
      BY <2>1 DEF Written, WriteShort, net, local
    <3> QED
      BY <1>0, <1>1, <3>1, StreamsSame DEF Boxes
  <2>2. CASE Write
    <3>1. /\ chunk # <<>> /\ Taker # NoPeer
          /\ outbox' = [outbox EXCEPT ![Taker] = Append(@, Head(chunk))]
          /\ chunk' = Tail(chunk) /\ pc' = pc
      BY <2>2 DEF Write
    <3>2. Taker = cur /\ cur \in Peers
      BY <1>1, <3>1 DEF Taker, IInv, Types, Current, Handling
    <3>3. chunk \in Seq(Byte) /\ outbox \in [Peers -> Seq(Byte)] /\ outbox[cur] \in Seq(Byte)
      BY <1>0, <3>2 DEF Boxes
    <3>4. Head(chunk) \in Byte /\ chunk' \in Seq(Byte) /\ chunk = <<Head(chunk)>> \o chunk'
      BY <3>1, <3>3
    <3>5. /\ outbox' \in [Peers -> Seq(Byte)] /\ outbox'[cur] = Append(outbox[cur], Head(chunk))
          /\ \A p \in Peers : p # cur => outbox'[p] = outbox[p]
      BY <3>1, <3>2, <3>3, <3>4, AppendProperties
    <3>6. Boxes'
      BY <1>0, <1>1, <3>1, <3>4, <3>5 DEF Boxes
    <3>7. \A p \in Peers : p # cur => Stream(p)' = Stream(p)
      BY <1>1, <3>5 DEF Stream
    <3>8. ASSUME NEW p \in Peers, p = cur PROVE Stream(p)' = Stream(p)
      <4> DEFINE h == <<Head(chunk)>>
      <4>1. h \in Seq(Byte) /\ outbox'[cur] = outbox[cur] \o h
        <5>1. <<Head(chunk)>> \in Seq(Byte)
          BY <3>4, ToSetOne
        <5> QED
          BY <3>3, <3>4, <3>5, <5>1, AppendIsConcat
      <4>2. got[cur] \in Seq(Byte) /\ BytesIn(buffer[cur]) \in Seq(Byte)
        BY <1>0, <3>2, PartsType
      <4>3. chunk = h \o chunk'
        BY <3>4
      <4> HIDE DEF h
      <4>4. ASSUME NEW g, g = got[cur], NEW o, o = outbox[cur], NEW n, n = outbox'[cur],
                   NEW k, k = chunk'
            PROVE  (g \o n) \o k = (g \o o) \o chunk
        <5>1. /\ g \in Seq(Byte) /\ o \in Seq(Byte) /\ h \in Seq(Byte) /\ k \in Seq(Byte)
              /\ n = o \o h /\ chunk = h \o k
          BY <3>3, <3>4, <4>1, <4>2, <4>3, <4>4
        <5>2. g \o o \in Seq(Byte)
          BY ONLY <5>1, ConcatProperties
        <5>3. (g \o o) \o h = g \o (o \o h)
          BY ONLY SMTT(20), <5>1, ConcatAssociative
        <5>4. ((g \o o) \o h) \o k = (g \o o) \o (h \o k)
          BY ONLY SMTT(20), <5>1, <5>2, ConcatAssociative
        <5> QED
          BY ONLY <5>1, <5>3, <5>4
      <4>5. /\ Stream(p) = got[cur] \o outbox[cur] \o chunk \o BytesIn(buffer[cur])
            /\ Stream(p)' = got[cur] \o outbox'[cur] \o chunk' \o BytesIn(buffer[cur])
        BY <1>1, <3>8 DEF Stream
      <4>6. (got[cur] \o outbox'[cur]) \o chunk' = (got[cur] \o outbox[cur]) \o chunk
        BY ONLY <4>4
      <4> QED
        BY ONLY <4>5, <4>6
    <3>9. Streams' = Streams
      BY <3>7, <3>8, StreamsAlike
    <3> QED
      BY <3>6, <3>9
  <2> QED
    BY <2>1, <2>2
<1>4. Arrived' /\ Flowing' /\ Reading' /\ Fresh' /\ Watched' /\ OwnWritten' /\ Control'
  BY <1>0, <1>1, <1>2, <1>3 DEF Arrived, Flowing, Reading, Fresh, Watched, OwnWritten, Control, Open
<1> QED
  BY <1>3, <1>4 DEF OInv

LEMMA StepOInv == IInv /\ OInv /\ [Next]_vars => OInv'
<1> SUFFICES ASSUME IInv, OInv, [Next]_vars PROVE OInv'
  OBVIOUS
<1>1. CASE UNCHANGED vars
  <2>1. /\ UNCHANGED <<kqueue, link, backlog, sent, inbox, outbox, got, owner, interest>>
        /\ UNCHANGED <<handler, fdof, buffer, pc, batch, cur, data, chunk>>
    BY <1>1 DEF vars, net, kernel, conns, local
  <2>2. Streams' = Streams /\ Taken' = Taken
    BY <2>1, StreamsSame, TakenSame
  <2> QED
    BY <2>1, <2>2 DEF OInv, Boxes, Arrived, Flowing, Reading, Fresh, Watched, OwnWritten, Control, Open
<1> QED
  BY <1>1, PeerOInv, TurnOInv, AcceptOInv, ReadsOInv, OnReadOInv, TakeOInv, WriteOInv DEF Next, Loop, Writes

LEMMA AlwaysOInv == Spec => [](IInv /\ OInv)
BY InitIInv, StepIInv, InitOInv, StepOInv, PTL DEF Spec

-----------------------------------------------------------------------------
(* The theorems.                                                           *)

\* What SetToSeq chooses for a finite set holds each element once.
LEMMA SetToSeqIs ==
  ASSUME NEW S, IsFiniteSet(S)
  PROVE  /\ SetToSeq(S) \in [1 .. Cardinality(S) -> S] /\ SetToSeq(S) \in Seq(S)
         /\ IsInjective(SetToSeq(S)) /\ \A x \in S : \E i \in 1 .. Len(SetToSeq(S)) : SetToSeq(S)[i] = x
<1> DEFINE n == Cardinality(S)
           s == SetToSeq(S)
<1>1. n \in Nat /\ ExistsBijection(1 .. n, S)
  BY FS_CardinalityType
<1>2. s \in [1 .. n -> S] /\ IsInjective(s)
  <2>1. \E f \in [1 .. n -> S] : IsInjective(f)
    BY <1>1 DEF ExistsBijection, Bijection, Injection
  <2> QED
    BY <2>1 DEF SetToSeq
<1>3. s \in Seq(S) /\ Len(s) = n
  BY <1>1, <1>2
<1>4. s \in Surjection(1 .. n, S)
  <2>1. Cardinality(1 .. n) = n
    BY <1>1, FS_Interval
  <2>2. s \in Injection(1 .. n, S)
    BY <1>2 DEF Injection
  <2> HIDE DEF s
  <2> QED
    BY <2>1, <2>2, FS_Injection
<1> QED
  BY <1>2, <1>3, <1>4 DEF Surjection

\* At most one chunk, as Everything counts it.
LEMMA DataIs ==
  ASSUME NEW D, D = {} \/ \E d \in Seq(Byte) : D = {d}, \A d \in D : IsInjective(d)
  PROVE  LET s == FlattenSeq(SetToSeq(D))
         IN  /\ s \in Seq(Byte) /\ IsInjective(s)
             /\ \A b : b \in ToSet(s) <=> \E d \in D : b \in ToSet(d)
<1> DEFINE s == SetToSeq(D)
<1>1. CASE D = {}
  <2>1. IsFiniteSet(D) /\ Cardinality(D) = 0
    BY <1>1, FS_EmptySet
  <2>2. s = <<>>
    <3>1. s \in Seq(D) /\ s \in [1 .. 0 -> D]
      BY <2>1, SetToSeqIs
    <3> QED
      BY <3>1, <1>1
  <2> QED
    BY <1>1, <2>2, FlattenEmpty, ToSetEmpty, EmptySeq
<1>2. ASSUME NEW d \in Seq(Byte), D = {d} PROVE D = {d} /\ s = <<d>>
  <2>1. IsFiniteSet(D) /\ Cardinality(D) = 1
    BY <1>2, FS_Singleton
  <2>2. s \in Seq(D) /\ s \in [1 .. 1 -> D]
    BY <2>1, SetToSeqIs
  <2> HIDE DEF s
  <2>3. Len(s) = 1 /\ s[1] = d
    BY <1>2, <2>2
  <2> QED
    BY <1>2, <2>2, <2>3
<1>3. ASSUME NEW d \in Seq(Byte), D = {d}
      PROVE  /\ FlattenSeq(<<d>>) \in Seq(Byte) /\ IsInjective(FlattenSeq(<<d>>))
             /\ ToSet(FlattenSeq(<<d>>)) = ToSet(d)
  <2> DEFINE t == <<d>>
  <2>1. t \in Seq(Seq(Byte)) /\ Len(t) = 1 /\ t[1] = d /\ IsInjective(d)
    BY <1>3
  <2> HIDE DEF t
  <2>2. FlattenSeq(t) \in Seq(Byte)
    BY <2>1, FlattenType
  <2>3. IsInjective(FlattenSeq(t))
    <3>1. \A i, j \in 1 .. Len(t) : i = j /\ t[i] = d
      BY <2>1
    <3> QED
      BY <2>1, <3>1, FlattenInjective
  <2>4. ToSet(FlattenSeq(t)) = UNION {ToSet(t[i]) : i \in 1 .. Len(t)}
    BY <2>1, ToSetFlatten
  <2>5. UNION {ToSet(t[i]) : i \in 1 .. Len(t)} = ToSet(d)
    BY <2>1
  <2> QED
    BY <2>2, <2>3, <2>4, <2>5 DEF t
<1> HIDE DEF s
<1> QED
  BY <1>1, <1>2, <1>3 DEF s

\* The bytes that wait to be read have later numbers than those that were.
LEMMA InboxIs ==
  ASSUME OInv, NEW p \in Peers
  PROVE  /\ inbox[p] \in Seq(Byte) /\ IsInjective(inbox[p])
         /\ \A b : b \in ToSet(inbox[p]) <=>
                     \E k \in Taken[p] + 1 .. sent[p] : b = <<p, k>>
         /\ Taken[p] \in 0 .. sent[p] /\ sent[p] \in Nat
<1>1. /\ inbox[p] \in Seq(Byte) /\ sent[p] \in Nat /\ Len(inbox[p]) <= sent[p]
      /\ Taken[p] = sent[p] - Len(inbox[p])
      /\ \A i \in 1 .. Len(inbox[p]) : inbox[p][i] = <<p, Taken[p] + i>>
  BY DEF OInv, Boxes, Arrived, Taken
<1>2. Len(inbox[p]) \in Nat /\ Taken[p] \in 0 .. sent[p]
  BY <1>1
<1>3. IsInjective(inbox[p])
  <2>1. \A i, j \in 1 .. Len(inbox[p]) : inbox[p][i] = inbox[p][j] => i = j
    BY <1>1, <1>2
  <2> QED
    BY <1>1, <2>1, ToSetOf
<1>4. ToSet(inbox[p]) = {inbox[p][i] : i \in 1 .. Len(inbox[p])}
  BY <1>1, ToSetOf
<1>5. \A k \in Taken[p] + 1 .. sent[p] :
        k - Taken[p] \in 1 .. Len(inbox[p]) /\ inbox[p][k - Taken[p]] = <<p, k>>
  <2> SUFFICES ASSUME NEW k \in Taken[p] + 1 .. sent[p]
               PROVE  k - Taken[p] \in 1 .. Len(inbox[p]) /\ inbox[p][k - Taken[p]] = <<p, k>>
    OBVIOUS
  <2>1. Taken[p] \in Nat /\ k \in Nat /\ Taken[p] + 1 <= k /\ k <= sent[p]
    BY <1>1, <1>2
  <2>2. k - Taken[p] \in 1 .. Len(inbox[p]) /\ Taken[p] + (k - Taken[p]) = k
    BY SMTT(20), <1>1, <1>2, <2>1
  <2> QED
    BY <1>1, <2>2
<1>6. \A i \in 1 .. Len(inbox[p]) : Taken[p] + i \in Taken[p] + 1 .. sent[p]
  BY <1>1, <1>2
<1> QED
  BY <1>1, <1>2, <1>3, <1>4, <1>5, <1>6

\* The chunks of all connections, what waits to be read, and the chunk just
\* read have no byte in common.
LEMMA Apart ==
  ASSUME OInv, NEW p \in Peers
  PROVE  /\ Stream(p) \o inbox[p] \in Seq(Byte) /\ IsInjective(Stream(p) \o inbox[p])
         /\ ToSet(Stream(p) \o inbox[p]) = ToSet(Stream(p)) \cup ToSet(inbox[p])
         /\ \A q \in Peers : p # q =>
              ToSet(Stream(p) \o inbox[p]) \cap ToSet(Stream(q) \o inbox[q]) = {}
         /\ \A d \in data : ToSet(Stream(p) \o inbox[p]) \cap ToSet(d) = {}
<1>1. /\ \A q \in Peers : /\ Stream(q) \in Seq(Byte) /\ Ordered(Stream(q))
                          /\ Read(Stream(q), Taken)
                          /\ q # p => ToSet(Stream(p)) \cap ToSet(Stream(q)) = {}
      /\ \A d \in data : d \in Seq(Byte) /\ Read(d, Taken) /\ Before(Stream(p), d)
  <2>1. Flow(Streams, Taken, data, cur, link)
    BY DEF OInv, Flowing
  <2>2. /\ Streams \in [Peers -> Seq(Byte)]
        /\ data = {} \/ \E d \in Seq(Byte) : data = {d}
        /\ \A q \in Peers : Ordered(Streams[q]) /\ Read(Streams[q], Taken)
        /\ \A q \in Peers : q # p => ToSet(Streams[p]) \cap ToSet(Streams[q]) = {}
        /\ \A d \in data : Read(d, Taken) /\ Before(Streams[p], d)
    BY <2>1 DEF Flow
  <2>3. \A q \in Peers : Streams[q] = Stream(q)
    BY DEF Streams
  <2>4. ASSUME NEW q \in Peers
        PROVE  Stream(q) \in Seq(Byte) /\ Ordered(Stream(q)) /\ Read(Stream(q), Taken)
    <3>1. Streams[q] \in Seq(Byte) /\ Ordered(Streams[q]) /\ Read(Streams[q], Taken)
      BY <2>2
    <3>2. Streams[q] = Stream(q)
      BY <2>3
    <3> QED
      BY ONLY <3>1, <3>2
  <2>5. \A q \in Peers : q # p => ToSet(Stream(p)) \cap ToSet(Stream(q)) = {}
    BY <2>2, <2>3
  <2>6. \A d \in data : d \in Seq(Byte)
    BY <2>2
  <2>7. \A d \in data : Read(d, Taken) /\ Before(Stream(p), d)
    BY <2>2, <2>3
  <2> QED
    BY <2>4, <2>5, <2>6, <2>7
<1>2. \A q \in Peers : /\ inbox[q] \in Seq(Byte) /\ IsInjective(inbox[q])
                       /\ \A b \in ToSet(inbox[q]) : b[1] = q /\ b[2] > Taken[q]
                       /\ Taken[q] \in Nat
  BY InboxIs
<1>3. \A q, r \in Peers : ToSet(Stream(q)) \cap ToSet(inbox[r]) = {}
  BY <1>1, <1>2 DEF Read
<1>4. \A q \in Peers : ToSet(Stream(q) \o inbox[q]) = ToSet(Stream(q)) \cup ToSet(inbox[q])
  BY <1>1, <1>2, ToSetConcat
<1>5. IsInjective(Stream(p) \o inbox[p])
  BY <1>1, <1>2, <1>3, OrderedInjective, ToSetConcat
<1>6. Stream(p) \o inbox[p] \in Seq(Byte)
  BY <1>1, <1>2, ConcatProperties
<1>7. ASSUME NEW d \in data PROVE ToSet(Stream(p) \o inbox[p]) \cap ToSet(d) = {}
  <2>1. ToSet(Stream(p)) \cap ToSet(d) = {}
    <3>1. \A b \in ToSet(Stream(p)) : b[2] \in Nat
      BY <1>1, BytesOf
    <3> QED
      BY <1>1, <1>7, <3>1 DEF Before
  <2>2. ToSet(inbox[p]) \cap ToSet(d) = {}
    BY <1>1, <1>2, <1>7 DEF Read
  <2> QED
    BY <1>4, <2>1, <2>2
<1>8. ASSUME NEW q \in Peers, p # q
      PROVE  ToSet(Stream(p) \o inbox[p]) \cap ToSet(Stream(q) \o inbox[q]) = {}
  <2>1. ToSet(inbox[p]) \cap ToSet(inbox[q]) = {}
    BY <1>2, <1>8
  <2> QED
    BY <1>1, <1>3, <1>4, <1>8, <2>1
<1> QED
  BY <1>4, <1>5, <1>6, <1>7, <1>8

\* Everything has each byte once, and all of those.
LEMMA EverythingIs ==
  ASSUME OInv
  PROVE  /\ IsInjective(Everything)
         /\ \A b : b \in ToSet(Everything) <=>
              \/ \E p \in Peers : b \in ToSet(Stream(p)) \cup ToSet(inbox[p])
              \/ \E d \in data : b \in ToSet(d)
<1> DEFINE everyone == SetToSeq(Peers)
           boxes == [i \in DOMAIN everyone |-> Stream(everyone[i]) \o inbox[everyone[i]]]
           last == FlattenSeq(SetToSeq(data))
<1>1. /\ everyone \in Seq(Peers) /\ IsInjective(everyone)
      /\ \A p \in Peers : \E i \in 1 .. Len(everyone) : everyone[i] = p
  BY PeersFinite, SetToSeqIs
<1>2. last \in Seq(Byte) /\ IsInjective(last) /\ \A b : b \in ToSet(last) <=> \E d \in data : b \in ToSet(d)
  <2>1. /\ data = {} \/ \E d \in Seq(Byte) : data = {d}
        /\ \A d \in data : Ordered(d)
    BY DEF OInv, Flowing, Flow
  <2>2. \A d \in data : IsInjective(d)
    BY <2>1, OrderedInjective
  <2> QED
    BY <2>1, <2>2, DataIs
<1>3. Everything = FlattenSeq(boxes) \o last
  BY DEF Everything
<1> HIDE DEF everyone, last
<1>4. DOMAIN everyone = 1 .. Len(everyone) /\ \A i \in 1 .. Len(everyone) : everyone[i] \in Peers
  BY <1>1
<1>5. /\ boxes \in Seq(Seq(Byte)) /\ Len(boxes) = Len(everyone)
      /\ \A i \in 1 .. Len(everyone) : boxes[i] = Stream(everyone[i]) \o inbox[everyone[i]]
  BY <1>1, <1>4, Apart
<1> HIDE DEF boxes
<1>6. \A i, j \in 1 .. Len(everyone) : i # j => everyone[i] # everyone[j]
  BY <1>1, ToSetOf
<1>7. IsInjective(FlattenSeq(boxes))
  <2>1. ASSUME NEW i \in 1 .. Len(boxes) PROVE IsInjective(boxes[i])
    <3>1. everyone[i] \in Peers /\ boxes[i] = Stream(everyone[i]) \o inbox[everyone[i]]
      BY <1>4, <1>5
    <3>2. IsInjective(Stream(everyone[i]) \o inbox[everyone[i]])
      BY <3>1, Apart
    <3> QED
      BY <3>1, <3>2
  <2>2. ASSUME NEW i \in 1 .. Len(boxes), NEW j \in 1 .. Len(boxes), i # j
        PROVE  ToSet(boxes[i]) \cap ToSet(boxes[j]) = {}
    <3>1. /\ everyone[i] \in Peers /\ boxes[i] = Stream(everyone[i]) \o inbox[everyone[i]]
          /\ everyone[j] \in Peers /\ boxes[j] = Stream(everyone[j]) \o inbox[everyone[j]]
          /\ everyone[i] # everyone[j]
      BY <1>4, <1>5, <1>6, <2>2
    <3>2. ToSet(Stream(everyone[i]) \o inbox[everyone[i]])
            \cap ToSet(Stream(everyone[j]) \o inbox[everyone[j]]) = {}
      BY <3>1, Apart
    <3> QED
      BY <3>1, <3>2
  <2> QED
    BY <1>5, <2>1, <2>2, FlattenInjective
<1>8. \A b : b \in ToSet(FlattenSeq(boxes)) <=>
               \E p \in Peers : b \in ToSet(Stream(p)) \cup ToSet(inbox[p])
  <2>1. ToSet(FlattenSeq(boxes)) = UNION {ToSet(boxes[i]) : i \in 1 .. Len(boxes)}
    BY <1>5, ToSetFlatten
  <2>2. \A i \in 1 .. Len(boxes) :
          ToSet(boxes[i]) = ToSet(Stream(everyone[i])) \cup ToSet(inbox[everyone[i]])
    BY <1>4, <1>5, Apart
  <2> QED
    BY <1>1, <1>4, <1>5, <2>1, <2>2
<1>9. ToSet(FlattenSeq(boxes)) \cap ToSet(last) = {}
  BY <1>2, <1>8, Apart
<1>10. FlattenSeq(boxes) \in Seq(Byte)
  BY <1>5, FlattenType
<1> QED
  BY <1>2, <1>3, <1>7, <1>8, <1>9, <1>10, ToSetConcat

\* No chunk is written twice, from the queue's swapped tables or after a write;
\* the bytes of a source keep their order on each connection; and none is lost
\* as long as its source is there.
THEOREM WrittenOnceInOrder == Spec => []OnceInOrder
<1>1. OInv => OnceInOrder
  <2> SUFFICES ASSUME OInv PROVE OnceInOrder
    OBVIOUS
  <2>1. Flow(Streams, Taken, data, cur, link) /\ \A p \in Peers : Streams[p] = Stream(p)
    BY DEF OInv, Flowing, Streams
  <2>2. \A p \in Peers : Ordered(Stream(p))
    BY <2>1 DEF Flow
  <2>3. ASSUME NEW p \in Peers, link[p] = "up", NEW b \in {p} \X (1 .. sent[p])
        PROVE  b \in ToSet(Everything)
    <3>1. PICK k \in 1 .. sent[p] : b = <<p, k>>
      OBVIOUS
    <3>2. CASE k \in 1 .. Taken[p]
      <4>1. \/ \E q \in Peers : <<p, k>> \in ToSet(Streams[q])
            \/ \E d \in data : <<p, k>> \in ToSet(d)
        BY <2>1, <2>3, <3>2 DEF Flow
      <4> QED
        BY <2>1, <3>1, <4>1, EverythingIs
    <3>3. CASE k \notin 1 .. Taken[p]
      <4>1. k \in Taken[p] + 1 .. sent[p]
        BY <3>1, <3>3, InboxIs
      <4>2. b \in ToSet(inbox[p])
        BY <3>1, <4>1, InboxIs
      <4> QED
        BY <4>2, EverythingIs
    <3> QED
      BY <3>2, <3>3
  <2> QED
    BY <2>2, <2>3, EverythingIs DEF OnceInOrder
<1> QED
  BY <1>1, AlwaysOInv, PTL

\* Before the loop waits again it has written what a connection wrote to itself,
\* and epoll watches every connection that has more to write.
THEOREM NothingForgotten == Spec => []FlushedOrWatched
<1>1. OInv => FlushedOrWatched
  <2> SUFFICES ASSUME OInv, pc = "wait", NEW p \in Peers, fdof[p] # 0, owner[fdof[p]] = p
               PROVE  /\ \A b \in ToSet(BytesIn(buffer[p])) : b[1] # p
                      /\ BytesIn(buffer[p]) # <<>> => kqueue \/ fdof[p] \in interest
    BY DEF FlushedOrWatched, Conns
  <2> QED
    BY DEF OInv, Watched, OwnWritten
<1> QED
  BY <1>1, AlwaysOInv, PTL

\* The kernel's boxes hold bytes that were sent; the backlog is the connections
\* that were made and not accepted; a closed descriptor is not watched; and
\* l_read has one chunk at most.
THEOREM TypeCorrect == Spec => []TypeOK
<1>1. IInv /\ OInv => TypeOK
  <2> SUFFICES ASSUME IInv, OInv PROVE TypeOK
    OBVIOUS
  <2>1. Boxes /\ Arrived /\ Flowing /\ Fresh /\ Control /\ Types /\ Waiting
    BY DEF IInv, OInv
  <2>2. \A p \in Peers : sent[p] \in 0 .. MaxSent[p] /\ MaxSent[p] \in Nat
    BY <2>1, Bounds DEF Boxes, Arrived
  <2>3. \A b : b \in Bytes <=> \E p \in Peers : \E k \in 1 .. MaxSent[p] : b = <<p, k>>
    BY DEF Bytes
  <2>4. ASSUME NEW p \in Peers
        PROVE  \A box \in {inbox[p], outbox[p], got[p]} : ToSet(box) \subseteq Bytes
    <3>1. ToSet(inbox[p]) \subseteq Bytes
      <4>1. \A k \in Taken[p] + 1 .. sent[p] : k \in 1 .. MaxSent[p]
        BY <2>2, InboxIs
      <4> QED
        BY <2>3, <4>1, InboxIs
    <3>2. ToSet(Stream(p)) \subseteq Bytes
      <4>1. Stream(p) \in Seq(Byte) /\ Read(Stream(p), Taken)
        BY <2>1 DEF Flowing, Flow, Streams
      <4>2. \A b \in ToSet(Stream(p)) : b = <<b[1], b[2]>> /\ b[1] \in Peers /\ b[2] \in 1 .. Taken[b[1]]
        BY <4>1, BytesOf DEF Read
      <4>3. \A q \in Peers : \A k \in 1 .. Taken[q] : k \in 1 .. MaxSent[q]
        BY <2>2, InboxIs
      <4> QED
        BY <2>3, <4>2, <4>3
    <3>3. ToSet(outbox[p]) \subseteq ToSet(Stream(p)) /\ ToSet(got[p]) \subseteq ToSet(Stream(p))
      <4> DEFINE rest == IF cur = p THEN chunk ELSE <<>>
                 out == got[p] \o outbox[p]
                 all == out \o rest
      <4>1. /\ got[p] \in Seq(Byte) /\ outbox[p] \in Seq(Byte)
            /\ rest \in Seq(Byte) /\ BytesIn(buffer[p]) \in Seq(Byte)
        BY <2>1, PartsType
      <4>2. Stream(p) = all \o BytesIn(buffer[p])
        BY DEF Stream
      <4> HIDE DEF rest
      <4>3. out \in Seq(Byte) /\ ToSet(out) = ToSet(got[p]) \cup ToSet(outbox[p])
        BY <4>1, ConcatProperties, ToSetConcat
      <4> HIDE DEF out
      <4>4. all \in Seq(Byte) /\ ToSet(all) = ToSet(out) \cup ToSet(rest)
        BY <4>1, <4>3, ConcatProperties, ToSetConcat
      <4> HIDE DEF all
      <4>5. ToSet(all \o BytesIn(buffer[p])) = ToSet(all) \cup ToSet(BytesIn(buffer[p]))
        BY <4>1, <4>4, ToSetConcat
      <4>6. ToSet(Stream(p)) = ToSet(all) \cup ToSet(BytesIn(buffer[p]))
        BY ONLY <4>2, <4>5, Zenon
      <4> QED
        BY <4>3, <4>4, <4>6
    <3> QED
      BY <3>1, <3>2, <3>3
  <2>5. ToSet(backlog) = {p \in Peers \ Conns : link[p] # "out"}
    <3>1. backlog \in Seq(Peers) /\ ToSet(backlog) = {backlog[i] : i \in 1 .. Len(backlog)}
      BY <2>1, ToSetOf DEF Types
    <3>2. \A i \in 1 .. Len(backlog) :
            backlog[i] \in Peers /\ fdof[backlog[i]] = 0 /\ link[backlog[i]] # "out"
      BY <2>1, <3>1 DEF Waiting
    <3> QED
      BY <2>1, <3>1, <3>2 DEF Fresh, Conns
  <2>6. ToSet(batch) \subseteq Fds \cup {Listen}
    BY <2>1, ToSetOf DEF Types
  <2>7. IsFiniteSet(data) /\ Cardinality(data) <= 1
    <3>1. data = {} \/ \E d \in Seq(Byte) : data = {d}
      BY <2>1 DEF Flowing, Flow
    <3>2. data = {} => IsFiniteSet(data) /\ Cardinality(data) <= 1
      BY FS_EmptySet
    <3>3. ASSUME NEW d, data = {d} PROVE IsFiniteSet(data) /\ Cardinality(data) <= 1
      <4>1. IsFiniteSet(data) /\ Cardinality(data) = 1
        BY <3>3, FS_Singleton
      <4> QED
        BY <4>1
    <3> QED
      BY <3>1, <3>2, <3>3
  <2> QED
    BY <2>1, <2>2, <2>4, <2>5, <2>6, <2>7 DEF TypeOK, Types, Control
<1> QED
  BY <1>1, AlwaysOInv, PTL
=============================================================================
