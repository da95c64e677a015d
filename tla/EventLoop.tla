----------------------------- MODULE EventLoop -----------------------------
(***************************************************************************)
(* lib/async.lua over src/async: one thread that waits for events of a     *)
(* listener and its connections, with the client of                        *)
(* example/async_demo.lua, extended: a connection's on_read writes what    *)
(* it got to its own connection or to another one.                         *)
(*                                                                         *)
(* Each system call on a connection is a step, so peers and network act    *)
(* between any two.  A byte is <<source, number>>.  Connection objects are *)
(* named by their peers, who connect once; descriptors are used again.     *)
(* The two builds differ: under epoll (Linux) an accepted descriptor       *)
(* blocks and write interest works; under kqueue (BSD, macOS) it is        *)
(* non-blocking like its listener, and EV_ENABLE of a write filter nobody  *)
(* added is refused, so that only read events arrive.                      *)
(***************************************************************************)
EXTENDS Integers, Sequences, FiniteSets, SequencesExt

CONSTANTS Peers,     \* the clients that may connect, each once
          MaxFd,     \* connections use descriptors 1 .. MaxFd
          MaxSent,   \* [Peers -> Nat]: bytes a peer sends at most
          Ends,      \* [Peers -> SUBSET {"fin", "rst", "err"}]: how a peer may end
          Room,      \* bytes the kernel takes from a write before the peer reads
          NoPeer

ASSUME PeersFinite == IsFiniteSet(Peers) /\ NoPeer \notin Peers
ASSUME Bounds == {MaxFd, Room} \subseteq Nat \ {0} /\ MaxSent \in [Peers -> Nat]
ASSUME EndsKnown == Ends \in [Peers -> SUBSET {"fin", "rst", "err"}]

Fds == 1 .. MaxFd
Listen == 0          \* the listener's descriptor

VARIABLES
  kqueue,    \* which build this is
  link,      \* link[p]: the connection as its peer left it
  backlog,   \* connections to be accepted
  sent,      \* sent[p]: number of bytes p has sent
  inbox,     \* inbox[p]: bytes of p the server can read
  outbox,    \* outbox[p]: bytes written to p that it has not read
  got,       \* got[p]: bytes p has read
  owner,     \* owner[fd]: the connection the descriptor is open for
  interest,  \* descriptors epoll watches for writing
  handler,   \* eventloop.handlers
  fdof,      \* conn.fd, 0 before the connection is accepted
  buffer,    \* conn.buffer, a BufferQueue
  pc,        \* "wait", "dispatch", "accept", "read", "onread", "pop", "write", "dead"
  batch,     \* the events not yet dispatched
  cur,       \* the connection whose handler runs
  data,      \* what l_read has: {} is nil
  chunk      \* what l_write has still to write

net == <<link, backlog, sent, inbox, outbox, got>>
kernel == <<owner, interest>>
conns == <<handler, fdof, buffer>>
local == <<batch, cur, data, chunk>>
vars == <<kqueue, net, kernel, conns, pc, local>>

Conns == {p \in Peers : fdof[p] # 0}
Open == {fd \in Fds : owner[fd] # NoPeer}

-----------------------------------------------------------------------------
(* BufferQueue: two Lua tables, of which a cleared entry is {}.            *)

NewBufferQueue == [head |-> 1, tail |-> 1, deque |-> <<>>, enque |-> <<>>]

\* #t: the entries before the first nil.
Border(t) == CHOOSE n \in 0 .. Len(t) :
  (n < Len(t) => t[n + 1] = {}) /\ \A i \in 1 .. n : t[i] # {}

\* table.insert leaves the table alone when x is nil.
Push(b, x) ==
  [b EXCEPT !.enque = IF x = {} THEN @ ELSE Append(SubSeq(@, 1, Border(@)), x)]

\* pop, first half: a queue that was read to its end takes what was pushed.
Turned(b) ==
  IF b.head = b.tail
  THEN [head |-> 1, tail |-> Border(b.enque) + 1, deque |-> b.enque, enque |-> b.deque]
  ELSE b

\* Mutant: the entry read is not cleared, and is pushed again with its table.
PoppedKept(b) ==
  IF b.head < b.tail
  THEN [val |-> b.deque[b.head], rest |-> [b EXCEPT !.head = @ + 1]]
  ELSE [val |-> {}, rest |-> b]

\* pop, second half: the value and the queue that is left.
Popped(b) ==
  IF b.head < b.tail
  THEN [val |-> b.deque[b.head],
        rest |-> [b EXCEPT !.deque[b.head] = {}, !.head = @ + 1]]
  ELSE [val |-> {}, rest |-> b]

Pop(b) == Popped(Turned(b))

\* The bytes in the queue, oldest first.
BytesIn(b) ==
  LET entries == SubSeq(b.deque, b.head, b.tail - 1) \o SubSeq(b.enque, 1, Border(b.enque))
  IN FlattenSeq([i \in DOMAIN entries |-> CHOOSE x \in entries[i] : TRUE])

-----------------------------------------------------------------------------
(* Peers and network.                                                      *)

Connect(p) ==
  /\ link[p] = "out"
  /\ link' = [link EXCEPT ![p] = "up"]
  /\ backlog' = Append(backlog, p)
  /\ UNCHANGED <<kqueue, sent, inbox, outbox, got, kernel, conns, pc, local>>

Send(p) ==
  /\ link[p] = "up" /\ sent[p] < MaxSent[p]
  /\ sent' = [sent EXCEPT ![p] = @ + 1]
  /\ inbox' = [inbox EXCEPT ![p] = Append(@, <<p, sent[p] + 1>>)]
  /\ UNCHANGED <<kqueue, link, backlog, outbox, got, kernel, conns, pc, local>>

\* The peer shuts down, resets (also after it shut down), or is lost: "err"
\* stands for every error other than ECONNRESET, a time-out for one.
Leave(p, how) ==
  /\ link[p] = "up" \/ (link[p] = "fin" /\ how = "rst")
  /\ link' = [link EXCEPT ![p] = how]
  /\ UNCHANGED <<kqueue, backlog, sent, inbox, outbox, got, kernel, conns, pc, local>>

Receive(p) ==
  /\ link[p] \in {"up", "fin"} /\ outbox[p] # <<>>
  /\ got' = [got EXCEPT ![p] = @ \o outbox[p]]
  /\ outbox' = [outbox EXCEPT ![p] = <<>>]
  /\ UNCHANGED <<kqueue, link, backlog, sent, inbox, kernel, conns, pc, local>>

\* When the loop is dead its process is gone, and nothing more is asked.
Peer == pc # "dead" /\ \E p \in Peers :
  Connect(p) \/ Send(p) \/ Receive(p) \/ \E how \in Ends[p] : Leave(p, how)

-----------------------------------------------------------------------------
(* The event loop.                                                         *)

Readable(p) == inbox[p] # <<>> \/ link[p] # "up"
Writable(p) == Len(outbox[p]) < Room

\* Mutant: the listener was never added.
ReadyConns ==
  {fd \in Open : Readable(owner[fd]) \/ (fd \in interest /\ Writable(owner[fd]))}

\* The descriptors epoll_wait or kevent names.
Ready ==
  {fd \in Open : Readable(owner[fd]) \/ (fd \in interest /\ Writable(owner[fd]))}
    \cup {fd \in {Listen} : backlog # <<>>}

\* epoll.wait: all that is ready (MAXEVENTS is 64), in any order; else it times out.
Wait ==
  /\ pc = "wait" /\ Ready # {}
  /\ batch' \in SetToSeqs(Ready)
  /\ pc' = "dispatch"
  /\ UNCHANGED <<kqueue, net, kernel, conns, cur, data, chunk>>

\* EventLoop:run.  Masks are numbers, hence true: both handlers run.
Dispatch ==
  /\ pc = "dispatch"
  /\ IF batch = <<>>
     THEN pc' = "wait" /\ cur' = NoPeer /\ UNCHANGED batch
     ELSE /\ batch' = Tail(batch)
          /\ IF Head(batch) = Listen
             THEN pc' = "accept" /\ cur' = NoPeer
             ELSE pc' = "read" /\ cur' = handler[Head(batch)]
  /\ data' = {<<>>} /\ chunk' = <<>>
  /\ UNCHANGED <<kqueue, net, kernel, conns>>

\* Mutant: a handler that is there stays.
AddOnce(fd, p) == handler' = [handler EXCEPT ![fd] = IF @ = NoPeer THEN p ELSE @]

\* EventLoop:add.
Add(fd, p) == handler' = [handler EXCEPT ![fd] = p]

\* Listener:on_readable; on_conn makes a connection and adds it to the loop.
\* The kernel gives the lowest free descriptor; without one accept fails,
\* and the connection stays.
Accept ==
  /\ pc = "accept" /\ pc' = "dispatch"
  /\ IF Open = Fds
     THEN UNCHANGED <<backlog, kernel, conns>>
     ELSE \E fd \in Fds \ Open :
          LET p == Head(backlog)
          IN /\ \A g \in Fds \ Open : fd <= g
             /\ backlog' = Tail(backlog)
             /\ owner' = [owner EXCEPT ![fd] = p]
             /\ interest' = interest \ {fd}
             /\ Add(fd, p)
             /\ fdof' = [fdof EXCEPT ![p] = fd]
             /\ buffer' = [buffer EXCEPT ![p] = NewBufferQueue]
  /\ UNCHANGED <<kqueue, link, sent, inbox, outbox, got, local>>

\* close: the kernel forgets the descriptor and what was watched of it.
CloseFd(fd) ==
  /\ owner' = [owner EXCEPT ![fd] = NoPeer]
  /\ interest' = interest \ {fd}

\* Whether the kernel lets an accepted descriptor inherit O_NONBLOCK.
NonBlocking(fd) == kqueue

\* l_read's loop, a step per read of the current connection's descriptor, which
\* has bytes, or no bytes and the given end of the connection.
Finds(what) ==
  /\ pc = "read" /\ owner[fdof[cur]] # NoPeer
  /\ what = IF inbox[owner[fdof[cur]]] # <<>> THEN "bytes" ELSE link[owner[fdof[cur]]]

ReadBytes ==
  /\ Finds("bytes")
  /\ LET q == owner[fdof[cur]]
     IN /\ data' = {d \o <<Head(inbox[q])>> : d \in data}
        /\ inbox' = [inbox EXCEPT ![q] = Tail(@)]
  /\ UNCHANGED <<kqueue, link, backlog, sent, outbox, got, kernel, conns, pc, batch, cur, chunk>>

\* End of file or ECONNRESET: closed, and what was read is dropped.
ReadEnd ==
  /\ Finds("fin") \/ Finds("rst")
  /\ CloseFd(fdof[cur])
  /\ data' = {} /\ pc' = "onread"
  /\ UNCHANGED <<kqueue, net, conns, batch, cur, chunk>>

\* Another error is reported once; the descriptor stays open.
ReadError ==
  /\ Finds("err")
  /\ link' = [link EXCEPT ![owner[fdof[cur]]] = "rst"]
  /\ pc' = "onread"
  /\ UNCHANGED <<kqueue, backlog, sent, inbox, outbox, got, kernel, conns, local>>

\* Mutant: EAGAIN is taken for the end of the connection.
ReadAgainClosed ==
  /\ Finds("up") /\ NonBlocking(fdof[cur])
  /\ CloseFd(fdof[cur])
  /\ data' = {} /\ pc' = "onread"
  /\ UNCHANGED <<kqueue, net, conns, batch, cur, chunk>>

\* EAGAIN ends the loop; a blocking read stays where it is.
ReadAgain ==
  /\ Finds("up") /\ NonBlocking(fdof[cur])
  /\ pc' = "onread"
  /\ UNCHANGED <<kqueue, net, kernel, conns, local>>

\* Mutant: the write interest is never set.
EpollWriteNever(fd, enable) == interest' = interest \ {fd}

\* sp_write under epoll: EPOLL_CTL_MOD with or without EPOLLOUT.
EpollWrite(fd, enable) ==
  interest' = IF enable THEN interest \cup {fd} ELSE interest \ {fd}

\* sp_write under kqueue: EV_ENABLE and EV_DISABLE are refused for a filter that
\* was never added, and sp_add adds the one for reading alone.
KqueueWrite(fd, enable) == UNCHANGED interest

\* CTL_WRITE with true or false; refused for a descriptor that is closed.
CtlWrite(fd, enable) ==
  IF fd \notin Open THEN UNCHANGED interest
  ELSE IF kqueue THEN KqueueWrite(fd, enable)
  ELSE EpollWrite(fd, enable)

\* Conn:on_read, the client's: Conn:write to q, which also may be closed by now.
OnRead(q) ==
  /\ pc = "onread" /\ q \in Conns
  /\ buffer' = [buffer EXCEPT ![q] = Push(@, data)]
  /\ CtlWrite(fdof[q], TRUE)
  /\ pc' = "pop" /\ data' = {}
  /\ UNCHANGED <<kqueue, net, owner, handler, fdof, batch, cur, chunk>>

\* Conn:on_writeable takes the next chunk, or ends the write interest.
TakeChunk ==
  /\ pc = "pop"
  /\ LET b == Pop(buffer[cur])
     IN /\ buffer' = [buffer EXCEPT ![cur] = b.rest]
        /\ IF b.val = {}
           THEN /\ CtlWrite(fdof[cur], FALSE)
                /\ pc' = "dispatch"
                /\ UNCHANGED chunk
           ELSE /\ chunk' = CHOOSE x \in b.val : TRUE
                /\ pc' = "write"
                /\ UNCHANGED interest
  /\ UNCHANGED <<kqueue, net, owner, handler, fdof, batch, cur, data>>

\* l_write's loop, a step per write of the current connection's descriptor.
Written ==
  /\ pc = "write" /\ chunk = <<>> /\ pc' = "pop"
  /\ UNCHANGED <<kqueue, net, kernel, conns, local>>

Taker == owner[fdof[cur]]

Write ==
  /\ pc = "write" /\ chunk # <<>> /\ Taker # NoPeer
  /\ link[Taker] \in {"up", "fin"} /\ Writable(Taker)
  /\ outbox' = [outbox EXCEPT ![Taker] = Append(@, Head(chunk))]
  /\ chunk' = Tail(chunk)
  /\ UNCHANGED <<kqueue, link, backlog, sent, inbox, got, kernel, conns, pc, batch, cur, data>>

\* Whatever stops a write short ends the event loop: on_writeable calls
\* string.sub without its second argument, which raises an error.
WriteShort ==
  /\ pc = "write" /\ chunk # <<>>
  /\ \/ Taker = NoPeer
     \/ Taker # NoPeer /\ link[Taker] \in {"rst", "err"}
     \/ Taker # NoPeer /\ ~Writable(Taker) /\ NonBlocking(fdof[cur])
  /\ pc' = "dead"
  /\ UNCHANGED <<kqueue, net, kernel, conns, local>>

Reads == ReadBytes \/ ReadEnd \/ ReadError \/ ReadAgain

Writes == TakeChunk \/ Written \/ Write \/ WriteShort

Loop == Wait \/ Dispatch \/ Accept \/ Reads \/ Writes \/ \E q \in Peers : OnRead(q)

Init ==
  /\ kqueue \in BOOLEAN
  /\ link = [p \in Peers |-> "out"] /\ backlog = <<>>
  /\ sent = [p \in Peers |-> 0]
  /\ inbox = [p \in Peers |-> <<>>]
  /\ outbox = [p \in Peers |-> <<>>] /\ got = [p \in Peers |-> <<>>]
  /\ owner = [fd \in Fds |-> NoPeer] /\ interest = {}
  /\ handler = [fd \in Fds |-> NoPeer] /\ fdof = [p \in Peers |-> 0]
  /\ buffer = [p \in Peers |-> NewBufferQueue]
  /\ pc = "wait" /\ batch = <<>> /\ cur = NoPeer /\ data = {} /\ chunk = <<>>

Next == Peer \/ Loop

\* The operating system runs the thread; peers may do nothing more.
Spec == Init /\ [][Next]_vars /\ WF_vars(Loop)

-----------------------------------------------------------------------------
(* Properties.                                                             *)

Bytes == UNION {{p} \X (1 .. MaxSent[p]) : p \in Peers}

\* The types of the variables; what is watched is open, the backlog holds the
\* connections made and not accepted, and l_read has one chunk at most.
TypeOK ==
  /\ kqueue \in BOOLEAN
  /\ link \in [Peers -> {"out", "up", "fin", "rst", "err"}]
  /\ \A p \in Peers : sent[p] \in 0 .. MaxSent[p]
  /\ \A p \in Peers : \A box \in {inbox[p], outbox[p], got[p]} : ToSet(box) \subseteq Bytes
  /\ owner \in [Fds -> Peers \cup {NoPeer}] /\ handler \in [Fds -> Peers \cup {NoPeer}]
  /\ interest \subseteq Open
  /\ fdof \in [Peers -> Fds \cup {0}]
  /\ ToSet(backlog) = {p \in Peers \ Conns : link[p] # "out"}
  /\ pc \in {"wait", "dispatch", "accept", "read", "onread", "pop", "write", "dead"}
  /\ ToSet(batch) \subseteq Fds \cup {Listen}
  /\ cur \in Peers \cup {NoPeer}
  /\ IsFiniteSet(data) /\ Cardinality(data) <= 1

\* All that was, is being and is still to be written to a connection, in order.
Stream(p) ==
  got[p] \o outbox[p] \o (IF cur = p THEN chunk ELSE <<>>) \o BytesIn(buffer[p])

Everything ==
  LET everyone == SetToSeq(Peers)
  IN FlattenSeq([i \in DOMAIN everyone |-> Stream(everyone[i]) \o inbox[everyone[i]]])
       \o FlattenSeq(SetToSeq(data))

\* The bytes of each source are in the order in which it sent them.
Ordered(s) ==
  \A i, j \in 1 .. Len(s) : i < j /\ s[i][1] = s[j][1] => s[i][2] < s[j][2]

\* A byte is in one place: no chunk is written twice, from the queue's swapped
\* tables or after a write; the bytes of a source keep their order on each
\* connection; and none is lost as long as its source is there.
OnceInOrder ==
  /\ IsInjective(Everything)
  /\ \A p \in Peers : Ordered(Stream(p))
  /\ \A p \in Peers : link[p] = "up" => {p} \X (1 .. sent[p]) \subseteq ToSet(Everything)

\* Descriptors are closed and their numbers used again in the middle of a
\* batch; still every event dispatched is of a connection that is open, meets
\* the handler of that connection, and no handler, the one that has just closed
\* its own descriptor included, touches another connection's.
OwnDescriptor ==
  /\ \A fd \in Open : handler[fd] = owner[fd]
  /\ ToSet(batch) \subseteq Open \cup {Listen}
  /\ cur # NoPeer => owner[fdof[cur]] \in {cur, NoPeer}

\* Before the loop waits again it has written what a connection wrote to itself,
\* and epoll watches every connection that has more to write.  (Under kqueue
\* nothing watches: what another connection wrote to it waits until it sends.)
FlushedOrWatched ==
  pc = "wait" => \A p \in Conns : owner[fdof[p]] = p =>
    /\ \A b \in ToSet(BytesIn(buffer[p])) : b[1] # p
    /\ BytesIn(buffer[p]) # <<>> => kqueue \/ fdof[p] \in interest

\* The loop ends only when the connection it writes to has ended or, under
\* kqueue, is slow: peers that stay and read never stop each other's service.
EndsOnShortWrite ==
  [][pc' = "dead" /\ pc # "dead" => link[cur] # "up" \/ (kqueue /\ ~Writable(cur))]_vars

\* What a peer has sent is read, unless the loop has ended, the connection waits
\* for a free descriptor or, under epoll, the loop stays in read(2) for good, on
\* a connection whose peer neither sends nor ends: no other event, handler or
\* use of a descriptor number keeps the bytes of anybody unread.
Serves == \A p \in Peers :
  (inbox[p] # <<>>)
    ~> \/ inbox[p] = <<>> \/ pc = "dead" \/ (Open = Fds /\ p \in ToSet(backlog))
       \/ [](Finds("up") /\ ~NonBlocking(fdof[cur]))

=============================================================================
