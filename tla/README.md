# TLA+ specifications of grt

grt runs Lua scripts as tasks on a fixed set of worker threads. Tasks share no
Lua state; they talk over channels. The C core (`src/ltask`) holds the
scheduler, its queues, its handle tables and its locks; around it are a timer
heap (`src/timer`), an event loop over epoll or kqueue (`src/async`, `lib/async.lua`), a
socket service reached over channels (`lib/socket.lua`,
`lib/service/socket_service.lua`), and HTTP glue (`src/http`, `lib/http.lua`).

This directory models that system in TLA+, checks small instances of it with
TLC and proves some of its properties with TLAPS. Paths below are relative to
the root of the repository.

## 1. Inventory

| Component | State | Operations | Used by |
|---|---|---|---|
| read-write lock, spin lock (`simplelock.h`) | two words `write`, `read`; one word | rlock, runlock, wlock, wunlock; lock, unlock | handle map; queue |
| handle map (`handlemap.c`) | `lastid`, `cap`, `n`, array of slots `{id, ref, ud}` | new (with expansion), grab, release, list | scheduler: one map of tasks, one of channels |
| queue (`queue.c`) | ring `data[n]`, `head`, `tail`, spin lock | push (with expansion), pop, empty | scheduler: run queues, message queues, reader queues |
| scheduler (`schedule.c`) | run queue per worker, `current`; per task `status`, `thread`; per channel `mq`, `reader` | opentask, closetask, grabtask, releasetask, newchannel, closechannel, select, send, recv | workers and the Lua binding |
| workers and binding (`ltask.c`) | per worker `suspend`, event; per task `id`, Lua state `L` | worker loop, slice, `ltask.task/channel/close/send/recv/select` | scripts |
| thread events (`simplethread.h`) | `flag` under a mutex and a condition | trigger, wait | workers |
| serialization (`serialize.c`) | chain of 128-byte blocks | pack, unpack | `ltask.send`, `ltask.recv`, arguments of tasks |
| timer (`timer.c`) | binary heap of events, each with its index | add, del, latest, update with callbacks | nobody yet |
| event loop (`async.lua`, `epoll.c`, `socket_epoll.h`, `socket_kqueue.h`, `socket.c`) | descriptors and handlers, write buffers, poll set | add, del, run, read, write, accept | `http.lua`, `net.lua`, example |
| HTTP parser and glue (`http_parser.c`, `http_parser_lua.c`) | struct `http_parser`, marks of a call; the Lua table of a request | execute on any cut of the bytes, end of the connection, callbacks | `http.lua` |
| socket service (`socket_service.lua`, `socket.lua`, `system.lua`, `system.c`) | `sockets[fd]`, command channel, process-wide table of services | connect, listen, send, disconnect, accept, read | scripts |
| coroutine threads (`net.lua`), HTTP server (`http.lua`) | run queues of coroutines; connections | | scripts |

How they interact:

* **Shared memory.** Every worker thread runs the scheduler's C code directly.
  The scheduler has no lock of its own: it relies on the queue's spin lock, on
  the handle map's read-write lock, on a compare-and-swap of `task->status`,
  and on reference counts that decide when a task or a channel is freed.
* **Calls.** A worker takes a task from a run queue (`schedule_grabtask`),
  resumes its Lua state, and returns it (`schedule_releasetask`). While it is
  in the Lua state, the script calls back into the scheduler (`ltask.send`,
  `ltask.select`, ...).
* **Messages.** `send` pushes on the channel's message queue and then empties
  its reader queue, making every blocked reader ready. `select` tests the
  message queues, then blocks the task and enters it into the reader queues.
* **Sleeping.** A worker that finds no task sets `suspend` and waits for its
  event; a worker that returned a task triggers the events of all suspended
  workers.
* **Callbacks.** `timer_update` calls events' callbacks between two looks at
  its heap; the event loop calls handlers between two events of a batch;
  `http_parser_execute` calls the glue between two bytes. Each callback may
  change what its caller looks at next.
* **Bytes.** `serialize.c` turns values into blocks that one thread fills and
  another frees while it reads them. Sockets deliver bytes cut anywhere, and
  peers may send, end or vanish between any two system calls.

What is hard here: steps of other threads between any two accesses; status
words read and acted on later; handles that outlive their objects; wake-ups
that can be too early (the reader has not joined yet) or overtake the sleeper
(it has not left its Lua state yet); counts that must be dropped on every
path; arrays that are replaced while others hold indices into them.
`PROJECT.json` lists the hazards at their lines.

What makes each component correct:

* lock: a writer is alone, and a writer that claimed the lock gets in;
* handle map: no object is freed while an owner or a holder has it, the count
  is exact, nothing unreferenced is kept, a search for a slot ends, a live
  handle is found;
* queue: a FIFO whatever wraps and grows, with an emptiness test without the
  lock that is exact when nothing overlaps it;
* scheduler and workers: a ready task is queued once and runs, a blocked task
  can be found by senders, no task sleeps on a pending message, no task is
  abandoned, counts are exact, no assertion fails, no sleep leaves work behind;
* serialization: unpack after pack is the identity and frees every block once;
* timer: events fire in order, never early, none due is left, indices exact;
* event loop: handlers get the events of their own descriptor, data is written
  once and in order, the loop ends for a reason and serves who is there;
* HTTP parser: the callbacks depend on the bytes alone, not on how calls cut
  them, and so does the verdict but for one limit (a name or value that is cut
  counts a byte twice towards that of the header's size); its assertions hold, every call returns, an end inside a
  request is told from one between two;
* socket service: one service, every call is answered, data reaches the task
  that owns the descriptor.

## 2. Modules

| Module | Models | Checked by | Proved in |
|---|---|---|---|
| `ReadersWriters` | abstract: what the lock promises | | |
| `RWLock` | `struct rwlock` of `simplelock.h`, a step per access to a lock word | `rwlock` | `RWLockProofs` |
| `HandleMap` | `handlemap.c`, a step per critical section | `handlemap`, `handlemap_lost` | `HandleMapProofs` |
| `Fifo` | abstract: what `queue.h` promises | | |
| `Queue` | `queue.c` and the spin lock, a step per store an unlocked reader can see | `queue` | `QueueProofs` |
| `Schedule` | `schedule.c`, the worker loop and task operations of `ltask.c`, the events of `simplethread.h`, a step per access to shared memory | `sched_one`, `sched_two`, `sched_assert`, `sched_lost` | `ScheduleProofs` |
| `ArmedTimers` | abstract: what `timer.c` promises | | |
| `Timer` | `timer.c`, a step per iteration of a loop | `timer` | `TimerProofs` |
| `Serialize` | `serialize.c`, a step per value | `serialize` | `SerializeProofs` |
| `HttpMessages` | abstract: the order in which callbacks come, whatever the bytes | | |
| `HttpRequests` | abstract: requests, their bytes, and the callbacks and table they should come to | | |
| `HttpParser` | `http_parser.c` (requests) and `http_parser_lua.c`, a step per turn of the loop | `http` | `HttpParserProofs` |
| `EventLoop` | `async.lua`, `epoll.c`, `socket_epoll.h`, `socket_kqueue.h`, `socket.c`, a step per system call | `event_loop` | `EventLoopProofs` |
| `MC...` | model values and bounds for TLC | | |

The modules are layers. `Schedule` uses a handle map's critical section and a
queue operation as one step each; `RWLock` is why a critical section may be
one step, `HandleMap` says what a sequence of such sections does to counts and
lifetimes, `Queue` implements `Fifo`, which is why `Append`, `Head` and `Tail`
are faithful in `Schedule`. The timer, the serialization, the parser and the
event loop share no state with each other or with the scheduler but what their
callers carry from one to the next (a packed message, the bytes read), and
stand alone. Definitions whose comment begins with `Mutant`
are variants of the definition that follows them, with a plausible mistake;
each shows that one property would notice that mistake. No specification uses
them.

### RWLock

`write` and `read` are the two words; `pc[t]` is the place of a thread in
`rwlock_rlock` (`rspin`, `rinc`, `rcheck`, `rundo`), in `rwlock_wlock`
(`wspin`, `wdrain`), or inside (`reading`, `writing`). The reader looks at
`write` twice, before and after announcing itself in `read`, and takes the
announcement back when the second look finds a writer. Memory is sequentially
consistent: the words are accessed with `__sync` builtins, which are full
barriers, except the plain read of the spin loops and the release store of
`__sync_lock_release`. On a weakly ordered machine that argument would have to
be made again; the models do not make it.

### HandleMap

`slot` is the array with its `cap`; `Found(id)` is the test every operation
begins with. `New` includes the expansion and the search for a free slot in
one write section; `Grab` and `ReleaseRef` are read sections that change one
count atomically; `TryDelete` is the second critical section of
`handlemap_release`, entered when the count fell to 0. Between the two
sections (`at[t] = "deleting"`) other threads may grab the handle again or
delete it. `open`, `heap` and `hud` say what callers know and what the
allocator has given out: a caller closes a handle once, and frees the object
that `TryDelete` removes. `heap` objects may be allocated again, so a stale
slot may name an object that lives again.

`expand_map` copies empty slots like occupied ones. Their id is 0, so all of
them are copied to slot 0 of the new array; an empty slot that comes after a
live handle which belongs in slot 0 erases it. `LastCopied` and `Expanded`
model exactly this copy.

### Queue

The locked sections are split at each store to `head` or `tail`, since
`queue_empty` and the first test of `queue_pop` read both without the lock.
C gives no order to the two loads of that test nor to the two stores of an
expansion, so both orders are in the model. `Content` is the refinement
mapping: what the ring holds, also in the middle of an expansion (`Growing`)
and between `++head` and its wrap. The destruction of a queue
(`queue_release`) is not modelled: it needs exclusive access by contract.

### Schedule

`at[w]` is the next shared access of worker `w`; `tok`, `ch`, `sel`, `k` are
the locals of the function it is in, `cur` the task whose slice it runs. The
steps, by function:

| Code | Steps |
|---|---|
| `worker_func` | `Top`, `Notify`, `Trigger`, `Suspend`, `Wait` |
| `schedule_grabtask` | `Pop`, `Find`, `Claim`, `Claimed` |
| `run_slice` | `Resume`, then the script's operations; `Yield`, `Finish`, `CloseTask` |
| `schedule_releasetask` | `Release`, `RelCheck`, `RelPush`, `RelDrop` |
| `ltask.task`, `schedule_opentask` | `CallOpen`, `OpenNew`, `OpenPush`, `OpenId`, `OpenReg` |
| `schedule_send` | `CallSend`, `SendPush`, `SendPop`, `SendFind`, `SendCas`, `SendWake`, `SendDrop`, `SendDone` |
| `schedule_select` | `CallSelect`, `SelCheck`, `SelFound`, `SelBlock`, `SelJoin`, `SelDrop` |
| `newchannel`, `closechannel`, `recv` | `Channel`, `Close`, `Recv` |

Abstractions, and why they lose nothing the properties speak of:

* A handle, its `struct task`, its `struct ltask` and its Lua state have one
  number; a message is a unit of `mq[c]`, its content plays no part.
* Releasing a reference is one step, although `handlemap_release` has two
  critical sections. A grab between them revives the handle, and the deletion
  then does nothing: the outcome is that of a grab before the release.
  `HandleMap` checks the two sections themselves.
* `mq` tests and pops are single steps: an unlocked emptiness test that a
  concurrent section makes wrong behaves like the same test made earlier or
  later, and the scheduler's own races are much wider than that.
* A script that selected nothing yields, as every script and library of the
  repository does (`lib/system.lua`, `lib/socket.lua`,
  `example/productconsumer/consumer.lua`). The owner of a channel closes it
  once.
* A failed assertion or a step with undefined behaviour sets `fault` and
  nothing happens afterwards. The faults are `assert_grab`, `assert_release`
  (the two assertions), `resumed_closed` (resuming a Lua state that was
  closed), `resumed_twice` (resuming one that runs) and `state_race` (`ltask`
  writes the registry of a state that may run already). That
  `schedule_opentask` reads `t->id` of a task it has queued (`schedule.c:91`)
  is none: until `ltask` has stored that handle the task's own is 0, a slice
  that ends early closes handle 0, and the creation reference stays.
* The main script has opened `Initial` tasks before `ltask.run`, which never
  returns; the workers never stop. They may all wait for events for ever once
  no task is left, so the runs do not ask for the absence of deadlock
  (`CHECK_DEADLOCK FALSE`); `NoStrandedTask` and `NoLostWakeup` say what such
  a sleep must not leave behind.

### Timer

`heap` is the array up to `size`, `when` and `at` the fields of the events in
it. Each iteration of `timer_siftup` and `timer_siftdown` is a step (`SiftUp`,
`SiftDown`), so is each iteration of `timer_update` (`Fire`, with `FireTicker`
or `FireOnce`), the return of a callback (`Return`) and of the update
(`Finish`). `timer_siftdown` moves a hole and stores the event at the end; the
model shows the exchanges this amounts to, since one thread runs the timer and
nobody looks in between. `timer_del` sifts up and then down from where it
began: that place is `hole`. In phase `callback` the client may `Add` and
`Del`, as it may when no update runs.

`room` is the number of entries the memory really has. `timer_add` gives
`realloc` the number of entries for a number of bytes, so that the 33rd event
leaves room for 8: the model stops in phase `overrun` when an entry is written
behind it, which happens with more than `Cap` events and not before.

What the client must keep to: it adds only events that are not armed and
deletes only armed ones (an event that has fired is not armed, and `timer.h`
offers no way to ask); its deadlines and clock stay a period away from the end
of the 32-bit range (`TimesInRange`), for a deadline that wraps is due again
within the same update.

### Serialize

The sender's chain is `wb`, the receiver's `rb`. A chain is one sequence of the
bytes in its blocks, the i-th of them in block `BlockOf(i)`; `w.at` and `At(r)`
are the places that `current` and `ptr` name in it, and `rb.live` the blocks
that are not freed. `Push` and `RbRead` say what the copying loops of `wb_push`
and `rb_read` come to, block by block where blocks are allocated and freed.
`todo` and `open` are the two recursions (`_pack_one` into tables,
`_unpack_table`) as stacks. A byte is a record that says what it is a byte of,
so that one read from the wrong place is noticed; the block's fill is
`Garbage`. `Base`, `BlockSize`, `MaxCookie` and `MaxDepth` are the constants of
the code. `lua_rawlen` may return any border of a table with holes (`Borders`)
and `lua_next` any order of the other pairs (`Orders`): each choice must come to
the same table. The length of a chain is an `int`, and `WbPush` stays within it.
`wb_free` is one assignment (`Refuse`): its walk over the blocks of a refused list
is not checked.

### HttpMessages, HttpRequests and HttpParser

`HttpMessages` says in which order callbacks come, of a request or of any other
bytes, and `HttpParser` implements it (`InOrder`): a piece of the same data is a
stutter, and how the body is framed is read off `parser.flags` (`Framing`).
`HttpRequests` says what a request is, which bytes it has on the wire
(`Bytes`), which callbacks it should cause (`Events`), whether it keeps the
connection (`KeepsAlive`) and which Lua table it should leave (`Table`). It is
the reference, `HttpParser` the code. Every `case` of the switch in
`http_parser_execute` is an action of that name, in strict mode, as the code
is compiled here; `goto reexecute` is one more step without a new byte; the
inner loops over a name or a value (`pc = "loop"`) take a byte per step with
their own counting of the header's size. `mark` holds the pointers of the
`MARK` macros, which end with the call. A client cuts the bytes anywhere
(`Execute(n)` for every `n`) and may close after any call (`ExecuteEof`).

Two sets of callbacks are modelled: those of `http_parser_lua.c`, which fill a
Lua table and refuse chunks (`settings = "chttp"`), and callbacks that accept
everything. A byte is a letter, a delimiter, a digit or a placeholder `x` for
the characters that are alike for every test; a method, the names and options
with a meaning are spelled in whole, the others are short.

### EventLoop

`link`, `inbox`, `outbox`, `got` and `backlog` are the peers and the network;
`owner` and `interest` the kernel's descriptors and poll set; `handler`, `fdof`
and `buffer` the Lua objects. The loop's thread is at `pc` in `EventLoop:run`,
an `accept`, the read loop of `l_read`, the client's `on_read`, or the write
loop of `l_write`, and every system call is a step of its own, so that peers
send, end or vanish between any two. `on_read` writes what it got to its own
connection or to another one: `example/async_demo.lua` does the first, and
handlers hold references to each other in any server that relays.

`BufferQueue` is modelled table by table (`Push`, `Turned`, `Popped`): entries
that were popped become nil, the border `#t` is what Lua computes, and the two
tables change places.

The variable `kqueue` chooses between the two builds. Under epoll an accepted
descriptor is blocking (accept(2) does not inherit `O_NONBLOCK` on Linux), and
`sp_write` changes the interest; under kqueue the descriptor is non-blocking,
and `sp_write` enables a filter that `sp_add` never added, which the kernel
refuses and nobody looks at. In both, `mask & MASK_READ` is a number and so
true: each event runs `on_readable` and then `on_writeable`. A batch holds
all that is ready, since fewer descriptors than the 64 of `lepoll_wait`'s array
are modelled.

## 3. What is checked

| Run | Instance | Shows |
|---|---|---|
| `rwlock` | 3 threads | `MutualExclusion`; `Implements`: refinement of `ReadersWriters`; `WriterEnters`: a writer that claimed the lock gets in |
| `handlemap` | 2 threads, 4 objects, 2 slots doubling twice, ids up to 8 | `NoUseAfterFree`, `RefCount`, `Reclaimed` (a count of 0 always has a thread about to delete), `SlotAvailable` (the search for a slot ends) |
| `handlemap_lost` | the same with 4 slots | a live handle is lost by an expansion (finding) |
| `queue` | 2 threads, 2 values, ring of 2, at most 3 elements | `Implements`: refinement of `Fifo`; `ExactWhenQuiet`: the emptiness test without the lock is right when nothing overlaps it |
| `sched_one` | 1 worker, 3 tasks (2 at the start, 1 opened), 2 channels, 2 messages, all operations, liveness | `NoFault`; `PlacedOnce`: a ready task is in one queue or about to be put there, a running one has its worker; `NoLostWakeup`; `ReadyRuns` |
| `sched_two` | 2 workers, 2 tasks, 2 channels, 2 messages; select, send, close, finish | `RefsExact`; `Findable`: a ready task is in a queue, a blocked one among the readers of each channel it selected; `NoStrandedTask`; all up to the first fault |
| `timer` | 6 events, one a ticker of period 1, clock and deadlines 0 and 1, array of 6 | `IndexExact`, `HeapOrdered`; `Implements`: refinement of `ArmedTimers` (only an earliest due event fires, none due is left, none is stored behind the array); `UpdateEnds` |
| `serialize` | bytes of 4 values, blocks of 6 bytes, cookies below 3, tables 2 deep, some 3000 argument lists | `RoundTrip`, which also says that exactly the lists that cannot travel are refused; `FreedOnce`: no block is read after it is freed or freed twice, and none is left when all is unpacked; `TypeOK`, which holds the length in the header against the bytes of the chain |
| `http` | some 90 connections of one or two requests, good and spoilt, cut in every way, both sets of callbacks | `AssertsHold`; `Delivered` and `Verdict`: callbacks, their bytes and the outcome are those of the wire; `EofExact`: an end inside a request is told from one between two; `InOrder`: refinement of `HttpMessages`; `TableExact`; `RaisesAtPieces`: the glue raises at a further piece of a value only; `CallReturns` |
| `event_loop` | 3 peers that send 2, 1 and 0 bytes over 2 descriptors, both builds, a kernel that takes 1 byte | `OnceInOrder`, `OwnDescriptor`, `FlushedOrWatched`, `EndsOnShortWrite`, `Serves` |
| `sched_assert` | 2 workers, 2 tasks, 1 channel, 1 message | the assertion of `schedule.c:130` fails (finding) |
| `sched_lost` | the same | a message wakes nobody (finding) |

Why the bounds are enough. Two threads suffice for every pairwise race; the
lock has three because a second reader is needed while a writer drains.
Handle ids up to 8 over 2, 4 and 8 slots give collisions, reuse of slots and
two expansions; four objects let one address be allocated again while a stale
slot names it. A ring of 2 with three elements grows from every position of
`head`, and wraps after growing. One worker with three tasks (the scripts of the
repository ask for four workers; what several may do to each other is the
matter of the other runs) has, in every order, a task that yields, one that is blocked on two channels at once, and
one that wakes, closes or opens others; readers left over in the queue of the
channel that did not wake them need the second channel. Two workers give every
race between a sender and a selecting task and between two workers over one
run queue. `MaxReaders`, `MaxSends`, `MaxTasks`, `MaxItems` and `LastIdLimit`
bound growth, in the guards of the actions named after them; a task that
may not send more simply yields or ends.

Six is the least number of timers with which the event that fills a hole can be
earlier than the hole's parent, so that `timer_del` must sift up; two
deadlines suffice for due and not due, earlier and later, and the ticker moves
past both. In `serialize`, bytes of four values put the limits of all five
widths among numbers below 32768 and blocks of six make a value of 8 bytes lie
across two or three blocks; fillers put every value at every offset. The wires
of `http` (`MCHttp.tla`) take every transition of the machine and every error
it can report, trailers and empty values included; small limits (`MaxHeader`,
`MaxVersion`, `ULLongMax`) put each comparison's both sides within reach, and
all ways to cut a wire are explored, so that every state of the machine begins
and ends a call. Three wires record what the code does with requests it misreads
(`MisreadName`, `MisreadOption`, `Long(24, 1, 4)`; section 5) as their expected
result: the run does not catch those three, it fixes how far they go. In `event_loop` a descriptor number is used again while the
other is open, a peer waits for a descriptor, a queue's tables change places
twice, and a kernel that takes one byte makes a write stop in the middle.

`UpdateEnds` has a condition that the code needs: a callback that keeps adding
events that are due keeps `timer_update` in its loop (`AddsDue`). So has
`Serves`: under epoll the loop may sit in read(2) of a connection until its peer
ends. The property gives it that excuse only while it lasts: if each such peer
sends or ends at last, what every peer has sent is read.

Why `sched_one` and `sched_two` state different properties. With one worker,
nothing overlaps a scheduler function, and the strict forms hold. They say
nothing of the races between workers, and the scripts of the repository start
four (`example/echoserver/main.lua:4`, `example/productconsumer/main.lua:3`):
for those `sched_two` and the two violations speak. With several
workers the strict forms do not hold, and the runs say how far each one can be kept:

* A sender may wake a task that has set itself BLOCKED and not yet yielded.
  If the slice ends before the woken task is taken, the assertion in
  `schedule_releasetask` fails (`sched_assert`). If another worker takes it
  first, it resumes a Lua state that is running (`resumed_twice`) or, after
  the slice has ended, the first worker finds the status RUNNING of somebody
  else's slice and queues the task a second time. So `PlacedOnce` is only
  stated for one worker; `Findable`, the half of it that no task that is ready
  or blocked is forgotten, holds with two.
* `ltask.task` publishes the new task before it has stored its handle in
  `ltask->id` (`ltask.c:81`). A worker that runs a slice before that calls
  `schedule_releasetask` with handle 0, which finds nothing: the task stays
  RUNNING in no queue. `PlacedOnce` rules that out for one worker only;
  with two workers and the operations `open` and `yield` TLC finds the
  abandoned task.
* A task that has finished may be referenced by a sender or a releasing worker
  a moment longer; found RUNNING, it is queued again (`schedule.c:132`) and
  may be resumed with a NULL Lua state (`resumed_closed`). `RefsExact` holds
  all the same, and so does not notice: the count is right, the status is not.

The type invariants of `RWLock`, `Schedule` and `EventLoop` are proved for every
instance (section 4) and not checked again by the runs.

**Fairness.** `RWLock`: weak fairness on the steps inside lock operations and
critical sections, which are finite and do not block; a thread need not call
the lock. `Schedule`: weak fairness on the steps of each worker thread (the
operating system runs them), and strong fairness on the end of a slice, since
a script that never yields is outside the scheduler's power: nothing in grt
preempts. `ReadyRuns` needs both. `Timer`: weak fairness on the loop's own
steps, which do not block, and strong fairness on `Return`: a callback makes
finitely many calls and returns. Nothing makes a client call the timer.
`HttpParser`: weak fairness on the steps of a call that has begun; no client
need make the next one. `EventLoop`: weak fairness on the thread's steps as a
whole, which is what the operating system gives it; peers owe nothing. The
other runs are about safety only.

## 4. What is proved

`RWLockProofs`, for any finite set of threads:

* `TypeCorrect`, `WriterExcludesAll`: `Spec => []TypeOK`,
  `Spec => []MutualExclusion`. Exclusion is not inductive: it follows from
  what the words count. `WordsExact` says that `read` is the number of
  threads between announcing and leaving, `write` the number of claimants,
  that there is at most one claimant and that nobody reads while it writes.
  `IInv == TypeOK /\ WordsExact` is inductive; each step adds or removes one
  thread from one counted set, and the cardinality lemmas turn that into one
  unit of the word.
* `Refinement`: `Spec => RW!Spec`, step by step under `IInv`. It rests on the
  second look: a reader enters only when `write` is 0 after it is counted, and
  a writer only when `read` is 0 after it has set `write`.

`HandleMapProofs`, for any finite set of threads, any objects and any initial
number of slots, assuming that ids do not wrap (`LastIdLimit < IdMod`):

* `Safety`, `CountsExact`, `TypeCorrect`: `Spec => []NoUseAfterFree`,
  `Spec => []RefCount`, `Spec => []TypeOK`. Neither of the first two is
  inductive. `Known` collects every pair of a handle and an object that an
  owner, a holder or a slot still knows. `KnownSane` says that each was issued
  and is allocated, `KnownUnique` that handles and objects in it correspond
  one to one, `DeletingIssued` that a deleting thread has a real handle.
  `TryDelete` frees an object with count 0; by `RefCount` no owner and no
  holder has its handle, by `KnownUnique` none has its object under another
  handle. `New` enters a pair that is new on both sides, since ids grow and
  the allocator returns only free memory. An expansion may lose slots but
  never invents one (`TableSlots`), so `Known` only shrinks: this is why the
  lost handle of `handlemap_lost` is a leak and not a use after free.

* `NoLeak`, `FreeSlot`: `Spec => []Reclaimed`, `Spec => []SlotAvailable`, from
  the same invariant. A count reaches 0 only in the step that sends its thread
  to `TryDelete`, and a second thread that finds the handle in between either
  revives it or is on the same way. For the free slot, `Space` says that `n` is
  at most the threshold of the expansion and at least the number of occupied
  slots: `TableOccupied` shows that an expansion occupies no more slots than
  were occupied, although it may occupy fewer.

That assumption cannot be dropped: after a wrap an id may be issued while its
older bearer, lost by an expansion, is still held.

`QueueProofs`, for any number of threads, any values and any length of the ring:

* `MutualExclusion`: `Spec => []OneOwner`, the spin lock keeps the locked
  sections apart; `TypeCorrect`: `Spec => []TypeOK`.
* `Refinement`: `Spec => F!Spec`, the ring implements `Fifo`. `Ring` says where
  `head` and `tail` are at each store of a locked section: one past the end
  only between the increment and the wrap, with a thread there to wrap it, and
  `head` at 0 before `tail` moves in an expansion. From it follows that each
  store either leaves `Content` alone or takes one element off or puts one on;
  an expansion copies `Content` and leaves it in its order.
* `QuietTestIsExact`: `Spec => []ExactWhenQuiet`. `Quiet` says that, while no
  locked section has overlapped a test, what the test has loaded is what the
  indices still are.

`ScheduleProofs`, for any numbers of workers, tasks and channels, any lists
passed to `select` and any operations of the scripts:

* `TypeCorrect`: `Spec => []TypeOK`. The invariant `TInv` adds where each local
  is in use (`Fits`), that a reference in a map is positive, and that workers
  in the middle of opening a task still have a handle left for it.
* `NothingStranded`: `Spec => []NoStrandedTask`. The invariant `Watched` says
  of every queue that holds a task that some worker will yet look into it:
  one that is not looking for work at all, one that sleeps and was triggered,
  or one in its round with that queue still before it. The worker that queued
  a task is itself awake, which is why no order of `suspend`, `flag` and the
  tests of both can strand it; triggering only makes it sooner.
* `EveryTaskFound`: `Spec => []Findable`, also in the presence of findings 2
  and 3. `FindInv` adds, for a task in the middle of joining, the channels its
  loop has visited (`Joining`), and that no channel is waited for before it
  exists (`Known`). It needs that one worker at a time is inside a task's Lua
  state (`OneInside`), so that no other blocks the same task.
* `ReferencesExact`: `Spec => []RefsExact`, if `N = 1` or `"open"` is not among
  the operations. `TaskRefs` and `ChannelRefs` count the holders by what each
  worker has in its grip (`Grip`): every step grabs one handle and takes it
  into its grip, or releases the one it has. `Owners` says that a Lua state is
  closed once and by the worker inside it, `Settled` that every task that runs
  finds its own handle in `ltask->id`. The condition is what the code needs:
  with several workers a task may run before its creator has stored that
  handle (`ltask.c:81`), closes handle 0 instead of its own, and its creation
  reference is never given up.

and with one worker (`N = 1`), whatever the scripts do, which is no statement
about the four workers of the repository's scripts:

* `OneWorkerNeverFails`, `OneWorkerPlacesOnce`, `OneWorkerWakesUp`:
  `Spec => []NoFault`, `Spec => []PlacedOnce`, `Spec => []NoLostWakeup`. None
  of them holds with several workers (section 5). The invariant `Solo` says
  what the one worker may rely on: the task in its hand is ready and in no
  queue, the task it runs is RUNNING until it blocks itself and open until it
  ends (`Statused`); the run queue holds ready tasks, each once (`Once`); a
  closed task is left RUNNING for ever and so is never queued again, and no
  other task is RUNNING (`Worked`); and a blocked task has no message on any
  channel it waits for, unless this worker is in the loop of `schedule_send`
  that empties that channel's readers (`Answered`). The loop may end with
  `Answered` intact because of `Findable`: a blocked task is among the readers
  it empties. That a finished task is not released again rests on `TaskRefs`:
  nobody holds it, so it has left the map.

`TimerProofs`, for any finite set of events, any periods and any clock readings
that do not wrap:

* `IndicesExact`, `OrderRestored`, `TypeCorrect`: `Spec => []IndexExact`,
  `Spec => []HeapOrdered`, `Spec => []TypeOK`. Order holds only between the
  calls, so the invariant `IInv` says what each loop has still to repair:
  while `timer_siftup` runs, only the entry at `pos` may be earlier than its
  parent and, when `timer_del` began there, later than its children
  (`OrderedUp`); while `timer_siftdown` runs, only the entry at `pos` may be
  later than its children (`OrderedDown`); in both, what hangs below `pos` is
  no earlier than what `pos` hangs from. The lemmas about heaps (`UpSwap`,
  `UpEnds`, `DownSwap`, `DownEnds`, `Replaced`, `Appended`) are about functions
  on `0 .. n - 1` and know nothing of the timer; `Replaced` is the reason why
  `timer_del` is right whichever way the replacement has to go.
* `NoOverrunUpToCap`, `TimerImplements`, assuming `Cardinality(Events) <= Cap`:
  `Spec => []NoOverrun`, `Spec => Implements`. The heap holds no event twice
  (`SizeBound`), so it is full only when all events are armed. For the
  refinement the top of an ordered heap is a least element (`TopIsLeast`): the
  first index with an earlier entry would have a parent that is earlier still.

`EventLoopProofs`, for any peers, descriptors, messages and both builds:

* `DescriptorsOwned`: `Spec => []OwnDescriptor`. The invariant adds which
  connection an event of the batch was made for, and that a handler in progress
  is the one of its descriptor's owner or of nobody: a descriptor is closed only
  by the handler of its own connection, after its event has left the batch.
* `EndsForACause`: `Spec => EndsOnShortWrite`. The lemma `EpollIsSilent` says what
  the blocking read of section 5 comes to under epoll: no byte is ever written to
  anybody, since a handler that has come back from its read has a connection
  that has ended.

* `WrittenOnceInOrder`: `Spec => []OnceInOrder`; `NothingForgotten`:
  `Spec => []FlushedOrWatched`; `TypeCorrect`: `Spec => []TypeOK`. The invariant
  `OInv` follows the bytes. `Flow` says of everything on its way to a
  connection (what it got, what is in its buffer, what a write has in hand)
  that it is in order, in one place only and before what `l_read` still holds,
  and that between them they have all that was read. `Watched` and `OwnWritten`
  say that bytes left behind are watched and are another connection's. That
  a `BufferQueue` is a queue is a matter of its own: `RepOK` is its
  representation invariant (nil outside `head .. tail`, the written table
  without nil or all nil, hence its border exact), and the lemmas about `Push`,
  `Turned` and `Popped` say what they do to the list of chunks.

`HttpParserProofs`, for any bytes whatever, cut anywhere into calls, either set
of callbacks and any limits:

* `AssertionsHold`: `Spec => []AssertsHold`; `TypeCorrect`: `Spec => []TypeOK`.
  The invariant says what is known in each of the parser's states (`Sane`): a
  state of the chunks is entered with `F_CHUNKED` alone, a body's with a length
  that is neither 0 nor unknown, a header's with a `header_state` its loop has
  a case for; a mark is set only while the state is one of its section
  (`MarksFit`), and the sections do not meet; in front of a chunk the byte
  counter is 0, and 1 in the switch. Each `case` is a lemma, and each of the
  ways on from it (`Return`, `Goto`, a callback) is one that the cases share.

* `InOrderAlways`: `Spec => InOrder`, the parser implements `HttpMessages`, also
  for bytes that are no request; `EndIsExact`: `Spec => []EofExact`;
  `RaisesOnlyAtPieces`: `Spec => RaisesAtPieces`. The invariant `OInv` says in
  `Told` what the latest callback may have been: in each state (`Came`), and,
  where a mark is set, that of the mark or one it may come behind. A state that
  the headers and a trailer share has the one or the other behind it, so the
  framing known in each state (`Frames`) is part of it. The end of a connection
  is seen by the state and judged by the latest callback; the two agree because
  `s_start_req` and `s_dead` are entered behind `message_complete` alone. A name
  has been reported before its value, and left `last_field` set, which is why
  the first piece of a value cannot raise.

`SerializeProofs`, for any Lua values, nested in any way, and any argument
lists, blocks of any size that holds a header, bytes of any even number of
values, and any limits of cookies and depth:

* `UnpacksWhatWasPacked`: `Spec => []RoundTrip`; `ChainFreedOnce`:
  `Spec => []FreedOnce`; `TypeCorrect`: `Spec => []TypeOK`. The invariant `IInv`
  has a part for each stage. While the chain is packed (`Written`) there is a
  `Script`: the places between values in the chain, each with what was left to
  pack there, such that from one to the next the bytes of one step of packing lie
  between them (`Packs`). While it is unpacked (`Reading`) the reader stands at one
  of these places, what it has rebuilt is what that place's list of things to pack
  lacks (`Caught`), and `UnpackStep` shows that it reads back what the step wrote
  there; for a table half rebuilt, `Fits` says which pairs it has, whichever
  border and order were chosen. Below that are three layers: integers and their
  bytes (`NumberOfBytes`, `WidthIs`: each width holds the numbers sent in it, with
  their sign); the writer, whose pushes append to one sequence (`PushAppends`);
  and the reader, which frees exactly the blocks behind it (`ReadBytes`,
  `Blocks`), also when a value straddles several. That exactly the lists that
  cannot travel are refused is kept by every step (`PlainKeeps`, `TableKeeps`,
  `EndKeeps`, `RefusedStays`).
* The assumptions are `BlockHoldsHeader`, `BytesAreSigned`, `LimitsAreNumbers`,
  and, of the values, that integers have 64 bits, lengths of strings are `int`s,
  and tables are finite maps without nil (`ValuesAreLua`, `InputsAreLists`).

What the proofs found in the models. The arms of a `CASE` in
`sp_write`'s model (event loop) and in `Handle` (parser) overlapped, so that TLA+ did
not say which applies, although TLC always took the first: both begin with a
condition of its own now, as the code does. The order of bytes is stated
pairwise (`Ordered`) and the initial run queues as functions, which say the
same and can be reasoned about. The parser's limits have an assumption each
(`BoundsPositive`) and its wires one (`WiresCarryBytes`): nothing is assumed
of the bytes themselves. In `Serialize`, recursion is a stack or a recursive
function, never a RECURSIVE operator, behind which the prover has no SMT
backend. The verdict on the end of a connection is stated by the callbacks alone
(`EofExact`), and so for any bytes.

Only model-checked, and why:

* `Delivered`, `Verdict` and `TableExact` compare the parser with the requests a
  wire was made from: what is delivered of a whole connection is an induction
  over the bytes of a grammar, which would need, for each form of request, the
  state of the parser behind every beginning of it. The library's induction
  theorems cannot be instantiated; where an induction was needed about one
  recursive function (`FlattenSeq` in `EventLoopProofs`, the bytes of an integer
  in `SerializeProofs`, the least element in `HttpParserProofs`) it was made from
  a set without a least element (`WFMin`).
* The liveness properties (`WriterEnters`, `ReadyRuns`, `UpdateEnds`,
  `CallReturns`, `Serves`): the prover knows neither fairness nor ENABLED.

## 5. Findings

1. **`handlemap.c:84`** (`handlemap_lost`). `expand_map` re-slots empty slots.
   Handle 8 in a full-enough table of 4 sits in slot 0, and an empty slot
   after it erases it in the new table. The object is then never found and
   never freed.
2. **`schedule.c:164`** (`sched_assert`). A task becomes BLOCKED and visible to
   senders while its slice is still running; a wake-up that overtakes the
   yield breaks `assert(t->status != TASK_READY)`.
3. **`schedule.c:156`** (`sched_lost`). The message queues are not tested again
   after the task has joined the readers. A message pushed in between wakes
   nobody, and the task sleeps on it.

Two more contradict what the repository says, without a run of their own:

* **`socket.c:98`**. On Linux an accepted descriptor blocks, and `l_read` reads
  again after the first bytes: `on_read` is not called, and nothing is written
  back, until the peer ends. The one server of the repository over this loop is
  an echo server (`example/async_demo.lua:9-11`); it echoes nothing. The lemma
  `EpollIsSilent` proves it for any peers and messages, and `Serves` says that
  nothing else keeps the loop from a peer's bytes.
* **`http_parser_lua.c:68`**. The glue raises a Lua error out of the parser at
  the second piece of a header value, whether a call ended in it or it is
  folded. `http_parser.h:85-88` says of data callbacks that they come
  "arbitrarily many times for each string". `RaisesAtPieces` says that nothing
  else raises.

Further weaknesses that no comment or assertion of the code denies. The models
reproduce them unless it says otherwise, and the properties say exactly how far
the code still holds in their presence:

* Scheduler: the two described in section 3, and the loop of `schedule_send`
  (`schedule.c:218`), which takes readers off the channel until none is left: a
  reader that it has made ready may run on another worker, find that the message
  was received already, and join again, for ever; the tasks queued behind the
  sender then wait as long. So `ReadyRuns` is stated for one worker.
  Not modelled: a second `ltask.close` while a sender holds the channel drops the
  sender's reference and frees the channel under it (`schedule.c:189`); the
  model's owner closes once, as the scripts do. Closing does not wake the tasks
  blocked on the channel, and nothing promises it.
* Handle map: handle numbers are used again after 2^32 (`handlemap.c:108`). The
  model wraps, but runs and theorems stay below: an entry lost by an expansion
  together with a number used again frees an object in use.
* Timer: the 33rd event is written behind the array (`timer.c:79`). Assumed
  away: an event that has fired or been deleted is deleted again, for
  `timer_del` does not look at its index of -1 (`timer.c:94`); `when + period`
  wraps at 2^32 and a ticker fires for ever within one update (`timer.c:122`).
* Serialization: a string is read into an array on the C stack of its own length
  (`serialize.c:507`, the stack is not modelled).
* HTTP parser: a name that only begins with `Content-Length` sets
  `F_CONTENTLENGTH`, so that a good request with a body behind it is refused
  (`http_parser.c:1369`); the comma that breaks off the beginning of a known
  option is consumed, so that `Connection: k,close` keeps the connection
  (`http_parser.c:1627`); a name or value that is cut counts a byte twice
  towards the size limit, so that the verdict on a header section near the limit
  depends on the cuts (`http_parser.c:154`).
* HTTP glue: parts other than a header value that are torn leave their last
  piece, of the URL for one (`TableExact` holds for what is not torn); a chunked
  body is always refused; the parser is given a block of the size of a pointer
  (`http_parser_lua.c:158`, not modelled).
* Event loop: a write that stops short ends the loop for everybody
  (`async.lua:135`, `EndsOnShortWrite`); under kqueue write interest is never
  effective (`socket_kqueue.h:55`), so that what one connection writes to another waits for that one to send; what was read
  before the end of file in one drain loop is dropped (`socket.c:112`), so that
  a peer that sends and shuts down its side gets no answer.

## 6. Not modelled, and the plan

Not modelled, and why:

* `http_parser.c`: the machine for responses and `HTTP_BOTH` (the glue makes
  request parsers only), `http_parser_parse_url` and `http_parser_pause`
  (nothing here calls them), `F_SKIPBODY` (`headers_complete_cb` returns 0);
  most of the methods, which differ only in their letters.
* `serialize.c`: the second form of `rb_read`'s buffer and `wb_init` on an
  existing chain, reached only from code that is commented out.
* `async.lua`: `EventLoop:del`, `BufferQueue:push_back` and `sp_del`: the only
  calls of them lie behind the `string.sub` that raises. `listen` runs once,
  before the loop.
* The socket service (`socket.lua`, `socket_service.lua`, `system.lua`,
  `system.c`): both scripts load a C module `csocket` whose source, named in
  `src/ltask/Makefile`, is not in the repository, so they fail at their first
  lines. What its poll and send may return could only be guessed, and nearly
  every hazard of the service depends on it. The channels it talks over are
  those of `Schedule`.
* `http.lua` and `net.lua`: they call functions that do not exist (`new_conn`,
  `EventLoop:new`) and so reach no state of their own.
* `timer_release` and `queue_release`: destruction, with exclusive access by
  contract.
* `socket_select.h` (Windows), the examples, argument checking, printing, build
  files.

Lua, pthreads, malloc and the kernel are environment: a script's slice is any
sequence of the modelled operations, an allocation returns any free address, a
system call any result its manual allows.

What is left, in this order:

1. How far `PlacedOnce` holds with several workers: which of its halves survive
   when no task selects, or when none is opened.
2. The parser against the grammar for one header line: `Delivered` for a name
   and a value, whatever the cuts. The order of the callbacks is proved; their
   bytes are what is missing.
