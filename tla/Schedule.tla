------------------------------ MODULE Schedule ------------------------------
(***************************************************************************)
(* The task scheduler: src/ltask/schedule.c, the worker loop and the task  *)
(* operations of src/ltask/ltask.c, and the events of simplethread.h.      *)
(* One action per access to memory that several workers share.  A queue    *)
(* operation and a critical section of a handle map are single steps       *)
(* (modules Queue and HandleMap model their insides).                      *)
(*                                                                         *)
(* Handles are 1, 2, ... in the order of creation; a task's handle, struct *)
(* task, struct ltask and Lua state are named by the same number.          *)
(* A failed assertion or an access with undefined behaviour stops the      *)
(* process: it sets fault, and no action is enabled afterwards.            *)
(***************************************************************************)
EXTENDS Integers, Sequences, FiniteSets

CONSTANTS
  N,          \* the number of workers (ltask.init)
  MaxTasks,   \* bound of the runs on the tasks ever opened
  Initial,    \* how many of them the main script opens before ltask.run
  Channels,   \* channel handles
  Made,       \* the channels the main script creates
  Selects,    \* the channel lists that tasks pass to ltask.select
  MaxReaders, \* bound of the runs on a channel's reader queue
  MaxSends,   \* bound of the runs on the messages ever sent
  Ops         \* the operations that tasks of the run perform

ASSUME SizesOK ==
  /\ N \in Nat \ {0} /\ MaxTasks \in Nat /\ MaxSends \in Nat /\ MaxReaders \in Nat
  /\ Initial \in 0 .. MaxTasks
  /\ Made \subseteq Channels
  /\ Selects \subseteq Seq(Channels)

Workers == 0 .. N - 1
Tasks == 1 .. MaxTasks

VARIABLES
  \* struct schedule and struct worker
  runq,      \* s->q: per worker the queue of ready task handles
  current,   \* s->current: the worker the next new task goes to
  opened,    \* ghost: how many tasks were opened; the next handle is opened + 1
  suspend,   \* worker.suspend
  flag,      \* worker.event.flag
  \* struct task, its entry in the handle map, and struct ltask
  status,    \* task->status
  home,      \* task->thread
  live,      \* the task handles in the map
  refs,      \* their reference counts
  ltid,      \* ltask->id
  lua,       \* ltask->L: "open", or "closed" once it is NULL
  registered,\* the tasks whose Lua registry holds their own handle
  \* struct channel and its entry in the handle map
  fresh,     \* channels not created yet
  closed,    \* channels whose owner called ltask.close
  chans,     \* the channel handles in the map
  crefs,     \* their reference counts
  mq,        \* channel->mq
  reader,    \* channel->reader
  sends,     \* how many messages were sent so far
  waits,     \* ghost: the channels of the task's last ltask.select
  \* what each worker is doing
  at,        \* the next step of its C code
  cur,       \* the task whose slice it runs or ran last
  tok,       \* the task handle its C code works on
  ch,        \* the channel its schedule_send works on
  sel,       \* the channels its schedule_select still has to visit
  k,         \* the index of its loop over queues or workers
  fault      \* "none", or how the process died

schedvars == <<runq, current, opened>>
sleepvars == <<suspend, flag>>
taskvars  == <<status, home, live, refs>>
luavars   == <<ltid, lua, registered>>
chanvars  == <<fresh, closed, chans, crefs, mq, reader, sends, waits>>
locals    == <<cur, tok, ch, sel, k>>
vars == <<schedvars, sleepvars, taskvars, luavars, chanvars, at, locals, fault>>

Init ==
  \* In turn to the workers: the i-th task of worker w is opened as number w + 1 + (i - 1) * N.
  /\ runq = [w \in Workers |-> [i \in 1 .. (Initial + N - 1 - w) \div N |-> w + 1 + (i - 1) * N]]
  /\ current = Initial % N
  /\ opened = Initial
  /\ suspend = [w \in Workers |-> 0] /\ flag = [w \in Workers |-> 0]
  /\ status = [t \in Tasks |-> IF t <= Initial THEN "READY" ELSE "INIT"]
  /\ home = [t \in Tasks |-> IF t <= Initial THEN (t - 1) % N ELSE 0]
  /\ live = 1 .. Initial
  /\ refs = [t \in Tasks |-> IF t <= Initial THEN 1 ELSE 0]
  /\ ltid = [t \in Tasks |-> IF t <= Initial THEN t ELSE 0]
  /\ lua = [t \in Tasks |-> "open"]
  /\ registered = 1 .. Initial
  /\ fresh = Channels \ Made /\ closed = {} /\ chans = Made
  /\ crefs = [c \in Channels |-> IF c \in Made THEN 1 ELSE 0]
  /\ mq = [c \in Channels |-> 0]
  /\ reader = [c \in Channels |-> <<>>]
  /\ sends = 0
  /\ waits = [t \in Tasks |-> {}]
  /\ at = [w \in Workers |-> "top"]
  /\ cur = [w \in Workers |-> 0]
  /\ tok = [w \in Workers |-> 0]
  /\ ch = [w \in Workers |-> 0]
  /\ sel = [w \in Workers |-> <<>>]
  /\ k = [w \in Workers |-> 0]
  /\ fault = "none"

-----------------------------------------------------------------------------
(* Control, and the operations of queues and handle maps *)

From(w, here) == fault = "none" /\ at[w] = here
Goto(w, there) == at' = [at EXCEPT ![w] = there] /\ UNCHANGED fault
Go(w, here, there) == From(w, here) /\ Goto(w, there)
Die(why) == fault' = why /\ UNCHANGED at

GrabTask(t) == refs' = [refs EXCEPT ![t] = @ + 1] /\ UNCHANGED live

\* release_task: the last reference removes the handle and frees the task.
ReleaseTask(t) ==
  IF t \in live
  THEN /\ refs' = [refs EXCEPT ![t] = @ - 1]
       /\ live' = IF refs[t] = 1 THEN live \ {t} ELSE live
  ELSE UNCHANGED <<refs, live>>

ReleaseChannel(c) ==
  IF c \in chans
  THEN /\ crefs' = [crefs EXCEPT ![c] = @ - 1]
       /\ chans' = IF crefs[c] = 1 THEN chans \ {c} ELSE chans
  ELSE UNCHANGED <<crefs, chans>>

\* queue_push(s->q[t->thread], t->id), the second half of commit_task.
PushReady(t) == runq' = [runq EXCEPT ![home[t]] = Append(@, t)]

\* The workers that are inside the Lua state of a task.
SlicePCs == {"lua", "sel_check", "sel_found", "sel_block", "sel_join", "sel_drop",
             "send_push", "send_pop", "send_find", "send_cas", "send_wake",
             "send_drop", "send_done", "open_new", "open_push", "open_id", "open_reg"}
Inside(t) == {w \in Workers : at[w] \in SlicePCs /\ cur[w] = t}

-----------------------------------------------------------------------------
(* worker_func, schedule_grabtask and the beginning of run_slice *)

\* w->suspend = 0
Top(w) ==
  /\ Go(w, "top", "pop")
  /\ suspend' = [suspend EXCEPT ![w] = 0]
  /\ k' = [k EXCEPT ![w] = 0]
  /\ UNCHANGED <<schedvars, flag, taskvars, luavars, chanvars, cur, tok, ch, sel>>

\* Mutant: only the worker's own queue is looked at.
PopOwn(w) ==
  /\ From(w, "pop")
  /\ IF runq[w] # <<>>
     THEN /\ tok' = [tok EXCEPT ![w] = Head(runq[w])]
          /\ runq' = [runq EXCEPT ![w] = Tail(@)]
          /\ Goto(w, "find")
     ELSE Goto(w, "idle") /\ UNCHANGED <<tok, runq>>
  /\ UNCHANGED <<current, opened, sleepvars, taskvars, luavars, chanvars, cur, ch, sel, k>>

\* Mutant: the newest task of a queue goes first.
PopNewest(w) ==
  /\ From(w, "pop")
  /\ LET q == (w + k[w]) % N IN
     IF runq[q] # <<>>
     THEN /\ tok' = [tok EXCEPT ![w] = runq[q][Len(runq[q])]]
          /\ runq' = [runq EXCEPT ![q] = SubSeq(@, 1, Len(@) - 1)]
          /\ k' = [k EXCEPT ![w] = 0]
          /\ Goto(w, "find")
     ELSE /\ UNCHANGED <<tok, runq>>
          /\ IF k[w] + 1 < N
             THEN k' = [k EXCEPT ![w] = @ + 1] /\ Goto(w, "pop")
             ELSE k' = [k EXCEPT ![w] = 0] /\ Goto(w, "idle")
  /\ UNCHANGED <<current, opened, sleepvars, taskvars, luavars, chanvars, cur, ch, sel>>

\* Its own queue first, then those of the other workers in turn.
Pop(w) ==
  /\ From(w, "pop")
  /\ LET q == (w + k[w]) % N IN
     IF runq[q] # <<>>
     THEN /\ tok' = [tok EXCEPT ![w] = Head(runq[q])]
          /\ runq' = [runq EXCEPT ![q] = Tail(@)]
          /\ k' = [k EXCEPT ![w] = 0]
          /\ Goto(w, "find")
     ELSE /\ UNCHANGED <<tok, runq>>
          /\ IF k[w] + 1 < N
             THEN k' = [k EXCEPT ![w] = @ + 1] /\ Goto(w, "pop")
             ELSE k' = [k EXCEPT ![w] = 0] /\ Goto(w, "idle")
  /\ UNCHANGED <<current, opened, sleepvars, taskvars, luavars, chanvars, cur, ch, sel>>

\* handlemap_grab; a task closed meanwhile is skipped.
Find(w) ==
  /\ From(w, "find")
  /\ IF tok[w] \in live
     THEN GrabTask(tok[w]) /\ Goto(w, "claim")
     ELSE UNCHANGED <<refs, live>> /\ Goto(w, "pop")
  /\ UNCHANGED <<schedvars, sleepvars, status, home, luavars, chanvars, locals>>

\* assert(t->status != TASK_RUNNING), then the task is this worker's.
Claim(w) ==
  /\ From(w, "claim")
  /\ IF status[tok[w]] = "RUNNING"
     THEN Die("assert_grab") /\ UNCHANGED <<status, home, cur>>
     ELSE /\ status' = [status EXCEPT ![tok[w]] = "RUNNING"]
          /\ home' = [home EXCEPT ![tok[w]] = w]
          /\ cur' = [cur EXCEPT ![w] = tok[w]]
          /\ Goto(w, "claimed")
  /\ UNCHANGED <<schedvars, sleepvars, live, refs, luavars, chanvars, tok, ch, sel, k>>

\* Mutant: grabtask keeps its reference.
ClaimedKept(w) ==
  /\ Go(w, "claimed", "resume")
  /\ tok' = [tok EXCEPT ![w] = 0]
  /\ UNCHANGED <<schedvars, sleepvars, taskvars, luavars, chanvars, cur, ch, sel, k>>

Claimed(w) ==
  /\ Go(w, "claimed", "resume")
  /\ ReleaseTask(tok[w])
  /\ tok' = [tok EXCEPT ![w] = 0]
  /\ UNCHANGED <<schedvars, sleepvars, status, home, luavars, chanvars, cur, ch, sel, k>>

\* lua_resume(t->L): undefined when L is NULL, or runs in another worker.
Resume(w) ==
  /\ From(w, "resume")
  /\ CASE lua[cur[w]] = "closed" -> Die("resumed_closed")
       [] lua[cur[w]] # "closed" /\ Inside(cur[w]) # {} -> Die("resumed_twice")
       [] OTHER -> Goto(w, "lua")
  /\ UNCHANGED <<schedvars, sleepvars, taskvars, luavars, chanvars, locals>>

-----------------------------------------------------------------------------
(* The end of run_slice, and schedule_releasetask *)

\* The slice yields with its task still runnable.
Yield(w) ==
  /\ "yield" \in Ops
  /\ Go(w, "lua", "release")
  /\ UNCHANGED <<schedvars, sleepvars, taskvars, luavars, chanvars, locals>>

\* The script returns or fails: t->L = NULL; lua_close(L).
CloseLua(w) ==
  /\ Goto(w, "close")
  /\ lua' = [lua EXCEPT ![cur[w]] = "closed"]
  /\ UNCHANGED <<schedvars, sleepvars, taskvars, ltid, registered, chanvars, locals>>

Finish(w) == "finish" \in Ops /\ From(w, "lua") /\ CloseLua(w)

\* schedule_closetask(s, t->id)
CloseTask(w) ==
  /\ Go(w, "close", "release")
  /\ ReleaseTask(ltid[cur[w]])
  /\ UNCHANGED <<schedvars, sleepvars, status, home, luavars, chanvars, locals>>

\* schedule_releasetask(s, t->id): nothing to do for an unknown handle.
Release(w) ==
  /\ From(w, "release")
  /\ IF ltid[cur[w]] \in live
     THEN /\ GrabTask(ltid[cur[w]])
          /\ tok' = [tok EXCEPT ![w] = ltid[cur[w]]]
          /\ Goto(w, "rel_check")
     ELSE UNCHANGED <<refs, live, tok>> /\ Goto(w, "notify")
  /\ UNCHANGED <<schedvars, sleepvars, status, home, luavars, chanvars, cur, ch, sel, k>>

\* Mutant: a task whose slice yielded is left alone like a blocked one.
RelCheckNone(w) ==
  /\ Go(w, "rel_check", "rel_drop")
  /\ UNCHANGED <<schedvars, sleepvars, taskvars, luavars, chanvars, locals>>

\* assert(t->status != TASK_READY); only a running task becomes ready.
RelCheck(w) ==
  /\ From(w, "rel_check")
  /\ CASE status[tok[w]] = "READY" -> Die("assert_release") /\ UNCHANGED status
       [] status[tok[w]] = "RUNNING" -> /\ status' = [status EXCEPT ![tok[w]] = "READY"]
                                        /\ Goto(w, "rel_push")
       [] OTHER -> Goto(w, "rel_drop") /\ UNCHANGED status
  /\ UNCHANGED <<schedvars, sleepvars, home, live, refs, luavars, chanvars, locals>>

RelPush(w) ==
  /\ Go(w, "rel_push", "rel_drop")
  /\ PushReady(tok[w])
  /\ UNCHANGED <<current, opened, sleepvars, taskvars, luavars, chanvars, locals>>

RelDrop(w) ==
  /\ Go(w, "rel_drop", "notify")
  /\ ReleaseTask(tok[w])
  /\ tok' = [tok EXCEPT ![w] = 0]
  /\ UNCHANGED <<schedvars, sleepvars, status, home, luavars, chanvars, cur, ch, sel, k>>

-----------------------------------------------------------------------------
(* Waking and sleeping workers *)

\* for i: if (w->suspend) ...
Notify(w) ==
  /\ From(w, "notify")
  /\ IF k[w] = N THEN k' = [k EXCEPT ![w] = 0] /\ Goto(w, "pop")
     ELSE IF suspend[k[w]] = 1 THEN UNCHANGED k /\ Goto(w, "trigger")
     ELSE k' = [k EXCEPT ![w] = @ + 1] /\ Goto(w, "notify")
  /\ UNCHANGED <<schedvars, sleepvars, taskvars, luavars, chanvars, cur, tok, ch, sel>>

\* ... thread_event_trigger(&w->event)
Trigger(w) ==
  /\ Go(w, "trigger", "notify")
  /\ flag' = [flag EXCEPT ![k[w]] = 1]
  /\ k' = [k EXCEPT ![w] = @ + 1]
  /\ UNCHANGED <<schedvars, suspend, taskvars, luavars, chanvars, cur, tok, ch, sel>>

\* w->suspend = 1
Suspend(w) ==
  /\ Go(w, "idle", "wait")
  /\ suspend' = [suspend EXCEPT ![w] = 1]
  /\ UNCHANGED <<schedvars, flag, taskvars, luavars, chanvars, locals>>

\* thread_event_wait
Wait(w) ==
  /\ Go(w, "wait", "top")
  /\ flag[w] = 1
  /\ flag' = [flag EXCEPT ![w] = 0]
  /\ UNCHANGED <<schedvars, suspend, taskvars, luavars, chanvars, locals>>

-----------------------------------------------------------------------------
(* ltask.task: schedule_opentask, then the handle reaches the new task *)

\* next = c + 1; if (next >= s->threads) next = 0
NextWorker(c) == IF c + 1 >= N THEN 0 ELSE c + 1

\* c = s->current, without any lock.
CallOpen(w) ==
  /\ "open" \in Ops
  /\ opened + Cardinality({v \in Workers : at[v] = "open_new"}) < MaxTasks
  /\ Go(w, "lua", "open_new")
  /\ k' = [k EXCEPT ![w] = current]
  /\ UNCHANGED <<schedvars, sleepvars, taskvars, luavars, chanvars, cur, tok, ch, sel>>

\* s->current moves on; the handle is created and INIT becomes READY, both
\* before any other worker knows the handle.
OpenNew(w) ==
  /\ Go(w, "open_new", "open_push")
  /\ LET t == opened + 1 IN
     /\ opened' = t
     /\ tok' = [tok EXCEPT ![w] = t]
     /\ status' = [status EXCEPT ![t] = "READY"]
     /\ home' = [home EXCEPT ![t] = k[w]]
     /\ live' = live \cup {t}
     /\ refs' = [refs EXCEPT ![t] = 1]
  /\ current' = NextWorker(k[w])
  /\ k' = [k EXCEPT ![w] = 0]
  /\ UNCHANGED <<runq, sleepvars, luavars, chanvars, cur, ch, sel>>

\* From here on every worker may run the new task.
OpenPush(w) ==
  /\ Go(w, "open_push", "open_id")
  /\ PushReady(tok[w])
  /\ UNCHANGED <<current, opened, sleepvars, taskvars, luavars, chanvars, locals>>

\* return t->id; t->id = id in ltask().  The task is still there: until this
\* store its own handle is 0, so that a slice that ends early closes handle 0.
OpenId(w) ==
  /\ Go(w, "open_id", "open_reg")
  /\ ltid' = [ltid EXCEPT ![tok[w]] = tok[w]]
  /\ UNCHANGED <<schedvars, sleepvars, taskvars, lua, registered, chanvars, locals>>

\* lua_pushinteger, lua_rawsetp on the new Lua state: undefined if it runs.
OpenReg(w) ==
  /\ From(w, "open_reg")
  /\ IF Inside(tok[w]) # {} \/ lua[tok[w]] = "closed"
     THEN Die("state_race") /\ UNCHANGED <<registered, tok>>
     ELSE /\ registered' = registered \cup {tok[w]}
          /\ tok' = [tok EXCEPT ![w] = 0]
          /\ Goto(w, "lua")
  /\ UNCHANGED <<schedvars, sleepvars, taskvars, ltid, lua, chanvars, cur, ch, sel, k>>

-----------------------------------------------------------------------------
(* ltask.channel, ltask.close, ltask.recv *)

Channel(w, c) ==
  /\ "channel" \in Ops
  /\ Go(w, "lua", "lua")
  /\ c \in fresh
  /\ fresh' = fresh \ {c}
  /\ chans' = chans \cup {c}
  /\ crefs' = [crefs EXCEPT ![c] = 1]
  /\ UNCHANGED <<schedvars, sleepvars, taskvars, luavars, closed, mq, reader, sends, waits, locals>>

\* schedule_closechannel; the owner does it once.
Close(w, c) ==
  /\ "close" \in Ops
  /\ Go(w, "lua", "lua")
  /\ c \in Channels \ (fresh \cup closed)
  /\ ReleaseChannel(c)
  /\ closed' = closed \cup {c}
  /\ UNCHANGED <<schedvars, sleepvars, taskvars, luavars, fresh, mq, reader, sends, waits, locals>>

\* schedule_recv: the reference it takes and drops spans a single pop.
Recv(w, c) ==
  /\ "recv" \in Ops
  /\ Go(w, "lua", "lua")
  /\ c \in Channels \ fresh
  /\ mq' = IF c \in chans /\ mq[c] > 0 THEN [mq EXCEPT ![c] = @ - 1] ELSE mq
  /\ UNCHANGED <<schedvars, sleepvars, taskvars, luavars, fresh, closed, chans, crefs,
                 reader, sends, waits, locals>>

-----------------------------------------------------------------------------
(* ltask.send: schedule_send *)

CallSend(w, c) ==
  /\ "send" \in Ops /\ sends < MaxSends
  /\ From(w, "lua")
  /\ c \in Channels \ fresh
  /\ sends' = sends + 1
  /\ IF c \in chans
     THEN /\ crefs' = [crefs EXCEPT ![c] = @ + 1]
          /\ ch' = [ch EXCEPT ![w] = c]
          /\ Goto(w, "send_push")
     ELSE Goto(w, "lua") /\ UNCHANGED <<crefs, ch>>
  /\ UNCHANGED <<schedvars, sleepvars, taskvars, luavars, fresh, closed, chans, mq, reader, waits,
                 cur, tok, sel, k>>

\* queue_push(c->mq, msg)
SendPush(w) ==
  /\ Go(w, "send_push", "send_pop")
  /\ mq' = [mq EXCEPT ![ch[w]] = @ + 1]
  /\ UNCHANGED <<schedvars, sleepvars, taskvars, luavars, fresh, closed, chans, crefs, reader,
                 sends, waits, locals>>

\* queue_pop(c->reader), until it is empty.
SendPop(w) ==
  /\ From(w, "send_pop")
  /\ IF reader[ch[w]] # <<>>
     THEN /\ tok' = [tok EXCEPT ![w] = Head(reader[ch[w]])]
          /\ reader' = [reader EXCEPT ![ch[w]] = Tail(@)]
          /\ Goto(w, "send_find")
     ELSE UNCHANGED <<tok, reader>> /\ Goto(w, "send_done")
  /\ UNCHANGED <<schedvars, sleepvars, taskvars, luavars, fresh, closed, chans, crefs, mq,
                 sends, waits, cur, ch, sel, k>>

SendFind(w) ==
  /\ From(w, "send_find")
  /\ IF tok[w] \in live
     THEN GrabTask(tok[w]) /\ UNCHANGED tok /\ Goto(w, "send_cas")
     ELSE UNCHANGED <<refs, live>> /\ tok' = [tok EXCEPT ![w] = 0] /\ Goto(w, "send_pop")
  /\ UNCHANGED <<schedvars, sleepvars, status, home, luavars, chanvars, cur, ch, sel, k>>

\* Mutant: every task found in the reader queue is made ready.
SendCasAny(w) ==
  /\ Go(w, "send_cas", "send_wake")
  /\ status' = [status EXCEPT ![tok[w]] = "READY"]
  /\ UNCHANGED <<schedvars, sleepvars, home, live, refs, luavars, chanvars, locals>>

\* if (t->status == TASK_BLOCKED) and the compare-and-swap of commit_task.
SendCas(w) ==
  /\ From(w, "send_cas")
  /\ IF status[tok[w]] = "BLOCKED"
     THEN status' = [status EXCEPT ![tok[w]] = "READY"] /\ Goto(w, "send_wake")
     ELSE UNCHANGED status /\ Goto(w, "send_drop")
  /\ UNCHANGED <<schedvars, sleepvars, home, live, refs, luavars, chanvars, locals>>

SendWake(w) ==
  /\ Go(w, "send_wake", "send_drop")
  /\ PushReady(tok[w])
  /\ UNCHANGED <<current, opened, sleepvars, taskvars, luavars, chanvars, locals>>

\* Mutant: only one reader is woken per message.
SendDropFirst(w) ==
  /\ Go(w, "send_drop", "send_done")
  /\ ReleaseTask(tok[w])
  /\ tok' = [tok EXCEPT ![w] = 0]
  /\ UNCHANGED <<schedvars, sleepvars, status, home, luavars, chanvars, cur, ch, sel, k>>

SendDrop(w) ==
  /\ Go(w, "send_drop", "send_pop")
  /\ ReleaseTask(tok[w])
  /\ tok' = [tok EXCEPT ![w] = 0]
  /\ UNCHANGED <<schedvars, sleepvars, status, home, luavars, chanvars, cur, ch, sel, k>>

SendDone(w) ==
  /\ Go(w, "send_done", "lua")
  /\ ReleaseChannel(ch[w])
  /\ ch' = [ch EXCEPT ![w] = 0]
  /\ UNCHANGED <<schedvars, sleepvars, taskvars, luavars, fresh, closed, mq, reader, sends, waits,
                 cur, tok, sel, k>>

-----------------------------------------------------------------------------
(* ltask.select: schedule_select *)

\* The task finds its handle in its registry, or fails ("select should call in
\* a task").
CallSelect(w, s) ==
  /\ "select" \in Ops
  /\ From(w, "lua")
  /\ \A i \in DOMAIN s : s[i] \notin fresh /\ Len(reader[s[i]]) < MaxReaders
  /\ IF cur[w] \notin registered
     THEN CloseLua(w)
     ELSE /\ sel' = [sel EXCEPT ![w] = s]
          /\ IF cur[w] \in live
             THEN GrabTask(cur[w]) /\ Goto(w, "sel_check")
             ELSE UNCHANGED <<refs, live>> /\ Goto(w, "release")
          /\ UNCHANGED <<schedvars, sleepvars, status, home, luavars, chanvars, cur, tok, ch, k>>

\* The first loop: return the first channel with a message.
SelCheck(w) ==
  /\ From(w, "sel_check")
  /\ CASE k[w] = Len(sel[w]) -> k' = [k EXCEPT ![w] = 0] /\ Goto(w, "sel_block")
       [] k[w] < Len(sel[w]) /\ sel[w][k[w] + 1] \in chans /\ mq[sel[w][k[w] + 1]] > 0 ->
            k' = [k EXCEPT ![w] = 0] /\ Goto(w, "sel_found")
       [] OTHER -> k' = [k EXCEPT ![w] = @ + 1] /\ Goto(w, "sel_check")
  /\ UNCHANGED <<schedvars, sleepvars, taskvars, luavars, chanvars, cur, tok, ch, sel>>

SelFound(w) ==
  /\ Go(w, "sel_found", "lua")
  /\ ReleaseTask(cur[w])
  /\ sel' = [sel EXCEPT ![w] = <<>>]
  /\ UNCHANGED <<schedvars, sleepvars, status, home, luavars, chanvars, cur, tok, ch, k>>

\* t->status = TASK_BLOCKED
SelBlock(w) ==
  /\ Go(w, "sel_block", "sel_join")
  /\ status' = [status EXCEPT ![cur[w]] = "BLOCKED"]
  /\ waits' = [waits EXCEPT ![cur[w]] = {sel[w][i] : i \in DOMAIN sel[w]}]
  /\ UNCHANGED <<schedvars, sleepvars, home, live, refs, luavars, fresh, closed, chans, crefs,
                 mq, reader, sends, locals>>

\* Mutant: the task joins the readers of the first channel only.
SelJoinOne(w) ==
  /\ From(w, "sel_join")
  /\ Goto(w, "sel_drop")
  /\ LET c == sel[w][1] IN
       reader' = IF c \in chans THEN [reader EXCEPT ![c] = Append(@, cur[w])] ELSE reader
  /\ UNCHANGED <<schedvars, sleepvars, taskvars, luavars, fresh, closed, chans, crefs, mq,
                 sends, waits, locals>>

\* The second loop: the task joins the readers of every open channel.
SelJoin(w) ==
  /\ From(w, "sel_join")
  /\ IF k[w] = Len(sel[w])
     THEN k' = [k EXCEPT ![w] = 0] /\ UNCHANGED reader /\ Goto(w, "sel_drop")
     ELSE LET c == sel[w][k[w] + 1] IN
          /\ k' = [k EXCEPT ![w] = @ + 1]
          /\ reader' = IF c \in chans THEN [reader EXCEPT ![c] = Append(@, cur[w])] ELSE reader
          /\ Goto(w, "sel_join")
  /\ UNCHANGED <<schedvars, sleepvars, taskvars, luavars, fresh, closed, chans, crefs, mq,
                 sends, waits, cur, tok, ch, sel>>

\* select returns nothing, and the script yields (consumer.lua, socket.lua).
SelDrop(w) ==
  /\ Go(w, "sel_drop", "release")
  /\ ReleaseTask(cur[w])
  /\ sel' = [sel EXCEPT ![w] = <<>>]
  /\ UNCHANGED <<schedvars, sleepvars, status, home, luavars, chanvars, cur, tok, ch, k>>

-----------------------------------------------------------------------------

Loop(w) ==
  \/ Top(w) \/ Pop(w) \/ Find(w) \/ Claim(w) \/ Claimed(w) \/ Resume(w)
  \/ CloseTask(w) \/ Release(w) \/ RelCheck(w) \/ RelPush(w) \/ RelDrop(w)
  \/ Notify(w) \/ Trigger(w) \/ Suspend(w) \/ Wait(w)

EndSlice(w) == Yield(w) \/ Finish(w)

Slice(w) ==
  \/ CallOpen(w) \/ OpenNew(w) \/ OpenPush(w) \/ OpenId(w) \/ OpenReg(w)
  \/ \E c \in Channels : Channel(w, c) \/ Close(w, c) \/ Recv(w, c) \/ CallSend(w, c)
  \/ SendPush(w) \/ SendPop(w) \/ SendFind(w) \/ SendCas(w) \/ SendWake(w)
  \/ SendDrop(w) \/ SendDone(w)
  \/ \E s \in Selects : CallSelect(w, s)
  \/ SelCheck(w) \/ SelFound(w) \/ SelBlock(w) \/ SelJoin(w) \/ SelDrop(w)

Step(w) == Loop(w) \/ EndSlice(w) \/ Slice(w)

Next == \E w \in Workers : Step(w)

Spec == Init /\ [][Next]_vars

\* The operating system runs every worker thread, and no script stays in one
\* slice for ever.
Fairness == \A w \in Workers : WF_vars(Step(w)) /\ SF_vars(EndSlice(w))

FairSpec == Spec /\ Fairness

-----------------------------------------------------------------------------
(* Correctness *)

Statuses == {"INIT", "READY", "RUNNING", "BLOCKED"}
PCs == SlicePCs \cup
  {"top", "pop", "find", "claim", "claimed", "resume", "close", "release", "rel_check",
   "rel_push", "rel_drop", "notify", "trigger", "idle", "wait"}

\* Every variable stays in its range; the handles that worker code works on are
\* handles of opened tasks.
TypeOK ==
  /\ runq \in [Workers -> Seq(1 .. opened)]
  /\ current \in Workers /\ opened \in 0 .. MaxTasks
  /\ suspend \in [Workers -> {0, 1}] /\ flag \in [Workers -> {0, 1}]
  /\ status \in [Tasks -> Statuses] /\ home \in [Tasks -> Workers]
  /\ live \subseteq 1 .. opened /\ refs \in [Tasks -> Nat]
  /\ ltid \in [Tasks -> 0 .. MaxTasks] /\ lua \in [Tasks -> {"open", "closed"}]
  /\ registered \subseteq 1 .. opened
  /\ fresh \subseteq Channels /\ closed \subseteq Channels /\ chans \subseteq Channels
  /\ crefs \in [Channels -> Nat] /\ mq \in [Channels -> Nat]
  /\ reader \in [Channels -> Seq(1 .. opened)]
  /\ at \in [Workers -> PCs]
  /\ cur \in [Workers -> 0 .. opened] /\ tok \in [Workers -> 0 .. opened]

\* The places where a task's handle stands for "run it": in a run queue, in the
\* hands of a worker about to run it, or about to be queued.
Tokens(t) ==
  (UNION {{<<w, i>> : i \in {j \in DOMAIN runq[w] : runq[w][j] = t}} : w \in Workers})
  \cup {<<w, 0>> : w \in {v \in Workers : tok[v] = t /\
          at[v] \in {"find", "claim", "open_push", "rel_push", "send_wake"}}}

\* A task in the map is queued exactly once when it is READY, and otherwise not
\* at all: never lost, and never run by two workers.  A worker is behind every
\* running task: one whose slice ended is READY, BLOCKED or closed ("return a
\* task to schedule", schedule.h:18).
PlacedOnce ==
  /\ \A t \in live : Cardinality(Tokens(t)) = IF status[t] = "READY" THEN 1 ELSE 0
  /\ \A t \in live : status[t] = "RUNNING" =>
       \E w \in Workers : (cur[w] = t \/ tok[w] = t) /\ at[w] \notin {"pop", "idle", "wait", "top"}

\* When every worker sleeps and none has been triggered, no task is queued: the
\* suspend flag and the event together lose no wake-up.
AllAsleep == \A w \in Workers : at[w] = "wait" /\ flag[w] = 0
NoStrandedTask == AllAsleep => \A w \in Workers : runq[w] = <<>>

\* The references to a task are its own, until its slice closed it, and one per
\* worker whose C code is between a grab and its release.
TaskHolders(t) ==
  {w \in Workers :
     \/ tok[w] = t /\ at[w] \in {"claim", "claimed", "rel_check", "rel_push", "rel_drop",
                                 "send_cas", "send_wake", "send_drop"}
     \/ cur[w] = t /\ at[w] \in {"sel_check", "sel_found", "sel_block", "sel_join", "sel_drop"}}
Unclosed(t) == lua[t] = "open" \/ \E w \in Workers : at[w] = "close" /\ cur[w] = t
ChannelHolders(c) ==
  {w \in Workers : ch[w] = c /\ at[w] \in {"send_push", "send_pop", "send_find", "send_cas",
                                           "send_wake", "send_drop", "send_done"}}

RefsExact ==
  /\ \A t \in 1 .. opened :
       refs[t] = (IF Unclosed(t) THEN 1 ELSE 0) + Cardinality(TaskHolders(t))
  /\ \A c \in Channels \ fresh :
       crefs[c] = (IF c \notin closed THEN 1 ELSE 0) + Cardinality(ChannelHolders(c))
  /\ \A t \in 1 .. opened : t \in live <=> refs[t] > 0
  /\ \A c \in Channels \ fresh : c \in chans <=> crefs[c] > 0

\* What survives a wake-up that overtakes a yield: someone will find every task.
\* A ready one is never forgotten, though it may then be queued twice; each open
\* channel a blocked one waits for lists it as a reader, or a sender has just
\* taken it from there.
Findable ==
  /\ \A t \in live : status[t] = "READY" => Tokens(t) # {}
  /\ \A t \in live :
       (status[t] = "BLOCKED" /\ \A w \in Workers : cur[w] = t => at[w] # "sel_join") =>
         \A c \in waits[t] \cap chans :
           \/ \E i \in DOMAIN reader[c] : reader[c][i] = t
           \/ \E w \in Workers : tok[w] = t /\ at[w] \in {"send_find", "send_cas"}

\* No task sleeps on a channel that holds a message once every worker sleeps:
\* a send wakes the blocked tasks (comment at schedule.c:219).
NoLostWakeup ==
  AllAsleep =>
    \A t \in live : status[t] = "BLOCKED" => \A c \in waits[t] \cap chans : mq[c] = 0

\* The process neither fails an assertion nor reaches undefined behaviour.
NoFault == fault = "none"

\* assert(t->status != TASK_READY) at schedule.c:130 never fails.
ReleaseAssertion == fault # "assert_release"

\* Every ready task is run, or is found closed.
ReadyRuns ==
  \A t \in Tasks : (t \in live /\ status[t] = "READY") ~> (status[t] = "RUNNING" \/ t \notin live)

=============================================================================
